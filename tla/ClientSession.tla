--------------------------- MODULE ClientSession ---------------------------
(***************************************************************************)
(* A client of the C interface (s2_client.cpp, parallel_read.cpp): it      *)
(* connects, starts a parallel read, asks for its queue, frees the queue   *)
(* and the read, and executes statements in between; or it loads data      *)
(* (LoadData).  What is modelled is the state that the calls share: the    *)
(* error of the client, what the callback was told, the tables that the    *)
(* read leaves on the server, and the order in which a read is promised.   *)
(* The queues themselves are the subject of StreamingRead and              *)
(* MultiPassQueue.                                                         *)
(*                                                                         *)
(* A statement fails when the server refuses it, when memory is short or   *)
(* when the connection is lost; in the last case the server may have       *)
(* executed it all the same.                                               *)
(***************************************************************************)
EXTENDS LoadData, Partitions, FiniteSets

CONSTANTS
    Workers,        \* the values of numWorkers and workerId
    MaxPartitions,  \* bound: partitions of the database
    Requests,       \* the arguments of ParallelReadInit, and the table they are about
    Rows,           \* some rows, to say what an order and a placement mean
    MaxCalls,       \* bound: calls of the interface
    MaxFailures     \* bound: statements that fail

ReadTypes == {"Unknown", "ResultTable", "ColumnStoreTable", "OriginalTable"}

\* A request has a key that is a column of the rows and different in each of them,
\* and the values of the columns to order by are numbers; the type Original is
\* asked for only with a source table.
ASSUME SessionAssumption ==
    /\ Workers \subseteq [numWorkers : Nat, workerId : Nat]
    /\ MaxPartitions \in Nat \ {0}
    /\ \A q \in Requests :
        /\ q.readType \in ReadTypes
        /\ q.readType = "OriginalTable" => q.sourceTable
        /\ q.orderBy \in Seq(STRING) /\ q.sort_key \in Seq(STRING)
        /\ \A r \in Rows : \A c \in Range(q.orderBy) : r[c] \in Int
    /\ \A r, s \in Rows : r["key"] \in Int /\ (r["key"] = s["key"] => r = s)
    /\ MaxCalls \in Nat /\ MaxFailures \in Nat

VARIABLES
    client,           \* <<>>, or the worker that the client was made for
    m_numPartitions,
    request,          \* the arguments of the read, in a sequence; empty without a read
    tables,           \* the tables of the name resultTableName
    readType,         \* the type that ParallelReadInit returned
    queue,            \* the open queue, in a sequence
    errno,            \* S2Errno
    cb,               \* the code of the last ERROR told to the callback in the last call
    ret,              \* the last call and whether it failed
    calls, failures

svars == <<client, m_numPartitions, request, tables, readType, queue, errno, cb, ret, calls,
           failures>>

InvArg == 1             \* S2C_ERROR_INV_ARG
NoMemory == 4           \* S2C_ERROR_MEMORY_ALLOCATION
ServerError == 2000     \* a mysql_errno

\* Bound: a load is the first call of this worker, in a database of one partition.
LoadWorker == CHOOSE worker \in Workers : worker.numWorkers > 0

SInit ==
    /\ LInit
    /\ client = <<>>
    /\ m_numPartitions = 0
    /\ request = <<>>
    /\ tables = {}
    /\ readType = "Unknown"
    /\ queue = <<>>
    /\ errno = 0
    /\ cb = 0
    /\ ret = [op |-> "none", failed |-> FALSE]
    /\ calls = 0
    /\ failures = 0

called(op, failed) ==
    /\ calls' = calls + 1
    /\ ret' = [op |-> op, failed |-> failed]
    /\ UNCHANGED lvars

\* A statement, a connection or an allocation fails.
fail == failures < MaxFailures /\ failures' = failures + 1

\* The callback may be null; the calls that report here have cleared the error first.
SetError(code, isTold) == errno' = code /\ cb' = IF isTold THEN code ELSE 0

\* Reported by the callback alone.
setErrorOnly(code) == cb' = code /\ UNCHANGED errno

succeed == SetError(0, FALSE) /\ UNCHANGED failures

-----------------------------------------------------------------------------
(* The client.                                                             *)

\* The roles in the answer to SHOW PARTITIONS, with and without replicas.
ShowPartitions ==
    {[k \in 1 .. n * copies |-> IF k <= n THEN "Master" ELSE "Slave"] :
        n \in 1 .. MaxPartitions, copies \in 1 .. 2}

GetPartitionsNumber(roles) == Cardinality({k \in DOMAIN roles : roles[k] = "Master"})

\* information_schema counts as one partition, and is not asked.
S2ClientInit(worker) ==
    /\ client = <<>>
    /\ calls < MaxCalls
    /\ calls' = calls + 1
    /\ \/ /\ client' = <<worker>>
          /\ \E roles \in ShowPartitions : m_numPartitions' = GetPartitionsNumber(roles)
          /\ ret' = [op |-> "S2ClientInit", failed |-> FALSE]
          /\ succeed
       \/ /\ fail
          /\ setErrorOnly(ServerError)
          /\ ret' = [op |-> "S2ClientInit", failed |-> TRUE]
          /\ UNCHANGED <<client, m_numPartitions>>
    /\ UNCHANGED <<request, tables, readType, queue, lvars>>

\* Queues and tables outlive their client.
S2ClientFree ==
    /\ called("S2ClientFree", FALSE)
    /\ client' = <<>>
    /\ m_numPartitions' = 0
    /\ succeed
    /\ UNCHANGED <<request, tables, readType, queue>>

ExecuteDDLQuery ==
    /\ \/ called("ExecuteDDLQuery", FALSE) /\ succeed
       \/ called("ExecuteDDLQuery", TRUE) /\ fail /\ SetError(ServerError, TRUE)
    /\ UNCHANGED <<client, m_numPartitions, request, tables, readType, queue>>

\* The only call that neither clears the error nor sets it.
GetTableRowSchema ==
    /\ \/ called("GetTableRowSchema", FALSE) /\ cb' = 0 /\ UNCHANGED <<errno, failures>>
       \/ called("GetTableRowSchema", TRUE) /\ fail /\ setErrorOnly(ServerError)
    /\ UNCHANGED <<client, m_numPartitions, request, tables, readType, queue>>

-----------------------------------------------------------------------------
(* The start of a parallel read.                                           *)

\* Mutant: the columns to partition by are to be a subset of the shard key.
shardKeyMatchesReversed(q) ==
    q.partitionBy # {} => q.shard_key # {} /\ q.partitionBy \subseteq q.shard_key

shardKeyMatches(q) ==
    q.partitionBy # {} => q.shard_key # {} /\ q.shard_key \subseteq q.partitionBy

\* Mutant: only the columns that both have are compared.
sortKeyMatchesCommon(q) ==
    \A i \in DOMAIN q.orderBy \cap DOMAIN q.sort_key : q.orderBy[i] = q.sort_key[i]

sortKeyMatches(q) ==
    /\ Len(q.orderBy) <= Len(q.sort_key)
    /\ \A i \in DOMAIN q.orderBy : q.orderBy[i] = q.sort_key[i]

\* The operations after the line of the result table; what comes before are warnings.
CheckExplainOperations(plan) ==
    \A i, j \in DOMAIN plan : i < j /\ plan[i] = "ResultTable" =>
        plan[j] \in {"ColumnStoreScan", "OrderedColumnStoreScan", "ColumnStoreFilter"}

GetParallelReadType(q) ==
    LET suits == q.sourceTable /\ shardKeyMatches(q) /\ sortKeyMatches(q)
                 /\ CheckExplainOperations(q.plan)
    IN  CASE q.readType # "Unknown" -> q.readType
          [] q.readType = "Unknown" /\ suits -> "OriginalTable"
          [] OTHER -> IF q.materialized THEN "ColumnStoreTable" ELSE "ResultTable"

\* The key column makes the order total.
BuildSortKey(q) ==
    IF "key" \in Range(q.orderBy) THEN q.orderBy ELSE Append(q.orderBy, "key")

\* How CREATE TABLE and CREATE [MATERIALIZED] RESULT TABLE lay the rows out.
PartitionBy(q, type) ==
    [type |-> type, shard |-> q.partitionBy,
     sort |-> IF type = "ColumnStoreTable" THEN BuildSortKey(q) ELSE q.orderBy]

MakeCreateTableQuery(q, type) == tables \cup {PartitionBy(q, type)}

\* ParallelReadInit has no callback.
initThrows(code) == SetError(code, FALSE)

\* The error for a materialized result table does not keep CREATE from being
\* executed; what is thrown later replaces it.  The type is returned as far as
\* it is known: it is Unknown if the keys or the plan could not be read.
ParallelReadInit(q) ==
    LET type     == GetParallelReadType(q)
        refused  == IF type = "ResultTable" /\ q.materialized THEN InvArg ELSE 0
        op       == "ParallelReadInit"
        executed == tables' = MakeCreateTableQuery(q, type)
    IN  /\ request = <<>>
        /\ request' = <<q>>
        /\ \/ /\ q.readType = "Unknown" /\ q.sourceTable
              /\ called(op, TRUE) /\ fail
              /\ \E code \in {ServerError, NoMemory} : initThrows(code)
              /\ readType' = "Unknown"
              /\ UNCHANGED tables
           \/ /\ type = "OriginalTable"
              /\ called(op, FALSE) /\ succeed
              /\ readType' = type
              /\ UNCHANGED tables
           \/ /\ type # "OriginalTable"
              /\ called(op, refused # 0) /\ SetError(refused, FALSE)
              /\ readType' = type
              /\ executed
              /\ UNCHANGED failures
           \/ /\ type # "OriginalTable"
              /\ called(op, TRUE) /\ fail
              /\ \/ \E code \in {ServerError, NoMemory} : initThrows(code) /\ UNCHANGED tables
                 \/ initThrows(ServerError) /\ executed
              /\ readType' = type
        /\ UNCHANGED <<client, m_numPartitions, queue>>

\* Mutant: every table is dropped by DROP TABLE IF EXISTS.
dropsOnlyTables(type) == {t \in tables : t.type = "ColumnStoreTable"}

\* DROP RESULT TABLE and DROP TABLE IF EXISTS.
drops(type) == {t \in tables : t.type = type}

\* Only DROP RESULT TABLE fails when there is no table.  The caller of a call that
\* failed knows the name and the type, and may try again.
ParallelReadFree ==
    LET op      == "ParallelReadFree"
        dropped == tables' = tables \ drops(readType)
    IN  /\ request # <<>>
        /\ \/ /\ \/ readType \notin {"ResultTable", "ColumnStoreTable"}
                 \/ readType = "ColumnStoreTable"
                 \/ tables # {}
              /\ called(op, FALSE) /\ succeed
              /\ dropped
              /\ request' = <<>> /\ readType' = "Unknown"
           \/ /\ readType = "ResultTable" /\ tables = {}
              /\ called(op, TRUE) /\ SetError(ServerError, TRUE)
              /\ UNCHANGED <<tables, request, readType, failures>>
           \/ /\ readType \in {"ResultTable", "ColumnStoreTable"}
              /\ called(op, TRUE) /\ fail
              /\ \/ \E code \in {ServerError, NoMemory} : SetError(code, TRUE) /\ UNCHANGED tables
                 \/ SetError(ServerError, TRUE) /\ dropped
              /\ UNCHANGED <<request, readType>>
        /\ UNCHANGED <<client, m_numPartitions, queue>>

-----------------------------------------------------------------------------
(* Queues.                                                                 *)

\* The orders in which the statements of the readers return the rows of a partition:
\* a result table as it is stored, the others by ORDER BY.
MakeReadResultTableQuery(made) == made.sort

MakeReadColumnStoreTableQuery(q) == BuildSortKey(q)

MakeReadOriginalTableQuery(q, columnstoreFullSortKey) ==
    IF columnstoreFullSortKey # <<>> THEN columnstoreFullSortKey ELSE q.orderBy

\* What the readers will read.  Only a multi-pass queue looks up the sort key.
readBy(q, isMultiPass) ==
    LET made == IF tables = {} THEN [shard |-> {}, sort |-> <<>>] ELSE CHOOSE t \in tables : TRUE
    IN  [request |-> q, type |-> readType, isMultiPass |-> isMultiPass,
         exists  |-> readType = "OriginalTable" \/ tables # {},
         shard   |-> IF readType = "OriginalTable" THEN q.shard_key ELSE made.shard,
         order   |-> CASE readType = "ResultTable" -> MakeReadResultTableQuery(made)
                       [] readType = "ColumnStoreTable" -> MakeReadColumnStoreTableQuery(q)
                       [] OTHER -> MakeReadOriginalTableQuery(q,
                                       IF isMultiPass THEN q.sort_key ELSE <<>>)]

m_partitions ==
    WorkerPartitions(client[1].numWorkers, client[1].workerId, m_numPartitions)

\* Mutant: the refusal of a columnstore table is not told to the callback.
refuseSilently == SetError(InvArg, FALSE)

refuse == SetError(InvArg, TRUE)

\* CreateChunkQueue of either class.  A worker without partitions gets as far as
\* the end of the loop over them; a failure to connect a reader is told to the
\* callback only, and an unknown type to nobody.
ParallelReadGetQueue(isMultiPass) ==
    LET op == "ParallelReadGetQueue"
        hasPartitions == client[1].numWorkers > 0 /\ m_partitions # <<>>
        wrongType == hasPartitions /\ readType = "ColumnStoreTable" /\ ~isMultiPass
        unknown   == hasPartitions /\ readType = "Unknown"
    IN  /\ request # <<>> /\ queue = <<>>
        /\ \/ /\ client[1].numWorkers = 0
              /\ called(op, TRUE) /\ SetError(InvArg, TRUE) /\ UNCHANGED <<queue, failures>>
           \/ /\ client[1].numWorkers > 0
              /\ called(op, TRUE) /\ fail /\ UNCHANGED queue
              /\ \E code \in {ServerError, NoMemory} : SetError(code, TRUE)
           \/ wrongType /\ called(op, TRUE) /\ refuse /\ UNCHANGED <<queue, failures>>
           \/ unknown /\ called(op, TRUE) /\ succeed /\ UNCHANGED queue
           \/ /\ hasPartitions /\ ~wrongType /\ ~unknown
              /\ called(op, TRUE) /\ fail /\ errno' = 0 /\ cb' = BadConnection
              /\ UNCHANGED queue
           \/ /\ client[1].numWorkers > 0 /\ ~wrongType /\ ~unknown
              /\ called(op, FALSE) /\ succeed
              /\ queue' = <<readBy(request[1], isMultiPass)>>
        /\ UNCHANGED <<client, m_numPartitions, request, tables, readType>>

\* The connection, the statement and the first row are all made in the call.  A
\* statement without a result is executed, but is no error of the server: what the
\* missing metadata throw has the code 0, and that is set and told (by the prepared
\* protocol; what the text protocol does then is in RowStream).
QueryGetQueue(queueCapacity, hasResult) ==
    LET op == IF hasResult THEN "QueryGetQueue" ELSE "QueryGetQueueWithoutResult"
    IN  /\ queue = <<>>
        /\ \/ /\ queueCapacity < 1
              /\ called(op, TRUE) /\ SetError(InvArg, TRUE) /\ UNCHANGED <<queue, failures>>
           \/ /\ queueCapacity >= 1
              /\ called(op, TRUE) /\ fail /\ UNCHANGED queue
              /\ \E code \in {ServerError, NoMemory} : SetError(code, TRUE)
           \/ /\ queueCapacity >= 1 /\ ~hasResult
              /\ called(op, TRUE) /\ SetError(0, TRUE) /\ UNCHANGED <<queue, failures>>
           \/ /\ queueCapacity >= 1 /\ hasResult
              /\ called(op, FALSE) /\ succeed
              /\ queue' = <<[type |-> "Query", exists |-> FALSE]>>
        /\ UNCHANGED <<client, m_numPartitions, request, tables, readType>>

ChunkQueueFree ==
    /\ queue # <<>>
    /\ called("ChunkQueueFree", FALSE)
    /\ queue' = <<>>
    /\ cb' = 0
    /\ UNCHANGED <<client, m_numPartitions, request, tables, readType, errno, failures>>

-----------------------------------------------------------------------------
(* Loads.                                                                  *)

\* LoadDataWrite and LoadDataAvro tell the callback of their failures, and leave
\* the error of the client as it was.
LoadDataStep ==
    /\ client = <<LoadWorker>> /\ m_numPartitions = 1
    /\ calls = 1 /\ failures = 0
    /\ LNext
    /\ IF phase' = "failed" /\ loadErr' \in {BadConnection, BadChunk, LoadFailed}
       THEN setErrorOnly(loadErr') /\ ret' = [op |-> "LoadData", failed |-> TRUE]
       ELSE UNCHANGED <<errno, cb, ret>>
    /\ UNCHANGED <<client, m_numPartitions, request, tables, readType, queue, calls, failures>>

\* A call of an open client that has not begun to load.
Call ==
    \/ S2ClientFree
    \/ ExecuteDDLQuery
    \/ GetTableRowSchema
    \/ \E q \in Requests : ParallelReadInit(q)
    \/ ParallelReadFree
    \/ \E isMultiPass \in BOOLEAN : ParallelReadGetQueue(isMultiPass)
    \/ \E queueCapacity \in 0 .. 1, hasResult \in BOOLEAN :
          QueryGetQueue(queueCapacity, hasResult)
    \/ ChunkQueueFree

SNext ==
    \/ \E worker \in Workers : S2ClientInit(worker)
    \/ client # <<>> /\ phase = "idle" /\ calls < MaxCalls /\ Call
    \/ LoadDataStep

SSpec == SInit /\ [][SNext]_<<svars, lvars>>

-----------------------------------------------------------------------------
(* Properties.                                                             *)

\* A table that a read has made is known to its caller by the type that
\* ParallelReadInit returned, and a ParallelReadFree that reports no error has
\* dropped it, even if CREATE or DROP was executed and its answer was lost.  When
\* ParallelReadInit sets no error the read can go on: there is a table of the type.
NoTableForgotten ==
    /\ \A t \in tables : t.type = readType
    /\ request = <<>> => tables = {}
    /\ ret.op = "ParallelReadInit" /\ errno = 0 =>
          readType = "OriginalTable" \/ \E t \in tables : t.type = readType

\* The calls that neither set S2Errno nor clear it.
leavesErrno == {"S2ClientInit", "GetTableRowSchema", "ChunkQueueFree", "LoadData"}

\* What a caller can tell of a failure.  The calls that leave S2Errno alone tell the
\* callback.  The others set S2Errno exactly if they fail, and all but
\* ParallelReadInit, which has no callback, tell it the same code; they fail with
\* S2Errno 0 in three cases only: a reader that cannot connect, which the callback
\* is told; a read of unknown type; and the queue of a statement without a result.
FailureReported ==
    IF ret.op \in leavesErrno THEN ret.failed => cb # 0
    ELSE /\ errno # 0 => ret.failed
         /\ ret.failed /\ errno # 0 /\ ret.op # "ParallelReadInit" => cb = errno
         /\ ret.failed /\ errno = 0 =>
               \/ ret.op = "ParallelReadGetQueue" /\ (cb = BadConnection \/ readType = "Unknown")
               \/ ret.op = "QueryGetQueueWithoutResult"

\* "S2Errno() returns the error code for the most recently invoked API function.
\* A return value of zero means that no error occurred" (s2_client_extern.h:249-250).
ErrnoOfLastCall == client # <<>> => (ret.failed <=> errno # 0)

\* Rows that agree in the columns.
agree(r, s, cols) == \A c \in cols : r[c] = s[c]

\* The ways in which the server may put rows into two partitions: by the shard
\* key, or anyhow if there is none.
placements(shard) ==
    {p \in [Rows -> {0, 1}] :
        shard # {} => \A r, s \in Rows : agree(r, s, shard) => p[r] = p[s]}

\* Every sequence of rows that is sorted by the columns has r before s.
before(r, s, order) ==
    \E i \in DOMAIN order :
        r[order[i]] < s[order[i]] /\ \A j \in 1 .. (i - 1) : r[order[j]] = s[order[j]]

\* A queue of a read whose type was not asked for by name.
chosen == queue # <<>> /\ queue[1].exists /\ queue[1].request.readType = "Unknown"

\* Rows that agree in the columns to partition by are in one partition, whichever
\* table the read was led to and however the server places its rows.
GroupsTogether ==
    chosen => \A p \in placements(queue[1].shard) : \A r, s \in Rows :
        queue[1].request.partitionBy # {} /\ agree(r, s, queue[1].request.partitionBy)
            => p[r] = p[s]

\* The rows of a partition arrive in the order asked for, in a single pass and in
\* several, whichever table they are read from; the order of a columnstore table is
\* total, so that all its passes see the same chunks.
OrderDelivered ==
    /\ chosen => \A r, s \in Rows :
        before(r, s, queue[1].request.orderBy) => before(r, s, queue[1].order)
    /\ queue # <<>> /\ queue[1].exists /\ queue[1].type = "ColumnStoreTable" =>
        \A r, s \in Rows : r # s => before(r, s, queue[1].order) \/ before(s, r, queue[1].order)
=============================================================================
