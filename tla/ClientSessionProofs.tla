------------------------ MODULE ClientSessionProofs -------------------------
(***************************************************************************)
(* Proofs about ClientSession for any requests, workers, numbers of        *)
(* partitions, rows, calls and failures: no table of a read is forgotten,  *)
(* no failure is kept from the caller, and a queue has the rows of a group *)
(* in one partition and in the order asked for, whichever table they are   *)
(* read from.  Then about the data: the conversions of dates and times     *)
(* lose nothing, the two ways to a schema agree, and a table that is       *)
(* written into a chunk and loaded again, as text or as Avro, comes back   *)
(* up to what the format does not tell apart from NULL.                    *)
(***************************************************************************)
EXTENDS ClientSession, SequenceTheorems, WellFoundedInduction, TLAPS

cvars == <<svars, lvars>>

-----------------------------------------------------------------------------
(* The inductive invariant.                                                *)

\* The read is one of the requests.
Asked == request = <<>> \/ \E q \in Requests : request = <<q>>

\* A table is the one that the request makes for the type that the caller knows.
Made ==
    \A t \in tables :
        /\ request # <<>>
        /\ readType \in {"ResultTable", "ColumnStoreTable"}
        /\ t = PartitionBy(request[1], readType)

\* The source table is read as it is only if its keys suit the request.
Suits ==
    request # <<>> /\ request[1].readType = "Unknown" /\ readType = "OriginalTable" =>
        shardKeyMatches(request[1]) /\ sortKeyMatches(request[1])

\* A ParallelReadInit that sets no error leaves a read that can go on.
Ready ==
    ret.op = "ParallelReadInit" /\ errno = 0 =>
        readType = "OriginalTable" \/ \E t \in tables : t.type = readType

\* An order by the columns of another one and then by more.
continues(order, orderBy) ==
    \A i \in DOMAIN orderBy : i \in DOMAIN order /\ order[i] = orderBy[i]

\* What a queue promises: q is the request, the shard key of its table has no
\* other columns than those to partition by, and its order continues the order
\* asked for.
Promised(k) ==
    k.exists = TRUE =>
        /\ k.request \in Requests
        /\ k.type = "ColumnStoreTable" => k.order = BuildSortKey(k.request)
        /\ k.request.readType = "Unknown" =>
              /\ k.request.partitionBy # {} =>
                    k.shard # {} /\ k.shard \subseteq k.request.partitionBy
              /\ continues(k.order, k.request.orderBy)

Queued == queue # <<>> => Promised(queue[1])

IInv ==
    /\ Asked
    /\ Made
    /\ Suits
    /\ Ready
    /\ Queued
    /\ FailureReported

-----------------------------------------------------------------------------
(* The calls that leave the read and the queue alone.                      *)

\* The calls start with no read and no queue.
LEMMA InitIInv == SInit => IInv
<1> SUFFICES ASSUME SInit PROVE IInv
  OBVIOUS
<1>1. Asked /\ Made /\ Suits /\ Queued
  BY DEF SInit, Asked, Made, Suits, Queued
<1>2. ret = [op |-> "none", failed |-> FALSE]
  BY DEF SInit
<1>3. ret.op = "none" /\ ret.failed = FALSE
  BY <1>2, Zenon
<1>4. Ready
  BY <1>3 DEF Ready
<1>5. FailureReported
  <2>1. ~ret.failed /\ ~(errno # 0)
    BY <1>3 DEF SInit
  <2> QED BY <2>1, Zenon DEF FailureReported
<1> QED BY <1>1, <1>4, <1>5 DEF IInv

\* The answer of a call that succeeded, and of one that failed: its name and whether
\* it failed.
LEMMA Answer ==
    ASSUME NEW op
    PROVE  /\ called(op, FALSE) => ret'.op = op /\ ret'.failed = FALSE
           /\ called(op, TRUE) => ret'.op = op /\ ret'.failed = TRUE
<1>1. ASSUME called(op, FALSE) PROVE ret'.op = op /\ ret'.failed = FALSE
  <2>1. ret' = [op |-> op, failed |-> FALSE]
    BY <1>1 DEF called
  <2> QED BY <2>1, Zenon
<1>2. ASSUME called(op, TRUE) PROVE ret'.op = op /\ ret'.failed = TRUE
  <2>1. ret' = [op |-> op, failed |-> TRUE]
    BY <1>2 DEF called
  <2> QED BY <2>1, Zenon
<1> QED BY <1>1, <1>2

\* The three usual answers: that of a call that leaves S2Errno alone, a success
\* with S2Errno 0, and a failure with a code that the callback is told as well.
LEMMA Reported ==
    ASSUME \/ ret'.op \in leavesErrno /\ (ret'.failed = FALSE \/ cb' # 0)
           \/ ret'.failed = FALSE /\ errno' = 0
           \/ ret'.failed = TRUE /\ errno' # 0 /\ (cb' = errno' \/ ret'.op = "ParallelReadInit")
    PROVE  FailureReported'
<1>1. CASE ret'.op \in leavesErrno /\ (ret'.failed = FALSE \/ cb' # 0)
  <2>1. ret'.failed => cb' # 0
    BY <1>1, Zenon
  <2> QED BY <1>1, <2>1, Zenon DEF FailureReported
<1>2. CASE ret'.failed = FALSE /\ errno' = 0
  <2>1. ~ret'.failed /\ ~(errno' # 0)
    BY <1>2, Zenon
  <2> QED BY <2>1, Zenon DEF FailureReported
<1>3. CASE ret'.failed = TRUE /\ errno' # 0 /\ (cb' = errno' \/ ret'.op = "ParallelReadInit")
  <2>1. ret'.failed /\ ~(errno' = 0)
    BY <1>3, Zenon
  <2>2. ret'.op \in leavesErrno => cb' # 0
    BY <1>3 DEF leavesErrno
  <2>3. ret'.op # "ParallelReadInit" => cb' = errno'
    BY <1>3
  <2> QED BY <2>1, <2>2, <2>3, Zenon DEF FailureReported
<1> QED BY <1>1, <1>2, <1>3

\* A call that leaves the read and the queue alone.
LEMMA ReadUntouched ==
    ASSUME IInv, UNCHANGED <<request, tables, readType, queue>>,
           ret'.op # "ParallelReadInit", FailureReported'
    PROVE  IInv'
<1>1. Asked' /\ Made' /\ Suits' /\ Queued'
  BY DEF IInv, Asked, Made, Suits, Queued
<1>2. Ready'
  BY DEF Ready
<1> QED BY <1>1, <1>2 DEF IInv

\* A step that does none of that.
LEMMA SessionUntouched ==
    ASSUME IInv, UNCHANGED <<request, tables, readType, queue, ret, errno, cb>>
    PROVE  IInv'
<1>1. Asked' /\ Made' /\ Suits' /\ Ready' /\ Queued'
  BY DEF IInv, Asked, Made, Suits, Ready, Queued
<1>2. FailureReported'
  BY Zenon DEF IInv, FailureReported
<1> QED BY <1>1, <1>2 DEF IInv

\* S2ClientInit: a failure is told to the callback.
LEMMA ClientInitStep ==
    ASSUME IInv, NEW worker \in Workers, S2ClientInit(worker)
    PROVE  IInv'
<1>1. UNCHANGED <<request, tables, readType, queue>>
  BY DEF S2ClientInit
<1>2. CASE ret' = [op |-> "S2ClientInit", failed |-> FALSE]
  <2>1. ret'.op = "S2ClientInit" /\ ret'.failed = FALSE
    BY <1>2, Zenon
  <2>2. FailureReported'
    BY <2>1, Reported DEF leavesErrno
  <2> QED BY <1>1, <2>1, <2>2, ReadUntouched
<1>3. CASE setErrorOnly(ServerError) /\ ret' = [op |-> "S2ClientInit", failed |-> TRUE]
  <2>1. ret'.op = "S2ClientInit"
    BY <1>3, Zenon
  <2>2. cb' # 0
    BY <1>3 DEF setErrorOnly, ServerError
  <2>3. FailureReported'
    BY <2>1, <2>2, Reported DEF leavesErrno
  <2> QED BY <1>1, <2>1, <2>3, ReadUntouched
<1> QED BY <1>2, <1>3 DEF S2ClientInit

\* S2ClientFree does not fail.
LEMMA ClientFreeStep ==
    ASSUME IInv, S2ClientFree
    PROVE  IInv'
<1>1. UNCHANGED <<request, tables, readType, queue>> /\ called("S2ClientFree", FALSE) /\ errno' = 0
  BY DEF S2ClientFree, succeed, SetError
<1>2. ret'.op = "S2ClientFree" /\ ret'.failed = FALSE
  BY <1>1, Answer
<1>3. FailureReported'
  BY <1>1, <1>2, Reported
<1> QED BY <1>1, <1>2, <1>3, ReadUntouched

\* ExecuteDDLQuery sets S2Errno and tells the callback that the statement failed.
LEMMA ExecuteStep ==
    ASSUME IInv, ExecuteDDLQuery
    PROVE  IInv'
<1>1. UNCHANGED <<request, tables, readType, queue>>
  BY DEF ExecuteDDLQuery
<1>2. CASE called("ExecuteDDLQuery", FALSE) /\ succeed
  <2>1. ret'.op = "ExecuteDDLQuery" /\ ret'.failed = FALSE
    BY <1>2, Answer
  <2>2. errno' = 0
    BY <1>2 DEF succeed, SetError
  <2>3. FailureReported'
    BY <2>1, <2>2, Reported
  <2> QED BY <1>1, <2>1, <2>3, ReadUntouched
<1>3. CASE called("ExecuteDDLQuery", TRUE) /\ SetError(ServerError, TRUE)
  <2>1. ret'.op = "ExecuteDDLQuery" /\ ret'.failed = TRUE
    BY <1>3, Answer
  <2>2. errno' # 0 /\ cb' = errno'
    BY <1>3 DEF SetError, ServerError
  <2>3. FailureReported'
    BY <2>1, <2>2, Reported
  <2> QED BY <1>1, <2>1, <2>3, ReadUntouched
<1> QED BY <1>2, <1>3 DEF ExecuteDDLQuery

\* GetTableRowSchema tells the callback only.
LEMMA SchemaStep ==
    ASSUME IInv, GetTableRowSchema
    PROVE  IInv'
<1>1. UNCHANGED <<request, tables, readType, queue>>
  BY DEF GetTableRowSchema
<1>2. CASE called("GetTableRowSchema", FALSE)
  <2>1. ret'.op = "GetTableRowSchema" /\ ret'.failed = FALSE
    BY <1>2, Answer
  <2>2. FailureReported'
    BY <2>1, Reported DEF leavesErrno
  <2> QED BY <1>1, <2>1, <2>2, ReadUntouched
<1>3. CASE called("GetTableRowSchema", TRUE) /\ setErrorOnly(ServerError)
  <2>1. ret'.op = "GetTableRowSchema"
    BY <1>3, Answer
  <2>2. cb' # 0
    BY <1>3 DEF setErrorOnly, ServerError
  <2>3. FailureReported'
    BY <2>1, <2>2, Reported DEF leavesErrno
  <2> QED BY <1>1, <2>1, <2>3, ReadUntouched
<1> QED BY <1>2, <1>3 DEF GetTableRowSchema

\* A load leaves the error of the client alone, and tells the callback of its own.
LEMMA LoadStep ==
    ASSUME IInv, LoadDataStep
    PROVE  IInv'
<1>1. UNCHANGED <<request, tables, readType, queue>>
  BY DEF LoadDataStep
<1>2. CASE phase' = "failed" /\ loadErr' \in {BadConnection, BadChunk, LoadFailed}
  <2>1. cb' = loadErr' /\ ret' = [op |-> "LoadData", failed |-> TRUE]
    BY <1>2 DEF LoadDataStep, setErrorOnly
  <2>2. cb' # 0
    BY <1>2, <2>1 DEF BadConnection, BadChunk, LoadFailed
  <2>3. ret'.op = "LoadData"
    BY <2>1, Zenon
  <2>4. FailureReported'
    BY <2>2, <2>3, Reported DEF leavesErrno
  <2> QED BY <1>1, <2>3, <2>4, ReadUntouched
<1>3. CASE ~(phase' = "failed" /\ loadErr' \in {BadConnection, BadChunk, LoadFailed})
  <2>1. UNCHANGED <<errno, cb, ret>>
    BY <1>3 DEF LoadDataStep
  <2> QED BY <1>1, <2>1, SessionUntouched
<1> QED BY <1>2, <1>3

-----------------------------------------------------------------------------
(* The read.                                                               *)

\* The type that is returned is a known one, and the source table is chosen only
\* if its keys suit the request.
LEMMA TypeKnown ==
    ASSUME NEW q \in Requests
    PROVE  /\ GetParallelReadType(q) \in {"ResultTable", "ColumnStoreTable", "OriginalTable"}
           /\ q.readType = "Unknown" /\ GetParallelReadType(q) = "OriginalTable" =>
                 shardKeyMatches(q) /\ sortKeyMatches(q)
<1>1. q.readType \in ReadTypes
  BY SessionAssumption
<1>2. CASE q.readType # "Unknown"
  BY <1>1, <1>2 DEF ReadTypes, GetParallelReadType
<1>3. CASE /\ q.readType = "Unknown" /\ q.sourceTable /\ shardKeyMatches(q)
           /\ sortKeyMatches(q) /\ CheckExplainOperations(q.plan)
  BY <1>3 DEF GetParallelReadType
<1>4. CASE /\ q.readType = "Unknown"
           /\ ~(q.sourceTable /\ shardKeyMatches(q) /\ sortKeyMatches(q)
                /\ CheckExplainOperations(q.plan))
  <2>1. GetParallelReadType(q) = IF q.materialized THEN "ColumnStoreTable" ELSE "ResultTable"
    BY <1>4 DEF GetParallelReadType
  <2> QED BY <2>1
<1> QED BY <1>2, <1>3, <1>4

\* The type of the layout.
LEMMA LayoutOf ==
    ASSUME NEW q, NEW type
    PROVE  /\ PartitionBy(q, type).type = type
           /\ PartitionBy(q, type).shard = q.partitionBy
           /\ type # "ColumnStoreTable" => PartitionBy(q, type).sort = q.orderBy
BY DEF PartitionBy

\* A table has the type of the read.
LEMMA OneType ==
    ASSUME IInv
    PROVE  \A t \in tables : t.type = readType /\ request # <<>>
<1> SUFFICES ASSUME NEW t \in tables PROVE t.type = readType /\ request # <<>>
  OBVIOUS
<1>1. request # <<>> /\ t = PartitionBy(request[1], readType)
  BY DEF IInv, Made
<1> QED BY <1>1, LayoutOf

\* ParallelReadInit: the table is made for the type that is returned, also by a
\* statement whose answer is lost.
LEMMA ReadInitStep ==
    ASSUME IInv, NEW q \in Requests, ParallelReadInit(q)
    PROVE  IInv'
<1> DEFINE type == GetParallelReadType(q)
           op   == "ParallelReadInit"
           refused == IF type = "ResultTable" /\ q.materialized THEN InvArg ELSE 0
<1>1. request = <<>> /\ request' = <<q>> /\ queue' = queue
  BY DEF ParallelReadInit
<1>2. tables = {}
  BY <1>1, OneType
<1>3. Asked' /\ Queued' /\ request' # <<>> /\ request'[1] = q
  <2>1. request' # <<>> /\ request'[1] = q
    BY <1>1
  <2> QED BY <1>1, <2>1 DEF IInv, Asked, Queued
<1>4. ASSUME tables' = {} \/ (tables' = {PartitionBy(q, type)} /\ type # "OriginalTable"),
             readType' = type \/ (tables' = {} /\ readType' = "Unknown")
      PROVE  Made' /\ Suits'
  <2>1. Suits'
    BY <1>3, <1>4, TypeKnown DEF Suits
  <2>2. Made'
    <3> SUFFICES ASSUME NEW t \in tables'
                 PROVE  /\ readType' \in {"ResultTable", "ColumnStoreTable"}
                        /\ t = PartitionBy(q, readType')
      BY <1>3 DEF Made
    <3> QED BY <1>4, TypeKnown
  <2> QED BY <2>1, <2>2
<1>5. ASSUME called(op, TRUE), errno' # 0
      PROVE  Ready' /\ FailureReported'
  <2>1. ret'.op = op /\ ret'.failed = TRUE
    BY <1>5, Answer
  <2>2. FailureReported'
    BY <1>5, <2>1, Reported
  <2> QED BY <1>5, <2>1, <2>2 DEF Ready
<1>6. CASE /\ called(op, TRUE)
           /\ \E code \in {ServerError, NoMemory} : initThrows(code)
           /\ readType' = "Unknown"
           /\ UNCHANGED tables
  <2>1. errno' # 0
    BY <1>6 DEF initThrows, SetError, ServerError, NoMemory
  <2>2. Made' /\ Suits'
    BY <1>2, <1>4, <1>6
  <2> QED BY <1>3, <1>5, <1>6, <2>1, <2>2 DEF IInv
<1>7. CASE /\ type = "OriginalTable"
           /\ called(op, FALSE) /\ succeed
           /\ readType' = type
           /\ UNCHANGED tables
  <2>1. Made' /\ Suits'
    BY <1>2, <1>4, <1>7
  <2>2. ret'.failed = FALSE /\ errno' = 0
    BY <1>7, Answer DEF succeed, SetError
  <2>3. FailureReported'
    BY <2>2, Reported
  <2>4. Ready'
    BY <1>7 DEF Ready
  <2> QED BY <1>3, <2>1, <2>3, <2>4 DEF IInv
<1>8. CASE /\ type # "OriginalTable"
           /\ called(op, refused # 0) /\ SetError(refused, FALSE)
           /\ readType' = type
           /\ tables' = MakeCreateTableQuery(q, type)
  <2>1. tables' = {PartitionBy(q, type)}
    BY <1>2, <1>8 DEF MakeCreateTableQuery
  <2>2. Made' /\ Suits'
    BY <1>4, <1>8, <2>1
  <2>3. errno' = refused
    BY <1>8 DEF SetError
  <2>4. FailureReported'
    <3>1. CASE refused = 0
      <4>1. (refused # 0) = FALSE
        BY <3>1
      <4>2. called(op, FALSE)
        BY <1>8, <4>1
      <4>3. ret'.failed = FALSE
        BY <4>2, Answer
      <4> QED BY <2>3, <3>1, <4>3, Reported
    <3>2. CASE refused # 0
      <4>1. (refused # 0) = TRUE
        BY <3>2
      <4>2. called(op, TRUE)
        BY <1>8, <4>1
      <4>3. ret'.op = op /\ ret'.failed = TRUE
        BY <4>2, Answer
      <4> QED BY <2>3, <3>2, <4>3, Reported
    <3> QED BY <3>1, <3>2
  <2>5. Ready'
    BY <1>8, <2>1, LayoutOf DEF Ready
  <2> QED BY <1>3, <2>2, <2>4, <2>5 DEF IInv
<1>9. CASE /\ type # "OriginalTable"
           /\ called(op, TRUE)
           /\ \/ \E code \in {ServerError, NoMemory} : initThrows(code) /\ UNCHANGED tables
              \/ initThrows(ServerError) /\ tables' = MakeCreateTableQuery(q, type)
           /\ readType' = type
  <2>1. errno' # 0
    BY <1>9 DEF initThrows, SetError, ServerError, NoMemory
  <2>2. tables' = {} \/ tables' = {PartitionBy(q, type)}
    BY <1>2, <1>9 DEF MakeCreateTableQuery
  <2>3. Made' /\ Suits'
    BY <1>4, <1>9, <2>2
  <2> QED BY <1>3, <1>5, <1>9, <2>1, <2>3 DEF IInv
<1> QED BY <1>6, <1>7, <1>8, <1>9 DEF ParallelReadInit

\* ParallelReadFree drops what there is, since it has the type of the read.
LEMMA ReadFreeStep ==
    ASSUME IInv, ParallelReadFree
    PROVE  IInv'
<1> DEFINE op == "ParallelReadFree"
           dropped == tables' = tables \ drops(readType)
<1>1. queue' = queue
  BY DEF ParallelReadFree
<1>2. tables \ drops(readType) = {}
  BY OneType DEF drops
<1>3. CASE called(op, FALSE) /\ succeed /\ dropped /\ request' = <<>> /\ readType' = "Unknown"
  <2>1. ret'.op = op /\ ret'.failed = FALSE /\ errno' = 0
    BY <1>3, Answer DEF succeed, SetError
  <2>2. FailureReported'
    BY <2>1, Reported
  <2>3. Asked' /\ Made' /\ Suits' /\ Ready' /\ Queued'
    BY <1>1, <1>2, <1>3, <2>1 DEF IInv, Asked, Made, Suits, Ready, Queued
  <2> QED BY <2>2, <2>3 DEF IInv
<1>4. ASSUME called(op, TRUE), UNCHANGED <<request, readType>>, tables' \in SUBSET tables,
             errno' # 0, cb' = errno'
      PROVE  IInv'
  <2>1. ret'.op = op /\ ret'.failed = TRUE
    BY <1>4, Answer
  <2>2. FailureReported'
    BY <1>4, <2>1, Reported
  <2>3. Asked' /\ Made' /\ Suits' /\ Ready' /\ Queued'
    BY <1>1, <1>4, <2>1 DEF IInv, Asked, Made, Suits, Ready, Queued
  <2> QED BY <2>2, <2>3 DEF IInv
<1>5. CASE called(op, TRUE) /\ SetError(ServerError, TRUE) /\ UNCHANGED <<tables, request, readType>>
  <2>1. errno' # 0 /\ cb' = errno'
    BY <1>5 DEF SetError, ServerError
  <2> QED BY <1>4, <1>5, <2>1
<1>6. CASE /\ called(op, TRUE)
           /\ \/ \E code \in {ServerError, NoMemory} : SetError(code, TRUE) /\ UNCHANGED tables
              \/ SetError(ServerError, TRUE) /\ dropped
           /\ UNCHANGED <<request, readType>>
  <2>1. errno' # 0 /\ cb' = errno'
    BY <1>6 DEF SetError, ServerError, NoMemory
  <2>2. tables' \in SUBSET tables
    BY <1>6
  <2> QED BY <1>4, <1>6, <2>1, <2>2
<1> QED BY <1>3, <1>5, <1>6 DEF ParallelReadFree

-----------------------------------------------------------------------------
(* The queues.                                                             *)

\* An order continues itself, and the sort key of the created table continues the
\* order asked for and has the key.
LEMMA SortKeyOf ==
    ASSUME NEW q \in Requests
    PROVE  /\ continues(q.orderBy, q.orderBy)
           /\ continues(BuildSortKey(q), q.orderBy)
           /\ Len(BuildSortKey(q)) \in Nat /\ DOMAIN BuildSortKey(q) = 1 .. Len(BuildSortKey(q))
           /\ "key" \in Range(BuildSortKey(q))
           /\ Range(BuildSortKey(q)) \subseteq Range(q.orderBy) \cup {"key"}
<1>1. q.orderBy \in Seq(STRING)
  BY SessionAssumption
<1>2. PICK o : o = q.orderBy
  OBVIOUS
<1>3. o \in Seq(STRING)
  BY <1>1, <1>2
<1>4. continues(o, o)
  BY <1>3 DEF continues
<1>5. CASE "key" \in Range(o)
  BY <1>2, <1>3, <1>4, <1>5 DEF BuildSortKey
<1>6. CASE "key" \notin Range(o)
  <2>1. PICK a : a = Append(o, "key")
    OBVIOUS
  <2>2. BuildSortKey(q) = a
    BY <1>2, <1>6, <2>1 DEF BuildSortKey
  <2>3. /\ Len(a) = Len(o) + 1 /\ DOMAIN a = 1 .. (Len(o) + 1) /\ DOMAIN o = 1 .. Len(o)
        /\ \A i \in 1 .. Len(o) : a[i] = o[i]
        /\ a[Len(o) + 1] = "key" /\ Len(o) \in Nat
    <3>1. Len(a) = Len(o) + 1 /\ Len(o) \in Nat
      BY <1>3, <2>1
    <3>2. DOMAIN a = 1 .. (Len(o) + 1)
      BY <1>3, <2>1
    <3>3. DOMAIN o = 1 .. Len(o)
      BY <1>3
    <3>4. \A i \in 1 .. Len(o) : a[i] = o[i]
      BY <1>3, <2>1
    <3>5. a[Len(o) + 1] = "key"
      BY <1>3, <2>1
    <3> QED BY <3>1, <3>2, <3>3, <3>4, <3>5
  <2>4. continues(a, o)
    BY <2>3 DEF continues
  <2>5. "key" \in Range(a)
    <3>1. Len(o) + 1 \in DOMAIN a
      BY <2>3
    <3> QED BY <2>3, <3>1 DEF Range
  <2>6. Range(a) \subseteq Range(o) \cup {"key"}
    <3> SUFFICES ASSUME NEW i \in DOMAIN a PROVE a[i] \in Range(o) \cup {"key"}
      BY DEF Range
    <3>1. i \in DOMAIN o \/ i = Len(o) + 1
      BY <2>3
    <3> QED BY <2>3, <3>1 DEF Range
  <2> QED BY <1>2, <1>4, <2>2, <2>3, <2>4, <2>5, <2>6
<1> QED BY <1>5, <1>6

\* A queue of the read keeps what a queue promises.
LEMMA QueuePromised ==
    ASSUME IInv, request # <<>>, NEW isMultiPass \in BOOLEAN
    PROVE  Promised(readBy(request[1], isMultiPass))
<1> DEFINE q == request[1]
           made == IF tables = {} THEN [shard |-> {}, sort |-> <<>>] ELSE CHOOSE t \in tables : TRUE
<1>1. q \in Requests
  BY DEF IInv, Asked
<1>2. PICK k : k = readBy(q, isMultiPass)
  OBVIOUS
<1>3. k.request = q /\ k.type = readType
  BY <1>2, Zenon DEF readBy
<1>4. k.exists = (readType = "OriginalTable" \/ tables # {})
  BY <1>2, Zenon DEF readBy
<1>5. k.shard = IF readType = "OriginalTable" THEN q.shard_key ELSE made.shard
  BY <1>2, Zenon DEF readBy
<1>6. k.order = CASE readType = "ResultTable" -> MakeReadResultTableQuery(made)
                  [] readType = "ColumnStoreTable" -> MakeReadColumnStoreTableQuery(q)
                  [] OTHER -> MakeReadOriginalTableQuery(q,
                                  IF isMultiPass THEN q.sort_key ELSE <<>>)
  BY <1>2, Zenon DEF readBy
<1> SUFFICES ASSUME k.exists = TRUE
             PROVE  /\ readType = "ColumnStoreTable" => k.order = BuildSortKey(q)
                    /\ q.readType = "Unknown" =>
                          /\ q.partitionBy # {} => k.shard # {} /\ k.shard \subseteq q.partitionBy
                          /\ continues(k.order, q.orderBy)
  BY <1>1, <1>2, <1>3 DEF Promised
<1>7. readType = "OriginalTable" \/ tables # {}
  BY <1>4
<1>8. CASE readType = "OriginalTable"
  <2>1. k.shard = q.shard_key
    BY <1>5, <1>8
  <2>2. k.order = q.orderBy \/ k.order = q.sort_key
    BY <1>6, <1>8 DEF MakeReadOriginalTableQuery
  <2>3. q.readType = "Unknown" => shardKeyMatches(q) /\ sortKeyMatches(q)
    BY <1>8 DEF IInv, Suits
  <2>4. sortKeyMatches(q) => continues(q.sort_key, q.orderBy)
    <3>1. q.orderBy \in Seq(STRING) /\ q.sort_key \in Seq(STRING)
      BY <1>1, SessionAssumption
    <3>2. sortKeyMatches(q) => \A i \in DOMAIN q.orderBy : i \in DOMAIN q.sort_key
      BY <3>1 DEF sortKeyMatches
    <3> QED BY <3>2 DEF sortKeyMatches, continues
  <2>5. continues(q.orderBy, q.orderBy)
    BY <1>1, SortKeyOf
  <2>6. shardKeyMatches(q) /\ q.partitionBy # {} =>
           q.shard_key # {} /\ q.shard_key \subseteq q.partitionBy
    BY DEF shardKeyMatches
  <2> QED BY <1>8, <2>1, <2>2, <2>3, <2>4, <2>5, <2>6
<1>9. CASE readType # "OriginalTable"
  <2>1. made \in tables
    BY <1>7, <1>9
  <2>2. made = PartitionBy(q, readType) /\ readType \in {"ResultTable", "ColumnStoreTable"}
    <3> HIDE DEF made
    <3> QED BY <2>1 DEF IInv, Made
  <2> HIDE DEF made
  <2>3. k.shard = q.partitionBy
    BY <1>5, <1>9, <2>2, LayoutOf
  <2>4. CASE readType = "ResultTable"
    <3>1. k.order = q.orderBy
      BY <1>6, <2>2, <2>4, LayoutOf DEF MakeReadResultTableQuery
    <3> QED BY <1>1, <2>3, <2>4, <3>1, SortKeyOf
  <2>5. CASE readType = "ColumnStoreTable"
    <3>1. k.order = BuildSortKey(q)
      BY <1>6, <2>5 DEF MakeReadColumnStoreTableQuery
    <3> QED BY <1>1, <2>3, <2>5, <3>1, SortKeyOf
  <2> QED BY <2>2, <2>4, <2>5
<1> QED BY <1>8, <1>9

\* A call that changes only the queue, and to one that keeps its promise.
LEMMA QueueChanged ==
    ASSUME IInv, UNCHANGED <<request, tables, readType>>, Queued',
           ret'.op # "ParallelReadInit", FailureReported'
    PROVE  IInv'
<1>1. Asked' /\ Made' /\ Suits'
  BY DEF IInv, Asked, Made, Suits
<1>2. Ready'
  BY DEF Ready
<1> QED BY <1>1, <1>2 DEF IInv

\* ParallelReadGetQueue: a connection that fails is told to the callback only, and
\* the refusal of an unknown type to nobody.
LEMMA GetQueueStep ==
    ASSUME IInv, NEW isMultiPass \in BOOLEAN, ParallelReadGetQueue(isMultiPass)
    PROVE  IInv'
<1> DEFINE op == "ParallelReadGetQueue"
<1>1. request # <<>> /\ UNCHANGED <<request, tables, readType>>
  BY DEF ParallelReadGetQueue
<1>2. ASSUME called(op, TRUE), UNCHANGED queue, FailureReported'
      PROVE  IInv'
  <2>1. ret'.op = op
    BY <1>2, Answer
  <2>2. Queued'
    BY <1>2 DEF IInv, Queued
  <2> QED BY <1>1, <1>2, <2>1, <2>2, QueueChanged
<1>3. CASE called(op, TRUE) /\ UNCHANGED queue /\ \E code \in {InvArg, ServerError, NoMemory} : SetError(code, TRUE)
  <2>1. errno' # 0 /\ cb' = errno'
    BY <1>3 DEF SetError, InvArg, ServerError, NoMemory
  <2>2. ret'.failed = TRUE
    BY <1>3, Answer
  <2> QED BY <1>2, <1>3, <2>1, <2>2, Reported
<1>4. CASE /\ called(op, TRUE) /\ UNCHANGED queue /\ errno' = 0
           /\ cb' = BadConnection \/ readType = "Unknown"
  <2>1. ret'.op = op /\ ret'.failed = TRUE
    BY <1>4, Answer
  <2>2. op \notin leavesErrno
    BY DEF leavesErrno
  <2>3. cb' = BadConnection \/ readType' = "Unknown"
    BY <1>1, <1>4
  <2>4. FailureReported'
    BY <1>4, <2>1, <2>2, <2>3, Zenon DEF FailureReported
  <2> QED BY <1>2, <1>4, <2>4
<1>5. CASE called(op, FALSE) /\ succeed /\ queue' = <<readBy(request[1], isMultiPass)>>
  <2>1. ret'.op = op /\ ret'.failed = FALSE /\ errno' = 0
    BY <1>5, Answer DEF succeed, SetError
  <2>2. FailureReported'
    BY <2>1, Reported
  <2>3. queue'[1] = readBy(request[1], isMultiPass)
    BY <1>5
  <2>4. Promised(queue'[1])
    BY <1>1, <2>3, QueuePromised
  <2>5. Queued'
    BY <2>4 DEF Queued, Promised
  <2> QED BY <1>1, <2>1, <2>2, <2>5, QueueChanged
<1> QED BY <1>3, <1>4, <1>5 DEF ParallelReadGetQueue, refuse, succeed, SetError

\* QueryGetQueue: the queue of a query promises nothing, and a statement without a
\* result fails with the code 0.
LEMMA QueryStep ==
    ASSUME IInv, NEW queueCapacity \in 0 .. 1, NEW hasResult \in BOOLEAN,
           QueryGetQueue(queueCapacity, hasResult)
    PROVE  IInv'
<1> DEFINE op == IF hasResult THEN "QueryGetQueue" ELSE "QueryGetQueueWithoutResult"
<1>1. UNCHANGED <<request, tables, readType>> /\ op # "ParallelReadInit" /\ op \notin leavesErrno
  BY DEF QueryGetQueue, leavesErrno
<1>2. CASE called(op, TRUE) /\ UNCHANGED queue /\ \E code \in {InvArg, ServerError, NoMemory} : SetError(code, TRUE)
  <2>1. ret'.op = op /\ ret'.failed = TRUE
    BY <1>2, Answer
  <2>2. errno' # 0 /\ cb' = errno'
    BY <1>2 DEF SetError, InvArg, ServerError, NoMemory
  <2>3. FailureReported'
    BY <2>1, <2>2, Reported
  <2> QED BY <1>1, <1>2, <2>1, <2>3, ReadUntouched
<1>3. CASE ~hasResult /\ called(op, TRUE) /\ SetError(0, TRUE) /\ UNCHANGED queue
  <2>1. ret'.op = op /\ ret'.failed = TRUE
    BY <1>3, Answer
  <2>2. errno' = 0 /\ op = "QueryGetQueueWithoutResult"
    BY <1>3 DEF SetError
  <2>3. FailureReported'
    BY <1>1, <2>1, <2>2, Zenon DEF FailureReported
  <2> QED BY <1>1, <1>3, <2>1, <2>3, ReadUntouched
<1>4. CASE called(op, FALSE) /\ succeed /\ queue' = <<[type |-> "Query", exists |-> FALSE]>>
  <2>1. ret'.op = op /\ ret'.failed = FALSE
    BY <1>4, Answer
  <2>2. errno' = 0
    BY <1>4 DEF succeed, SetError
  <2>3. FailureReported'
    BY <2>1, <2>2, Reported
  <2>4. PICK k : k = [type |-> "Query", exists |-> FALSE]
    OBVIOUS
  <2>5. queue'[1].exists = FALSE
    <3>1. k.exists = FALSE
      BY <2>4, Zenon
    <3>2. queue'[1] = k
      BY <1>4, <2>4
    <3> QED BY <3>1, <3>2
  <2>6. Queued'
    BY <2>5, Zenon DEF Queued, Promised
  <2> QED BY <1>1, <2>1, <2>3, <2>6, QueueChanged
<1> QED BY <1>2, <1>3, <1>4 DEF QueryGetQueue

\* ChunkQueueFree does not fail.
LEMMA QueueFreeStep ==
    ASSUME IInv, ChunkQueueFree
    PROVE  IInv'
<1>1. UNCHANGED <<request, tables, readType>> /\ queue' = <<>> /\ called("ChunkQueueFree", FALSE)
  BY DEF ChunkQueueFree
<1>2. ret'.op = "ChunkQueueFree" /\ ret'.failed = FALSE
  BY <1>1, Answer
<1>3. FailureReported'
  BY <1>2, Reported DEF leavesErrno
<1>4. Queued'
  BY <1>1 DEF Queued
<1> QED BY <1>1, <1>2, <1>3, <1>4, QueueChanged

-----------------------------------------------------------------------------
(* The theorems.                                                           *)

\* The invariant holds in every state.
THEOREM SessionInvariance == SSpec => []IInv
<1>1. IInv /\ [SNext]_cvars => IInv'
  <2> SUFFICES ASSUME IInv, [SNext]_cvars PROVE IInv'
    OBVIOUS
  <2>1. CASE \E worker \in Workers : S2ClientInit(worker)
    BY <2>1, ClientInitStep
  <2>2. CASE Call
    <3>1. CASE S2ClientFree
      BY <3>1, ClientFreeStep
    <3>2. CASE ExecuteDDLQuery
      BY <3>2, ExecuteStep
    <3>3. CASE GetTableRowSchema
      BY <3>3, SchemaStep
    <3>4. CASE \E q \in Requests : ParallelReadInit(q)
      BY <3>4, ReadInitStep
    <3>5. CASE ParallelReadFree
      BY <3>5, ReadFreeStep
    <3>6. CASE \E isMultiPass \in BOOLEAN : ParallelReadGetQueue(isMultiPass)
      BY <3>6, GetQueueStep
    <3>7. CASE \E queueCapacity \in 0 .. 1, hasResult \in BOOLEAN :
                  QueryGetQueue(queueCapacity, hasResult)
      BY <3>7, QueryStep
    <3>8. CASE ChunkQueueFree
      BY <3>8, QueueFreeStep
    <3> QED BY <2>2, <3>1, <3>2, <3>3, <3>4, <3>5, <3>6, <3>7, <3>8 DEF Call
  <2>3. CASE LoadDataStep
    BY <2>3, LoadStep
  <2>4. CASE UNCHANGED cvars
    BY <2>4, SessionUntouched DEF cvars, svars
  <2> QED BY <2>1, <2>2, <2>3, <2>4 DEF SNext
<1> QED BY <1>1, InitIInv, PTL DEF SSpec, cvars

\* Whatever fails, and also when the answer to CREATE or DROP is lost, the caller
\* knows the table of a read by the type that ParallelReadInit returned, and a
\* ParallelReadFree without an error leaves none.
THEOREM TablesKnown == SSpec => []NoTableForgotten
<1>1. IInv => NoTableForgotten
  <2> SUFFICES ASSUME IInv PROVE NoTableForgotten
    OBVIOUS
  <2>1. Ready
    BY DEF IInv
  <2> QED BY <2>1, OneType DEF NoTableForgotten, Ready
<1> QED BY <1>1, SessionInvariance, PTL

\* S2ClientInit, GetTableRowSchema, ChunkQueueFree and the loads tell the callback of
\* a failure; the other calls set S2Errno exactly if they fail, but for the three
\* cases named in FailureReported: a reader without a connection, a read of unknown
\* type, and the queue of a statement without a result.  (That S2Errno is 0 in these
\* cases, and stale after the first four calls, is what ErrnoOfLastCall refutes.)
THEOREM FailuresTold == SSpec => []FailureReported
<1>1. IInv => FailureReported
  BY DEF IInv
<1> QED BY <1>1, SessionInvariance, PTL

\* A choice of the source table, of a result table or of a columnstore table never
\* parts rows that agree in the columns to partition by.
THEOREM GroupsKept == SSpec => []GroupsTogether
<1>1. IInv => GroupsTogether
  <2> SUFFICES ASSUME IInv, chosen, NEW p \in placements(queue[1].shard),
                      NEW r \in Rows, NEW s \in Rows,
                      queue[1].request.partitionBy # {},
                      agree(r, s, queue[1].request.partitionBy)
               PROVE  p[r] = p[s]
    BY DEF GroupsTogether
  <2>1. queue # <<>> /\ queue[1].exists /\ queue[1].request.readType = "Unknown"
    BY DEF chosen
  <2>2. Promised(queue[1])
    BY <2>1 DEF IInv, Queued
  <2>3. queue[1].shard # {} /\ queue[1].shard \subseteq queue[1].request.partitionBy
    BY <2>1, <2>2 DEF Promised
  <2>4. agree(r, s, queue[1].shard)
    BY <2>3 DEF agree
  <2> QED BY <2>3, <2>4 DEF placements
<1> QED BY <1>1, SessionInvariance, PTL

\* A set of natural numbers that is not empty has a least element.
LEMMA LeastNumber ==
    ASSUME NEW S \in SUBSET Nat, S # {}
    PROVE  \E m \in S : \A k \in S : m <= k
<1> DEFINE lessThan == {ss \in Nat \X Nat : ss[1] < ss[2]}
<1>1. IsWellFoundedOn(lessThan, Nat)
  BY NatLessThanWellFounded DEF OpToRel
<1>2. PICK m \in S : \A k \in S : ~(<<k, m>> \in lessThan)
  BY <1>1, WFMin
<1>3. ASSUME NEW k \in S PROVE m <= k
  <2>1. m \in Nat /\ k \in Nat /\ ~(<<k, m>> \in lessThan)
    BY <1>2
  <2> QED BY <2>1
<1> QED BY <1>3

\* Rows in an order are so in every order that continues it.
LEMMA BeforeContinued ==
    ASSUME NEW r, NEW s, NEW order, NEW orderBy \in Seq(STRING), continues(order, orderBy),
           before(r, s, orderBy)
    PROVE  before(r, s, order)
<1>1. PICK i \in DOMAIN orderBy :
          /\ r[orderBy[i]] < s[orderBy[i]]
          /\ \A j \in 1 .. (i - 1) : r[orderBy[j]] = s[orderBy[j]]
  BY DEF before
<1>2. i \in DOMAIN order /\ order[i] = orderBy[i] /\ \A j \in 1 .. (i - 1) : order[j] = orderBy[j]
  <2>1. i \in Nat /\ \A j \in 1 .. (i - 1) : j \in DOMAIN orderBy
    BY <1>1
  <2> QED BY <1>1, <2>1 DEF continues
<1> QED BY <1>1, <1>2 DEF before

\* An order that has the key is total.
LEMMA TotalOrder ==
    ASSUME NEW q \in Requests, NEW r \in Rows, NEW s \in Rows, r # s
    PROVE  before(r, s, BuildSortKey(q)) \/ before(s, r, BuildSortKey(q))
<1>1. PICK o : o = BuildSortKey(q)
  OBVIOUS
<1>2. /\ DOMAIN o = 1 .. Len(o) /\ Len(o) \in Nat /\ "key" \in Range(o)
      /\ Range(o) \subseteq Range(q.orderBy) \cup {"key"}
  BY <1>1, SortKeyOf
<1>3. \A c \in Range(o) : r[c] \in Int /\ s[c] \in Int
  BY <1>2, SessionAssumption
<1> DEFINE D == {i \in DOMAIN o : r[o[i]] # s[o[i]]}
<1>4. D \in SUBSET Nat /\ D # {}
  <2>1. PICK i \in DOMAIN o : o[i] = "key"
    BY <1>2 DEF Range
  <2>2. r["key"] # s["key"]
    BY SessionAssumption
  <2> QED BY <1>2, <2>1, <2>2
<1>5. PICK i \in D : \A k \in D : i <= k
  BY <1>4, LeastNumber
<1>6. i \in DOMAIN o /\ r[o[i]] # s[o[i]] /\ i \in Nat
  BY <1>2, <1>5
<1>7. \A j \in 1 .. (i - 1) : r[o[j]] = s[o[j]]
  <2> SUFFICES ASSUME NEW j \in 1 .. (i - 1), r[o[j]] # s[o[j]] PROVE FALSE
    OBVIOUS
  <2>1. j \in DOMAIN o /\ j < i
    BY <1>2, <1>6
  <2> QED BY <1>5, <1>6, <2>1
<1>8. r[o[i]] \in Int /\ s[o[i]] \in Int
  BY <1>3, <1>6 DEF Range
<1>9. r[o[i]] < s[o[i]] \/ s[o[i]] < r[o[i]]
  BY <1>6, <1>8
<1> HIDE DEF D
<1>10. before(r, s, o) \/ before(s, r, o)
  BY <1>6, <1>7, <1>9 DEF before
<1> QED BY <1>1, <1>10

\* Rows arrive in the order asked for from whichever table they are read, and the
\* order of a columnstore table leaves nothing open.
THEOREM OrderKept == SSpec => []OrderDelivered
<1>1. IInv => OrderDelivered
  <2> SUFFICES ASSUME IInv PROVE OrderDelivered
    OBVIOUS
  <2>1. ASSUME chosen, NEW r \in Rows, NEW s \in Rows, before(r, s, queue[1].request.orderBy)
        PROVE  before(r, s, queue[1].order)
    <3>1. queue # <<>> /\ queue[1].exists /\ queue[1].request.readType = "Unknown"
      BY <2>1 DEF chosen
    <3>2. Promised(queue[1])
      BY <3>1 DEF IInv, Queued
    <3>3. continues(queue[1].order, queue[1].request.orderBy) /\ queue[1].request \in Requests
      BY <3>1, <3>2 DEF Promised
    <3>4. queue[1].request.orderBy \in Seq(STRING)
      BY <3>3, SessionAssumption
    <3> QED BY <2>1, <3>3, <3>4, BeforeContinued
  <2>2. ASSUME queue # <<>>, queue[1].exists, queue[1].type = "ColumnStoreTable",
               NEW r \in Rows, NEW s \in Rows, r # s
        PROVE  before(r, s, queue[1].order) \/ before(s, r, queue[1].order)
    <3>1. Promised(queue[1])
      BY <2>2 DEF IInv, Queued
    <3>2. queue[1].request \in Requests /\ queue[1].order = BuildSortKey(queue[1].request)
      BY <2>2, <3>1 DEF Promised
    <3> QED BY <2>2, <3>2, TotalOrder
  <2> QED BY <2>1, <2>2 DEF OrderDelivered
<1> QED BY <1>1, SessionInvariance, PTL

-----------------------------------------------------------------------------
(* Dates and times (CasTime): what was converted to a number of CAS is     *)
(* converted back to the same time, for all times of the database, also    *)
(* those before 1960 whose numbers are negative.  Only the second before   *)
(* 1970-01-01 is refused.                                                  *)

\* Division with remainder has one result.
LEMMA DivUnique ==
    ASSUME NEW n \in Nat \ {0}, NEW q \in Int, NEW r \in 0 .. (n - 1)
    PROVE  (q * n + r) \div n = q
<1> DEFINE a == q * n + r
           d == a \div n
<1>1. a \in Int /\ d \in Int
  BY SMT
<1>2. d * n <= a /\ a < d * n + n
  BY <1>1, SMT
<1>3. q * n <= a /\ a < q * n + n
  BY SMT
<1>4. ASSUME d < q PROVE FALSE
  <2>1. d + 1 <= q BY <1>1, <1>4
  <2>2. (d + 1) * n <= q * n BY <1>1, <2>1, SMT
  <2>3. (d + 1) * n = d * n + n BY <1>1, SMT
  <2> QED BY <1>1, <1>2, <1>3, <2>2, <2>3, SMT
<1>5. ASSUME q < d PROVE FALSE
  <2>1. q + 1 <= d BY <1>1, <1>5
  <2>2. (q + 1) * n <= d * n BY <1>1, <2>1, SMT
  <2>3. (q + 1) * n = q * n + n BY SMT
  <2> QED BY <1>1, <1>2, <1>3, <2>2, <2>3, SMT
<1> QED BY <1>1, <1>4, <1>5

\* The operators / and % of C on a number that is not negative.
LEMMA QuotientOfNat ==
    ASSUME NEW n \in Nat \ {0}, NEW q \in Nat, NEW r \in 0 .. (n - 1)
    PROVE  quotient(q * n + r, n) = q /\ remainder(q * n + r, n) = r
<1>1. q * n + r >= 0 /\ q * n \in Nat
  BY SMT
<1>2. quotient(q * n + r, n) = q
  BY <1>1, DivUnique DEF quotient
<1>3. n * q = q * n
  BY SMT
<1> QED BY <1>1, <1>2, <1>3, SMT DEF remainder

\* The operators / and % of C on a negative number: the quotient is rounded
\* towards 0, and the remainder is not positive.
LEMMA QuotientOfNegative ==
    ASSUME NEW n \in Nat \ {0}, NEW q \in Int, q < 0, NEW r \in 0 .. (n - 1)
    PROVE  /\ r = 0 => quotient(q * n + r, n) = q /\ remainder(q * n + r, n) = 0
           /\ r # 0 => quotient(q * n + r, n) = q + 1 /\ remainder(q * n + r, n) = r - n
<1>1. q * n <= -n /\ q * n \in Int
  <2>1. (q + 1) * n <= 0 BY SMT
  <2>2. (q + 1) * n = q * n + n BY SMT
  <2> QED BY <2>1, <2>2, SMT
<1>2. q * n + r < 0 /\ q * n + r \in Int
  BY <1>1, SMT
<1>3. n * q = q * n /\ n * (q + 1) = q * n + n
  BY SMT
<1>4. CASE r = 0
  <2>1. -(q * n + r) = (-q) * n + 0 BY <1>4, SMT
  <2>2. ((-q) * n + 0) \div n = -q BY DivUnique
  <2>3. quotient(q * n + r, n) = q BY <1>2, <2>1, <2>2, SMT DEF quotient
  <2> QED BY <1>1, <1>3, <1>4, <2>3, SMT DEF remainder
<1>5. CASE r # 0
  <2>1. -(q * n + r) = (-q - 1) * n + (n - r) BY SMT
  <2>2. n - r \in 0 .. (n - 1) /\ -q - 1 \in Int BY <1>5, SMT
  <2>3. ((-q - 1) * n + (n - r)) \div n = -q - 1 BY <2>2, DivUnique
  <2>4. quotient(q * n + r, n) = q + 1 BY <1>2, <2>1, <2>3, SMT DEF quotient
  <2> QED BY <1>1, <1>3, <1>5, <2>4, SMT DEF remainder
<1> QED BY <1>4, <1>5

\* A DATETIME that toDateTimeCAS accepts is what fromDateTimeCAS makes of the
\* number, whatever its sign: the correction of the negative remainder gives
\* back the second and its microseconds.
THEOREM DateTimeRoundTrip ==
    ASSUME NEW sec \in Int \ {-1}, NEW micro \in 0 .. (secToMicroSec - 1)
    PROVE  LET dt == [sec |-> sec, second_part |-> micro]
           IN  /\ Len(toDateTimeCAS(dt)) = 1
               /\ fromDateTimeCAS(toDateTimeCAS(dt)[1]) = dt
<1> DEFINE dt == [sec |-> sec, second_part |-> micro]
           q  == sec + CASshiftSec
           x  == q * secToMicroSec + micro
<1>1. secToMicroSec \in Nat \ {0} /\ CASshiftSec \in Nat /\ q \in Int
  BY CasTimeAssumption
<1>2. toDateTimeCAS(dt) = <<x>>
  BY DEF toDateTimeCAS
<1>3. q - CASshiftSec = sec /\ q + 1 - CASshiftSec - 1 = sec /\ micro - secToMicroSec + secToMicroSec = micro
  BY <1>1
<1>4. fromDateTimeCAS(x) = dt
  <2>1. CASE q >= 0
    <3>1. quotient(x, secToMicroSec) = q /\ remainder(x, secToMicroSec) = micro
      <4>1. q \in Nat BY <1>1, <2>1
      <4> QED BY <1>1, <4>1, QuotientOfNat
    <3>2. ~(micro < 0) BY <1>1
    <3> QED BY <1>3, <3>1, <3>2 DEF fromDateTimeCAS
  <2>2. CASE q < 0 /\ micro = 0
    <3>1. quotient(x, secToMicroSec) = q /\ remainder(x, secToMicroSec) = 0
      BY <1>1, <2>2, QuotientOfNegative
    <3> QED BY <1>3, <2>2, <3>1 DEF fromDateTimeCAS
  <2>3. CASE q < 0 /\ micro # 0
    <3>1. quotient(x, secToMicroSec) = q + 1 /\ remainder(x, secToMicroSec) = micro - secToMicroSec
      BY <1>1, <2>3, QuotientOfNegative
    <3>2. micro - secToMicroSec < 0 BY <1>1
    <3>3. quotient(x, secToMicroSec) - CASshiftSec - 1 = sec
          /\ remainder(x, secToMicroSec) + secToMicroSec = micro
      BY <1>1, <3>1
    <3>4. remainder(x, secToMicroSec) < 0 BY <3>1, <3>2
    <3> HIDE DEF q, x
    <3> QED BY <3>3, <3>4 DEF fromDateTimeCAS
  <2> QED BY <1>1, <2>1, <2>2, <2>3
<1> QED BY <1>2, <1>4

\* A DATE is what fromDateCAS makes of the number of toDateCAS, also before 1960.
THEOREM DateRoundTrip ==
    ASSUME NEW day \in Int
    PROVE  Len(toDateCAS(day)) = 1 /\ fromDateCAS(toDateCAS(day)[1]) = day
<1>1. dayToSec \in Nat \ {0, 1} /\ CASshiftSec \in Nat
  BY CasTimeAssumption
<1>2. PICK s \in Nat : CASshiftSec = s * dayToSec
  <2>1. CASshiftSec = (CASshiftSec \div dayToSec) * dayToSec + (CASshiftSec % dayToSec)
    BY <1>1, SMT
  <2>2. CASshiftSec % dayToSec = 0 BY CasTimeAssumption
  <2>3. CASshiftSec \div dayToSec \in Nat BY <1>1, SMT
  <2> QED BY <1>1, <2>1, <2>2, <2>3, SMT
<1>3. day * dayToSec # -1 /\ day * dayToSec \in Int
  <2>1. day >= 0 => day * dayToSec >= 0 BY <1>1, SMT
  <2>2. day <= -1 => day * dayToSec <= -dayToSec
    <3>1. day <= -1 => (day + 1) * dayToSec <= 0 BY <1>1, SMT
    <3>2. (day + 1) * dayToSec = day * dayToSec + dayToSec BY <1>1, SMT
    <3> QED BY <1>1, <3>1, <3>2, SMT
  <2> QED BY <1>1, <2>1, <2>2, SMT
<1>4. day * dayToSec + CASshiftSec = (day + s) * dayToSec + 0
  BY <1>1, <1>2, SMT
<1>5. quotient((day + s) * dayToSec + 0, dayToSec) = day + s
  <2>1. CASE day + s >= 0
    <3>1. day + s \in Nat /\ 0 \in 0 .. (dayToSec - 1) BY <1>1, <2>1
    <3> QED BY <1>1, <3>1, QuotientOfNat
  <2>2. CASE day + s < 0
    <3>1. day + s \in Int /\ 0 \in 0 .. (dayToSec - 1) BY <1>1
    <3> QED BY <1>1, <2>2, <3>1, QuotientOfNegative
  <2> QED BY <2>1, <2>2
<1>6. toDateCAS(day) = <<day + s>>
  BY <1>3, <1>4, <1>5 DEF toDateCAS
<1>7. (day + s) * dayToSec - CASshiftSec = day * dayToSec + 0
  BY <1>1, <1>2, SMT
<1>8. (day * dayToSec + 0) \div dayToSec = day
  BY <1>1, DivUnique
<1> QED BY <1>6, <1>7, <1>8 DEF fromDateCAS

\* A TIME of either sign is what fromTimeCAS makes of the number of toTimeCAS,
\* with the hours beyond a day that the database allows.  (The database has no
\* negative zero.)
THEOREM TimeRoundTrip ==
    ASSUME NEW neg \in BOOLEAN, NEW hour \in Nat, NEW minute \in 0 .. 59, NEW second \in 0 .. 59,
           NEW micro \in 0 .. (secToMicroSec - 1),
           neg => ~(hour = 0 /\ minute = 0 /\ second = 0 /\ micro = 0)
    PROVE  LET dt == [neg |-> neg, hour |-> hour, minute |-> minute, second |-> second,
                      second_part |-> micro]
           IN  fromTimeCAS(toTimeCAS(dt)) = dt
<1> DEFINE dt == [neg |-> neg, hour |-> hour, minute |-> minute, second |-> second,
                  second_part |-> micro]
           m == hour * 60 + minute
           t == m * 60 + second
           v == t * secToMicroSec + micro
           x == IF neg THEN -v ELSE v
           a == IF x < 0 THEN -x ELSE x
<1>1. secToMicroSec \in Nat \ {0}
  BY CasTimeAssumption
<1>2. m \in Nat /\ t \in Nat
  OBVIOUS
<1>3. v \in Nat /\ (neg => v > 0)
  <2>1. t * secToMicroSec \in Nat BY <1>1, <1>2, SMT
  <2>2. t > 0 => t * secToMicroSec > 0 BY <1>1, <1>2, SMT
  <2>3. neg => t > 0 \/ micro > 0 BY <1>1
  <2> QED BY <1>1, <2>1, <2>2, <2>3
<1>4. toTimeCAS(dt) = x
  <2>1. second + minute * 60 + hour * 3600 = t OBVIOUS
  <2>2. micro + secToMicroSec * t = v BY <1>1, <1>2, SMT
  <2> QED BY <2>1, <2>2 DEF toTimeCAS
<1>5. a = v /\ (a # x <=> neg)
  BY <1>3
<1>6. quotient(v, secToMicroSec) = t /\ remainder(v, secToMicroSec) = micro
  BY <1>1, <1>2, QuotientOfNat
<1>7. quotient(t, 60) = m /\ remainder(t, 60) = second
  <2>1. 60 \in Nat \ {0} /\ second \in 0 .. (60 - 1) OBVIOUS
  <2> HIDE DEF m
  <2> QED BY <1>2, <2>1, QuotientOfNat
<1>8. quotient(m, 60) = hour /\ remainder(m, 60) = minute
  <2>1. 60 \in Nat \ {0} /\ minute \in 0 .. (60 - 1) OBVIOUS
  <2> QED BY <2>1, QuotientOfNat
<1>9. (a # x) = neg
  BY <1>5
<1>10. fromTimeCAS(x) = dt
  <2> HIDE DEF m, t, v, x, a
  <2>1. fromTimeCAS(x) = [neg |-> a # x, hour |-> quotient(quotient(quotient(a, secToMicroSec), 60), 60),
                          minute |-> remainder(quotient(quotient(a, secToMicroSec), 60), 60),
                          second |-> remainder(quotient(a, secToMicroSec), 60),
                          second_part |-> remainder(a, secToMicroSec)]
    BY Zenon DEF fromTimeCAS, a
  <2> QED BY <1>5, <1>6, <1>7, <1>8, <1>9, <2>1
<1> QED BY <1>4, <1>10
-----------------------------------------------------------------------------
(* The two ways to a schema.                                               *)

Names == {p.name : p \in Range(protocolType)}
Words == {"big", "int", "small", "double", "decimal", "char", "binary", "var", "text", "blob",
          "long", "medium", "tiny", "date", "time", "stamp", "float", "bit", "year", "json",
          "enum", "set"}

\* The type of a column of that name as a field, and in an EXPLAIN.
fieldOf(name) == protocolType[SelectInSeq(protocolType, LAMBDA p : p.name = name)].type
fieldType(name) ==
    IF fieldOf(name) \in DOMAIN fieldTypes THEN fieldTypes[fieldOf(name)] ELSE "Unsupported"
prefixOf(name) == SelectInSeq(prefixes, LAMBDA p : IsPrefix(p.name, name))
explainType(name) == IF prefixOf(name) = 0 THEN "Unsupported" ELSE prefixes[prefixOf(name)].type

\* Which comparison decides for a name of the protocol.
decides == <<1, 2, 0, 3, 0, 8, 7, 9, 10, 17, 14, 11, 12, 16, 13, 18, 15, 4, 5, 6, 6,
             0, 0, 0, 0, 0, 0, 0, 0>>

\* The least element.
LEMMA MinIs ==
    ASSUME NEW I \in SUBSET Nat, NEW k \in I, \A j \in I : k <= j
    PROVE  Min(I) = k
<1>1. \A x \in I : (\A y \in I : x <= y) => x = k
  OBVIOUS
<1> QED BY <1>1 DEF Min

\* The sizes of the two tables.
LEMMA TableSizes == Len(protocolType) = 29 /\ DOMAIN protocolType = 1 .. 29 /\ Len(prefixes) = 18
BY DEF protocolType, prefixes

\* Each name is once in the table of the protocol.
LEMMA FieldOf ==
    ASSUME NEW k \in 1 .. 29
    PROVE  fieldOf(protocolType[k].name) = protocolType[k].type
<1>1. ASSUME NEW j \in 1 .. 29, protocolType[j].name = protocolType[k].name PROVE j = k
  BY <1>1 DEF protocolType
<1>2. PICK I : I = {j \in 1 .. 29 : protocolType[j].name = protocolType[k].name}
  OBVIOUS
<1>3. I = {k}
  BY <1>1, <1>2
<1>4. Min(I) = k
  BY <1>3, MinIs
<1>5. SelectInSeq(protocolType, LAMBDA p : p.name = protocolType[k].name) = k
  BY <1>2, <1>3, <1>4, TableSizes DEF SelectInSeq
<1> QED BY <1>5 DEF fieldOf

\* A prefix of one or two words.
LEMMA PrefixMeans ==
    ASSUME NEW S, NEW s \in Seq(S), NEW t \in Seq(S), Len(s) \in {1, 2}, Len(t) \in {1, 2}
    PROVE  IsPrefix(s, t) <=> s[1] = t[1] /\ (Len(s) = 2 => Len(t) = 2 /\ s[2] = t[2])
<1>1. CASE Len(s) <= Len(t)
  <2>1. PICK n \in {1, 2} : n = Len(s)
    OBVIOUS
  <2>2. PICK u, v : u = SubSeq(s, 1, n) /\ v = SubSeq(t, 1, n)
    OBVIOUS
  <2>3. u \in Seq(S) /\ Len(u) = n /\ \A i \in 1 .. n : u[i] = s[i]
    BY <1>1, <2>1, <2>2
  <2>4. v \in Seq(S) /\ Len(v) = n /\ \A i \in 1 .. n : v[i] = t[i]
    BY <1>1, <2>1, <2>2
  <2>5. u = v <=> \A i \in 1 .. n : u[i] = v[i]
    BY <2>3, <2>4
  <2>6. IsPrefix(s, t) <=> u = v
    BY <1>1, <2>1, <2>2 DEF IsPrefix
  <2>7. 1 .. 1 = {1} /\ 1 .. 2 = {1, 2}
    OBVIOUS
  <2>8. IsPrefix(s, t) <=> \A i \in 1 .. n : s[i] = t[i]
    BY <2>3, <2>4, <2>5, <2>6
  <2> QED BY <1>1, <2>1, <2>7, <2>8
<1>2. CASE ~(Len(s) <= Len(t))
  BY <1>2 DEF IsPrefix
<1> QED BY <1>1, <1>2

\* The names are of one or two words.
LEMMA NamesAre ==
    /\ \A k \in 1 .. 29 : protocolType[k].name \in Seq(Words) /\ Len(protocolType[k].name) \in {1, 2}
    /\ \A j \in 1 .. 18 : prefixes[j].name \in Seq(Words) /\ Len(prefixes[j].name) \in {1, 2}
<1>1. \A a \in Words : <<a>> \in Seq(Words)
  OBVIOUS
<1>2. \A a, b \in Words : <<a, b>> \in Seq(Words)
  OBVIOUS
<1>3. ASSUME NEW k \in 1 .. 29
      PROVE  protocolType[k].name \in Seq(Words) /\ Len(protocolType[k].name) \in {1, 2}
  <2>1. PICK s : s = protocolType[k].name
    OBVIOUS
  <2>2. \/ Len(s) = 1 /\ s = <<s[1]>> /\ s[1] \in Words
        \/ Len(s) = 2 /\ s = <<s[1], s[2]>> /\ s[1] \in Words /\ s[2] \in Words
    BY <2>1 DEF protocolType, Words
  <2> QED BY <1>1, <1>2, <2>1, <2>2
<1>4. ASSUME NEW j \in 1 .. 18
      PROVE  prefixes[j].name \in Seq(Words) /\ Len(prefixes[j].name) \in {1, 2}
  <2>1. PICK s : s = prefixes[j].name
    OBVIOUS
  <2>2. \/ Len(s) = 1 /\ s = <<s[1]>> /\ s[1] \in Words
        \/ Len(s) = 2 /\ s = <<s[1], s[2]>> /\ s[1] \in Words /\ s[2] \in Words
    BY <2>1 DEF prefixes, Words
  <2> QED BY <1>1, <1>2, <2>1, <2>2
<1> QED BY <1>3, <1>4

\* A comparison holds for its own name, and two of them for a longer one.
LEMMA Compared ==
    ASSUME NEW j \in 1 .. 18, NEW k \in 1 .. 29
    PROVE  IsPrefix(prefixes[j].name, protocolType[k].name) <=> j = decides[k] \/ (j = 5 /\ k = 18)
<1>1. PICK s, t : s = prefixes[j].name /\ t = protocolType[k].name
  OBVIOUS
<1>2. IsPrefix(s, t) <=> s[1] = t[1] /\ (Len(s) = 2 => Len(t) = 2 /\ s[2] = t[2])
  <2>1. k \in 1 .. 29
    OBVIOUS
  <2>2. s \in Seq(Words) /\ t \in Seq(Words) /\ Len(s) \in {1, 2} /\ Len(t) \in {1, 2}
    BY <1>1, <2>1, NamesAre
  <2> QED BY <2>2, PrefixMeans
<1>3. s[1] = t[1] /\ (Len(s) = 2 => Len(t) = 2 /\ s[2] = t[2]) <=> j = decides[k] \/ (j = 5 /\ k = 18)
  BY <1>1 DEF prefixes, protocolType, decides
<1> QED BY <1>1, <1>2, <1>3

\* The first comparison that holds.
LEMMA PrefixOf ==
    ASSUME NEW k \in 1 .. 29
    PROVE  prefixOf(protocolType[k].name) = decides[k]
<1>1. PICK I : I = {j \in 1 .. 18 : IsPrefix(prefixes[j].name, protocolType[k].name)}
  OBVIOUS
<1>2. I = {j \in 1 .. 18 : j = decides[k] \/ (j = 5 /\ k = 18)}
  BY <1>1, Compared
<1>3. decides[k] \in 0 .. 18 /\ decides[18] = 4 /\ (decides[k] = 0 => k # 18)
  BY DEF decides
<1>4. CASE decides[k] = 0
  BY <1>1, <1>2, <1>3, <1>4, TableSizes DEF prefixOf, SelectInSeq
<1>5. CASE decides[k] # 0
  <2>1. decides[k] \in I /\ I \in SUBSET Nat /\ \A j \in I : decides[k] <= j
    BY <1>2, <1>3, <1>5
  <2>2. Min(I) = decides[k]
    BY <2>1, MinIs
  <2> QED BY <1>1, <2>1, <2>2, TableSizes DEF prefixOf, SelectInSeq
<1> QED BY <1>4, <1>5

\* So both ways have the same type, but for the names known to differ.
LEMMA TypesAgree ==
    ASSUME NEW name \in Names
    PROVE  fieldType(name) = explainType(name) <=> name \notin DifferingNames
<1>1. PICK k \in 1 .. 29 : name = protocolType[k].name
  BY TableSizes DEF Names, Range
<1>2. fieldOf(name) = protocolType[k].type /\ prefixOf(name) = decides[k]
  BY <1>1, FieldOf, PrefixOf
<1>3. name \in DifferingNames <=> k \in {21, 28, 29}
  BY <1>1 DEF protocolType, DifferingNames
<1>4. CASE k \in {21, 28, 29}
  <2>1. CASE k = 21
    <3>1. protocolType[21].type = "TIMESTAMP" /\ decides[21] = 6 /\ prefixes[6].type = "Time"
      BY DEF protocolType, decides, prefixes
    <3>2. "TIMESTAMP" \notin DOMAIN fieldTypes
      BY DEF fieldTypes
    <3> QED BY <1>2, <1>3, <2>1, <3>1, <3>2 DEF fieldType, explainType
  <2>2. CASE k \in {28, 29}
    <3>1. protocolType[k].type = "STRING" /\ decides[k] = 0
      BY <2>2 DEF protocolType, decides
    <3>2. "STRING" \in DOMAIN fieldTypes /\ fieldTypes["STRING"] = "Fixed"
      BY DEF fieldTypes
    <3> QED BY <1>2, <1>3, <2>2, <3>1, <3>2 DEF fieldType, explainType
  <2> QED BY <1>4, <2>1, <2>2
<1>5. CASE k \notin {21, 28, 29}
  <2>1. decides[k] = 0 => protocolType[k].type \notin DOMAIN fieldTypes
    BY <1>5 DEF decides, protocolType, fieldTypes
  <2>2. decides[k] # 0 => /\ protocolType[k].type \in DOMAIN fieldTypes
                          /\ fieldTypes[protocolType[k].type] = prefixes[decides[k]].type
    BY <1>5 DEF decides, protocolType, fieldTypes, prefixes
  <2> QED BY <1>2, <1>3, <1>5, <2>1, <2>2 DEF fieldType, explainType
<1> QED BY <1>4, <1>5

schemaOf(column) == col(fieldType(column.name), bytesOf(column))

\* A schema from fields, column by column.
LEMMA FieldSchema ==
    ASSUME NEW cols
    PROVE  /\ DOMAIN FieldsToRowSchema(cols) = DOMAIN cols
           /\ \A i \in DOMAIN cols : FieldsToRowSchema(cols)[i] = schemaOf(cols[i])
BY DEF FieldsToRowSchema, schemaOf, fieldType, fieldOf

\* Of one column.
LEMMA OneSchema ==
    ASSUME NEW column
    PROVE  FieldsToRowSchema(<<column>>)[1] = schemaOf(column)
<1>1. 1 \in DOMAIN <<column>> /\ <<column>>[1] = column
  OBVIOUS
<1> QED BY <1>1, FieldSchema

\* A schema from an EXPLAIN.
LEMMA ExplainSchema ==
    ASSUME NEW cols, NEW i \in DOMAIN cols, cols[i].length \in Nat
    PROVE  ExplainToRowSchema(cols)[i] = col(explainType(cols[i].name), bytesOf(cols[i]))
<1>1. ExplainToRowSchema(cols)[i] = ShowColumnsToRowSchemaHelper(cols[i])
  BY DEF ExplainToRowSchema
<1>2. prefixOf(cols[i].name) = firstPrefix(cols[i])
  BY DEF prefixOf, firstPrefix
<1>3. bytesOf(cols[i]) = IF cols[i].name = <<"binary">> THEN cols[i].length
                         ELSE cols[i].length * (IF cols[i].utf8mb4 THEN 4 ELSE 3)
  BY DEF bytesOf
<1> QED BY <1>1, <1>2, <1>3 DEF ShowColumnsToRowSchemaHelper, explainType

Column == [name : Names, length : Nat, utf8mb4 : BOOLEAN]

\* The columns are chosen once.
Chosen == columns = <<>> \/ columns \in Tables

\* The columns of a table.
LEMMA TableColumns ==
    ASSUME Chosen
    PROVE  columns \in Seq(Column) /\ (columns \in Tables => columns # <<>>)
<1>1. Tables \subseteq Seq(Column) \ {<<>>}
  BY LoadDataAssumption DEF Column, Names
<1>2. <<>> \in Seq(Column)
  OBVIOUS
<1> QED BY <1>1, <1>2 DEF Chosen

\* The schemas of a column agree.
LEMMA SchemaAgrees ==
    ASSUME Chosen, NEW i \in DOMAIN columns
    PROVE  ExplainToRowSchema(columns)[i] = schemaOf(columns[i])
               <=> columns[i].name \notin DifferingNames
<1>1. columns[i] \in Column
  BY TableColumns
<1>2. columns[i].name \in Names /\ columns[i].length \in Nat
  BY <1>1 DEF Column
<1>3. PICK e, g : e = explainType(columns[i].name) /\ g = fieldType(columns[i].name)
  OBVIOUS
<1>4. g = e <=> columns[i].name \notin DifferingNames
  BY <1>2, <1>3, TypesAgree
<1>5. /\ ExplainToRowSchema(columns)[i] = col(e, bytesOf(columns[i]))
      /\ schemaOf(columns[i]) = col(g, bytesOf(columns[i]))
  BY <1>2, <1>3, ExplainSchema DEF schemaOf
<1>6. col(e, bytesOf(columns[i])).type = e /\ col(g, bytesOf(columns[i])).type = g
  BY DEF col
<1>7. col(e, bytesOf(columns[i])) = col(g, bytesOf(columns[i])) <=> e = g
  BY <1>6
<1> QED BY <1>4, <1>5, <1>7

\* A step that is not a load leaves its state alone.
LEMMA LoadUntouched ==
    ASSUME [SNext]_cvars
    PROVE  LNext \/ UNCHANGED lvars
<1>1. CASE \E worker \in Workers : S2ClientInit(worker)
  BY <1>1 DEF S2ClientInit, lvars
<1>2. CASE Call
  BY <1>2 DEF Call, S2ClientFree, ExecuteDDLQuery, GetTableRowSchema, ParallelReadInit,
              ParallelReadFree, ParallelReadGetQueue, QueryGetQueue, ChunkQueueFree, called
<1>3. CASE LoadDataStep
  BY <1>3 DEF LoadDataStep
<1>4. CASE UNCHANGED cvars
  BY <1>4 DEF cvars
<1> QED BY <1>1, <1>2, <1>3, <1>4 DEF SNext

\* Parallel reads take the schema from EXPLAIN and loads take it from the fields of
\* the table.  For every type name that protocolType lists the two are the same,
\* except for TIMESTAMP, ENUM and SET, for which they always differ.
THEOREM SchemasEqual == SSpec => []SchemasAgree
<1>1. SInit => Chosen
  BY DEF SInit, LInit, Chosen
<1>2. Chosen /\ [SNext]_cvars => Chosen'
  <2> SUFFICES ASSUME Chosen, [SNext]_cvars PROVE Chosen'
    OBVIOUS
  <2>1. CASE UNCHANGED lvars
    BY <2>1 DEF Chosen, lvars
  <2>2. CASE LNext
    BY <2>2 DEF Chosen, LNext, ChooseTable, InsertValue, WriteRow, WriteChunk, WriteAvro, infile,
                ss_local_infile_read, EndLoad
  <2> QED BY <2>1, <2>2, LoadUntouched
<1>3. Chosen => SchemasAgree
  <2> SUFFICES ASSUME Chosen, NEW i \in DOMAIN columns
               PROVE  ExplainToRowSchema(columns)[i] = FieldsToRowSchema(columns)[i]
                          <=> columns[i].name \notin DifferingNames
    BY DEF SchemasAgree
  <2> QED BY SchemaAgrees, FieldSchema
<1> QED BY <1>1, <1>2, <1>3, PTL DEF SSpec, cvars

-----------------------------------------------------------------------------
(* Sequences of sequences, and what the parser makes of a text.            *)

\* A set that has 0 and with every number the next one has them all.
LEMMA AllNumbers ==
    ASSUME NEW S \in SUBSET Nat, 0 \in S, \A n \in S : n + 1 \in S
    PROVE  S = Nat
<1> SUFFICES ASSUME S # Nat PROVE FALSE
  OBVIOUS
<1>1. Nat \ S \in SUBSET Nat /\ Nat \ S # {}
  OBVIOUS
<1>2. PICK m \in Nat \ S : \A k \in Nat \ S : m <= k
  BY <1>1, LeastNumber
<1>3. m - 1 \in Nat /\ m - 1 < m
  BY <1>2
<1>4. m - 1 \in S
  BY <1>2, <1>3
<1> QED BY <1>2, <1>4

\* Only one sequence is empty.
LEMMA NoneLeft ==
    ASSUME NEW S, NEW s \in Seq(S), Len(s) = 0
    PROVE  s = <<>>
  OBVIOUS

\* The first k sequences one after another.
isFlat(f, ss) ==
    /\ f = [k \in 0 .. Len(ss) |-> f[k]]
    /\ f[0] = <<>>
    /\ \A k \in 0 .. (Len(ss) - 1) : f[k + 1] = f[k] \o ss[k + 1]

\* What FlattenSeq returns is built step by step.
LEMMA Flattened ==
    ASSUME NEW C, NEW ss \in Seq(Seq(C))
    PROVE  \E f : /\ isFlat(f, ss)
                  /\ \A k \in 0 .. Len(ss) : f[k] \in Seq(C)
                  /\ FlattenSeq(ss) = f[Len(ss)]
<1>1. PICK n \in Nat : n = Len(ss)
  OBVIOUS
<1> DEFINE P(k, f) == /\ f = [j \in 0 .. k |-> f[j]]
                      /\ f[0] = <<>>
                      /\ \A j \in 0 .. (k - 1) : f[j + 1] = f[j] \o ss[j + 1]
                      /\ \A j \in 0 .. k : f[j] \in Seq(C)
           S == {k \in Nat : k <= n => \E f : P(k, f)}
<1>2. 0 \in S
  <2> DEFINE f == [j \in 0 .. 0 |-> <<>>]
  <2>1. f[0] = <<>> /\ <<>> \in Seq(C)
    OBVIOUS
  <2>2. f = [j \in 0 .. 0 |-> f[j]]
    OBVIOUS
  <2> HIDE DEF f
  <2>3. 0 .. (0 - 1) = {} /\ 0 .. 0 = {0}
    OBVIOUS
  <2>4. \A j \in 0 .. 0 : f[j] \in Seq(C)
    BY <2>1, <2>3
  <2>5. \A j \in 0 .. (0 - 1) : f[j + 1] = f[j] \o ss[j + 1]
    BY <2>3
  <2>6. P(0, f)
    BY <2>1, <2>2, <2>4, <2>5
  <2> HIDE DEF P
  <2> QED BY <2>6
<1>3. ASSUME NEW k \in S PROVE k + 1 \in S
  <2> HIDE DEF P
  <2> SUFFICES ASSUME k + 1 <= n PROVE \E f : P(k + 1, f)
    OBVIOUS
  <2>1. PICK f : P(k, f)
    OBVIOUS
  <2>2. /\ f[0] = <<>> /\ \A j \in 0 .. (k - 1) : f[j + 1] = f[j] \o ss[j + 1]
        /\ \A j \in 0 .. k : f[j] \in Seq(C)
    BY <2>1 DEF P
  <2>3. k \in Nat /\ k \in 0 .. k /\ f[k] \in Seq(C) /\ ss[k + 1] \in Seq(C)
    BY <1>1, <2>2
  <2>4. PICK x : x = f[k] \o ss[k + 1]
    OBVIOUS
  <2>5. x \in Seq(C)
    BY <2>3, <2>4
  <2> DEFINE g == [j \in 0 .. (k + 1) |-> IF j = k + 1 THEN x ELSE f[j]]
  <2>6. \A j \in 0 .. k : g[j] = f[j]
    OBVIOUS
  <2>7. g[k + 1] = x /\ g = [j \in 0 .. (k + 1) |-> g[j]]
    OBVIOUS
  <2> HIDE DEF g
  <2>8. ASSUME NEW j \in 0 .. k PROVE g[j + 1] = g[j] \o ss[j + 1]
    <3>1. CASE j = k
      BY <2>4, <2>6, <2>7, <3>1
    <3>2. CASE j # k
      <4>1. j \in 0 .. (k - 1) /\ j + 1 \in 0 .. k
        BY <2>3, <3>2
      <4> QED BY <2>2, <2>6, <4>1
    <3> QED BY <3>1, <3>2
  <2>9. ASSUME NEW j \in 0 .. (k + 1) PROVE g[j] \in Seq(C)
    <3>1. CASE j = k + 1
      BY <2>5, <2>7, <3>1
    <3>2. CASE j # k + 1
      <4>1. j \in 0 .. k
        BY <2>3, <3>2
      <4> QED BY <2>2, <2>6, <4>1
    <3> QED BY <3>1, <3>2
  <2>10. g[0] = <<>> /\ (k + 1) - 1 = k
    BY <2>2, <2>3, <2>6
  <2>11. P(k + 1, g)
    BY <2>7, <2>8, <2>9, <2>10 DEF P
  <2> QED BY <2>11
<1>4. S = Nat
  <2> HIDE DEF S
  <2>1. S \in SUBSET Nat
    BY DEF S
  <2> QED BY <1>2, <1>3, <2>1, AllNumbers
<1> HIDE DEF P
<1>5. PICK f : P(n, f)
  <2> HIDE DEF S
  <2>1. n \in S
    BY <1>4
  <2> USE DEF S
  <2> QED BY <2>1
<1>6. /\ f = [j \in 0 .. n |-> f[j]] /\ f[0] = <<>>
      /\ \A j \in 0 .. (n - 1) : f[j + 1] = f[j] \o ss[j + 1]
      /\ \A j \in 0 .. n : f[j] \in Seq(C)
  BY <1>5 DEF P
<1>7. isFlat(f, ss)
  BY <1>1, <1>6 DEF isFlat
<1>8. FlattenSeq(ss) = f[n]
  <2>1. CASE n = 0
    <3>1. ss = <<>>
      BY <1>1, <2>1, NoneLeft
    <3> QED BY <1>1, <1>6, <2>1, <3>1 DEF FlattenSeq
  <2>2. CASE n # 0
    <3> DEFINE is(h) == h = [i \in 1 .. n |-> IF i = 1 THEN ss[i] ELSE h[i - 1] \o ss[i]]
               g == [i \in 1 .. n |-> f[i]]
    <3>1. ASSUME NEW i \in 1 .. n PROVE f[i] = IF i = 1 THEN ss[i] ELSE f[i - 1] \o ss[i]
      <4>1. i - 1 \in 0 .. (n - 1) /\ (i - 1) + 1 = i
        BY <2>2
      <4>2. f[i] = f[i - 1] \o ss[i]
        BY <1>6, <4>1
      <4>3. CASE i = 1
        <5>1. ss[1] \in Seq(C)
          BY <1>1, <2>2
        <5>2. <<>> \o ss[1] = ss[1]
          BY <5>1
        <5>3. f[i] = f[0] \o ss[1]
          BY <4>2, <4>3
        <5> QED BY <1>6, <4>3, <5>2, <5>3
      <4>4. CASE i # 1
        BY <4>2, <4>4
      <4> QED BY <4>3, <4>4
    <3>2. is(g)
      <4>1. ASSUME NEW i \in 1 .. n PROVE g[i] = IF i = 1 THEN ss[i] ELSE g[i - 1] \o ss[i]
        <5>1. i # 1 => i - 1 \in 1 .. n
          OBVIOUS
        <5> QED BY <3>1, <5>1
      <4>2. g = [i \in 1 .. n |-> g[i]]
        OBVIOUS
      <4> HIDE DEF g
      <4> QED BY <4>1, <4>2
    <3>3. PICK h : h = CHOOSE y : is(y)
      OBVIOUS
    <3>4. is(h)
      <4> HIDE DEF is, g
      <4> QED BY <3>2, <3>3
    <3>5. FlattenSeq(ss) = h[n]
      BY <1>1, <2>2, <3>3 DEF FlattenSeq
    <3>6. \A i \in 1 .. n : h[i] = IF i = 1 THEN ss[i] ELSE h[i - 1] \o ss[i]
      BY <3>4
    <3> HIDE DEF is
    <3> DEFINE T == {i \in Nat : i + 1 <= n => h[i + 1] = f[i + 1]}
    <3>7. 0 \in T
      <4>1. 1 \in 1 .. n
        BY <2>2
      <4> QED BY <3>1, <3>6, <4>1
    <3>8. ASSUME NEW i \in T PROVE i + 1 \in T
      <4> SUFFICES ASSUME (i + 1) + 1 <= n PROVE h[(i + 1) + 1] = f[(i + 1) + 1]
        OBVIOUS
      <4>1. PICK j \in 1 .. n : j = (i + 1) + 1
        OBVIOUS
      <4>2. j # 1 /\ j - 1 = i + 1 /\ h[i + 1] = f[i + 1]
        BY <4>1
      <4> QED BY <3>1, <3>6, <4>1, <4>2
    <3>9. T = Nat
      <4> HIDE DEF T
      <4>1. T \in SUBSET Nat
        BY DEF T
      <4> QED BY <3>7, <3>8, <4>1, AllNumbers
    <3>10. h[n] = f[n]
      <4>1. PICK m \in Nat : m = n - 1 /\ m + 1 = n
        BY <2>2
      <4>2. m \in T
        <5> HIDE DEF T
        <5> QED BY <3>9
      <4> QED BY <4>1, <4>2
    <3> QED BY <3>5, <3>10
  <2> QED BY <2>1, <2>2
<1> QED BY <1>1, <1>6, <1>7, <1>8

\* A text takes the parser from one state to another.
leads(p, text, q) ==
    \E g : /\ g = [k \in 0 .. Len(text) |-> g[k]]
           /\ g[0] = p
           /\ \A k \in 0 .. (Len(text) - 1) : g[k + 1] = parse(g[k], text[k + 1])
           /\ g[Len(text)] = q

\* One character after another.
LEMMA LeadsOne ==
    ASSUME NEW C, NEW c \in C, NEW p
    PROVE  leads(p, <<c>>, parse(p, c))
<1>1. PICK q : q = parse(p, c)
  OBVIOUS
<1> DEFINE g == [k \in 0 .. 1 |-> IF k = 0 THEN p ELSE q]
<1>2. g = [k \in 0 .. 1 |-> g[k]] /\ g[0] = p /\ g[1] = q
  OBVIOUS
<1> HIDE DEF g
<1>3. Len(<<c>>) = 1 /\ <<c>>[1] = c /\ 0 .. (1 - 1) = {0}
  OBVIOUS
<1>4. \A k \in 0 .. (1 - 1) : g[k + 1] = parse(g[k], <<c>>[k + 1])
  BY <1>1, <1>2, <1>3
<1>5. leads(p, <<c>>, q)
  BY <1>2, <1>3, <1>4 DEF leads
<1> QED BY <1>1, <1>5

\* Two texts one after the other.
LEMMA LeadsBoth ==
    ASSUME NEW C, NEW s \in Seq(C), NEW t \in Seq(C), NEW p, NEW q, NEW r,
           leads(p, s, q), leads(q, t, r)
    PROVE  leads(p, s \o t, r)
<1>1. PICK m \in Nat, n \in Nat : m = Len(s) /\ n = Len(t)
  OBVIOUS
<1>2. PICK g : /\ g[0] = p /\ g[m] = q
               /\ \A k \in 0 .. (m - 1) : g[k + 1] = parse(g[k], s[k + 1])
  BY <1>1 DEF leads
<1>3. PICK h : /\ h[0] = q /\ h[n] = r
               /\ \A k \in 0 .. (n - 1) : h[k + 1] = parse(h[k], t[k + 1])
  BY <1>1 DEF leads
<1>4. PICK u : u = s \o t
  OBVIOUS
<1>5. /\ Len(u) = m + n
      /\ \A k \in 1 .. m : u[k] = s[k]
      /\ \A k \in 1 .. n : u[m + k] = t[k]
  BY <1>1, <1>4
<1> DEFINE f == [k \in 0 .. (m + n) |-> IF k <= m THEN g[k] ELSE h[k - m]]
<1>6. /\ f = [k \in 0 .. (m + n) |-> f[k]]
      /\ \A k \in 0 .. m : f[k] = g[k]
  OBVIOUS
<1>7. \A k \in 0 .. n : f[m + k] = h[k]
  <2> SUFFICES ASSUME NEW k \in 0 .. n PROVE f[m + k] = h[k]
    OBVIOUS
  <2>1. CASE k = 0
    <3>1. f[m + k] = g[m]
      BY <2>1
    <3> QED BY <1>2, <1>3, <2>1, <3>1
  <2>2. CASE k # 0
    BY <2>2
  <2> QED BY <2>1, <2>2
<1> HIDE DEF f
<1>8. ASSUME NEW k \in 0 .. ((m + n) - 1) PROVE f[k + 1] = parse(f[k], u[k + 1])
  <2>1. CASE k < m
    <3>1. k \in 0 .. (m - 1) /\ k + 1 \in 1 .. m /\ k \in 0 .. m /\ k + 1 \in 0 .. m
      BY <2>1
    <3> QED BY <1>2, <1>5, <1>6, <3>1
  <2>2. CASE k >= m
    <3>1. PICK j \in 0 .. (n - 1) : k = m + j /\ k + 1 = m + (j + 1)
      BY <2>2
    <3>2. j \in 0 .. n /\ j + 1 \in 0 .. n /\ j + 1 \in 1 .. n
      BY <3>1
    <3>3. f[k] = h[j] /\ f[k + 1] = h[j + 1] /\ u[k + 1] = t[j + 1]
      BY <1>5, <1>7, <3>1, <3>2
    <3> QED BY <1>3, <3>1, <3>3
  <2> QED BY <2>1, <2>2
<1>9. f[0] = p /\ f[m + n] = r
  <2>1. 0 \in 0 .. m /\ n \in 0 .. n
    OBVIOUS
  <2> QED BY <1>2, <1>3, <1>6, <1>7, <2>1
<1>10. leads(p, u, r)
  BY <1>5, <1>6, <1>8, <1>9 DEF leads
<1> QED BY <1>4, <1>10

\* Where the parser begins.
AtStart == [rows |-> <<>>, row |-> <<>>, field |-> NoText, mode |-> "start"]

\* The rows that the parser has are those of the state that the text leads to.
LEMMA Parsed ==
    ASSUME NEW C, NEW text \in Seq(C), NEW q, leads(AtStart, text, q)
    PROVE  parsed(text) = Append(q.rows, Append(q.row, q.field))
<1>1. PICK n \in Nat : n = Len(text)
  OBVIOUS
<1>2. PICK g : /\ g = [k \in 0 .. n |-> g[k]]
               /\ g[0] = AtStart /\ g[n] = q
               /\ \A k \in 0 .. (n - 1) : g[k + 1] = parse(g[k], text[k + 1])
  BY <1>1 DEF leads
<1> DEFINE is(h) == h = [k \in 0 .. n |-> IF k = 0 THEN AtStart ELSE parse(h[k - 1], text[k])]
<1>3. is(g)
  <2>1. ASSUME NEW k \in 0 .. n PROVE g[k] = IF k = 0 THEN AtStart ELSE parse(g[k - 1], text[k])
    <3>1. CASE k = 0
      BY <1>2, <3>1
    <3>2. CASE k # 0
      <4>1. k - 1 \in 0 .. (n - 1) /\ (k - 1) + 1 = k
        BY <3>2
      <4>2. g[k] = parse(g[k - 1], text[k])
        BY <1>2, <4>1
      <4> QED BY <3>2, <4>2
    <3> QED BY <3>1, <3>2
  <2> QED BY <1>2, <2>1
<1>4. PICK h : h = CHOOSE y : is(y)
  OBVIOUS
<1>5. is(h)
  <2> HIDE DEF is
  <2> QED BY <1>3, <1>4
<1>6. \A k \in 0 .. n : h[k] = IF k = 0 THEN AtStart ELSE parse(h[k - 1], text[k])
  BY <1>5
<1>7. parsed(text) = Append(h[n].rows, Append(h[n].row, h[n].field))
  BY <1>1, <1>4 DEF parsed, AtStart
<1> HIDE DEF is
<1> DEFINE T == {k \in Nat : k <= n => h[k] = g[k]}
<1>8. 0 \in T
  BY <1>2, <1>6
<1>9. ASSUME NEW k \in T PROVE k + 1 \in T
  <2> SUFFICES ASSUME k + 1 <= n PROVE h[k + 1] = g[k + 1]
    OBVIOUS
  <2>1. h[k] = g[k] /\ k \in 0 .. (n - 1)
    OBVIOUS
  <2>2. PICK j \in 0 .. n : j = k + 1 /\ j # 0 /\ j - 1 = k
    BY <2>1
  <2>3. h[j] = parse(h[k], text[j])
    BY <1>6, <2>2
  <2> QED BY <1>2, <2>1, <2>2, <2>3
<1>10. n \in T
  <2> HIDE DEF T
  <2>1. T \in SUBSET Nat
    BY DEF T
  <2> QED BY <1>8, <1>9, <2>1, AllNumbers
<1>11. h[n] = q
  BY <1>2, <1>10
<1> QED BY <1>7, <1>11

\* A state of the parser.
at(rows, row, null, text, mode) ==
    [rows |-> rows, row |-> row, field |-> [null |-> null, text |-> text], mode |-> mode]

\* The characters of the model are told apart.
LEMMA Characters ==
    /\ Tab # NewLine /\ Tab # Quote /\ Tab # Backslash
    /\ NewLine # Quote /\ NewLine # Backslash /\ Quote # Backslash
    /\ Blank # Zero
  BY DEF Char, Tab, NewLine, Quote, Backslash, Blank, Zero

\* In a quoted string only the quote and the backslash mean something.
LEMMA ParseQuoted ==
    ASSUME NEW R, NEW r, NEW t
    PROVE  /\ parse(at(R, r, FALSE, t, "start"), Quote) = at(R, r, FALSE, t, "quoted")
           /\ parse(at(R, r, FALSE, t, "quoted"), Quote) = at(R, r, FALSE, t, "closed")
           /\ parse(at(R, r, FALSE, t, "quoted"), Backslash) = at(R, r, FALSE, t, "escaped")
<1>1. parse(at(R, r, FALSE, t, "start"), Quote) = at(R, r, FALSE, t, "quoted")
  BY Characters DEF parse, at
<1>2. parse(at(R, r, FALSE, t, "quoted"), Quote) = at(R, r, FALSE, t, "closed")
  BY Characters DEF parse, at
<1>3. parse(at(R, r, FALSE, t, "quoted"), Backslash) = at(R, r, FALSE, t, "escaped")
  BY Characters DEF parse, at
<1> QED BY <1>1, <1>2, <1>3

\* A set that has 1 and with every number below n the next one has all up to n.
LEMMA UpTo ==
    ASSUME NEW n \in Nat, NEW S, n # 0, 1 \in S, \A k \in 1 .. (n - 1) : k \in S => k + 1 \in S
    PROVE  n \in S
<1> DEFINE T == {k \in Nat : k + 1 <= n => k + 1 \in S}
<1>1. 0 \in T
  OBVIOUS
<1>2. ASSUME NEW k \in T PROVE k + 1 \in T
  <2> SUFFICES ASSUME (k + 1) + 1 <= n PROVE (k + 1) + 1 \in S
    OBVIOUS
  <2>1. k + 1 \in 1 .. (n - 1) /\ k + 1 \in S
    OBVIOUS
  <2> QED BY <2>1
<1>3. PICK m \in Nat : m + 1 = n
  <2>1. n - 1 \in Nat /\ (n - 1) + 1 = n
    OBVIOUS
  <2> QED BY <2>1
<1>4. m \in T
  <2> HIDE DEF T
  <2>1. T \in SUBSET Nat
    BY DEF T
  <2> QED BY <1>1, <1>2, <2>1, AllNumbers
<1> QED BY <1>3, <1>4

\* Texts that take the parser from one state to another, and the separator from
\* there to the state before the next text: joined they take it all the way.
LEMMA JoinedLeads ==
    ASSUME NEW C, NEW separator \in C, NEW n \in Nat, n # 0,
           NEW texts, texts = [k \in 1 .. n |-> texts[k]], \A k \in 1 .. n : texts[k] \in Seq(C),
           NEW a, NEW b, \A k \in 1 .. n : leads(b[k], texts[k], a[k]),
           \A k \in 1 .. (n - 1) : parse(a[k], separator) = b[k + 1]
    PROVE  joined(texts, separator) \in Seq(C) /\ leads(b[1], joined(texts, separator), a[n])
<1>1. PICK one \in Seq(C) : one = <<separator>>
  <2>1. <<separator>> \in Seq(C)
    OBVIOUS
  <2> QED BY <2>1
<1> DEFINE ss == [k \in 1 .. n |-> IF k = 1 THEN texts[k] ELSE one \o texts[k]]
<1>2. \A k \in 1 .. n : ss[k] \in Seq(C)
  <2> SUFFICES ASSUME NEW k \in 1 .. n PROVE (IF k = 1 THEN texts[k] ELSE one \o texts[k]) \in Seq(C)
    OBVIOUS
  <2>1. texts[k] \in Seq(C) /\ one \o texts[k] \in Seq(C)
    BY <1>1
  <2> QED BY <2>1
<1>3. ss[1] = texts[1] /\ \A k \in 1 .. n : k # 1 => ss[k] = one \o texts[k]
  OBVIOUS
<1>4. joined(texts, separator) = FlattenSeq(ss)
  <2>1. DOMAIN texts = 1 .. n
    OBVIOUS
  <2> QED BY <1>1, <2>1 DEF joined
<1>5. ss \in Seq(Seq(C)) /\ Len(ss) = n
  <2>1. ss \in [1 .. n -> Seq(C)]
    <3>1. ss = [k \in 1 .. n |-> ss[k]]
      OBVIOUS
    <3> HIDE DEF ss
    <3> QED BY <1>2, <3>1
  <2> HIDE DEF ss
  <2> QED BY <2>1
<1> HIDE DEF ss
<1>6. PICK f : isFlat(f, ss) /\ (\A k \in 0 .. n : f[k] \in Seq(C)) /\ FlattenSeq(ss) = f[n]
  BY <1>5, Flattened
<1>7. f[0] = <<>> /\ \A k \in 0 .. (n - 1) : f[k + 1] = f[k] \o ss[k + 1]
  BY <1>5, <1>6 DEF isFlat
<1>8. f[1] = texts[1]
  <2>1. 1 \in 1 .. n /\ 0 \in 0 .. (n - 1) /\ 0 + 1 = 1
    OBVIOUS
  <2>2. f[1] = <<>> \o ss[1] /\ texts[1] \in Seq(C)
    BY <1>7, <2>1
  <2> QED BY <1>3, <2>2
<1> DEFINE S == {k \in 1 .. n : leads(b[1], f[k], a[k])}
<1>9. 1 \in S
  <2>1. 1 \in 1 .. n
    OBVIOUS
  <2> QED BY <1>8, <2>1
<1>10. ASSUME NEW k \in 1 .. (n - 1), k \in S PROVE k + 1 \in S
  <2>1. /\ k + 1 \in 1 .. n /\ k \in 0 .. (n - 1) /\ k + 1 # 1 /\ k \in 0 .. n
        /\ k + 1 \in Nat
    OBVIOUS
  <2>2. f[k + 1] = f[k] \o (one \o texts[k + 1])
    BY <1>3, <1>7, <2>1
  <2>3. leads(a[k], one, b[k + 1])
    <3>1. parse(a[k], separator) = b[k + 1]
      BY <1>10
    <3> QED BY <1>1, <3>1, LeadsOne
  <2>4. texts[k + 1] \in Seq(C) /\ leads(b[k + 1], texts[k + 1], a[k + 1])
    BY <2>1
  <2>5. leads(a[k], one \o texts[k + 1], a[k + 1])
    BY <1>1, <2>3, <2>4, LeadsBoth
  <2>6. one \o texts[k + 1] \in Seq(C) /\ f[k] \in Seq(C) /\ leads(b[1], f[k], a[k])
    BY <1>1, <1>6, <1>10, <2>1, <2>4
  <2>7. leads(b[1], f[k] \o (one \o texts[k + 1]), a[k + 1])
    BY <2>5, <2>6, LeadsBoth
  <2> QED BY <2>1, <2>2, <2>7
<1>11. n \in S
  <2> HIDE DEF S
  <2> QED BY <1>9, <1>10, UpTo
<1>12. f[n] \in Seq(C)
  <2>1. n \in 0 .. n
    OBVIOUS
  <2> QED BY <1>6, <2>1
<1> QED BY <1>4, <1>6, <1>11, <1>12

\* A sequence as far as one place further.
LEMMA Longer ==
    ASSUME NEW C, NEW s \in Seq(C), NEW k \in 0 .. (Len(s) - 1)
    PROVE  Append(SubSeq(s, 1, k), s[k + 1]) = SubSeq(s, 1, k + 1)
<1>1. 1 \in 1 .. (Len(s) + 1) /\ k + 1 \in 1 .. Len(s) /\ k \in Nat /\ Len(s) \in Nat
  OBVIOUS
<1>2. SubSeq(s, 1, k + 1) \in Seq(C) /\ SubSeq(s, 1, k) \in Seq(C) /\ s[k + 1] \in C
  BY <1>1
<1>3. /\ Len(SubSeq(s, 1, k + 1)) = k + 1 /\ Len(SubSeq(s, 1, k)) = k
      /\ \A i \in 1 .. (k + 1) : SubSeq(s, 1, k + 1)[i] = s[i]
      /\ \A i \in 1 .. k : SubSeq(s, 1, k)[i] = s[i]
  BY <1>1
<1>4. PICK u \in Seq(C) : u = SubSeq(s, 1, k)
  BY <1>2
<1>5. /\ Append(u, s[k + 1]) \in Seq(C) /\ Len(Append(u, s[k + 1])) = k + 1
      /\ \A i \in 1 .. k : Append(u, s[k + 1])[i] = u[i]
      /\ Append(u, s[k + 1])[k + 1] = s[k + 1]
  BY <1>1, <1>2, <1>3, <1>4
<1>6. ASSUME NEW i \in 1 .. (k + 1) PROVE Append(u, s[k + 1])[i] = SubSeq(s, 1, k + 1)[i]
  BY <1>1, <1>3, <1>4, <1>5
<1> QED BY <1>2, <1>3, <1>4, <1>5, <1>6, SeqEqual

\* std::quoted undone: whatever characters a string has, the parser gets them back.
LEMMA QuotedLeads ==
    ASSUME NEW C, Quote \in C, Backslash \in C, NEW s \in Seq(C), NEW R, NEW r
    PROVE  /\ quoted(s) \in Seq(C)
           /\ leads(at(R, r, FALSE, <<>>, "start"), quoted(s), at(R, r, FALSE, s, "closed"))
<1>1. PICK one \in Seq(C) : one = <<Quote>>
  <2>1. ASSUME NEW c \in C PROVE <<c>> \in Seq(C)
    OBVIOUS
  <2> QED BY <2>1
<1>2. PICK n \in Nat : n = Len(s)
  OBVIOUS
<1> DEFINE part(c) == IF c \in {Quote, Backslash} THEN <<Backslash, c>> ELSE <<c>>
           ss == [k \in 1 .. n |-> part(s[k])]
           inside(t) == at(R, r, FALSE, t, "quoted")
<1>3. ASSUME NEW c \in C, NEW t PROVE part(c) \in Seq(C) /\ leads(inside(t), part(c), inside(Append(t, c)))
  <2>1. CASE c \in {Quote, Backslash}
    <3>1. PICK d \in C : d = Backslash
      OBVIOUS
    <3>2. part(c) = <<d>> \o <<c>> /\ <<d>> \in Seq(C) /\ <<c>> \in Seq(C) /\ <<d>> \o <<c>> \in Seq(C)
      BY <2>1, <3>1
    <3>3. leads(inside(t), <<d>>, at(R, r, FALSE, t, "escaped"))
      BY <3>1, LeadsOne, ParseQuoted
    <3>4. leads(at(R, r, FALSE, t, "escaped"), <<c>>, inside(Append(t, c)))
      <4>1. PICK p : p = at(R, r, FALSE, t, "escaped")
        OBVIOUS
      <4>2. parse(p, c) = inside(Append(t, c))
        BY <4>1, Characters DEF parse, at
      <4>3. leads(p, <<c>>, parse(p, c))
        BY LeadsOne
      <4> QED BY <4>1, <4>2, <4>3
    <3> HIDE DEF part, inside
    <3> QED BY <3>2, <3>3, <3>4, LeadsBoth
  <2>2. CASE c \notin {Quote, Backslash}
    <3>1. part(c) = <<c>> /\ <<c>> \in Seq(C)
      BY <2>2
    <3>2. leads(inside(t), <<c>>, inside(Append(t, c)))
      <4>1. PICK p : p = inside(t)
        OBVIOUS
      <4>2. parse(p, c) = inside(Append(t, c))
        BY <2>2, <4>1, Characters DEF parse, at
      <4>3. leads(p, <<c>>, parse(p, c))
        BY LeadsOne
      <4> QED BY <4>1, <4>2, <4>3
    <3> QED BY <3>1, <3>2
  <2> QED BY <2>1, <2>2
<1>4. quoted(s) = (one \o FlattenSeq(ss)) \o one
  <2>1. DOMAIN s = 1 .. n
    BY <1>2
  <2> QED BY <1>1, <2>1 DEF quoted
<1>5. \A k \in 1 .. n : s[k] \in C /\ ss[k] = part(s[k])
  BY <1>2
<1> HIDE DEF part
<1>6. ss \in Seq(Seq(C)) /\ Len(ss) = n
  <2>1. ss \in [1 .. n -> Seq(C)]
    BY <1>3, <1>5
  <2> HIDE DEF ss
  <2> QED BY <2>1
<1> HIDE DEF ss
<1>7. PICK f : isFlat(f, ss) /\ (\A k \in 0 .. n : f[k] \in Seq(C)) /\ FlattenSeq(ss) = f[n]
  BY <1>6, Flattened
<1>8. f[0] = <<>> /\ \A k \in 0 .. (n - 1) : f[k + 1] = f[k] \o ss[k + 1]
  BY <1>6, <1>7 DEF isFlat
<1> DEFINE Q(k) == leads(at(R, r, FALSE, <<>>, "start"), one \o f[k], inside(SubSeq(s, 1, k)))
           S == {k \in Nat : k <= n => Q(k)}
<1> HIDE DEF inside, Q
<1>9. leads(at(R, r, FALSE, <<>>, "start"), one, inside(<<>>))
  BY <1>1, LeadsOne, ParseQuoted DEF inside
<1>10. 0 \in S
  <2>1. one \o f[0] = one /\ SubSeq(s, 1, 0) = <<>>
    BY <1>8, ConcatEmptySeq
  <2>2. Q(0)
    BY <1>9, <2>1 DEF Q
  <2> QED BY <2>2
<1>11. ASSUME NEW k \in S PROVE k + 1 \in S
  <2> SUFFICES ASSUME k + 1 <= n PROVE Q(k + 1)
    OBVIOUS
  <2>1. k \in Nat /\ k \in 0 .. (n - 1) /\ k + 1 \in 1 .. n /\ k \in 0 .. n /\ k <= n
    OBVIOUS
  <2>2. s[k + 1] \in C /\ f[k] \in Seq(C) /\ ss[k + 1] = part(s[k + 1])
    BY <1>5, <1>7, <2>1
  <2>3. part(s[k + 1]) \in Seq(C)
    BY <1>3, <2>2
  <2>4. f[k + 1] = f[k] \o part(s[k + 1])
    BY <1>8, <2>1, <2>2
  <2>5. one \o f[k + 1] = (one \o f[k]) \o part(s[k + 1])
    <3>1. PICK x \in Seq(C), y \in Seq(C) : x = f[k] /\ y = part(s[k + 1])
      BY <2>2, <2>3
    <3>2. (one \o x) \o y = one \o (x \o y)
      BY ConcatAssociative
    <3> QED BY <2>4, <3>1, <3>2
  <2>6. Append(SubSeq(s, 1, k), s[k + 1]) = SubSeq(s, 1, k + 1)
    BY <1>2, <2>1, Longer
  <2>7. leads(inside(SubSeq(s, 1, k)), part(s[k + 1]), inside(SubSeq(s, 1, k + 1)))
    BY <1>3, <2>2, <2>6
  <2>8. Q(k)
    BY <2>1
  <2>9. one \o f[k] \in Seq(C)
    BY <1>1, <2>2
  <2>10. leads(at(R, r, FALSE, <<>>, "start"), one \o f[k], inside(SubSeq(s, 1, k)))
    BY <2>8 DEF Q
  <2> QED BY <2>3, <2>5, <2>7, <2>9, <2>10, LeadsBoth DEF Q
<1>12. n \in S
  <2> HIDE DEF S
  <2>1. S \in SUBSET Nat
    BY DEF S
  <2> QED BY <1>10, <1>11, <2>1, AllNumbers
<1>13. leads(at(R, r, FALSE, <<>>, "start"), one \o f[n], inside(s))
  <2>1. SubSeq(s, 1, n) = s
    BY <1>2, SubSeqFull
  <2>2. Q(n)
    BY <1>12
  <2> QED BY <2>1, <2>2 DEF Q
<1>14. leads(inside(s), one, at(R, r, FALSE, s, "closed"))
  BY <1>1, LeadsOne, ParseQuoted DEF inside
<1>15. one \o f[n] \in Seq(C) /\ (one \o f[n]) \o one \in Seq(C)
  <2>1. n \in 0 .. n
    OBVIOUS
  <2>2. f[n] \in Seq(C)
    BY <1>7, <2>1
  <2> QED BY <1>1, <2>2
<1>16. leads(at(R, r, FALSE, <<>>, "start"), (one \o f[n]) \o one, at(R, r, FALSE, s, "closed"))
  BY <1>13, <1>14, <1>15, LeadsBoth
<1> QED BY <1>4, <1>7, <1>15, <1>16

\* A text that the parser reads as one field.
reads(text, f, mode) ==
    \A R, r : leads(at(R, r, FALSE, <<>>, "start"), text, at(R, r, f.null, f.text, mode))

\* The record of a field.
isField(f) == f = [null |-> f.null, text |-> f.text]

\* A sequence given by its elements, and one element more.
LEMMA Grown ==
    ASSUME NEW f, NEW i \in Nat
    PROVE  Append([j \in 1 .. i |-> f[j]], f[i + 1]) = [j \in 1 .. (i + 1) |-> f[j]]
<1> DEFINE S == {f[j] : j \in 1 .. (i + 1)}
           u == [j \in 1 .. i |-> f[j]]
           v == [j \in 1 .. (i + 1) |-> f[j]]
<1>1. \A j \in 1 .. (i + 1) : f[j] \in S
  OBVIOUS
<1>2. i + 1 \in 1 .. (i + 1) /\ \A j \in 1 .. i : j \in 1 .. (i + 1)
  OBVIOUS
<1> HIDE DEF S
<1>3. u \in [1 .. i -> S] /\ v \in [1 .. (i + 1) -> S] /\ f[i + 1] \in S
  BY <1>1, <1>2
<1>4. (\A j \in 1 .. i : u[j] = f[j]) /\ \A j \in 1 .. (i + 1) : v[j] = f[j]
  OBVIOUS
<1> HIDE DEF u, v
<1>5. u \in Seq(S) /\ Len(u) = i /\ v \in Seq(S) /\ Len(v) = i + 1
  BY <1>3
<1>6. /\ Append(u, f[i + 1]) \in Seq(S) /\ Len(Append(u, f[i + 1])) = i + 1
      /\ \A j \in 1 .. i : Append(u, f[i + 1])[j] = u[j]
      /\ Append(u, f[i + 1])[i + 1] = f[i + 1]
  BY <1>3, <1>5, AppendProperties
<1>7. ASSUME NEW j \in 1 .. (i + 1) PROVE Append(u, f[i + 1])[j] = v[j]
  BY <1>2, <1>4, <1>6
<1>8. Append(u, f[i + 1]) = v
  BY <1>5, <1>6, <1>7, SeqEqual
<1> QED BY <1>8 DEF u, v

\* Texts joined by tabs are read as a row of their fields.
LEMMA RowLeads ==
    ASSUME NEW C, Tab \in C, NEW n \in Nat, n # 0,
           NEW texts, texts = [i \in 1 .. n |-> texts[i]], NEW f, NEW m,
           \A i \in 1 .. n : /\ texts[i] \in Seq(C) /\ isField(f[i])
                             /\ m[i] \in {"closed", "plain"} /\ reads(texts[i], f[i], m[i]),
           NEW R
    PROVE  /\ joined(texts, Tab) \in Seq(C)
           /\ leads(at(R, <<>>, FALSE, <<>>, "start"), joined(texts, Tab),
                    at(R, [j \in 1 .. (n - 1) |-> f[j]], f[n].null, f[n].text, m[n]))
<1> DEFINE row(k) == [j \in 1 .. k |-> f[j]]
           a == [i \in 1 .. n |-> at(R, row(i - 1), f[i].null, f[i].text, m[i])]
           b == [i \in 1 .. n |-> at(R, row(i - 1), FALSE, <<>>, "start")]
<1>1. \A i \in 1 .. n : /\ a[i] = at(R, row(i - 1), f[i].null, f[i].text, m[i])
                        /\ b[i] = at(R, row(i - 1), FALSE, <<>>, "start")
  OBVIOUS
<1>2. \A i \in Nat : Append(row(i), f[i + 1]) = row(i + 1)
  BY Grown
<1>3. row(0) = <<>>
  OBVIOUS
<1> HIDE DEF a, b, row
<1>4. ASSUME NEW i \in 1 .. n PROVE leads(b[i], texts[i], a[i])
  BY <1>1 DEF reads
<1>5. ASSUME NEW i \in 1 .. (n - 1) PROVE parse(a[i], Tab) = b[i + 1]
  <2>1. /\ i \in 1 .. n /\ i + 1 \in 1 .. n /\ i - 1 \in Nat /\ (i - 1) + 1 = i
        /\ (i + 1) - 1 = i
    OBVIOUS
  <2>2. parse(a[i], Tab) =
            at(R, Append(row(i - 1), [null |-> f[i].null, text |-> f[i].text]), FALSE, <<>>, "start")
    <3>1. PICK x, y, z, mode : x = row(i - 1) /\ y = f[i].null /\ z = f[i].text /\ mode = m[i]
      OBVIOUS
    <3>2. mode \in {"closed", "plain"} /\ a[i] = at(R, x, y, z, mode)
      BY <1>1, <2>1, <3>1
    <3>3. parse(at(R, x, y, z, mode), Tab) =
              at(R, Append(x, [null |-> y, text |-> z]), FALSE, <<>>, "start")
      BY <3>2, Characters DEF parse, at, NoText
    <3> QED BY <3>1, <3>2, <3>3
  <2>3. [null |-> f[i].null, text |-> f[i].text] = f[i]
    BY <2>1 DEF isField
  <2>4. Append(row(i - 1), f[i]) = row(i)
    BY <1>2, <2>1
  <2>5. b[i + 1] = at(R, row(i), FALSE, <<>>, "start")
    BY <1>1, <2>1
  <2> QED BY <2>2, <2>3, <2>4, <2>5
<1>6. joined(texts, Tab) \in Seq(C) /\ leads(b[1], joined(texts, Tab), a[n])
  BY <1>4, <1>5, JoinedLeads
<1>7. 1 \in 1 .. n /\ n \in 1 .. n /\ 1 - 1 = 0
  OBVIOUS
<1>8. /\ b[1] = at(R, <<>>, FALSE, <<>>, "start")
      /\ a[n] = at(R, row(n - 1), f[n].null, f[n].text, m[n])
  BY <1>1, <1>3, <1>7
<1> QED BY <1>6, <1>8 DEF row

\* The lines of a text, each one the texts of its fields.
linesOf(C, m, n, line, f, mode, ll) ==
    /\ ll = [k \in 1 .. m |-> joined(line[k], Tab)]
    /\ f = [k \in 1 .. m |-> f[k]]
    /\ \A k \in 1 .. m :
        /\ line[k] = [i \in 1 .. n |-> line[k][i]] /\ f[k] = [i \in 1 .. n |-> f[k][i]]
        /\ \A i \in 1 .. n :
            /\ line[k][i] \in Seq(C) /\ isField(f[k][i])
            /\ mode[k][i] \in {"closed", "plain"} /\ reads(line[k][i], f[k][i], mode[k][i])

\* Rows joined by the ends of lines are read as those rows, so that neither the
\* last field nor the last row is lost.
LEMMA TextParsed ==
    ASSUME NEW C, Tab \in C, NewLine \in C, NEW m \in Nat, m # 0, NEW n \in Nat, n # 0,
           NEW line, NEW f, NEW mode, NEW ll,
           linesOf(C, m, n, line, f, mode, ll)
    PROVE  joined(ll, NewLine) \in Seq(C) /\ parsed(joined(ll, NewLine)) = f
<1> DEFINE row == f
           rows(k) == [j \in 1 .. k |-> row[j]]
           a == [k \in 1 .. m |-> at(rows(k - 1), [i \in 1 .. (n - 1) |-> f[k][i]],
                                     f[k][n].null, f[k][n].text, mode[k][n])]
           b == [k \in 1 .. m |-> at(rows(k - 1), <<>>, FALSE, <<>>, "start")]
<1> USE DEF linesOf
<1>1. ASSUME NEW k \in 1 .. m, NEW R
      PROVE  /\ joined(line[k], Tab) \in Seq(C)
             /\ leads(at(R, <<>>, FALSE, <<>>, "start"), joined(line[k], Tab),
                      at(R, [i \in 1 .. (n - 1) |-> f[k][i]], f[k][n].null, f[k][n].text, mode[k][n]))
  <2>1. PICK t, g, h : t = line[k] /\ g = f[k] /\ h = mode[k]
    OBVIOUS
  <2>2. t = [i \in 1 .. n |-> t[i]] /\ \A i \in 1 .. n : t[i] = line[k][i]
    BY <2>1
  <2>3. \A i \in 1 .. n : /\ t[i] \in Seq(C) /\ isField(g[i])
                          /\ h[i] \in {"closed", "plain"} /\ reads(t[i], g[i], h[i])
    BY <2>1, <2>2
  <2>4. /\ joined(t, Tab) \in Seq(C)
        /\ leads(at(R, <<>>, FALSE, <<>>, "start"), joined(t, Tab),
                 at(R, [j \in 1 .. (n - 1) |-> g[j]], g[n].null, g[n].text, h[n]))
    BY <2>2, <2>3, RowLeads
  <2> QED BY <2>1, <2>4
<1>2. \A k \in 1 .. m : /\ ll[k] = joined(line[k], Tab)
                        /\ row[k] = [i \in 1 .. n |-> f[k][i]]
                        /\ a[k] = at(rows(k - 1), [i \in 1 .. (n - 1) |-> f[k][i]],
                                     f[k][n].null, f[k][n].text, mode[k][n])
                        /\ b[k] = at(rows(k - 1), <<>>, FALSE, <<>>, "start")
  OBVIOUS
<1>3. ll = [k \in 1 .. m |-> ll[k]] /\ row = [k \in 1 .. m |-> row[k]]
  OBVIOUS
<1> HIDE DEF row, a, b
<1>5. \A k \in Nat : Append(rows(k), row[k + 1]) = rows(k + 1)
  BY Grown
<1>6. rows(0) = <<>> /\ rows(m) = row
  BY <1>3
<1> HIDE DEF rows
<1>7. ASSUME NEW k \in 1 .. m PROVE ll[k] \in Seq(C) /\ leads(b[k], ll[k], a[k])
  BY <1>1, <1>2
<1>8. ASSUME NEW k \in 1 .. m
      PROVE  Append([i \in 1 .. (n - 1) |-> f[k][i]], [null |-> f[k][n].null, text |-> f[k][n].text])
                 = row[k]
  <2>1. PICK g : g = f[k]
    OBVIOUS
  <2>2. n - 1 \in Nat /\ (n - 1) + 1 = n /\ n \in 1 .. n
    OBVIOUS
  <2>3. Append([i \in 1 .. (n - 1) |-> g[i]], g[n]) = [i \in 1 .. n |-> g[i]]
    BY <2>2, Grown
  <2>4. g[n] = [null |-> g[n].null, text |-> g[n].text]
    BY <2>1, <2>2 DEF isField
  <2> QED BY <1>2, <2>1, <2>3, <2>4
<1>9. ASSUME NEW k \in 1 .. (m - 1) PROVE parse(a[k], NewLine) = b[k + 1]
  <2>1. /\ k \in 1 .. m /\ k + 1 \in 1 .. m /\ k - 1 \in Nat /\ (k - 1) + 1 = k
        /\ (k + 1) - 1 = k /\ n \in 1 .. n
    OBVIOUS
  <2>2. mode[k][n] \in {"closed", "plain"}
    BY <2>1
  <2>3. parse(a[k], NewLine) = at(Append(rows(k - 1), row[k]), <<>>, FALSE, <<>>, "start")
    <3>1. PICK x, y, z, w, u : /\ x = rows(k - 1) /\ y = f[k][n].null /\ z = f[k][n].text
                               /\ w = mode[k][n] /\ u = [i \in 1 .. (n - 1) |-> f[k][i]]
      OBVIOUS
    <3>2. w \in {"closed", "plain"} /\ a[k] = at(x, u, y, z, w)
      BY <1>2, <2>1, <2>2, <3>1
    <3>3. parse(at(x, u, y, z, w), NewLine) =
              at(Append(x, Append(u, [null |-> y, text |-> z])), <<>>, FALSE, <<>>, "start")
      BY <3>2, Characters DEF parse, at, NoText
    <3>4. Append(u, [null |-> y, text |-> z]) = row[k]
      BY <1>8, <2>1, <3>1
    <3> QED BY <3>1, <3>2, <3>3, <3>4
  <2>4. Append(rows(k - 1), row[k]) = rows(k)
    BY <1>5, <2>1
  <2>5. b[k + 1] = at(rows(k), <<>>, FALSE, <<>>, "start")
    BY <1>2, <2>1
  <2> QED BY <2>3, <2>4, <2>5
<1> HIDE DEF linesOf
<1>10. joined(ll, NewLine) \in Seq(C) /\ leads(b[1], joined(ll, NewLine), a[m])
  BY <1>3, <1>7, <1>9, JoinedLeads
<1>11. 1 \in 1 .. m /\ m \in 1 .. m /\ 1 - 1 = 0 /\ m - 1 \in Nat /\ (m - 1) + 1 = m
  OBVIOUS
<1>12. b[1] = AtStart
  <2>1. b[1] = at(rows(1 - 1), <<>>, FALSE, <<>>, "start")
    BY <1>2, <1>11
  <2>2. rows(1 - 1) = <<>>
    BY <1>6, <1>11
  <2> QED BY <2>1, <2>2 DEF AtStart, at, NoText
<1>13. parsed(joined(ll, NewLine)) = Append(a[m].rows, Append(a[m].row, a[m].field))
  BY <1>10, <1>12, Parsed
<1>14. /\ a[m].rows = rows(m - 1) /\ a[m].row = [i \in 1 .. (n - 1) |-> f[m][i]]
       /\ a[m].field = [null |-> f[m][n].null, text |-> f[m][n].text]
  <2>1. PICK x, y, z, w, u : /\ x = rows(m - 1) /\ y = f[m][n].null /\ z = f[m][n].text
                             /\ w = mode[m][n] /\ u = [i \in 1 .. (n - 1) |-> f[m][i]]
    OBVIOUS
  <2>2. a[m] = at(x, u, y, z, w)
    BY <1>2, <1>11, <2>1
  <2>3. /\ at(x, u, y, z, w).rows = x /\ at(x, u, y, z, w).row = u
        /\ at(x, u, y, z, w).field = [null |-> y, text |-> z]
    BY DEF at
  <2> QED BY <2>1, <2>2, <2>3
<1>15. parsed(joined(ll, NewLine)) = row
  BY <1>5, <1>6, <1>8, <1>11, <1>13, <1>14
<1> QED BY <1>10, <1>15 DEF row

\* The field that the parser makes of the text of a cell.
parsedAs(column, cell) ==
    IF isNull(column, cell) THEN [null |-> TRUE, text |-> <<>>]
    ELSE [null |-> FALSE,
          text |-> IF column.type \in {"Fixed", "Variable"} THEN cell ELSE field(column, cell)]

\* Two characters in one text.
LEMMA LeadsTwo ==
    ASSUME NEW C, NEW c \in C, NEW d \in C, NEW p
    PROVE  <<c, d>> \in Seq(C) /\ leads(p, <<c, d>>, parse(parse(p, c), d))
<1>1. <<c>> \in Seq(C) /\ <<d>> \in Seq(C) /\ <<c>> \o <<d>> = <<c, d>> /\ <<c, d>> \in Seq(C)
  <2>1. <<c>> \in Seq(C)
    OBVIOUS
  <2>2. <<d>> \in Seq(C)
    OBVIOUS
  <2>3. PICK u \in Seq(C), v \in Seq(C) : u = <<c>> /\ v = <<d>>
    BY <2>1, <2>2
  <2>4. Len(u) = 1 /\ u[1] = c /\ Len(v) = 1 /\ v[1] = d
    BY <2>3
  <2>5. PICK w : w = u \o v
    OBVIOUS
  <2>6. w \in Seq(C) /\ Len(w) = 1 + 1 /\ \A i \in 1 .. (1 + 1) : w[i] = IF i <= 1 THEN u[i] ELSE v[i - 1]
    BY <2>4, <2>5, ConcatProperties
  <2>7. w[1] = c /\ w[2] = d /\ Len(w) = 2
    BY <2>4, <2>6
  <2>8. PICK x \in Seq(C) : x = <<c, d>>
    <3>1. <<c, d>> \in Seq(C)
      OBVIOUS
    <3> QED BY <3>1
  <2>9. Len(x) = 2 /\ x[1] = c /\ x[2] = d
    BY <2>8
  <2>10. ASSUME NEW i \in 1 .. Len(w) PROVE w[i] = x[i]
    <3>1. i = 1 \/ i = 2
      BY <2>7
    <3> QED BY <2>7, <2>9, <3>1
  <2>11. w = x
    BY <2>6, <2>7, <2>9, <2>10, SeqEqual
  <2> QED BY <2>1, <2>2, <2>3, <2>5, <2>8, <2>11
<1>2. leads(p, <<c>>, parse(p, c)) /\ leads(parse(p, c), <<d>>, parse(parse(p, c), d))
  BY LeadsOne
<1> QED BY <1>1, <1>2, LeadsBoth

\* Number and times are characters of their own.
LEMMA PlainField ==
    ASSUME NEW column, NEW cell, column.type \notin {"Fixed", "Variable"}, ~isNull(column, cell)
    PROVE  \E c : field(column, cell) = <<c>> /\ c \notin {Tab, NewLine, Quote, Backslash}
<1>1. ASSUME NEW kind \in {"DateTime", "Date", "Time", "number"}, NEW x
      PROVE  <<kind, x>> \notin {Tab, NewLine, Quote, Backslash}
  BY DEF Tab, NewLine, Quote, Backslash, Char
<1>2. CASE column.type = "DateTime"
  <2>1. field(column, cell) = <<<<"DateTime", fromDateTimeCAS(cell)>>>>
    BY <1>2 DEF field
  <2> QED BY <1>1, <2>1
<1>3. CASE column.type = "Date"
  <2>1. field(column, cell) = <<<<"Date", fromDateCAS(cell)>>>>
    BY <1>3 DEF field
  <2> QED BY <1>1, <2>1
<1>4. CASE column.type = "Time"
  <2>1. field(column, cell) = <<<<"Time", fromTimeCAS(cell)>>>>
    BY <1>4 DEF field
  <2> QED BY <1>1, <2>1
<1>5. CASE column.type \notin {"DateTime", "Date", "Time"}
  <2>1. field(column, cell) = <<<<"number", cell>>>>
    BY <1>5 DEF field
  <2> QED BY <1>1, <2>1
<1> QED BY <1>2, <1>3, <1>4, <1>5

\* The text of a cell is read as its field.
LEMMA FieldReads ==
    ASSUME NEW C, Quote \in C, Backslash \in C, Char("N") \in C, NEW column, NEW cell,
           column.type \in {"Fixed", "Variable"} => cell \in Seq(C),
           column.type \notin {"Fixed", "Variable"} => \A c : field(column, cell) = <<c>> => c \in C
    PROVE  /\ field(column, cell) \in Seq(C)
           /\ isField(parsedAs(column, cell))
           /\ \E mode \in {"closed", "plain"} :
                  reads(field(column, cell), parsedAs(column, cell), mode)
<1>1. CASE isNull(column, cell)
  <2>1. PICK f : f = parsedAs(column, cell)
    OBVIOUS
  <2>2. f = [null |-> TRUE, text |-> <<>>] /\ f.null = TRUE /\ f.text = <<>>
    BY <1>1, <2>1 DEF parsedAs
  <2>3. field(column, cell) = <<Backslash, Char("N")>>
    BY <1>1 DEF field
  <2>4. ASSUME NEW R, NEW r
        PROVE  leads(at(R, r, FALSE, <<>>, "start"), <<Backslash, Char("N")>>,
                     at(R, r, TRUE, <<>>, "closed"))
    <3>1. parse(at(R, r, FALSE, <<>>, "start"), Backslash) = at(R, r, FALSE, <<>>, "null")
      BY Characters DEF parse, at
    <3>2. parse(at(R, r, FALSE, <<>>, "null"), Char("N")) = at(R, r, TRUE, <<>>, "closed")
      BY Characters DEF parse, at
    <3> QED BY <3>1, <3>2, LeadsTwo
  <2>5. reads(field(column, cell), f, "closed")
    BY <2>2, <2>3, <2>4 DEF reads
  <2>6. isField(f)
    BY <2>2 DEF isField
  <2>7. field(column, cell) \in Seq(C)
    BY <2>3, LeadsTwo
  <2> QED BY <2>1, <2>5, <2>6, <2>7
<1>2. CASE ~isNull(column, cell) /\ column.type \in {"Fixed", "Variable"}
  <2>1. PICK f : f = parsedAs(column, cell)
    OBVIOUS
  <2>2. f = [null |-> FALSE, text |-> cell] /\ f.null = FALSE /\ f.text = cell
    BY <1>2, <2>1 DEF parsedAs
  <2>3. field(column, cell) = quoted(cell) /\ cell \in Seq(C)
    BY <1>2 DEF field
  <2>4. reads(field(column, cell), f, "closed")
    BY <2>2, <2>3, QuotedLeads DEF reads
  <2>5. isField(f)
    BY <2>2 DEF isField
  <2>6. field(column, cell) \in Seq(C)
    BY <2>3, QuotedLeads
  <2> QED BY <2>1, <2>4, <2>5, <2>6
<1>3. CASE ~isNull(column, cell) /\ column.type \notin {"Fixed", "Variable"}
  <2>1. PICK f : f = parsedAs(column, cell)
    OBVIOUS
  <2>2. PICK c : field(column, cell) = <<c>> /\ c \notin {Tab, NewLine, Quote, Backslash}
    BY <1>3, PlainField
  <2>3. f = [null |-> FALSE, text |-> <<c>>] /\ f.null = FALSE /\ f.text = <<c>>
    BY <1>3, <2>1, <2>2 DEF parsedAs
  <2>4. c \in C
    BY <1>3, <2>2
  <2>5. ASSUME NEW R, NEW r
        PROVE  leads(at(R, r, FALSE, <<>>, "start"), <<c>>, at(R, r, FALSE, <<c>>, "plain"))
    <3>1. ASSUME NEW t
          PROVE  parse(at(R, r, FALSE, t, "start"), c) = at(R, r, FALSE, Append(t, c), "plain")
      BY <2>2, Characters DEF parse, at
    <3>2. Append(<<>>, c) = <<c>>
      OBVIOUS
    <3>3. parse(at(R, r, FALSE, <<>>, "start"), c) = at(R, r, FALSE, <<c>>, "plain")
      BY <3>1, <3>2
    <3> QED BY <2>4, <3>3, LeadsOne
  <2>6. reads(field(column, cell), f, "plain")
    BY <2>2, <2>3, <2>5 DEF reads
  <2>7. isField(f)
    BY <2>3 DEF isField
  <2>8. field(column, cell) \in Seq(C)
    BY <2>2, <2>4
  <2> QED BY <2>1, <2>6, <2>7, <2>8
<1> QED BY <1>1, <1>2, <1>3

Character ==
    ({"char"} \X STRING) \cup {Quote, Backslash, Tab, NewLine, Blank, Zero, Char("N")}

\* A chunk of m rows whose strings are of characters.
writable(schema, n, m) ==
    /\ DOMAIN schema = 1 .. n
    /\ DOMAIN chunk = 1 .. m
    /\ \A k \in 1 .. m : \A i \in 1 .. n :
          schema[i].type \in {"Fixed", "Variable"} => chunk[k][i] \in Seq(Character)

\* The text of a chunk is read as the fields of its cells.
LEMMA ChunkParsed ==
    ASSUME NEW schema, NEW n \in Nat, n # 0, NEW m \in Nat, m # 0, writable(schema, n, m)
    PROVE  /\ \E C : ChunkToTSV(schema) \in Seq(C)
           /\ parsed(ChunkToTSV(schema)) =
                  [k \in 1 .. m |-> [i \in 1 .. n |-> parsedAs(schema[i], chunk[k][i])]]
<1> /\ DOMAIN schema = 1 .. n
    /\ DOMAIN chunk = 1 .. m
    /\ \A k \in 1 .. m : \A i \in 1 .. n :
          schema[i].type \in {"Fixed", "Variable"} => chunk[k][i] \in Seq(Character)
  BY DEF writable
<1> DEFINE C == Character \cup {field(schema[i], chunk[k][i])[1] : i \in 1 .. n, k \in 1 .. m}
<1>1. {Quote, Backslash, Tab, NewLine, Char("N")} \subseteq C
  <2>1. {Quote, Backslash, Tab, NewLine, Char("N")} \subseteq Character
    BY DEF Character
  <2> QED BY <2>1
<1>2. ASSUME NEW s \in Seq(Character) PROVE s \in Seq(C)
  OBVIOUS
<1>3. ASSUME NEW k \in 1 .. m, NEW i \in 1 .. n PROVE field(schema[i], chunk[k][i])[1] \in C
  OBVIOUS
<1> HIDE DEF C
<1> DEFINE texts == [k \in 1 .. m |-> [i \in 1 .. n |-> field(schema[i], chunk[k][i])]]
           f == [k \in 1 .. m |-> [i \in 1 .. n |-> parsedAs(schema[i], chunk[k][i])]]
           good(k, i, w) == w \in {"closed", "plain"} /\ reads(texts[k][i], f[k][i], w)
           mode == [k \in 1 .. m |-> [i \in 1 .. n |-> CHOOSE w : good(k, i, w)]]
<1>4. ASSUME NEW k \in 1 .. m, NEW i \in 1 .. n
      PROVE  texts[k][i] \in Seq(C) /\ isField(f[k][i]) /\ good(k, i, mode[k][i])
  <2>1. PICK column, cell : column = schema[i] /\ cell = chunk[k][i]
    OBVIOUS
  <2>2. /\ texts[k][i] = field(column, cell) /\ f[k][i] = parsedAs(column, cell)
        /\ mode[k][i] = CHOOSE w : good(k, i, w)
    BY <2>1
  <2>3. column.type \in {"Fixed", "Variable"} => cell \in Seq(C)
    BY <1>2, <2>1
  <2>4. \A c : field(column, cell) = <<c>> => c \in C
    BY <1>3, <2>1
  <2>5. /\ field(column, cell) \in Seq(C) /\ isField(parsedAs(column, cell))
        /\ \E w \in {"closed", "plain"} : reads(field(column, cell), parsedAs(column, cell), w)
    BY <1>1, <2>3, <2>4, FieldReads
  <2>6. PICK w : good(k, i, w)
    BY <2>2, <2>5
  <2> HIDE DEF texts, f, good
  <2> QED BY <2>2, <2>5, <2>6
<1>5. PICK ll : ll = [k \in 1 .. m |-> joined(texts[k], Tab)]
  OBVIOUS
<1>6. ChunkToTSV(schema) = joined(ll, NewLine)
  <2>1. ASSUME NEW k \in 1 .. m
        PROVE  joined([i \in DOMAIN schema |-> field(schema[i], chunk[k][i])], Tab) =
                   joined(texts[k], Tab)
    <3>1. [i \in DOMAIN schema |-> field(schema[i], chunk[k][i])] = texts[k]
      OBVIOUS
    <3> QED BY <3>1
  <2> HIDE DEF texts
  <2>2. [k \in DOMAIN chunk |-> joined([i \in DOMAIN schema |-> field(schema[i], chunk[k][i])], Tab)]
            = ll
    BY <1>5, <2>1
  <2> QED BY <2>2 DEF ChunkToTSV
<1>7. \A k \in 1 .. m : \A i \in 1 .. n :
          /\ texts[k][i] \in Seq(C) /\ isField(f[k][i])
          /\ mode[k][i] \in {"closed", "plain"} /\ reads(texts[k][i], f[k][i], mode[k][i])
  <2> HIDE DEF texts, f, mode
  <2> QED BY <1>4
<1>8. PICK t, g, h : t = texts /\ g = f /\ h = mode
  OBVIOUS
<1>9. /\ \A k \in 1 .. m : /\ t[k] = [i \in 1 .. n |-> t[k][i]]
                           /\ g[k] = [i \in 1 .. n |-> g[k][i]]
      /\ g = [k \in 1 .. m |-> g[k]]
  BY <1>8
<1> HIDE DEF texts, f, mode, good
<1>10. \A k \in 1 .. m : \A i \in 1 .. n :
            /\ t[k][i] \in Seq(C) /\ isField(g[k][i])
            /\ h[k][i] \in {"closed", "plain"} /\ reads(t[k][i], g[k][i], h[k][i])
  BY <1>7, <1>8
<1>11. Tab \in C /\ NewLine \in C
  BY <1>1
<1>12. linesOf(C, m, n, t, g, h, ll)
  <2>1. ll = [k \in 1 .. m |-> joined(t[k], Tab)]
    BY <1>5, <1>8
  <2> QED BY <1>9, <1>10, <2>1 DEF linesOf
<1>13. joined(ll, NewLine) \in Seq(C) /\ parsed(joined(ll, NewLine)) = g
  BY <1>11, <1>12, TextParsed
<1> QED BY <1>6, <1>8, <1>13 DEF f

-----------------------------------------------------------------------------
(* The tokens of an Avro buffer.                                           *)

\* The place of the i-th element of the j-th of k rows of n.
LEMMA Place ==
    ASSUME NEW n \in Nat, NEW k \in Nat, NEW j \in 1 .. k, NEW i \in 1 .. n
    PROVE  (j - 1) * n + i \in 1 .. (k * n)
<1>1. PICK a \in Nat : a = (j - 1) * n
  <2>1. j - 1 \in Nat
    OBVIOUS
  <2> QED BY <2>1
<1>2. PICK b \in Nat : b = k * n
  OBVIOUS
<1>3. j * n = a + n
  BY <1>1
<1>4. j * n <= k * n
  <2>1. k - j \in Nat
    OBVIOUS
  <2>2. (k - j) * n >= 0
    BY <2>1
  <2>3. (k - j) * n = k * n - j * n
    OBVIOUS
  <2> QED BY <2>2, <2>3
<1> QED BY <1>1, <1>2, <1>3, <1>4

\* The elements of two sequences one after the other.
LEMMA Concatenated ==
    ASSUME NEW C, NEW u \in Seq(C), NEW v \in Seq(C), NEW a, NEW n, a = Len(u), n = Len(v)
    PROVE  /\ Len(u \o v) = a + n
           /\ \A i \in 1 .. a : (u \o v)[i] = u[i]
           /\ \A i \in 1 .. n : (u \o v)[a + i] = v[i]
<1>1. PICK w : w = u \o v
  OBVIOUS
<1>2. a \in Nat /\ n \in Nat
  OBVIOUS
<1>3. /\ Len(w) = a + n
      /\ \A i \in 1 .. (a + n) : w[i] = IF i <= a THEN u[i] ELSE v[i - a]
  BY <1>1, ConcatProperties
<1>4. ASSUME NEW i \in 1 .. a PROVE w[i] = u[i]
  BY <1>2, <1>3
<1>5. ASSUME NEW i \in 1 .. n PROVE w[a + i] = v[i]
  <2>1. a + i \in 1 .. (a + n) /\ ~(a + i <= a) /\ (a + i) - a = i
    BY <1>2
  <2> QED BY <1>3, <2>1
<1> QED BY <1>1, <1>3, <1>4, <1>5

\* Rows of one length, one after another.
LEMMA FlatRows ==
    ASSUME NEW C, NEW m \in Nat, NEW n \in Nat, NEW ss \in Seq(Seq(C)), Len(ss) = m,
           \A k \in 1 .. m : Len(ss[k]) = n
    PROVE  /\ FlattenSeq(ss) \in Seq(C) /\ Len(FlattenSeq(ss)) = m * n
           /\ \A k \in 1 .. m : \A i \in 1 .. n : FlattenSeq(ss)[(k - 1) * n + i] = ss[k][i]
<1>1. PICK f : isFlat(f, ss) /\ (\A k \in 0 .. m : f[k] \in Seq(C)) /\ FlattenSeq(ss) = f[m]
  BY Flattened
<1>2. f[0] = <<>> /\ \A k \in 0 .. (m - 1) : f[k + 1] = f[k] \o ss[k + 1]
  BY <1>1 DEF isFlat
<1> DEFINE Q(k) == /\ Len(f[k]) = k * n
                   /\ \A j \in 1 .. k : \A i \in 1 .. n : f[k][(j - 1) * n + i] = ss[j][i]
           S == {k \in Nat : k <= m => Q(k)}
<1>3. 0 \in S
  <2>1. Len(f[0]) = 0 * n /\ 1 .. 0 = {}
    BY <1>2
  <2>2. Q(0)
    BY <2>1
  <2> HIDE DEF Q
  <2> QED BY <2>2
<1>4. ASSUME NEW k \in S PROVE k + 1 \in S
  <2> HIDE DEF Q
  <2> SUFFICES ASSUME k + 1 <= m PROVE Q(k + 1)
    OBVIOUS
  <2>1. k \in Nat /\ k \in 0 .. (m - 1) /\ k + 1 \in 1 .. m /\ k \in 0 .. m /\ Q(k)
    OBVIOUS
  <2>2. PICK u \in Seq(C), v \in Seq(C) : u = f[k] /\ v = ss[k + 1]
    BY <1>1, <2>1
  <2>3. PICK a \in Nat : a = k * n
    BY <2>1
  <2>4. /\ Len(u) = a /\ Len(v) = n
        /\ \A j \in 1 .. k : \A i \in 1 .. n : u[(j - 1) * n + i] = ss[j][i]
    BY <2>1, <2>2, <2>3 DEF Q
  <2>5. f[k + 1] = u \o v
    BY <1>2, <2>1, <2>2
  <2>6. (k + 1) * n = a + n /\ ((k + 1) - 1) * n = a
    BY <2>1, <2>3
  <2>7. /\ Len(u \o v) = a + n
        /\ \A i \in 1 .. a : (u \o v)[i] = u[i]
        /\ \A i \in 1 .. n : (u \o v)[a + i] = v[i]
    <3>1. a = Len(u) /\ n = Len(v)
      BY <2>4
    <3> QED BY <3>1, Concatenated
  <2>8. ASSUME NEW j \in 1 .. (k + 1), NEW i \in 1 .. n
        PROVE  (u \o v)[(j - 1) * n + i] = ss[j][i]
    <3>1. CASE j = k + 1
      BY <2>2, <2>6, <2>7, <3>1
    <3>2. CASE j # k + 1
      <4>1. j \in 1 .. k
        BY <2>1, <3>2
      <4>2. (j - 1) * n + i \in 1 .. a
        BY <2>1, <2>3, <4>1, Place
      <4> QED BY <2>4, <2>7, <4>1, <4>2
    <3> QED BY <3>1, <3>2
  <2> QED BY <2>5, <2>6, <2>7, <2>8 DEF Q
<1>5. m \in S
  <2> HIDE DEF S
  <2>1. S \in SUBSET Nat
    BY DEF S
  <2> QED BY <1>3, <1>4, <2>1, AllNumbers
<1>6. Q(m)
  <2> HIDE DEF Q
  <2> QED BY <1>5
<1>7. m \in 0 .. m
  OBVIOUS
<1> QED BY <1>1, <1>6, <1>7

\* What the caller writes for a cell.
tokenOf(column, cell) ==
    CASE column.type \in {"Fixed", "Variable"} ->
            <<"bytes", IF isNull(column, cell) THEN <<>> ELSE cell>>
      [] OTHER -> <<"number", cell>>

\* The buffer has a token for every cell, at the place where the server looks for it.
LEMMA ChunkTokens ==
    ASSUME NEW schema, NEW n \in Nat, DOMAIN schema = 1 .. n,
           NEW m \in Nat, DOMAIN chunk = 1 .. m
    PROVE  /\ \E C : avro(schema) \in Seq(C)
           /\ Len(avro(schema)) = m * n
           /\ \A k \in 1 .. m : \A i \in 1 .. n :
                  avro(schema)[(k - 1) * n + i] = tokenOf(schema[i], chunk[k][i])
<1> DEFINE C == {tokenOf(schema[i], chunk[k][i]) : i \in 1 .. n, k \in 1 .. m}
           row(k) == [i \in 1 .. n |-> tokenOf(schema[i], chunk[k][i])]
           ss == [k \in 1 .. m |-> row(k)]
<1>1. ASSUME NEW k \in 1 .. m, NEW i \in 1 .. n PROVE tokenOf(schema[i], chunk[k][i]) \in C
  OBVIOUS
<1> HIDE DEF C
<1>2. ASSUME NEW k \in 1 .. m PROVE row(k) \in Seq(C) /\ Len(row(k)) = n
  <2>1. row(k) \in [1 .. n -> C]
    BY <1>1
  <2> HIDE DEF row
  <2> QED BY <2>1
<1>3. ASSUME NEW k \in 1 .. m, NEW i \in 1 .. n PROVE row(k)[i] = tokenOf(schema[i], chunk[k][i])
  OBVIOUS
<1>4. avro(schema) = FlattenSeq(ss)
  BY DEF avro, tokenOf
<1> HIDE DEF row
<1>5. \A k \in 1 .. m : ss[k] = row(k)
  OBVIOUS
<1>6. ss \in Seq(Seq(C)) /\ Len(ss) = m
  <2>1. ss \in [1 .. m -> Seq(C)]
    BY <1>2
  <2> HIDE DEF ss
  <2> QED BY <2>1
<1> HIDE DEF ss
<1>7. \A k \in 1 .. m : Len(ss[k]) = n
  BY <1>2, <1>5
<1>8. /\ FlattenSeq(ss) \in Seq(C) /\ Len(FlattenSeq(ss)) = m * n
      /\ \A k \in 1 .. m : \A i \in 1 .. n : FlattenSeq(ss)[(k - 1) * n + i] = ss[k][i]
  BY <1>6, <1>7, FlatRows
<1> QED BY <1>3, <1>4, <1>5, <1>8

-----------------------------------------------------------------------------
(* A value on its way.                                                     *)

\* A column whose values are followed: its two schemas agree.
Followed == [name : Names \ DifferingNames, length : Nat, utf8mb4 : BOOLEAN]

\* The columns of fixed length are those of the types CHAR and BINARY.
LEMMA FixedNames ==
    ASSUME NEW name \in Names \ DifferingNames
    PROVE  /\ fieldType(name) \in {"Int32", "Int64", "Double", "Fixed", "Variable", "DateTime",
                                   "Date", "Time", "Unsupported"}
           /\ fieldType(name) = "Fixed" <=> name \in {<<"char">>, <<"binary">>}
<1>1. PICK k \in 1 .. 29 : name = protocolType[k].name
  BY TableSizes DEF Names, Range
<1>2. fieldOf(name) = protocolType[k].type
  BY <1>1, FieldOf
<1>3. PICK t : t = protocolType[k].type
  OBVIOUS
<1>4. /\ t \in DOMAIN fieldTypes =>
             fieldTypes[t] \in {"Int32", "Int64", "Double", "Fixed", "Variable", "DateTime",
                                "Date", "Time"}
      /\ t \in DOMAIN fieldTypes /\ fieldTypes[t] = "Fixed" <=> t = "STRING"
  BY DEF fieldTypes
<1>5. t = "STRING" <=> k \in {6, 7}
  <2>1. k \notin {28, 29}
    BY <1>1 DEF protocolType, DifferingNames
  <2>2. t = "STRING" <=> k \in {6, 7, 28, 29}
    BY <1>3 DEF protocolType
  <2> QED BY <2>1, <2>2
<1>6. k \in {6, 7} <=> name \in {<<"char">>, <<"binary">>}
  BY <1>1 DEF protocolType
<1> QED BY <1>2, <1>3, <1>4, <1>5, <1>6 DEF fieldType

\* The schema of a column.
LEMMA SchemaOf ==
    ASSUME NEW column
    PROVE  /\ schemaOf(column).type = fieldType(column.name)
           /\ schemaOf(column).size = IF fieldType(column.name) = "Fixed" THEN bytesOf(column) ELSE 0
BY DEF schemaOf, col

\* A value that is not null is of its type.
LEMMA ValuesOf ==
    ASSUME NEW column \in Followed, NEW v \in values(column), v # <<>>
    PROVE  LET type == fieldType(column.name)
           IN  /\ v = <<v[1]>>
               /\ type = "DateTime" => v[1] \in DateTimes
               /\ type = "Date" => v[1] \in Dates
               /\ type = "Time" => v[1] \in Times
               /\ type = "Variable" => v[1] \in Strings
               /\ type = "Fixed" => v[1] \in Strings /\ Len(v[1]) <= column.length
               /\ column.name = <<"char">> /\ v[1] # <<>> => Last(v[1]) # Blank
               /\ column.name = <<"binary">> => Len(v[1]) = column.length
               /\ type \in {"Int64", "Int32", "Double"} => v[1] \in Numbers
<1>1. PICK type : type = fieldType(column.name)
  OBVIOUS
<1>2. FieldsToRowSchema(<<column>>)[1].type = type
  BY <1>1, OneSchema, SchemaOf
<1>3. ASSUME NEW S, v \in {<<>>} \cup {<<x>> : x \in S} PROVE v = <<v[1]>> /\ v[1] \in S
  BY <1>3
<1>4. column.name \in Names \ DifferingNames
  BY DEF Followed
<1>5. /\ type = "Fixed" <=> column.name \in {<<"char">>, <<"binary">>}
      /\ column.name \in {<<"char">>, <<"enum">>, <<"set">>} <=> column.name = <<"char">>
  <2>1. type = "Fixed" <=> column.name \in {<<"char">>, <<"binary">>}
    BY <1>1, <1>4, FixedNames
  <2>2. column.name \notin {<<"enum">>, <<"set">>}
    BY <1>4 DEF DifferingNames
  <2> QED BY <2>1, <2>2
<1>6. <<"char">> # <<"binary">>
  OBVIOUS
<1>7. CASE type = "DateTime"
  <2>1. v \in {<<>>} \cup {<<x>> : x \in DateTimes}
    BY <1>2, <1>5, <1>7 DEF values
  <2> QED BY <1>1, <1>3, <1>5, <1>7, <2>1
<1>8. CASE type = "Date"
  <2>1. v \in {<<>>} \cup {<<x>> : x \in Dates}
    BY <1>2, <1>5, <1>8 DEF values
  <2> QED BY <1>1, <1>3, <1>5, <1>8, <2>1
<1>9. CASE type = "Time"
  <2>1. v \in {<<>>} \cup {<<x>> : x \in Times}
    BY <1>2, <1>5, <1>9 DEF values
  <2> QED BY <1>1, <1>3, <1>5, <1>9, <2>1
<1>10. CASE type = "Variable"
  <2>1. v \in {<<>>} \cup {<<x>> : x \in Strings}
    BY <1>2, <1>5, <1>10 DEF values
  <2> QED BY <1>1, <1>3, <1>5, <1>10, <2>1
<1>11. CASE column.name = <<"char">>
  <2>1. PICK S : S = {s \in Strings : Len(s) <= column.length /\ (s # <<>> => Last(s) # Blank)}
    OBVIOUS
  <2>2. v \in {<<>>} \cup {<<x>> : x \in S}
    BY <1>2, <1>5, <1>6, <1>11, <2>1 DEF values
  <2>3. v = <<v[1]>> /\ v[1] \in S
    BY <1>3, <2>2
  <2> QED BY <1>1, <1>5, <1>6, <1>11, <2>1, <2>3
<1>12. CASE column.name = <<"binary">>
  <2>1. PICK S : S = {s \in Strings : Len(s) = column.length}
    OBVIOUS
  <2>2. v \in {<<>>} \cup {<<x>> : x \in S}
    BY <1>2, <1>5, <1>6, <1>12, <2>1 DEF values
  <2>3. v = <<v[1]>> /\ v[1] \in S
    BY <1>3, <2>2
  <2>4. column.length \in Nat
    BY DEF Followed
  <2> QED BY <1>1, <1>5, <1>6, <1>12, <2>1, <2>3, <2>4
<1>13. CASE type \notin {"DateTime", "Date", "Time", "Variable", "Fixed"}
  <2>1. v \in {<<>>} \cup {<<x>> : x \in Numbers}
    BY <1>2, <1>5, <1>13 DEF values
  <2> QED BY <1>1, <1>3, <1>5, <1>13, <2>1
<1> QED BY <1>5, <1>7, <1>8, <1>9, <1>10, <1>11, <1>12, <1>13

\* The value of a row as it is fetched.
seen(column, v) ==
    IF ~path.usePreparedProtocol /\ fieldType(column.name) \in TimeTypes THEN <<>> ELSE v

\* A value that was fetched comes back from the cell that was written for it, by
\* either way.
comesBack(column, v) ==
    LET w == written(schemaOf(column), seen(column, v))
    IN  w # <<>> =>
          /\ fieldType(column.name) \in {"Fixed", "Variable"} => w[1] \in Seq(Character)
          /\ seen(column, v) = v =>
                /\ path.treatZeroLenAsNull = TRUE =>
                       ofText(column, parsedAs(schemaOf(column), w[1])) = returns(column, v)
                /\ MakeColumnsAvro(column, tokenOf(schemaOf(column), w[1])[2]) = returns(column, v)

\* A null of the format is a NULL.
LEMMA NullText ==
    ASSUME NEW column, NEW x, isNull(schemaOf(column), x)
    PROVE  ofText(column, parsedAs(schemaOf(column), x)) = <<>>
<1>1. PICK f : f = parsedAs(schemaOf(column), x)
  OBVIOUS
<1>2. f = [null |-> TRUE, text |-> <<>>]
  BY <1>1 DEF parsedAs
<1>3. f.null = TRUE
  BY <1>2
<1>4. ofText(column, f) = <<>>
  BY <1>3 DEF ofText
<1> QED BY <1>1, <1>4

\* A string comes out of the quotes and is stored.
LEMMA StringText ==
    ASSUME NEW column, NEW x, ~isNull(schemaOf(column), x),
           fieldType(column.name) \in {"Fixed", "Variable"}
    PROVE  ofText(column, parsedAs(schemaOf(column), x)) = <<stored(column, x)>>
<1>1. PICK f : f = parsedAs(schemaOf(column), x)
  OBVIOUS
<1>2. schemaOf(column).type \in {"Fixed", "Variable"}
  BY SchemaOf
<1>3. f = [null |-> FALSE, text |-> x]
  BY <1>1, <1>2 DEF parsedAs
<1>4. f.null = FALSE /\ f.text = x
  BY <1>3
<1>5. FieldsToRowSchema(<<column>>)[1].type \in {"Fixed", "Variable"}
  BY <1>2, OneSchema
<1>6. ofText(column, f) = <<stored(column, x)>>
  BY <1>4, <1>5 DEF ofText
<1> QED BY <1>1, <1>6

\* A number or a time is the one that was formatted.
LEMMA PlainText ==
    ASSUME NEW column, NEW x, NEW kind, NEW y, ~isNull(schemaOf(column), x),
           fieldType(column.name) \notin {"Fixed", "Variable"},
           field(schemaOf(column), x) = <<<<kind, y>>>>
    PROVE  ofText(column, parsedAs(schemaOf(column), x)) = <<y>>
<1>1. PICK f : f = parsedAs(schemaOf(column), x)
  OBVIOUS
<1>2. schemaOf(column).type \notin {"Fixed", "Variable"}
  BY SchemaOf
<1>3. f = [null |-> FALSE, text |-> <<<<kind, y>>>>]
  BY <1>1, <1>2 DEF parsedAs
<1>4. f.null = FALSE /\ f.text[1][2] = y
  BY <1>3
<1>5. FieldsToRowSchema(<<column>>)[1].type \notin {"Fixed", "Variable"}
  BY <1>2, OneSchema
<1>6. ofText(column, f) = <<y>>
  BY <1>4, <1>5 DEF ofText
<1> QED BY <1>1, <1>6

\* A number.
LEMMA NumberReturns ==
    ASSUME NEW column \in Followed, NEW v \in values(column),
           fieldType(column.name) \in {"Int64", "Int32", "Double"}
    PROVE  comesBack(column, v)
<1>1. PICK type : type = fieldType(column.name)
  OBVIOUS
<1>2. PICK s : s = schemaOf(column)
  OBVIOUS
<1>3. s.type = type /\ type \in {"Int64", "Int32", "Double"}
  BY <1>1, <1>2, SchemaOf
<1>4. PICK null : null = IF type = "Double" THEN doubleNull ELSE intNull
  OBVIOUS
<1>5. PICK x : x = IF v = <<>> THEN null ELSE v[1]
  OBVIOUS
<1>6. seen(column, v) = v
  BY <1>1, <1>3 DEF seen, TimeTypes
<1>7. written(s, v) = <<x>>
  BY <1>3, <1>4, <1>5 DEF written
<1>8. isNull(s, x) <=> x = null
  BY <1>3, <1>4 DEF isNull
<1>9. v # <<>> => v = <<v[1]>> /\ v[1] \in Numbers
  BY <1>1, <1>3, ValuesOf
<1>10. returns(column, v) = IF x = null THEN <<>> ELSE <<x>>
  <2>1. FieldsToRowSchema(<<column>>)[1].type = type
    BY <1>1, OneSchema, SchemaOf
  <2>2. CASE type = "Double"
    <3>1. returns(column, v) = v
      BY <2>1, <2>2 DEF returns, TimeTypes
    <3>2. v # <<>> => v[1] # doubleNull
      BY <1>9, LoadDataAssumption
    <3> QED BY <1>4, <1>5, <1>9, <2>2, <3>1, <3>2
  <2>3. CASE type # "Double"
    <3>1. returns(column, v) = IF v = <<intNull>> THEN <<>> ELSE v
      BY <1>3, <2>1, <2>3 DEF returns, TimeTypes
    <3> QED BY <1>4, <1>5, <1>9, <2>3, <3>1
  <2> QED BY <2>2, <2>3
<1>11. ofText(column, parsedAs(s, x)) = returns(column, v)
  <2>1. CASE x = null
    BY <1>2, <1>8, <1>10, <2>1, NullText
  <2>2. CASE x # null
    <3>1. field(s, x) = <<<<"number", x>>>>
      BY <1>3, <1>8, <2>2 DEF field
    <3>2. ofText(column, parsedAs(s, x)) = <<x>>
      BY <1>1, <1>2, <1>3, <1>8, <2>2, <3>1, PlainText
    <3> QED BY <1>10, <2>2, <3>2
  <2> QED BY <2>1, <2>2
<1>12. tokenOf(s, x)[2] = x
  BY <1>3 DEF tokenOf
<1>13. MakeColumnsAvro(column, x) = IF x = null THEN <<>> ELSE <<x>>
  <2>1. FieldsToRowSchema(<<column>>)[1].type = type
    BY <1>1, OneSchema, SchemaOf
  <2>2. CASE type = "Double"
    BY <1>4, <2>1, <2>2 DEF MakeColumnsAvro
  <2>3. CASE type # "Double"
    BY <1>3, <1>4, <2>1, <2>3 DEF MakeColumnsAvro
  <2> QED BY <2>2, <2>3
<1>14. <<x>>[1] = x
  OBVIOUS
<1> QED BY <1>1, <1>2, <1>3, <1>6, <1>7, <1>10, <1>11, <1>12, <1>13, <1>14 DEF comesBack

\* A time of either kind: if a time that was written is what is made of its number,
\* and the number is not the null, it comes back.
LEMMA TimeCell ==
    ASSUME NEW column \in Followed, NEW v \in values(column), NEW type, type = fieldType(column.name),
           type \in TimeTypes,
           seen(column, v) # <<>> =>
               \A x : written(schemaOf(column), v) = <<x>> =>
                   /\ x # intNull
                   /\ \E kind : field(schemaOf(column), x) = <<<<kind, v[1]>>>>
                   /\ MakeColumnsAvro(column, x) = <<v[1]>>,
           seen(column, v) # <<>> =>
               written(schemaOf(column), v) = <<>> \/ \E x : written(schemaOf(column), v) = <<x>>
    PROVE  comesBack(column, v)
<1>1. PICK s : s = schemaOf(column)
  OBVIOUS
<1>2. s.type = type /\ type \in {"DateTime", "Date", "Time"}
  BY <1>1, SchemaOf DEF TimeTypes
<1>3. FieldsToRowSchema(<<column>>)[1].type = type
  BY OneSchema, SchemaOf
<1>4. CASE seen(column, v) = <<>>
  <2>1. written(s, <<>>) = <<intNull>> /\ <<intNull>>[1] = intNull
    BY <1>2 DEF written
  <2>2. isNull(s, intNull)
    BY <1>2 DEF isNull
  <2>3. ofText(column, parsedAs(s, intNull)) = <<>>
    BY <1>1, <2>2, NullText
  <2>4. tokenOf(s, intNull)[2] = intNull
    BY <1>2 DEF tokenOf
  <2>5. MakeColumnsAvro(column, intNull) = <<>>
    BY <1>2, <1>3 DEF MakeColumnsAvro
  <2>6. seen(column, v) = v => returns(column, v) = <<>>
    <3>1. ASSUME v = <<>> PROVE returns(column, v) = <<>>
      BY <1>2, <1>3, <3>1 DEF returns
    <3> QED BY <1>4, <3>1
  <2> QED BY <1>1, <1>2, <1>4, <2>1, <2>3, <2>4, <2>5, <2>6 DEF comesBack
<1>5. CASE seen(column, v) # <<>>
  <2>1. seen(column, v) = v /\ v # <<>> /\ path.usePreparedProtocol
    BY <1>2, <1>5 DEF seen, TimeTypes
  <2>2. returns(column, v) = v /\ v = <<v[1]>>
    <3>1. returns(column, v) = v
      BY <1>2, <1>3, <2>1 DEF returns, TimeTypes
    <3> QED BY <2>1, <3>1, ValuesOf
  <2>3. CASE written(s, v) = <<>>
    BY <1>1, <2>1, <2>3 DEF comesBack
  <2>4. CASE written(s, v) # <<>>
    <3>1. PICK x : written(s, v) = <<x>>
      BY <1>1, <1>5, <2>4
    <3>2. PICK kind : x # intNull /\ field(s, x) = <<<<kind, v[1]>>>> /\ MakeColumnsAvro(column, x) = <<v[1]>>
      BY <1>1, <1>5, <3>1
    <3>3. ~isNull(s, x)
      BY <1>2, <3>2 DEF isNull
    <3>4. ofText(column, parsedAs(s, x)) = <<v[1]>>
      BY <1>1, <1>2, <3>2, <3>3, PlainText
    <3>5. tokenOf(s, x)[2] = x /\ <<x>>[1] = x
      BY <1>2 DEF tokenOf
    <3> QED BY <1>1, <1>2, <2>1, <2>2, <3>1, <3>2, <3>4, <3>5 DEF comesBack
  <2> QED BY <2>3, <2>4
<1> QED BY <1>4, <1>5

\* ADDDATE of the microseconds since 1960 gives the DATETIME back.
LEMMA AvroDateTime ==
    ASSUME NEW t \in DateTimes, NEW x, toDateTimeCAS(t) = <<x>>
    PROVE  /\ fromDateTimeCAS(x) = t
           /\ [sec |-> (x \div secToMicroSec) - CASshiftSec, second_part |-> x % secToMicroSec] = t
<1>1. secToMicroSec \in Nat \ {0} /\ CASshiftSec \in Nat
  BY CasTimeAssumption
<1>2. t \in [sec : Int, second_part : 0 .. (secToMicroSec - 1)]
  BY LoadDataAssumption
<1>3. PICK sec \in Int, micro \in 0 .. (secToMicroSec - 1) : t = [sec |-> sec, second_part |-> micro]
  BY <1>2
<1>4. t.sec = sec /\ t.second_part = micro
  BY <1>3
<1>5. sec # -1 /\ x = (sec + CASshiftSec) * secToMicroSec + micro
  BY <1>4 DEF toDateTimeCAS
<1>6. fromDateTimeCAS(x) = t
  <2>1. fromDateTimeCAS(toDateTimeCAS(t)[1]) = t
    BY <1>3, <1>5, DateTimeRoundTrip
  <2> QED BY <2>1
<1>7. PICK n \in Nat \ {0}, q \in Int : n = secToMicroSec /\ q = sec + CASshiftSec
  BY <1>1
<1>8. micro \in 0 .. (n - 1) /\ x = q * n + micro
  BY <1>5, <1>7
<1>9. x \div n = q
  BY <1>8, DivUnique
<1>10. x % n = micro
  <2>1. x \in Int /\ q * n \in Int /\ n * q = q * n
    BY <1>8
  <2>2. x = n * (x \div n) + (x % n)
    BY <2>1
  <2>3. x % n \in Int
    BY <2>1
  <2> QED BY <1>8, <1>9, <2>1, <2>2, <2>3
<1>11. q - CASshiftSec = sec
  BY <1>1, <1>7
<1> QED BY <1>3, <1>6, <1>7, <1>9, <1>10, <1>11

\* So does ADDDATE of the days.
LEMMA AvroDate ==
    ASSUME NEW t \in Dates
    PROVE  \E x : /\ toDateCAS(t) = <<x>> /\ fromDateCAS(x) = t
                  /\ x - CASshiftSec \div dayToSec = t
<1>1. dayToSec \in Nat \ {0} /\ CASshiftSec \in Nat
  BY CasTimeAssumption
<1>2. t \in Int
  BY LoadDataAssumption
<1>3. Len(toDateCAS(t)) = 1 /\ fromDateCAS(toDateCAS(t)[1]) = t
  BY <1>2, DateRoundTrip
<1>4. PICK x : toDateCAS(t) = <<x>> /\ x = quotient(t * dayToSec + CASshiftSec, dayToSec)
  BY <1>3 DEF toDateCAS
<1>5. fromDateCAS(x) = t
  BY <1>3, <1>4
<1>6. PICK s \in Nat : s = CASshiftSec \div dayToSec
  BY <1>1
<1>7. CASshiftSec = s * dayToSec
  <2>1. CASshiftSec = dayToSec * (CASshiftSec \div dayToSec) + (CASshiftSec % dayToSec)
    BY <1>1
  <2>2. CASshiftSec % dayToSec = 0
    BY CasTimeAssumption
  <2> QED BY <1>1, <1>6, <2>1, <2>2
<1>8. x \in Int
  <2>1. PICK a \in Int : a = t * dayToSec + CASshiftSec
    BY <1>1, <1>2
  <2>2. a \div dayToSec \in Int /\ (-a) \div dayToSec \in Int
    BY <1>1
  <2> QED BY <1>4, <2>1, <2>2 DEF quotient
<1>9. x * dayToSec - CASshiftSec = (x - s) * dayToSec + 0
  BY <1>1, <1>7, <1>8
<1>10. ((x - s) * dayToSec + 0) \div dayToSec = x - s
  <2>1. x - s \in Int /\ 0 \in 0 .. (dayToSec - 1)
    BY <1>1, <1>8
  <2> QED BY <1>1, <2>1, DivUnique
<1>11. x - s = t
  BY <1>5, <1>9, <1>10 DEF fromDateCAS
<1> QED BY <1>4, <1>5, <1>6, <1>11

\* And the text of the sign, of SEC_TO_TIME and of the fraction gives the TIME back.
LEMMA AvroTime ==
    ASSUME NEW t \in Times
    PROVE  fromTimeCAS(toTimeCAS(t)) = t
<1>1. t \in [neg : BOOLEAN, hour : Nat, minute : 0 .. 59, second : 0 .. 59,
             second_part : 0 .. (secToMicroSec - 1)]
  BY LoadDataAssumption
<1>2. PICK neg \in BOOLEAN, hour \in Nat, minute \in 0 .. 59, second \in 0 .. 59,
           micro \in 0 .. (secToMicroSec - 1) :
          t = [neg |-> neg, hour |-> hour, minute |-> minute, second |-> second,
               second_part |-> micro]
  BY <1>1
<1>3. t.neg => t.hour + t.minute + t.second + t.second_part > 0
  BY LoadDataAssumption
<1>4. secToMicroSec \in Nat
  BY CasTimeAssumption
<1>5. neg => ~(hour = 0 /\ minute = 0 /\ second = 0 /\ micro = 0)
  BY <1>2, <1>3, <1>4
<1> QED BY <1>2, <1>5, TimeRoundTrip

\* A DATETIME, but the second before 1970, which is not written.
LEMMA DateTimeReturns ==
    ASSUME NEW column \in Followed, NEW v \in values(column), fieldType(column.name) = "DateTime"
    PROVE  comesBack(column, v)
<1>1. PICK s : s = schemaOf(column)
  OBVIOUS
<1>2. s.type = "DateTime"
  BY <1>1, SchemaOf
<1>3. seen(column, v) # <<>> => v # <<>>
  BY DEF seen
<1>4. ASSUME v # <<>> PROVE v[1] \in DateTimes /\ written(s, v) = toDateTimeCAS(v[1])
  BY <1>2, <1>4, ValuesOf DEF written
<1>5. ASSUME v # <<>>, NEW x, written(s, v) = <<x>>
      PROVE  /\ x # intNull /\ field(s, x) = <<<<"DateTime", v[1]>>>>
             /\ MakeColumnsAvro(column, x) = <<v[1]>>
  <2>1. x # intNull
    BY <1>4, <1>5, LoadDataAssumption
  <2>2. ~isNull(s, x)
    BY <1>2, <2>1 DEF isNull
  <2>3. fromDateTimeCAS(x) = v[1] /\
        [sec |-> (x \div secToMicroSec) - CASshiftSec, second_part |-> x % secToMicroSec] = v[1]
    BY <1>4, <1>5, AvroDateTime
  <2>4. field(s, x) = <<<<"DateTime", v[1]>>>>
    BY <1>2, <2>2, <2>3 DEF field
  <2>5. FieldsToRowSchema(<<column>>)[1].type = "DateTime"
    BY OneSchema, SchemaOf
  <2>6. MakeColumnsAvro(column, x) =
            <<[sec |-> (x \div secToMicroSec) - CASshiftSec, second_part |-> x % secToMicroSec]>>
    BY <2>1, <2>5 DEF MakeColumnsAvro
  <2> QED BY <2>1, <2>3, <2>4, <2>6
<1>6. v # <<>> => written(s, v) = <<>> \/ \E x : written(s, v) = <<x>>
  BY <1>4 DEF toDateTimeCAS
<1>7. "DateTime" \in TimeTypes
  BY DEF TimeTypes
<1> QED BY <1>1, <1>3, <1>5, <1>6, <1>7, TimeCell

\* A DATE.
LEMMA DateReturns ==
    ASSUME NEW column \in Followed, NEW v \in values(column), fieldType(column.name) = "Date"
    PROVE  comesBack(column, v)
<1>1. PICK s : s = schemaOf(column)
  OBVIOUS
<1>2. s.type = "Date"
  BY <1>1, SchemaOf
<1>3. seen(column, v) # <<>> => v # <<>>
  BY DEF seen
<1>4. ASSUME v # <<>> PROVE v[1] \in Dates /\ written(s, v) = toDateCAS(v[1])
  BY <1>2, <1>4, ValuesOf DEF written
<1>5. ASSUME v # <<>>, NEW x, written(s, v) = <<x>>
      PROVE  /\ x # intNull /\ field(s, x) = <<<<"Date", v[1]>>>>
             /\ MakeColumnsAvro(column, x) = <<v[1]>>
  <2>1. x # intNull
    BY <1>4, <1>5, LoadDataAssumption
  <2>2. ~isNull(s, x)
    BY <1>2, <2>1 DEF isNull
  <2>3. fromDateCAS(x) = v[1] /\ x - CASshiftSec \div dayToSec = v[1]
    <3>1. PICK y : /\ toDateCAS(v[1]) = <<y>> /\ fromDateCAS(y) = v[1]
                   /\ y - CASshiftSec \div dayToSec = v[1]
      BY <1>4, <1>5, AvroDate
    <3>2. x = y
      BY <1>4, <1>5, <3>1
    <3> QED BY <3>1, <3>2
  <2>4. field(s, x) = <<<<"Date", v[1]>>>>
    BY <1>2, <2>2, <2>3 DEF field
  <2>5. FieldsToRowSchema(<<column>>)[1].type = "Date"
    BY OneSchema, SchemaOf
  <2>6. MakeColumnsAvro(column, x) = <<x - CASshiftSec \div dayToSec>>
    BY <2>1, <2>5 DEF MakeColumnsAvro
  <2> QED BY <2>1, <2>3, <2>4, <2>6
<1>6. v # <<>> => \E x : written(s, v) = <<x>>
  BY <1>4, AvroDate
<1>7. "Date" \in TimeTypes
  BY DEF TimeTypes
<1> QED BY <1>1, <1>3, <1>5, <1>6, <1>7, TimeCell

\* A TIME.
LEMMA TimeReturns ==
    ASSUME NEW column \in Followed, NEW v \in values(column), fieldType(column.name) = "Time"
    PROVE  comesBack(column, v)
<1>1. PICK s : s = schemaOf(column)
  OBVIOUS
<1>2. s.type = "Time"
  BY <1>1, SchemaOf
<1>3. seen(column, v) # <<>> => v # <<>>
  BY DEF seen
<1>4. ASSUME v # <<>> PROVE v[1] \in Times /\ written(s, v) = <<toTimeCAS(v[1])>>
  BY <1>2, <1>4, ValuesOf DEF written
<1>5. ASSUME v # <<>>, NEW x, written(s, v) = <<x>>
      PROVE  /\ x # intNull /\ field(s, x) = <<<<"Time", v[1]>>>>
             /\ MakeColumnsAvro(column, x) = <<v[1]>>
  <2>1. x = toTimeCAS(v[1])
    BY <1>4, <1>5
  <2>2. x # intNull
    BY <1>4, <1>5, <2>1, LoadDataAssumption
  <2>3. ~isNull(s, x)
    BY <1>2, <2>2 DEF isNull
  <2>4. fromTimeCAS(x) = v[1]
    BY <1>4, <1>5, <2>1, AvroTime
  <2>5. field(s, x) = <<<<"Time", v[1]>>>>
    BY <1>2, <2>3, <2>4 DEF field
  <2>6. FieldsToRowSchema(<<column>>)[1].type = "Time"
    BY OneSchema, SchemaOf
  <2>7. MakeColumnsAvro(column, x) = <<fromTimeCAS(x)>>
    BY <2>2, <2>6 DEF MakeColumnsAvro
  <2> QED BY <2>2, <2>4, <2>5, <2>7
<1>6. v # <<>> => \E x : written(s, v) = <<x>>
  BY <1>4
<1>7. "Time" \in TimeTypes
  BY DEF TimeTypes
<1> QED BY <1>1, <1>3, <1>5, <1>6, <1>7, TimeCell

\* A string that is filled up to its size.
fills(w, s, size, c) ==
    /\ Len(w) = size /\ DOMAIN w = 1 .. size
    /\ \A i \in 1 .. size : w[i] = IF i <= Len(s) THEN s[i] ELSE c

\* So is a string that is padded.
LEMMA Padded ==
    ASSUME NEW C, NEW s \in Seq(C), NEW size \in Nat, Len(s) <= size, NEW c \in C
    PROVE  padded(s, size, c) \in Seq(C) /\ fills(padded(s, size, c), s, size, c)
<1>1. PICK n \in Nat : n = size - Len(s)
  <2>1. size - Len(s) \in Nat
    OBVIOUS
  <2> QED BY <2>1
<1>2. PICK u : u = [k \in 1 .. n |-> c]
  OBVIOUS
<1>3. u \in [1 .. n -> C] /\ \A k \in 1 .. n : u[k] = c
  BY <1>2
<1>4. u \in Seq(C) /\ Len(u) = n
  BY <1>3
<1>5. PICK w : w = s \o u
  OBVIOUS
<1>6. padded(s, size, c) = w
  BY <1>1, <1>2, <1>5 DEF padded
<1>7. PICK m \in Nat : m = Len(s)
  OBVIOUS
<1>8. /\ w \in Seq(C) /\ Len(w) = m + n
      /\ \A i \in 1 .. (m + n) : w[i] = IF i <= m THEN s[i] ELSE u[i - m]
  BY <1>4, <1>5, <1>7, ConcatProperties
<1>9. m + n = size
  BY <1>1, <1>7
<1>10. ASSUME NEW i \in 1 .. size PROVE w[i] = IF i <= m THEN s[i] ELSE c
  <2>1. CASE i <= m
    BY <1>8, <1>9, <2>1
  <2>2. CASE ~(i <= m)
    <3>1. i - m \in 1 .. n
      BY <1>9, <2>2
    <3> QED BY <1>3, <1>8, <1>9, <2>2, <3>1
  <2> QED BY <2>1, <2>2
<1>11. DOMAIN w = 1 .. size
  BY <1>8, <1>9
<1>12. fills(w, s, size, c)
  BY <1>7, <1>8, <1>9, <1>10, <1>11 DEF fills
<1> QED BY <1>6, <1>8, <1>12

\* All elements of a sequence are one.
LEMMA RangeOne ==
    ASSUME NEW w, NEW n \in Nat, n # 0, DOMAIN w = 1 .. n, NEW c
    PROVE  Range(w) = {c} <=> \A i \in 1 .. n : w[i] = c
<1>1. 1 \in 1 .. n
  OBVIOUS
<1> QED BY <1>1 DEF Range

\* IsNullBuffer of a string that was filled up with blanks: it has nothing else, or
\* zeros that leave no place for a blank.
LEMMA FixedNull ==
    ASSUME NEW s \in Seq(Character), NEW size \in Nat, Len(s) <= size,
           NEW w, w = padded(s, size, Blank)
    PROVE  size = 0 \/ IsNullBuffer(w) <=>
               \/ s = <<>> \/ Range(s) = {Blank}
               \/ Range(s) = {Zero} /\ Len(s) = size
<1>1. Blank \in Character /\ Zero \in Character /\ Blank # Zero
  BY Characters DEF Character
<1>2. PICK m \in Nat : m = Len(s)
  OBVIOUS
<1>3. /\ DOMAIN w = 1 .. size
      /\ \A i \in 1 .. size : w[i] = IF i <= m THEN s[i] ELSE Blank
  <2>1. fills(w, s, size, Blank)
    BY <1>1, Padded
  <2> QED BY <1>2, <2>1 DEF fills
<1>4. DOMAIN s = 1 .. m
  BY <1>2
<1>5. CASE size = 0
  <2>1. s = <<>>
    BY <1>5, NoneLeft
  <2> QED BY <1>5, <2>1
<1>6. CASE size # 0 /\ m = 0
  <2>1. s = <<>>
    BY <1>2, <1>6, NoneLeft
  <2>2. \A i \in 1 .. size : w[i] = Blank
    BY <1>3, <1>6
  <2>3. Range(w) = {Blank}
    BY <1>3, <1>6, <2>2, RangeOne
  <2> QED BY <2>1, <2>3 DEF IsNullBuffer
<1>7. CASE size # 0 /\ m # 0
  <2>1. s # <<>>
    BY <1>2, <1>7
  <2>2. /\ Range(w) = {Blank} <=> \A i \in 1 .. size : w[i] = Blank
        /\ Range(w) = {Zero} <=> \A i \in 1 .. size : w[i] = Zero
        /\ Range(s) = {Blank} <=> \A i \in 1 .. m : s[i] = Blank
        /\ Range(s) = {Zero} <=> \A i \in 1 .. m : s[i] = Zero
    <3>1. DOMAIN w = 1 .. size /\ DOMAIN s = 1 .. m
      BY <1>3, <1>4
    <3>2. ASSUME NEW c PROVE Range(w) = {c} <=> \A i \in 1 .. size : w[i] = c
      BY <1>7, <3>1, RangeOne
    <3>3. ASSUME NEW c PROVE Range(s) = {c} <=> \A i \in 1 .. m : s[i] = c
      BY <1>7, <3>1, RangeOne
    <3> QED BY <3>2, <3>3
  <2>3. m <= size /\ \A i \in 1 .. m : i \in 1 .. size
    BY <1>2
  <2>4. (\A i \in 1 .. size : w[i] = Blank) <=> \A i \in 1 .. m : s[i] = Blank
    BY <1>3, <2>3
  <2>5. (\A i \in 1 .. size : w[i] = Zero) <=> (\A i \in 1 .. m : s[i] = Zero) /\ m = size
    <3>1. ASSUME \A i \in 1 .. size : w[i] = Zero PROVE (\A i \in 1 .. m : s[i] = Zero) /\ m = size
      <4>1. \A i \in 1 .. m : s[i] = Zero
        BY <1>3, <2>3, <3>1
      <4>2. ASSUME m # size PROVE FALSE
        <5>1. size \in 1 .. size /\ ~(size <= m)
          BY <1>7, <2>3, <4>2
        <5> QED BY <1>1, <1>3, <3>1, <5>1
      <4> QED BY <4>1, <4>2
    <3>2. ASSUME \A i \in 1 .. m : s[i] = Zero, m = size PROVE \A i \in 1 .. size : w[i] = Zero
      BY <1>3, <3>2
    <3> QED BY <3>1, <3>2
  <2> QED BY <1>2, <1>7, <2>1, <2>2, <2>4, <2>5 DEF IsNullBuffer
<1> QED BY <1>5, <1>6, <1>7

\* The greatest element.
LEMMA MaxIs ==
    ASSUME NEW I \in SUBSET Nat, NEW k \in I, \A j \in I : k >= j
    PROVE  Max(I) = k
<1>1. \A x \in I : (\A y \in I : x >= y) => x = k
  OBVIOUS
<1> QED BY <1>1 DEF Max

\* A CHAR loses the blanks that it was filled up with, and no others.
LEMMA Stripped ==
    ASSUME NEW s \in Seq(Character), NEW size \in Nat, Len(s) <= size, s # <<>>, Last(s) # Blank
    PROVE  stripped(padded(s, size, Blank)) = s
<1>1. Blank \in Character
  BY DEF Character
<1>2. PICK m \in Nat : m = Len(s)
  OBVIOUS
<1>3. m # 0
  BY <1>2, NoneLeft
<1>4. PICK w : w = padded(s, size, Blank)
  OBVIOUS
<1>5. /\ w \in Seq(Character) /\ Len(w) = size
      /\ \A i \in 1 .. size : w[i] = IF i <= m THEN s[i] ELSE Blank
  <2>1. w \in Seq(Character) /\ fills(w, s, size, Blank)
    BY <1>1, <1>4, Padded
  <2> QED BY <1>2, <2>1 DEF fills
<1>6. PICK I : I = {i \in 1 .. size : w[i] # Blank}
  OBVIOUS
<1>7. m \in I
  <2>1. m \in 1 .. size /\ s[m] # Blank
    BY <1>2, <1>3 DEF Last
  <2> QED BY <1>5, <1>6, <2>1
<1>8. \A j \in I : m >= j
  BY <1>5, <1>6
<1>9. I \in SUBSET Nat
  BY <1>6
<1>10. Max(I) = m
  BY <1>7, <1>8, <1>9, MaxIs
<1>11. SelectLastInSeq(w, LAMBDA c : c # Blank) = m
  BY <1>5, <1>6, <1>7, <1>10 DEF SelectLastInSeq
<1>12. stripped(w) = SubSeq(w, 1, m)
  BY <1>11 DEF stripped
<1>13. m <= size
  BY <1>2
<1>14. /\ SubSeq(w, 1, m) \in Seq(Character) /\ Len(SubSeq(w, 1, m)) = m
       /\ \A i \in 1 .. m : SubSeq(w, 1, m)[i] = w[i]
  BY <1>5, <1>13
<1>15. \A i \in 1 .. m : w[i] = s[i]
  BY <1>5, <1>13
<1>16. SubSeq(w, 1, m) = s
  BY <1>2, <1>14, <1>15, SeqEqual
<1> QED BY <1>4, <1>12, <1>16

\* An empty string stays empty.
LEMMA StoredEmpty ==
    ASSUME NEW column
    PROVE  stored(column, <<>>) = <<>>
<1>1. PICK e : e = <<>>
  OBVIOUS
<1>2. Len(e) = 0 /\ {i \in 1 .. 0 : e[i] # Blank} = {}
  BY <1>1
<1>3. SelectLastInSeq(e, LAMBDA c : c # Blank) = 0
  BY <1>2 DEF SelectLastInSeq
<1>4. stripped(e) = SubSeq(e, 1, 0)
  BY <1>3 DEF stripped
<1>5. SubSeq(e, 1, 0) = <<>>
  BY SubSeqEmpty
<1> QED BY <1>1, <1>4, <1>5 DEF stored

\* A string has characters, and a column of fixed length has room for it.
LEMMA StringsFit ==
    ASSUME NEW column \in Followed
    PROVE  /\ Strings \subseteq Seq(Character)
           /\ bytesOf(column) \in Nat /\ column.length \in Nat /\ column.length <= bytesOf(column)
           /\ column.name = <<"binary">> => bytesOf(column) = column.length
<1>1. Strings \subseteq Seq(Character)
  <2>1. {"char"} \X STRING \subseteq Character
    BY DEF Character
  <2>2. ASSUME NEW A, NEW B, A \subseteq B, NEW s \in Seq(A) PROVE s \in Seq(B)
    BY <2>2
  <2> QED BY <2>1, <2>2, LoadDataAssumption
<1>2. PICK n \in Nat : n = column.length
  BY DEF Followed
<1>3. bytesOf(column) = n * (IF column.name = <<"binary">> THEN 1
                             ELSE IF column.utf8mb4 THEN 4 ELSE 3)
  BY <1>2 DEF bytesOf
<1>4. bytesOf(column) \in {n * 1, n * 3, n * 4} /\ (column.name = <<"binary">> => bytesOf(column) = n * 1)
  BY <1>3
<1> QED BY <1>1, <1>2, <1>4

\* A string that is not told apart from NULL.
emptyString(column, v) ==
    \/ v = <<>> \/ v[1] = <<>>
    \/ /\ fieldType(column.name) = "Fixed"
       /\ \/ Range(v[1]) = {Blank}
          \/ Range(v[1]) = {Zero} /\ Len(v[1]) = bytesOf(column)

\* What comes back for a string.
LEMMA StringOf ==
    ASSUME NEW column, NEW v, fieldType(column.name) \in {"Fixed", "Variable"}
    PROVE  /\ emptyString(column, v) =>
                  returns(column, v) = IF path.treatZeroLenAsNull THEN <<>> ELSE <<<<>>>>
           /\ ~emptyString(column, v) => returns(column, v) = v
<1>1. PICK type : type = fieldType(column.name) /\ type \in {"Fixed", "Variable"}
  OBVIOUS
<1>2. FieldsToRowSchema(<<column>>)[1].type = type
  BY <1>1, OneSchema, SchemaOf
<1>3. type \notin TimeTypes /\ type \notin {"Int64", "Int32"}
  BY <1>1 DEF TimeTypes
<1> DEFINE empty == \/ v = <<>> \/ v[1] = <<>>
                    \/ type = "Fixed" /\ Range(v[1]) = {Blank}
                    \/ type = "Fixed" /\ Range(v[1]) = {Zero} /\ Len(v[1]) = bytesOf(column)
<1>4. empty <=> emptyString(column, v)
  BY <1>1 DEF emptyString
<1>5. empty => returns(column, v) = IF path.treatZeroLenAsNull THEN <<>> ELSE <<<<>>>>
  BY <1>1, <1>2, <1>3 DEF returns
<1>6. ~empty => returns(column, v) = v
  BY <1>1, <1>2, <1>3 DEF returns
<1> QED BY <1>4, <1>5, <1>6

\* If a cell is null when nothing is to come back, and is otherwise stored as the
\* string that it was written for, the string comes back.
LEMMA StringCell ==
    ASSUME NEW column, NEW v, fieldType(column.name) \in {"Fixed", "Variable"},
           path.treatZeroLenAsNull \in BOOLEAN,
           NEW x \in Seq(Character), written(schemaOf(column), v) = <<x>>,
           isNull(schemaOf(column), x) =>
               returns(column, v) = IF path.treatZeroLenAsNull THEN <<>> ELSE <<<<>>>>,
           ~isNull(schemaOf(column), x) =>
               x # <<>> /\ returns(column, v) = v /\ v = <<stored(column, x)>>
    PROVE  comesBack(column, v)
<1>1. PICK s : s = schemaOf(column)
  OBVIOUS
<1>2. s.type \in {"Fixed", "Variable"}
  BY <1>1, SchemaOf
<1>3. FieldsToRowSchema(<<column>>)[1].type \in {"Fixed", "Variable"}
  BY <1>1, <1>2, OneSchema
<1>4. seen(column, v) = v
  BY DEF seen, TimeTypes
<1>5. CASE isNull(s, x)
  <2>1. ofText(column, parsedAs(s, x)) = <<>>
    BY <1>1, <1>5, NullText
  <2>2. tokenOf(s, x)[2] = <<>>
    BY <1>2, <1>5 DEF tokenOf
  <2>3. CASE path.treatZeroLenAsNull = TRUE
    <3>1. MakeColumnsAvro(column, <<>>) = <<>>
      BY <1>3, <2>3 DEF MakeColumnsAvro
    <3>2. returns(column, v) = <<>>
      BY <1>1, <1>5, <2>3
    <3>3. <<x>>[1] = x
      OBVIOUS
    <3> QED BY <1>1, <1>4, <2>1, <2>2, <3>1, <3>2, <3>3 DEF comesBack
  <2>4. CASE path.treatZeroLenAsNull = FALSE
    <3>1. MakeColumnsAvro(column, <<>>) = <<stored(column, <<>>)>>
      BY <1>3, <2>4 DEF MakeColumnsAvro
    <3>2. MakeColumnsAvro(column, <<>>) = <<<<>>>>
      BY <3>1, StoredEmpty
    <3>3. returns(column, v) = <<<<>>>>
      BY <1>1, <1>5, <2>4
    <3>4. <<x>>[1] = x
      OBVIOUS
    <3> QED BY <1>1, <1>4, <2>2, <2>4, <3>2, <3>3, <3>4 DEF comesBack
  <2> QED BY <2>3, <2>4
<1>6. CASE ~isNull(s, x)
  <2>1. x # <<>> /\ returns(column, v) = <<stored(column, x)>>
    BY <1>1, <1>6
  <2>2. ofText(column, parsedAs(s, x)) = <<stored(column, x)>>
    BY <1>1, <1>6, StringText
  <2>3. tokenOf(s, x)[2] = x
    BY <1>2, <1>6 DEF tokenOf
  <2>4. MakeColumnsAvro(column, x) = <<stored(column, x)>>
    BY <1>3, <2>1 DEF MakeColumnsAvro
  <2>5. <<x>>[1] = x
    OBVIOUS
  <2> QED BY <1>1, <1>4, <2>1, <2>2, <2>3, <2>4, <2>5 DEF comesBack
<1> QED BY <1>5, <1>6

\* A string of variable length.
LEMMA VariableReturns ==
    ASSUME NEW column \in Followed, NEW v \in values(column), fieldType(column.name) = "Variable",
           path.treatZeroLenAsNull \in BOOLEAN
    PROVE  comesBack(column, v)
<1>1. PICK s : s = schemaOf(column)
  OBVIOUS
<1>2. s.type = "Variable"
  BY <1>1, SchemaOf
<1>3. PICK x : x = IF v = <<>> THEN <<>> ELSE v[1]
  OBVIOUS
<1>4. v # <<>> => v = <<v[1]>> /\ v[1] \in Strings
  BY ValuesOf
<1>5. x \in Seq(Character)
  <2>1. <<>> \in Seq(Character)
    OBVIOUS
  <2> QED BY <1>3, <1>4, <2>1, StringsFit
<1>6. written(s, v) = <<x>>
  BY <1>2, <1>3 DEF written
<1>7. isNull(s, x) <=> x = <<>>
  BY <1>2 DEF isNull
<1>8. column.name # <<"char">>
  <2>1. column.name \in Names \ DifferingNames
    BY DEF Followed
  <2> QED BY <2>1, FixedNames
<1>9. stored(column, x) = x
  BY <1>8 DEF stored
<1>10. x = <<>> <=> v = <<>> \/ v[1] = <<>>
  BY <1>3
<1>11. x = <<>> => returns(column, v) = IF path.treatZeroLenAsNull THEN <<>> ELSE <<<<>>>>
  BY <1>10, StringOf DEF emptyString
<1>12. x # <<>> => returns(column, v) = v /\ v = <<stored(column, x)>>
  <2>1. x # <<>> => ~emptyString(column, v)
    BY <1>10 DEF emptyString
  <2> QED BY <1>3, <1>4, <1>9, <1>10, <2>1, StringOf
<1> QED BY <1>1, <1>5, <1>6, <1>7, <1>11, <1>12, StringCell

\* A string of fixed length.
LEMMA FixedReturns ==
    ASSUME NEW column \in Followed, NEW v \in values(column), fieldType(column.name) = "Fixed",
           path.treatZeroLenAsNull \in BOOLEAN
    PROVE  comesBack(column, v)
<1>1. PICK s : s = schemaOf(column)
  OBVIOUS
<1>2. PICK size \in Nat : size = bytesOf(column)
  BY StringsFit
<1>3. s.type = "Fixed" /\ s.size = size
  BY <1>1, <1>2, SchemaOf
<1>4. Zero \in Character /\ Blank \in Character /\ <<>> \in Seq(Character) /\ Zero # Blank
  BY Characters DEF Character
<1>5. \A x : isNull(s, x) <=> size = 0 \/ IsNullBuffer(x)
  BY <1>3 DEF isNull
<1>6. CASE v = <<>>
  <2>1. PICK e \in Seq(Character) : e = <<>> /\ Len(e) = 0
    BY <1>4
  <2>2. PICK x : x = padded(e, size, Zero)
    OBVIOUS
  <2>3. x \in Seq(Character) /\ fills(x, e, size, Zero)
    <3>1. Len(e) <= size
      BY <2>1
    <3> QED BY <1>4, <2>2, <3>1, Padded
  <2>4. written(s, v) = <<x>>
    BY <1>3, <1>6, <2>1, <2>2 DEF written, WriteFixed
  <2>5. isNull(s, x)
    <3>1. CASE size = 0
      BY <1>5, <3>1
    <3>2. CASE size # 0
      <4>1. DOMAIN x = 1 .. size /\ \A i \in 1 .. size : x[i] = Zero
        BY <2>1, <2>3 DEF fills
      <4>2. Range(x) = {Zero}
        BY <3>2, <4>1, RangeOne
      <4> QED BY <1>5, <4>2 DEF IsNullBuffer
    <3> QED BY <3>1, <3>2
  <2>6. returns(column, v) = IF path.treatZeroLenAsNull THEN <<>> ELSE <<<<>>>>
    BY <1>6, StringOf DEF emptyString
  <2> QED BY <1>1, <2>3, <2>4, <2>5, <2>6, StringCell
<1>7. CASE v # <<>>
  <2>1. PICK t : t = v[1]
    OBVIOUS
  <2>2. /\ v = <<t>> /\ t \in Strings /\ Len(t) <= column.length
        /\ column.name = <<"char">> /\ t # <<>> => Last(t) # Blank
        /\ column.name = <<"binary">> => Len(t) = column.length
    BY <1>7, <2>1, ValuesOf
  <2>3. /\ t \in Seq(Character) /\ column.length \in Nat /\ column.length <= size
        /\ column.name = <<"binary">> => size = column.length
    BY <1>2, <2>2, StringsFit
  <2>4. Len(t) <= size
    BY <2>2, <2>3
  <2>5. PICK x : x = padded(t, size, Blank)
    OBVIOUS
  <2>6. x \in Seq(Character) /\ fills(x, t, size, Blank)
    BY <1>4, <2>3, <2>4, <2>5, Padded
  <2>7. written(s, v) = <<x>>
    BY <1>3, <1>7, <2>1, <2>5 DEF written, WriteFixed
  <2>8. isNull(s, x) <=> t = <<>> \/ Range(t) = {Blank} \/ (Range(t) = {Zero} /\ Len(t) = size)
    BY <1>5, <2>3, <2>4, <2>5, FixedNull
  <2>9. isNull(s, x) => returns(column, v) = IF path.treatZeroLenAsNull THEN <<>> ELSE <<<<>>>>
    BY <1>2, <2>1, <2>8, StringOf DEF emptyString
  <2>10. ~isNull(s, x) => returns(column, v) = v
    <3>1. ASSUME ~isNull(s, x)
          PROVE  ~emptyString(column, v)
      BY <1>2, <1>7, <2>1, <2>8, <3>1 DEF emptyString
    <3> QED BY <3>1, StringOf
  <2>11. ASSUME ~isNull(s, x) PROVE x # <<>> /\ stored(column, x) = t
    <3>1. t # <<>> /\ size # 0
      BY <1>5, <2>8, <2>11
    <3>2. x # <<>>
      BY <2>6, <3>1 DEF fills
    <3>3. CASE column.name = <<"char">>
      <4>1. Last(t) # Blank
        BY <2>2, <3>1, <3>3
      <4>2. stripped(x) = t
        BY <2>3, <2>4, <2>5, <3>1, <4>1, Stripped
      <4> QED BY <3>2, <3>3, <4>2 DEF stored
    <3>4. CASE column.name # <<"char">>
      <4>1. column.name = <<"binary">>
        <5>1. column.name \in Names \ DifferingNames
          BY DEF Followed
        <5> QED BY <3>4, <5>1, FixedNames
      <4>2. Len(t) = size
        BY <2>2, <2>3, <4>1
      <4>3. Len(x) = size /\ \A i \in 1 .. size : x[i] = t[i]
        BY <2>6, <4>2 DEF fills
      <4>4. x = t
        BY <2>3, <2>6, <4>2, <4>3, SeqEqual
      <4> QED BY <3>2, <3>4, <4>4 DEF stored
    <3> QED BY <3>2, <3>3, <3>4
  <2>12. ~isNull(s, x) => x # <<>> /\ returns(column, v) = v /\ v = <<stored(column, x)>>
    BY <2>2, <2>10, <2>11
  <2> QED BY <1>1, <2>6, <2>7, <2>9, <2>12, StringCell
<1> QED BY <1>6, <1>7

\* Every value comes back.
LEMMA ComesBack ==
    ASSUME NEW column \in Followed, NEW v \in values(column), path.treatZeroLenAsNull \in BOOLEAN
    PROVE  comesBack(column, v)
<1>1. column.name \in Names \ DifferingNames
  BY DEF Followed
<1>2. CASE fieldType(column.name) = "Unsupported"
  <2>1. schemaOf(column).type = "Unsupported"
    BY <1>2, SchemaOf
  <2>2. written(schemaOf(column), seen(column, v)) = <<>>
    BY <2>1 DEF written
  <2> QED BY <2>2 DEF comesBack
<1> QED BY <1>1, <1>2, FixedNames, NumberReturns, DateTimeReturns, DateReturns, TimeReturns,
           VariableReturns, FixedReturns

-----------------------------------------------------------------------------
(* The table comes back.                                                   *)

\* Rows of values of the columns; only the last one may be in the making.
Filled ==
    /\ table \in Seq(Range(table))
    /\ \A n \in 1 .. Len(table) :
          /\ table[n] \in Seq(Range(table[n]))
          /\ Len(table[n]) <= Len(columns)
          /\ n < Len(table) => Len(table[n]) = Len(columns)
          /\ \A i \in 1 .. Len(table[n]) : table[n][i] \in values(columns[i])

\* What the chunk has for a value.
cellOf(column, v) == written(schemaOf(column), seen(column, v))

\* The chunk has the first rows, or the first ones after the one that is lost, of a
\* table that is complete.
Cells ==
    /\ chunk \in Seq(Range(chunk))
    /\ chunk # <<>> =>
          /\ skipped + Len(chunk) <= Len(table)
          /\ Len(table[Len(table)]) = Len(columns)
          /\ \A i \in 1 .. Len(columns) : columns[i].name \notin DifferingNames
    /\ \A n \in 1 .. Len(chunk) : \A i \in 1 .. Len(columns) :
          /\ cellOf(columns[i], table[skipped + n][i]) # <<>>
          /\ chunk[n][i] = cellOf(columns[i], table[skipped + n][i])[1]

\* The chunk as the server is to have it.
loadText ==
    IF path.format = "TSV" THEN ChunkToTSV(FieldsToRowSchema(columns))
    ELSE avro(FieldsToRowSchema(columns))

\* The client library has the first part of it.
Sending ==
    /\ phase \in {"idle", "table"} => m_current_pos = 0 /\ sent = <<>>
    /\ phase \in {"load", "done"} =>
          /\ chunk # <<>> /\ Len(chunk) = Len(table) - skipped
          /\ source = loadText
          /\ m_current_pos \in 0 .. Len(source)
          /\ sent = SubSeq(source, 1, m_current_pos)

LInv ==
    /\ path \in Paths
    /\ Chosen
    /\ phase = "idle" => table = <<>> /\ chunk = <<>>
    /\ phase # "idle" => columns \in Tables
    /\ Filled
    /\ Cells
    /\ Sending
    /\ ValuesReturn

\* The path is one of those there are.
LEMMA PathTypes ==
    ASSUME path \in Paths
    PROVE  /\ path.treatZeroLenAsNull \in BOOLEAN
           /\ path.format \in {"TSV", "AVRO"}
           /\ path.format = "TSV" => path.treatZeroLenAsNull = TRUE
BY DEF Paths

\* A row of a table that is complete.
LEMMA RowOf ==
    ASSUME Chosen, columns \in Tables, Filled, NEW n \in 1 .. Len(table),
           Len(table[Len(table)]) = Len(columns), NEW i \in 1 .. Len(columns)
    PROVE  columns[i] \in Column /\ table[n][i] \in values(columns[i])
<1>1. columns \in Seq(Column)
  BY TableColumns
<1>2. columns[i] \in Column
  BY <1>1
<1>3. Len(table) \in Nat
  BY DEF Filled
<1>4. n = Len(table) \/ n < Len(table)
  BY <1>3
<1>5. Len(table[n]) = Len(columns)
  BY <1>4 DEF Filled
<1> QED BY <1>2, <1>5 DEF Filled

\* The schema the rows are written by is that of the columns.
LEMMA WrittenBy ==
    ASSUME Chosen, NEW i \in DOMAIN columns, columns[i].name \notin DifferingNames, NEW v
    PROVE  /\ m_row_schema[i] = schemaOf(columns[i])
           /\ written(m_row_schema[i], fetched(v, i)) = cellOf(columns[i], v)
<1>1. FieldsToRowSchema(columns)[i] = schemaOf(columns[i])
  BY FieldSchema
<1>2. m_row_schema[i] = schemaOf(columns[i])
  BY <1>1, SchemaAgrees DEF m_row_schema
<1>3. FieldsToRowSchema(columns)[i].type = fieldType(columns[i].name)
  BY <1>1, SchemaOf
<1>4. fetched(v, i) = seen(columns[i], v)
  BY <1>3 DEF fetched, seen
<1> QED BY <1>2, <1>4 DEF cellOf

\* What cannot be written.
LEMMA Refused ==
    ASSUME NEW column \in Followed, NEW v \in values(column), cellOf(column, v) = <<>>
    PROVE  \/ fieldType(column.name) = "Unsupported"
           \/ fieldType(column.name) = "DateTime" /\ v # <<>> /\ v[1].sec = -1
<1>1. PICK type : type = fieldType(column.name)
  OBVIOUS
<1>2. PICK s : s = schemaOf(column) /\ s.type = type
  BY <1>1, SchemaOf
<1>3. PICK w : w = seen(column, v)
  OBVIOUS
<1>4. written(s, w) = <<>>
  BY <1>2, <1>3 DEF cellOf
<1>5. w # <<>> => w = v
  BY <1>3 DEF seen
<1>6. type \in {"Int32", "Int64", "Double", "Fixed", "Variable", "DateTime", "Date", "Time",
                "Unsupported"}
  BY <1>1, FixedNames DEF Followed
<1>7. CASE type \in {"Fixed", "Variable", "Double", "Int64", "Int32", "Time"}
  BY <1>2, <1>4, <1>7 DEF written, WriteFixed
<1>8. CASE type = "Date"
  <2>1. w # <<>> /\ toDateCAS(w[1]) = <<>>
    BY <1>2, <1>4, <1>8 DEF written
  <2>2. w[1] \in Dates
    BY <1>1, <1>5, <1>8, <2>1, ValuesOf
  <2> QED BY <2>1, <2>2, AvroDate
<1>9. CASE type = "DateTime"
  <2>1. w # <<>> /\ toDateTimeCAS(w[1]) = <<>>
    BY <1>2, <1>4, <1>9 DEF written
  <2>2. w[1].sec = -1
    BY <2>1 DEF toDateTimeCAS
  <2> QED BY <1>1, <1>5, <1>9, <2>1, <2>2
<1> QED BY <1>1, <1>6, <1>7, <1>8, <1>9

\* One row at most is lost.
LEMMA Skipped == skipped \in {0, 1}
BY DEF skipped

\* A value that is delivered was fetched.
LEMMA DeliveredSeen ==
    ASSUME NEW i \in DOMAIN columns, delivered(i), NEW v
    PROVE  seen(columns[i], v) = v
<1>1. FieldsToRowSchema(columns)[i].type = fieldType(columns[i].name)
  BY FieldSchema, SchemaOf
<1> QED BY <1>1 DEF delivered, seen

\* The chunk of a whole table, of which each cell comes back.
LEMMA WholeChunk ==
    ASSUME LInv, columns \in Tables, chunk # <<>>
    PROVE  /\ Len(columns) \in Nat \ {0} /\ DOMAIN columns = 1 .. Len(columns)
           /\ Len(chunk) \in Nat \ {0} /\ DOMAIN chunk = 1 .. Len(chunk)
           /\ DOMAIN FieldsToRowSchema(columns) = 1 .. Len(columns)
           /\ \A i \in 1 .. Len(columns) :
                 /\ FieldsToRowSchema(columns)[i] = schemaOf(columns[i])
                 /\ FieldsToRowSchema(columns)[i].type = fieldType(columns[i].name)
           /\ \A n \in 1 .. Len(chunk) : \A i \in 1 .. Len(columns) :
                 /\ comesBack(columns[i], table[skipped + n][i])
                 /\ cellOf(columns[i], table[skipped + n][i]) # <<>>
                 /\ chunk[n][i] = cellOf(columns[i], table[skipped + n][i])[1]
<1>1. /\ Chosen /\ Filled /\ Cells /\ path \in Paths
  BY DEF LInv
<1>2. /\ Len(columns) \in Nat \ {0} /\ DOMAIN columns = 1 .. Len(columns)
  <2>1. columns \in Seq(Column) /\ columns # <<>>
    BY <1>1, TableColumns
  <2> QED BY <2>1
<1>3. chunk \in Seq(Range(chunk)) /\ table \in Seq(Range(table))
  BY <1>1 DEF Cells, Filled
<1>4. Len(chunk) \in Nat \ {0} /\ DOMAIN chunk = 1 .. Len(chunk) /\ Len(table) \in Nat
  <2> HIDE DEF Range
  <2> QED BY <1>3
<1>5. /\ DOMAIN FieldsToRowSchema(columns) = 1 .. Len(columns)
      /\ \A i \in 1 .. Len(columns) : FieldsToRowSchema(columns)[i] = schemaOf(columns[i])
  BY <1>2, FieldSchema
<1>6. \A i \in 1 .. Len(columns) : FieldsToRowSchema(columns)[i].type = fieldType(columns[i].name)
  BY <1>5, SchemaOf
<1>7. ASSUME NEW n \in 1 .. Len(chunk), NEW i \in 1 .. Len(columns)
      PROVE  /\ comesBack(columns[i], table[skipped + n][i])
             /\ cellOf(columns[i], table[skipped + n][i]) # <<>>
             /\ chunk[n][i] = cellOf(columns[i], table[skipped + n][i])[1]
  <2>1. /\ Len(table[Len(table)]) = Len(columns) /\ skipped + Len(chunk) <= Len(table)
        /\ columns[i].name \notin DifferingNames
    BY <1>1 DEF Cells
  <2>2. skipped + n \in 1 .. Len(table)
    BY <1>4, <2>1, Skipped
  <2>3. columns[i] \in Column /\ table[skipped + n][i] \in values(columns[i])
    BY <1>1, <2>1, <2>2, RowOf
  <2>4. columns[i] \in Followed
    BY <2>1, <2>3 DEF Column, Followed
  <2>5. path.treatZeroLenAsNull \in BOOLEAN
    BY <1>1, PathTypes
  <2>6. comesBack(columns[i], table[skipped + n][i])
    BY <2>3, <2>4, <2>5, ComesBack
  <2> QED BY <1>1, <2>6 DEF Cells
<1> QED BY <1>2, <1>4, <1>5, <1>6, <1>7

\* The text of a chunk is read as the table.
LEMMA TextReturns ==
    ASSUME LInv, columns \in Tables, chunk # <<>>, path.format = "TSV"
    PROVE  /\ \E C : loadText \in Seq(C)
           /\ DOMAIN parsed(loadText) = 1 .. Len(chunk)
           /\ \A n \in 1 .. Len(chunk) : \A i \in 1 .. Len(columns) :
                 delivered(i) =>
                 ofText(columns[i], parsed(loadText)[n][i]) = returns(columns[i], table[skipped + n][i])
<1>1. PICK schema : schema = FieldsToRowSchema(columns)
  OBVIOUS
<1>2. PICK m \in Nat \ {0} : m = Len(chunk)
  BY WholeChunk
<1>3. PICK n \in Nat \ {0} : n = Len(columns)
  BY WholeChunk
<1>4. DOMAIN schema = 1 .. n /\ DOMAIN chunk = 1 .. m
  BY <1>1, <1>2, <1>3, WholeChunk
<1>5. ASSUME NEW k \in 1 .. m, NEW i \in 1 .. n
      PROVE  /\ schema[i] = schemaOf(columns[i])
             /\ schema[i].type \in {"Fixed", "Variable"} => chunk[k][i] \in Seq(Character)
             /\ delivered(i) =>
                    ofText(columns[i], parsedAs(schemaOf(columns[i]), chunk[k][i])) = returns(columns[i], table[skipped + k][i])
  <2>1. PICK column, v : column = columns[i] /\ v = table[skipped + k][i]
    OBVIOUS
  <2>2. /\ schema[i] = schemaOf(column)
        /\ schema[i].type = fieldType(column.name)
        /\ comesBack(column, v) /\ cellOf(column, v) # <<>> /\ chunk[k][i] = cellOf(column, v)[1]
    BY <1>1, <1>2, <1>3, <2>1, WholeChunk
  <2>3. path.treatZeroLenAsNull = TRUE
    BY PathTypes DEF LInv
  <2>4. /\ fieldType(column.name) \in {"Fixed", "Variable"} => chunk[k][i] \in Seq(Character)
        /\ seen(column, v) = v =>
              ofText(column, parsedAs(schemaOf(column), chunk[k][i])) = returns(column, v)
    BY <2>2, <2>3 DEF comesBack, cellOf
  <2>5. delivered(i) => seen(column, v) = v
    BY <1>3, <2>1, WholeChunk, DeliveredSeen
  <2> QED BY <2>1, <2>2, <2>4, <2>5
<1>6. PICK t : t = ChunkToTSV(schema)
  OBVIOUS
<1>7. /\ \E C : t \in Seq(C)
      /\ parsed(t) = [k \in 1 .. m |-> [i \in 1 .. n |-> parsedAs(schema[i], chunk[k][i])]]
  <2>1. n \in Nat /\ n # 0 /\ m \in Nat /\ m # 0
    OBVIOUS
  <2>2. writable(schema, n, m)
    BY <1>4, <1>5 DEF writable
  <2>3. /\ \E C : ChunkToTSV(schema) \in Seq(C)
        /\ parsed(ChunkToTSV(schema)) =
               [k \in 1 .. m |-> [i \in 1 .. n |-> parsedAs(schema[i], chunk[k][i])]]
    BY <2>1, <2>2, ChunkParsed
  <2> QED BY <1>6, <2>3
<1>8. loadText = t
  BY <1>1, <1>6 DEF loadText
<1>9. ASSUME NEW k \in 1 .. m, NEW i \in 1 .. n
      PROVE  delivered(i) => ofText(columns[i], parsed(t)[k][i]) = returns(columns[i], table[skipped + k][i])
  <2>1. parsed(t)[k][i] = parsedAs(schemaOf(columns[i]), chunk[k][i])
    BY <1>5, <1>7
  <2> QED BY <1>5, <2>1
<1> QED BY <1>2, <1>3, <1>7, <1>8, <1>9

\* So is the Avro buffer.
LEMMA AvroReturns ==
    ASSUME LInv, columns \in Tables, chunk # <<>>, path.format # "TSV"
    PROVE  /\ \E C : loadText \in Seq(C)
           /\ Len(loadText) \div Len(columns) = Len(chunk)
           /\ \A n \in 1 .. Len(chunk) : \A i \in 1 .. Len(columns) :
                 delivered(i) =>
                 MakeColumnsAvro(columns[i], loadText[(n - 1) * Len(columns) + i][2]) =
                     returns(columns[i], table[skipped + n][i])
<1>1. PICK schema : schema = FieldsToRowSchema(columns)
  OBVIOUS
<1>2. PICK m \in Nat \ {0} : m = Len(chunk)
  BY WholeChunk
<1>3. PICK n \in Nat \ {0} : n = Len(columns)
  BY WholeChunk
<1>4. DOMAIN schema = 1 .. n /\ DOMAIN chunk = 1 .. m
  BY <1>1, <1>2, <1>3, WholeChunk
<1>5. ASSUME NEW k \in 1 .. m, NEW i \in 1 .. n
      PROVE  /\ schema[i] = schemaOf(columns[i])
             /\ delivered(i) =>
                    MakeColumnsAvro(columns[i], tokenOf(schemaOf(columns[i]), chunk[k][i])[2]) =
                        returns(columns[i], table[skipped + k][i])
  <2>1. PICK column, v : column = columns[i] /\ v = table[skipped + k][i]
    OBVIOUS
  <2>2. /\ schema[i] = schemaOf(column)
        /\ comesBack(column, v) /\ cellOf(column, v) # <<>> /\ chunk[k][i] = cellOf(column, v)[1]
    BY <1>1, <1>2, <1>3, <2>1, WholeChunk
  <2>3. seen(column, v) = v =>
            MakeColumnsAvro(column, tokenOf(schemaOf(column), chunk[k][i])[2]) = returns(column, v)
    BY <2>2 DEF comesBack, cellOf
  <2>4. delivered(i) => seen(column, v) = v
    BY <1>3, <2>1, WholeChunk, DeliveredSeen
  <2> QED BY <2>1, <2>2, <2>3, <2>4
<1>6. PICK t : t = avro(schema)
  OBVIOUS
<1>7. /\ \E C : t \in Seq(C)
      /\ Len(t) = m * n
      /\ \A k \in 1 .. m : \A i \in 1 .. n : t[(k - 1) * n + i] = tokenOf(schema[i], chunk[k][i])
  BY <1>4, <1>6, ChunkTokens
<1>8. loadText = t
  BY <1>1, <1>6 DEF loadText
<1>9. (m * n) \div n = m
  <2>1. (m * n + 0) \div n = m
    BY DivUnique
  <2>2. m * n + 0 = m * n
    OBVIOUS
  <2> QED BY <2>1, <2>2
<1>10. ASSUME NEW k \in 1 .. m, NEW i \in 1 .. n
       PROVE  delivered(i) =>
                  MakeColumnsAvro(columns[i], t[(k - 1) * n + i][2]) = returns(columns[i], table[skipped + k][i])
  <2>1. t[(k - 1) * n + i] = tokenOf(schemaOf(columns[i]), chunk[k][i])
    BY <1>5, <1>7
  <2> QED BY <1>5, <2>1
<1> QED BY <1>2, <1>3, <1>7, <1>8, <1>9, <1>10

\* A step that leaves both tables and the chunk alone.
LEMMA TablesKept ==
    ASSUME LInv, UNCHANGED <<path, columns, table, chunk>>
    PROVE  /\ path' \in Paths /\ Chosen' /\ Filled' /\ Cells'
           /\ loadText' = loadText /\ skipped' = skipped
           /\ \A column, v : returns(column, v)' = returns(column, v)
           /\ \A i : delivered(i)' <=> delivered(i)
<1>1. path' \in Paths /\ Chosen'
  BY DEF LInv, Chosen
<1>2. Filled'
  BY DEF LInv, Filled
<1>3. \A column, v : cellOf(column, v)' = cellOf(column, v)
  BY DEF cellOf, seen
<1>4. skipped' = skipped
  BY DEF skipped
<1>5. Cells'
  BY <1>3, <1>4 DEF LInv, Cells
<1>6. loadText' = loadText
  BY DEF loadText, ChunkToTSV, avro
<1>7. \A column, v : returns(column, v)' = returns(column, v)
  BY DEF returns
<1>8. \A i : delivered(i)' <=> delivered(i)
  BY DEF delivered
<1> QED BY <1>1, <1>2, <1>4, <1>5, <1>6, <1>7, <1>8

\* Nothing of the load changes.
LEMMA LoadStays ==
    ASSUME LInv, UNCHANGED lvars
    PROVE  LInv'
<1>1. UNCHANGED <<path, columns, table, chunk>>
  BY DEF lvars
<1>2. /\ path' \in Paths /\ Chosen' /\ Filled' /\ Cells' /\ loadText' = loadText
      /\ skipped' = skipped
      /\ \A column, v : returns(column, v)' = returns(column, v)
      /\ \A i : delivered(i)' <=> delivered(i)
  BY <1>1, TablesKept
<1>3. Sending'
  BY <1>2 DEF LInv, Sending, lvars
<1>4. ValuesReturn'
  <2>1. m_row_schema' = m_row_schema
    BY DEF m_row_schema, lvars
  <2>2. refusedOnlyInvalid'
    BY <1>2, <2>1 DEF LInv, ValuesReturn, refusedOnlyInvalid, lvars
  <2> QED BY <1>2, <2>2 DEF LInv, ValuesReturn, lvars
<1> QED BY <1>2, <1>3, <1>4 DEF LInv, lvars

\* The tables are chosen.
LEMMA ChooseStep ==
    ASSUME LInv, ChooseTable
    PROVE  LInv'
<1>1. table' = <<>> /\ chunk' = <<>> /\ phase' = "table" /\ m_current_pos' = 0 /\ sent' = <<>>
  BY DEF LInv, ChooseTable, Sending
<1>2. path' \in Paths /\ columns' \in Tables /\ Chosen'
  BY DEF ChooseTable, Chosen
<1>3. Filled'
  BY <1>1 DEF Filled, Range
<1>4. Cells'
  BY <1>1 DEF Cells, Range
<1>5. Sending'
  BY <1>1 DEF Sending
<1>6. ValuesReturn'
  BY <1>1 DEF ValuesReturn, refusedOnlyInvalid
<1> QED BY <1>1, <1>2, <1>3, <1>4, <1>5, <1>6 DEF LInv

\* The text is handed to the client library, or the statement cannot start.
LEMMA InfileStep ==
    ASSUME LInv, NEW refusals \in SUBSET {BadChunk}, infile(loadText, refusals)
    PROVE  LInv'
<1>1. UNCHANGED <<path, columns, table, chunk>>
  BY DEF infile
<1>2. /\ path' \in Paths /\ Chosen' /\ Filled' /\ Cells' /\ loadText' = loadText
      /\ skipped' = skipped
  BY <1>1, TablesKept
<1>3. columns' \in Tables
  BY <1>1 DEF LInv, infile
<1>4. m_current_pos' = 0 /\ sent' = <<>> /\ chunk' # <<>> /\ Len(chunk') = Len(table') - skipped'
  BY <1>1, <1>2 DEF LInv, infile, Sending
<1>5. CASE phase' = "load" /\ source' = loadText
  <2>1. \E C : loadText \in Seq(C)
    BY TextReturns, AvroReturns DEF LInv, infile
  <2>2. 0 \in 0 .. Len(source') /\ SubSeq(source', 1, 0) = <<>>
    BY <1>5, <2>1
  <2>3. Sending'
    BY <1>2, <1>4, <1>5, <2>2 DEF Sending
  <2>4. ValuesReturn'
    BY <1>5 DEF ValuesReturn, refusedOnlyInvalid
  <2> QED BY <1>2, <1>3, <1>5, <2>3, <2>4 DEF LInv
<1>6. CASE phase' = "failed" /\ loadErr' \in {BadConnection} \cup refusals
  <2>1. Sending'
    BY <1>6 DEF Sending
  <2>2. loadErr' \notin {UnsDataType, InvalidDate}
    BY <1>6 DEF BadConnection, BadChunk, UnsDataType, InvalidDate
  <2>3. ValuesReturn'
    BY <1>6, <2>2 DEF ValuesReturn, refusedOnlyInvalid
  <2> QED BY <1>2, <1>3, <1>6, <2>1, <2>3 DEF LInv
<1> QED BY <1>5, <1>6 DEF infile

\* The client library reads a piece.
LEMMA ReadStep ==
    ASSUME LInv, NEW buf_len \in BufLens, ss_local_infile_read(buf_len)
    PROVE  LInv'
<1>1. UNCHANGED <<path, columns, table, chunk>> /\ phase = "load" /\ phase' = phase /\ source' = source
  BY DEF ss_local_infile_read
<1>2. /\ path' \in Paths /\ Chosen' /\ Filled' /\ Cells' /\ loadText' = loadText
      /\ skipped' = skipped
  BY <1>1, TablesKept
<1>3. /\ columns \in Tables /\ chunk # <<>> /\ Len(chunk) = Len(table) - skipped /\ source = loadText
      /\ m_current_pos \in 0 .. Len(source) /\ sent = SubSeq(source, 1, m_current_pos)
  BY <1>1 DEF LInv, Sending
<1>4. PICK C : source \in Seq(C)
  BY <1>3, TextReturns, AvroReturns
<1>5. buf_len \in Nat
  BY LoadDataAssumption
<1>6. PICK l \in Nat, p \in Nat : l = Len(source) /\ p = m_current_pos /\ p <= l
  BY <1>3, <1>4
<1>7. PICK k \in 0 .. (l - p) : /\ m_current_pos' = p + k
                               /\ sent' = sent \o SubSeq(source, p + 1, p + k)
  <2>1. CASE buf_len <= l - p
    <3>1. m_current_pos' = p + buf_len /\ sent' = sent \o SubSeq(source, p + 1, p + buf_len)
      BY <1>6, <2>1 DEF ss_local_infile_read
    <3> QED BY <1>5, <2>1, <3>1
  <2>2. CASE ~(buf_len <= l - p)
    <3>1. /\ m_current_pos' = p + (l - p)
          /\ sent' = sent \o SubSeq(source, p + 1, p + (l - p))
      BY <1>6, <2>2 DEF ss_local_infile_read
    <3>2. l - p \in 0 .. (l - p)
      BY <1>6
    <3> QED BY <3>1, <3>2
  <2> QED BY <2>1, <2>2
<1>8. sent' = SubSeq(source, 1, p + k) /\ p + k \in 0 .. l
  <2>1. PICK q \in Nat : q = p + k
    OBVIOUS
  <2>2. q \in 0 .. l /\ p <= q
    BY <1>6, <2>1
  <2>3. 1 \in 1 .. Len(source) + 1 /\ p \in 1 - 1 .. Len(source) /\ q \in p .. Len(source)
    BY <1>6, <2>2
  <2>4. SubSeq(source, 1, p) \o SubSeq(source, p + 1, q) = SubSeq(source, 1, q)
    BY <1>4, <2>3, ConcatAdjacentSubSeq
  <2>5. sent = SubSeq(source, 1, p)
    BY <1>3, <1>6
  <2>6. sent' = sent \o SubSeq(source, p + 1, q)
    BY <1>7, <2>1
  <2> QED BY <2>1, <2>2, <2>4, <2>5, <2>6
<1>9. Sending'
  BY <1>1, <1>2, <1>3, <1>6, <1>7, <1>8 DEF Sending
<1>10. ValuesReturn'
  BY <1>1 DEF ValuesReturn, refusedOnlyInvalid
<1> QED BY <1>1, <1>2, <1>3, <1>9, <1>10 DEF LInv

\* The statement ends.
LEMMA EndStep ==
    ASSUME LInv, EndLoad
    PROVE  LInv'
<1>1. UNCHANGED <<path, columns, table, chunk, source, m_current_pos, sent>> /\ phase = "load"
  BY DEF EndLoad
<1>2. /\ path' \in Paths /\ Chosen' /\ Filled' /\ Cells' /\ loadText' = loadText
      /\ skipped' = skipped
      /\ \A column, v : returns(column, v)' = returns(column, v)
      /\ \A i : delivered(i)' <=> delivered(i)
  BY <1>1, TablesKept
<1>3. /\ columns \in Tables /\ chunk # <<>> /\ Len(chunk) = Len(table) - skipped /\ source = loadText
      /\ m_current_pos \in 0 .. Len(source) /\ sent = SubSeq(source, 1, m_current_pos)
  BY <1>1 DEF LInv, Sending
<1>4. PICK C : source \in Seq(C)
  BY <1>3, TextReturns, AvroReturns
<1>5. sent = loadText
  <2>1. m_current_pos = Len(source)
    BY <1>3, <1>4 DEF EndLoad
  <2> QED BY <1>3, <1>4, <2>1, SubSeqFull
<1>6. Sending'
  BY <1>1, <1>2 DEF LInv, Sending, EndLoad
<1>7. CASE phase' = "failed" /\ loadErr' = LoadFailed
  <2>1. ValuesReturn'
    BY <1>7 DEF ValuesReturn, refusedOnlyInvalid, LoadFailed, UnsDataType, InvalidDate
  <2> QED BY <1>1, <1>2, <1>3, <1>6, <1>7, <2>1 DEF LInv
<1>8. CASE /\ phase' = "done"
           /\ loaded' = IF path.format = "TSV"
                        THEN [n \in DOMAIN parsed(sent) |-> [i \in DOMAIN columns |->
                                 ofText(columns[i], parsed(sent)[n][i])]]
                        ELSE ofAvro(sent)
  <2>1. PICK m \in Nat : m = Len(chunk)
    BY <1>3, WholeChunk
  <2>2. PICK n \in Nat : n = Len(columns) /\ DOMAIN columns = 1 .. n
    BY <1>3, WholeChunk
  <2>3. /\ Len(loaded') = m /\ DOMAIN loaded' = 1 .. m
        /\ \A k \in 1 .. m : \A i \in 1 .. n :
              delivered(i) => loaded'[k][i] = returns(columns[i], table[skipped + k][i])
    <3>1. CASE path.format = "TSV"
      <4>1. PICK p : p = parsed(loadText)
        OBVIOUS
      <4>2. DOMAIN p = 1 .. m
        BY <1>3, <2>1, <3>1, <4>1, TextReturns
      <4>3. \A k \in 1 .. m : \A i \in 1 .. n :
                delivered(i) => ofText(columns[i], p[k][i]) = returns(columns[i], table[skipped + k][i])
        BY <1>3, <2>1, <2>2, <3>1, <4>1, TextReturns
      <4>4. loaded' = [k \in 1 .. m |-> [i \in 1 .. n |-> ofText(columns[i], p[k][i])]]
        BY <1>5, <1>8, <2>2, <3>1, <4>1, <4>2
      <4> QED BY <4>3, <4>4
    <3>2. CASE path.format # "TSV"
      <4>1. PICK t : t = loadText
        OBVIOUS
      <4>2. Len(t) \div n = m
        BY <1>3, <2>1, <2>2, <3>2, <4>1, AvroReturns
      <4>3. \A k \in 1 .. m : \A i \in 1 .. n :
                delivered(i) =>
                MakeColumnsAvro(columns[i], t[(k - 1) * n + i][2]) =
                    returns(columns[i], table[skipped + k][i])
        BY <1>3, <2>1, <2>2, <3>2, <4>1, AvroReturns
      <4>4. loaded' = [k \in 1 .. m |-> [i \in 1 .. n |->
                           MakeColumnsAvro(columns[i], t[(k - 1) * n + i][2])]]
        BY <1>5, <1>8, <2>2, <3>2, <4>1, <4>2 DEF ofAvro
      <4> QED BY <4>3, <4>4
    <3> QED BY <3>1, <3>2
  <2>4. ValuesReturn'
    <3>1. refusedOnlyInvalid'
      BY <1>8 DEF refusedOnlyInvalid
    <3>2. Len(loaded') = Len(table') - skipped'
      BY <1>1, <1>2, <1>3, <2>1, <2>3
    <3>3. \A k \in DOMAIN loaded' : \A i \in {j \in DOMAIN columns' : delivered(j)'} :
              loaded'[k][i] = returns(columns[i], table[skipped + k][i])'
      BY <1>1, <1>2, <2>1, <2>2, <2>3
    <3> QED BY <3>1, <3>2, <3>3 DEF ValuesReturn
  <2> QED BY <1>1, <1>2, <1>3, <1>6, <1>8, <2>4 DEF LInv
<1> QED BY <1>7, <1>8 DEF EndLoad

\* A function on 1 .. n is a sequence.
LEMMA IsSequence ==
    ASSUME NEW n \in Nat, NEW s, s = [i \in 1 .. n |-> s[i]]
    PROVE  s \in Seq(Range(s)) /\ Len(s) = n
<1>1. PICK S : S = {s[i] : i \in 1 .. n}
  OBVIOUS
<1>2. s \in [1 .. n -> S]
  BY <1>1
<1>3. s \in Seq(S) /\ Len(s) = n /\ DOMAIN s = 1 .. n
  BY <1>2
<1>4. Range(s) = S
  BY <1>1, <1>3 DEF Range
<1> QED BY <1>3, <1>4

\* One value more of it.
LEMMA AppendSequence ==
    ASSUME NEW R, NEW s \in Seq(R), NEW x
    PROVE  /\ Append(s, x) \in Seq(Range(Append(s, x)))
           /\ Len(Append(s, x)) = Len(s) + 1
           /\ \A i \in 1 .. Len(s) : Append(s, x)[i] = s[i]
           /\ Append(s, x)[Len(s) + 1] = x
<1>1. PICK n \in Nat : n = Len(s)
  OBVIOUS
<1>2. s \in Seq(R \cup {x})
  OBVIOUS
<1>3. PICK t : t = Append(s, x)
  OBVIOUS
<1>4. /\ t \in Seq(R \cup {x}) /\ Len(t) = n + 1
      /\ \A i \in 1 .. n : t[i] = s[i]
      /\ t[n + 1] = x
  BY <1>1, <1>2, <1>3, AppendProperties
<1>5. t = [i \in 1 .. (n + 1) |-> t[i]]
  BY <1>1, <1>4
<1>6. t \in Seq(Range(t))
  BY <1>1, <1>5, IsSequence
<1> QED BY <1>1, <1>3, <1>4, <1>6

\* A value is added to the table.
LEMMA InsertStep ==
    ASSUME LInv, InsertValue
    PROVE  LInv'
<1>1. /\ phase = "table" /\ phase' = phase /\ chunk = <<>> /\ chunk' = chunk
      /\ UNCHANGED <<path, columns, m_current_pos, sent>>
  BY DEF InsertValue
<1>2. Chosen /\ columns \in Tables /\ Filled
  BY <1>1 DEF LInv
<1>3. PICK c \in Nat \ {0} : c = Len(columns)
  <2>1. columns \in Seq(Column) /\ columns # <<>>
    BY <1>2, TableColumns
  <2> QED BY <2>1
<1>4. PICK m \in Nat : m = Len(table) /\ DOMAIN table = 1 .. m /\ (table = <<>> <=> m = 0)
  <2>1. PICK S : table \in Seq(S)
    BY <1>2 DEF Filled
  <2> QED BY <2>1
<1>5. \A k \in 1 .. m : /\ table[k] \in Seq(Range(table[k]))
                        /\ Len(table[k]) <= c
                        /\ k < m => Len(table[k]) = c
                        /\ \A i \in 1 .. Len(table[k]) : table[k][i] \in values(columns[i])
  BY <1>2, <1>3, <1>4 DEF Filled
<1>6. Last(table) = table[m]
  BY <1>4 DEF Last
<1>7. PICK n : n = IF table = <<>> \/ Len(Last(table)) = Len(columns) THEN Len(table) + 1
                   ELSE Len(table)
  OBVIOUS
<1>8. PICK row : row = IF n > Len(table) THEN <<>> ELSE table[n]
  OBVIOUS
<1>9. PICK v \in values(columns[Len(row) + 1]) :
          table' = [i \in 1 .. n |-> IF i = n THEN Append(row, v) ELSE table[i]]
  BY <1>7, <1>8 DEF InsertValue
<1>10. /\ n \in Nat \ {0} /\ m <= n /\ n <= m + 1
       /\ \A k \in 1 .. (n - 1) : k \in 1 .. m /\ Len(table[k]) = c
  BY <1>3, <1>4, <1>5, <1>6, <1>7
<1>11. /\ row \in Seq(Range(row)) /\ Len(row) \in 0 .. (c - 1)
       /\ \A i \in 1 .. Len(row) : row[i] \in values(columns[i])
  <2>1. CASE n > m
    <3>1. row = <<>>
      BY <1>4, <1>8, <2>1
    <3> QED BY <1>3, <3>1 DEF Range
  <2>2. CASE ~(n > m)
    <3>1. n = m /\ m \in 1 .. m /\ row = table[m]
      BY <1>4, <1>8, <1>10, <2>2
    <3>2. Len(table[m]) # c
      BY <1>3, <1>4, <1>6, <1>7, <3>1
    <3>3. row \in Seq(Range(row)) /\ Len(row) <= c /\ Len(row) # c
      BY <1>5, <3>1, <3>2
    <3>4. Len(row) \in Nat
      <4>1. PICK S : row \in Seq(S)
        BY <3>3
      <4> QED BY <4>1
    <3>5. \A i \in 1 .. Len(row) : row[i] \in values(columns[i])
      BY <1>5, <3>1
    <3> QED BY <3>3, <3>4, <3>5
  <2> QED BY <2>1, <2>2
<1>12. PICK l \in Nat : l = Len(row) /\ l + 1 <= c
  BY <1>3, <1>11
<1>13. PICK r : r = Append(row, v)
  OBVIOUS
<1>14. /\ r \in Seq(Range(r)) /\ Len(r) = l + 1
       /\ \A i \in 1 .. l : r[i] = row[i]
       /\ r[l + 1] = v
  BY <1>11, <1>12, <1>13, AppendSequence
<1>15. \A i \in 1 .. Len(r) : r[i] \in values(columns[i])
  BY <1>9, <1>11, <1>12, <1>14
<1>16. PICK t : t = table'
  OBVIOUS
<1>17. t = [i \in 1 .. n |-> t[i]] /\ t[n] = r /\ \A k \in 1 .. (n - 1) : t[k] = table[k]
  BY <1>9, <1>10, <1>13, <1>16
<1>18. t \in Seq(Range(t)) /\ Len(t) = n
  BY <1>10, <1>17, IsSequence
<1>19. ASSUME NEW k \in 1 .. n
       PROVE  /\ t[k] \in Seq(Range(t[k])) /\ Len(t[k]) <= c
              /\ k < n => Len(t[k]) = c
              /\ \A i \in 1 .. Len(t[k]) : t[k][i] \in values(columns[i])
  <2>1. CASE k = n
    BY <1>10, <1>12, <1>14, <1>15, <1>17, <2>1
  <2>2. CASE k # n
    <3>1. k \in 1 .. (n - 1)
      BY <1>10, <2>2
    <3>2. k \in 1 .. m /\ t[k] = table[k] /\ Len(table[k]) = c
      BY <1>10, <1>17, <3>1
    <3> QED BY <1>3, <1>5, <3>2
  <2> QED BY <2>1, <2>2
<1>20. Filled'
  BY <1>1, <1>3, <1>16, <1>18, <1>19 DEF Filled
<1>21. Cells'
  <2>1. chunk' = <<>> /\ 0 <= Len(table')
    BY <1>1, <1>10, <1>16, <1>18
  <2> QED BY <2>1 DEF Cells, Range
<1>22. Sending'
  BY <1>1 DEF LInv, Sending
<1>23. ValuesReturn'
  BY <1>1 DEF ValuesReturn, refusedOnlyInvalid
<1> QED BY <1>1, <1>2, <1>20, <1>21, <1>22, <1>23 DEF LInv, Chosen

\* The next row is written, or the chunk is refused.
LEMMA WriteStep ==
    ASSUME LInv, WriteRow
    PROVE  LInv'
<1>1. /\ phase = "table" /\ UNCHANGED <<path, columns, table, source, m_current_pos, sent, loaded>>
      /\ skipped + Len(chunk) < Len(table) /\ Len(Last(table)) = Len(columns)
      /\ \A i \in DOMAIN columns : columns[i].name \notin DifferingNames
  BY DEF WriteRow
<1>2. path \in Paths /\ Chosen /\ columns \in Tables /\ Filled /\ Cells
  BY <1>1 DEF LInv
<1>3. path' \in Paths /\ Chosen' /\ columns' \in Tables /\ Filled'
  BY <1>1, <1>2 DEF Chosen, Filled
<1>4. PICK c \in Nat : c = Len(columns) /\ DOMAIN columns = 1 .. c
  <2>1. columns \in Seq(Column)
    BY <1>2, TableColumns
  <2> QED BY <2>1
<1>5. PICK m \in Nat : m = Len(table) /\ DOMAIN table = 1 .. m
  <2>1. PICK S : table \in Seq(S)
    BY <1>2 DEF Filled
  <2> QED BY <2>1
<1>6. PICK S : chunk \in Seq(S)
  BY <1>2 DEF Cells
<1>7. PICK n \in Nat, z \in {0, 1} : n = Len(chunk) /\ z = skipped /\ z + n + 1 \in 1 .. m
  BY <1>1, <1>5, <1>6, Skipped
<1>8. Len(table[m]) = c
  BY <1>1, <1>4, <1>5 DEF Last
<1>9. ASSUME NEW k \in 1 .. m, NEW i \in 1 .. c
      PROVE  columns[i] \in Followed /\ table[k][i] \in values(columns[i])
  <2>1. columns[i] \in Column /\ table[k][i] \in values(columns[i])
    BY <1>2, <1>4, <1>5, <1>8, RowOf
  <2>2. columns[i].name \notin DifferingNames
    BY <1>1, <1>4
  <2> QED BY <2>1, <2>2 DEF Column, Followed
<1>10. PICK cell : cell = [i \in DOMAIN columns |->
                               written(m_row_schema[i], fetched(table[z + n + 1][i], i))]
  OBVIOUS
<1>11. ASSUME NEW i \in 1 .. c
       PROVE  /\ cell[i] = cellOf(columns[i], table[z + n + 1][i])
              /\ m_row_schema[i] = schemaOf(columns[i])
  <2>1. i \in DOMAIN columns /\ columns[i].name \notin DifferingNames
    BY <1>1, <1>4
  <2> QED BY <1>2, <1>10, <2>1, WrittenBy
<1>12. (\A column, v : cellOf(column, v)' = cellOf(column, v)) /\ skipped' = skipped
  BY <1>1 DEF cellOf, seen, skipped
<1>13. CASE \A i \in 1 .. c : cell[i] # <<>>
  <2>1. PICK x : x = [i \in 1 .. c |-> cell[i][1]]
    OBVIOUS
  <2>2. chunk' = Append(chunk, x) /\ phase' = phase
    BY <1>4, <1>7, <1>10, <1>13, <2>1 DEF WriteRow
  <2>3. PICK d : d = chunk'
    OBVIOUS
  <2>4. /\ d \in Seq(Range(d)) /\ Len(d) = n + 1 /\ d[n + 1] = x
        /\ \A k \in 1 .. n : d[k] = chunk[k]
    BY <1>6, <1>7, <2>2, <2>3, AppendSequence
  <2>5. ASSUME NEW k \in 1 .. (n + 1), NEW i \in 1 .. c
        PROVE  /\ cellOf(columns[i], table[z + k][i]) # <<>>
               /\ d[k][i] = cellOf(columns[i], table[z + k][i])[1]
    <3>1. CASE k = n + 1
      BY <1>11, <1>13, <2>1, <2>4, <3>1
    <3>2. CASE k # n + 1
      <4>1. k \in 1 .. n /\ d[k] = chunk[k]
        BY <2>4, <3>2
      <4> QED BY <1>2, <1>4, <1>7, <4>1 DEF Cells
    <3> QED BY <3>1, <3>2
  <2>6. Cells'
    <3>1. z + Len(d) <= Len(table)
      BY <1>5, <1>7, <2>4
    <3>2. Len(table[Len(table)]) = Len(columns)
      BY <1>4, <1>5, <1>8
    <3>3. \A k \in 1 .. Len(d) : \A i \in 1 .. Len(columns) :
              /\ cellOf(columns[i], table[z + k][i]) # <<>>
              /\ d[k][i] = cellOf(columns[i], table[z + k][i])[1]
      BY <1>4, <2>4, <2>5
    <3>4. \A i \in 1 .. Len(columns) : columns[i].name \notin DifferingNames
      BY <1>1, <1>4
    <3> QED BY <1>1, <1>7, <1>12, <2>3, <2>4, <3>1, <3>2, <3>3, <3>4 DEF Cells
  <2>7. Sending' /\ ValuesReturn'
    BY <1>1, <2>2 DEF LInv, Sending, ValuesReturn, refusedOnlyInvalid
  <2> QED BY <1>1, <1>3, <2>2, <2>6, <2>7 DEF LInv
<1>14. CASE ~\A i \in 1 .. c : cell[i] # <<>>
  <2>1. PICK i \in 1 .. c : cell[i] = <<>>
    BY <1>14
  <2>2. chunk' = chunk /\ phase' = "failed"
    BY <1>4, <1>7, <1>10, <1>14 DEF WriteRow
  <2>3. PICK v : v = table[z + n + 1][i]
    OBVIOUS
  <2>4. \/ fieldType(columns[i].name) = "Unsupported"
        \/ fieldType(columns[i].name) = "DateTime" /\ v # <<>> /\ v[1].sec = -1
    BY <1>7, <1>9, <1>11, <2>1, <2>3, Refused
  <2>5. m_row_schema'[i].type = fieldType(columns[i].name)
    <3>1. m_row_schema' = m_row_schema
      BY <1>1 DEF m_row_schema
    <3> QED BY <1>11, <3>1, SchemaOf
  <2>6. i \in DOMAIN columns' /\ table'[skipped' + Len(chunk') + 1][i] = v /\ columns' = columns
    BY <1>1, <1>4, <1>7, <1>12, <2>2, <2>3
  <2>7. ValuesReturn'
    BY <2>2, <2>4, <2>5, <2>6 DEF ValuesReturn, refusedOnlyInvalid
  <2>8. Cells'
    BY <1>1, <1>2, <1>12, <2>2 DEF Cells
  <2>9. Sending'
    BY <2>2 DEF Sending
  <2> QED BY <1>3, <2>2, <2>7, <2>8, <2>9 DEF LInv
<1> QED BY <1>13, <1>14

\* A table that is read by the prepared protocol and loaded again, in pieces of
\* whatever size and by either format, has the same rows in the same order, whatever
\* strings, numbers and times it has, up to what CAS does not tell apart from NULL.
\* Read by the text protocol it has the same rows after the first, which is lost, in
\* all columns but those of dates and times, which are lost too.  A chunk is refused
\* only for a type that is not supported and for the second before 1970-01-01.
THEOREM ValuesKept == SSpec => []ValuesReturn
<1>1. SInit => LInv
  <2> SUFFICES ASSUME SInit PROVE LInv
    OBVIOUS
  <2>1. path \in Paths /\ Chosen
    BY DEF SInit, LInit, Paths, Chosen
  <2>2. Filled /\ Cells
    BY DEF SInit, LInit, Filled, Cells, Range
  <2>3. Sending /\ ValuesReturn
    BY DEF SInit, LInit, Sending, ValuesReturn, refusedOnlyInvalid
  <2> QED BY <2>1, <2>2, <2>3 DEF SInit, LInit, LInv
<1>2. LInv /\ [SNext]_cvars => LInv'
  <2> SUFFICES ASSUME LInv, [SNext]_cvars PROVE LInv'
    OBVIOUS
  <2>1. CASE UNCHANGED lvars
    BY <2>1, LoadStays
  <2>2. CASE ChooseTable
    BY <2>2, ChooseStep
  <2>3. CASE InsertValue
    BY <2>3, InsertStep
  <2>4. CASE WriteRow
    BY <2>4, WriteStep
  <2>5. CASE WriteChunk
    <3>1. infile(loadText, {BadChunk})
      BY <2>5 DEF WriteChunk, loadText
    <3> QED BY <3>1, InfileStep
  <2>6. CASE WriteAvro
    <3>1. infile(loadText, {})
      BY <2>6 DEF WriteAvro, loadText
    <3> QED BY <3>1, InfileStep
  <2>7. CASE \E buf_len \in BufLens : ss_local_infile_read(buf_len)
    BY <2>7, ReadStep
  <2>8. CASE EndLoad
    BY <2>8, EndStep
  <2> QED BY <2>1, <2>2, <2>3, <2>4, <2>5, <2>6, <2>7, <2>8, LoadUntouched DEF LNext
<1>3. LInv => ValuesReturn
  BY DEF LInv
<1> QED BY <1>1, <1>2, <1>3, PTL DEF SSpec, cvars
=============================================================================
