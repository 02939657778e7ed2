# sas-libclient: specifications, model checking and proofs

sas-libclient lets the workers of a SAS CAS server read query results from a
SingleStore cluster in parallel, partition by partition, and write tables back.
This directory holds TLA+ specifications of its parts: the queues and the threads
around them, the connection, the calls of the C interface, the layout of chunks
and the conversions of values. With them are TLC configurations that check them on small instances, and
TLAPS proofs for every value of the constants.

Paths below are relative to the repository's root. `PROJECT.json` lists the
runs, the mutants that show that each property can fail, the source lines of
every definition, the hazards and the theorems.

## 1. The system

| Part | State | Operations |
|---|---|---|
| `ThreadSafeSimpleQueue` (`queue/thread_safe_simple_queue.hpp`) | `m_queue`, `m_producers`, two condition variables | `Push`, `Pop`, `DeleteProducer` |
| `ThreadSafeBatchQueue` (`queue/thread_safe_batch_queue.hpp`) | slot array, `m_queue`, current batch, reads per batch, active flags, three kinds of condition variable | `Push`, `Pop`, `Get`, `DeleteProducer`, `FreeBatchData` |
| `ResultTableReader` (`result_table_reader.cpp`) | connection, chunk writer, `m_error`, `m_stop_reading`, `m_active`, a thread | create, prepare, read loop, stop, join |
| `StreamingQueue` and its base `ChunkQueue` (`queue/streaming_queue.cpp`, `queue/chunk_queue.hpp`) | one simple queue per consumer, readers, row schema, `m_partition_consumer` | create, `Get`, destructor |
| `MultiPassQueue` (`queue/multi_pass_queue.cpp`) | one batch queue per consumer, readers, row schema, consumer connections | create, `Get`, `GetById`, point reads, destructor |
| `S2Connection` (`s2_connection.cpp`) | statement, result, the last fetched row | connect, execute, prepare, advance, fill a chunk, point reads, metadata, load |
| `SuperChunk` with its writer and reader (`hdat/`) | bytes, offsets from both ends, row and column counters | write a row, write values, end a row, read values |
| Partition assignment (`utils.cpp`) | none | `WorkerPartitions`, `ConsumerPartitions` |
| Client session (`s2_client.cpp`, `parallel_read.cpp`) | connection, number of partitions, last error | the C interface |
| Choice of the read type (`s2_connection.cpp`) | none | `GetParallelReadType` from the keys of a table and an EXPLAIN |
| Schemas from metadata, SQL generation (`utils.cpp`) | none | `FieldsToRowSchema`, `ExplainToRowSchema`, the statements |
| Dates and times (`hdat/common.hpp`) | none | conversions to and from the numbers of CAS |
| TSV and Avro load (`tsv_table_writer.cpp`, `avro_table_writer.cpp`) | the text or buffer and `m_current_pos` | `ChunkToTSV`, the callbacks of LOAD DATA LOCAL INFILE |

How they interact. A CAS worker calls `ParallelReadGetQueue`, which creates a
`ChunkQueue`: the partitions of the worker are dealt out to its consumers, every
consumer gets a queue that knows how many readers will push to it, and every
partition gets a `ResultTableReader` with its own connection and thread. A reader
fetches rows into the single row the connection remembers, writes them into a
chunk until one does not fit, and pushes the chunk. CAS threads call
`GetNextChunk` (`Pop`) or, from the second pass on, `GetChunkMulti` (`Get`). The
queue's end is known by the number of active producers; whether the end is also
a success is known by the readers' `m_error`. `ChunkQueueFree` stops the readers,
drains and deletes the queues, frees the schema, and only then joins the threads.

Before that, one process calls `ParallelReadInit`, which chooses between a result
table, a columnstore table and the original table, and creates the first two on
the server; `ParallelReadFree` drops them. A multi-pass queue also has a
connection for each CAS thread, over which `GetChunkRow` and
`GetChunkMultipleRows` read single rows. Data goes back by `LoadDataWrite` (a chunk
as text) and `LoadDataAvro`.

What is hard about it: notifications that wake one thread of several; batches as
barriers between readers, consumers and the destructor; the order of "store the
error" and "leave the queue"; a destructor that deletes what running threads use;
a row that is carried over the end of a chunk; a chunk that fills from both ends;
a statement that is executed although its answer is lost; a point read on a
connection that an earlier one left in the middle of a result.

What makes each part correct:

* queues: every pushed chunk leaves once; the end is reported only when nothing
  can come; bounded; nobody blocks for ever;
* reads: an end without an error means that all data was delivered; the
  destructor ends and nobody uses what it has freed;
* rows: in order, none lost or doubled at a chunk's end; an end or an error;
* chunks: no byte written twice or outside; what is read is what was written;
* partitions: each read once, each queue told its true number of readers;
* point reads: the rows asked for or an error, whatever earlier reads have left;
* session: no table on the server that nobody knows of, failures reported, rows
  grouped and ordered as asked whichever table is read;
* values: what is loaded is what was read.

## 2. The modules

| Module | What it models |
|---|---|
| `ThreadSafeQueue` | the promise of the interface in `queue/thread_safe_queue.hpp`, abstractly: chunks sent and pending, open producers, consumers told of the end |
| `SimpleQueueOps` | the simple queue as a record, its critical sections as operators; notify_one is a set of results |
| `SimpleQueue` | one simple queue with readers and consumers |
| `BatchQueue` | the batch queue with readers, consumers of a first or a later pass, and the destructor |
| `Partitions` | the two assignment functions in closed form |
| `PartitionLoops` | the same as the loops of the code, with the loop over consumers of `CreateChunkQueue` |
| `MultiPassQueue` | the creation of a multi-pass queue and its point reads, over `PartitionLoops` and `Connection` |
| `StreamingRead` | a single-pass read on one worker: creation, readers, consumers, destructor, over `SimpleQueueOps` and `Partitions` |
| `MultiPassRead` | two passes through one batch queue: readers, CAS threads, destructor, over `BatchQueue` |
| `Connection` | statement and fetched row of an `S2Connection`; an operation is the set of its outcomes |
| `RowStream` | the rows of one result set on their way into chunks, over `Connection` |
| `SuperChunk` | the layout of a chunk, its writer and its reader |
| `CasTime` | the arithmetic of dates and times |
| `RowSchemas` | the two ways to the schema of a row |
| `LoadData` | values from a table into a chunk and back into a table, over `CasTime` and `RowSchemas` |
| `ClientSession` | the calls of the C interface: the client's error, the tables on the server, the choice of the read type, over `LoadData` |
| `SimpleQueueProofs`, `BatchQueueProofs`, `PartitionsProofs`, `StreamingReadProofs`, `RowStreamProofs`, `SuperChunkProofs`, `MultiPassQueueProofs`, `ClientSessionProofs` | theorems; `BatchQueueProofs` has those about `MultiPassRead` too, `ClientSessionProofs` those about `CasTime`, `RowSchemas` and `LoadData` |
| `MC...` | the instances TLC checks |

Names of variables, operators and actions are those of the code where there is
one. One action is one step of one thread between two points at which another
thread can see it: in the queues a critical section of `m_mutex` from the lock,
or from the end of a wait, to the next wait or to the return; elsewhere an access
to an atomic flag or to an error under its mutex. A condition variable is the set
of the threads blocked in it. `notify_one` removes any one, `notify_all` all, and
a wait may end without a notification (`SpuriousWakeup`), as the C++ standard
allows.

`BatchQueue`. `m_dataArray` is indexed by reader and place (`Slots`) instead of
by the position computed from them; a slot holds the number of its chunk. `Pop`
takes the front of `m_queue` and frees that chunk's slot, `Get` takes the slot
asked for and drops the front of `m_queue`, whatever it is: the two structures
only agree in number. `Get` tests for the end only at its entry (`GetEmpty`), so
being past the test (`"getting"`) is a state of its own. `FreeBatchData` holds the
mutex between its waits (`unlocked`). It frees the slots in the order of the
array; in the model the reader may be any, which allows more than the code does.

`StreamingRead`. `CreateChunkQueue` may fail at the schema, at the list of
aggregators or at any reader; the destructor then runs with
`m_error_before_read`. A reader's chunk moves through filled, queued, taken or
freed; when `NextChunk` throws, the chunk belongs to nobody (`leaked`). The path
of `Read` for a missing schema cannot be reached in a parallel read (creation has
failed then), and its test `row_count == 0` is dead code, since `WriteRow` throws
when the first row of a chunk does not fit; neither is an action.

`MultiPassRead` begins when creation has succeeded. In the second pass a new
queue is made, and every CAS thread asks for the chunks it got in the first one,
in their order, which is how `test/multi_and_random_test.c` uses the interface.

`RowStream` has both kinds of reader: that of a parallel read prepares its
statement in its thread; the only reader of `QueryGetQueue` is prepared by the
creator, through the binary or the text protocol. A row is its number and the
bytes `rowSize` computes. Every call of the client library may fail. A text
statement without a result set makes `GetRowSchema` dereference a null result;
the model stops there (`crashed`).

`SuperChunk`. The memory is the set of cells written to it, with place, length
and what it is; a value is its length, or null. The writer works by rows
(`WriteRow`, space checked for the whole row) or by values through the C
interface (space checked for each value), the reader value by value as
`ChunkToTSV` does. `DateTime` and `Time` have the layout of `Int64`, `Date` that
of `Int32`. An empty value is read back as null: that is the format. Builds with and
without assertions are both in the model.

`MultiPassQueue`. `CreateChunkQueue` step by step: the loops over partitions and
consumers, the schema, the aggregators, the keys of the original table, one round
for each reader with the retry at the master aggregator, and the start of the
threads; every call may fail, and `CreateThrows` is what `ParallelReadGetQueue`
makes of it. Two inputs lead the code outside its vectors and end in the state
`undefined`: no reader thread (`nConsumers` 0), and a point read of a queue whose
worker has no partition, where `m_consumer_threads_num` was never set. A point
read connects its thread the first time, prepares its statement with whatever the
last read has left in the connection, and fills the chunk row by row. A chunk too
small for the first row makes `WriteRow` throw `std::invalid_argument`, which
nobody catches (`terminated`). The calls of different threads share nothing that
changes and are taken one after another.

`ClientSession`. A call that fails has an error code, a callback that was told or
not, and for CREATE and DROP the two cases executed and not executed. A request is
the arguments of `ParallelReadInit` with the keys and the plan of the source
table. The order and the placement of rows that a statement asks for are columns;
`Rows` and `placements` give them their meaning.

`LoadData`. A table is filled value by value, fetched and written into a chunk row
by row, turned into text or Avro, read by the client library in pieces, and parsed
by the server. Strings are sequences of characters, because quotes, backslashes,
tabs and newlines are what the conversion is about; a number or a time is one
character of its own kind. By the text protocol the chunk begins with the second row
(`skipped`), and its dates and times are NULL (`fetched`). An ENUM or a SET arrives as a
fixed string, a type that the code does not know as unsupported; `WriteRow` stops at the
three names for which the two schemas differ. A chunk may be refused as malformed
(`BadChunk`): it belongs to the caller.

External, and assumed of the server: the parser of LOAD DATA with optionally
enclosed fields; ADDDATE of the number that stands for null, and a NaN, become
NULL; a CHAR loses its trailing blanks; the rows of a result table are read in the
order of its PARTITION ORDER BY; rows that agree in the shard key are in one
partition; DROP RESULT TABLE of a missing table is an error.

## 3. The runs

Bounds are CONSTANTS in the `.cfg` files. All runs say `CHECK_DEADLOCK FALSE`:
a read that has been freed, and a chunk that has been read, really stop.

| Run | Instance | Shows |
|---|---|---|
| `batch_queue` | 2 readers of up to 3 chunks, 2 consumers, batches of 2; both kinds of pass, any chunk asked for at any time | types, `NoOverwrite` (the assertion of `Push`), `CountsAgree`, `HandedOnce`, `BatchBarrier`, `PartitionOrder`, `GetReturnsRequested`, and the refinement of `ThreadSafeQueue` |
| `simple_queue` | 3 readers of 2 chunks, 2 consumers, capacity 2 | types, `Bounded`, `NoLostWakeup`, the refinement, and under fairness `Progress` |
| `multi_pass_queue` | up to 3 workers, 5 partitions, 2 consumers and 2 aggregators, any read type; then up to 2 point reads (tables of up to 2 partitions of 3 rows, chunks of 3 and 6 bytes), 2 failures | `EveryPartitionOnce`, `DrainedQueuesHaveReaders`, `FallbackReported`, `PointReadExact`, `NoTermination` |
| `client` | up to 5 calls, one failure, statements executed or not, about 150 requests; or one load of up to 2 values of the tables of `MCTables` in pieces of 1 and 3 | `NoTableForgotten`, `FailureReported`, `GroupsTogether`, `OrderDelivered`, `SchemasAgree`, `ValuesReturn` |
| `streaming` | worker 0 of 2 with three of 5 partitions, 2 consumers, capacity 1, one failure, freed at any time | `EndMeansComplete`, `NoUseAfterFree`, `QueuesDrained`, `FastClose`, and under fairness `Terminates` |
| `multi_pass` | 2 readers of up to 3 chunks, 1 CAS thread, batches of 2, one failure, either pass given up at any time | `EndMeansComplete`, `ReplayFindsEveryChunk` |
| `multi_pass_live` | 2 readers of up to 2 chunks, 2 CAS threads, batches of 1, the first pass given up at any time | `CallsReturn`, `Freed` |
| `row_stream` | result sets of up to 4 rows of sizes 2, 5 and 7 in chunks of 6, both kinds of reader, both protocols | `RowsInOrder`, `ChunksFilled`, `EndOrError`, `StatementOpen` |
| `super_chunk` | five schemas of up to three columns, chunks of 39 and 64 bytes, lengths 0, 1 and 8, with assertions and without | `CellsApart`, `SpaceAccounted`, `ReadsBack` |
| `multi_pass_hang` | a failing reader of a second pass | refutes `NoWaitForInactive` |
| `text_first_row` | the text protocol | refutes `AllRowsDelivered` |
| `client_errno` | up to 3 calls, one failure | refutes `ErrnoOfLastCall` |

Why the bounds are enough for the cases to happen: in `batch_queue` three chunks
in batches of two let a reader be blocked by a batch, end in the middle of one,
and come back to a slot it has used; in `streaming` one queue has two
readers and one place, so that a reader is blocked in `Push` when the destructor
comes; in `row_stream` three rows of size 2 fill a chunk exactly, a row of size 5
leaves room for none, and one of size 7 fits into no chunk; in `super_chunk` the
sizes make the last value end exactly where the rows end, miss by one byte, and
leave a row half written; in `multi_pass_queue` five partitions give three workers
unequal shares and some consumers none, two failures make a creation fail for good
or one point read fail before another, and a row ends exactly with the chunk, does
not fit behind the first, or does not fit at all; in `client` five calls are
connect, start, queue, free and one more, so that a failed DROP is repeated, and
the units of time are scaled down (days of 4 seconds of 3 microseconds, origins 3
days apart) so that times lie on both sides of both origins. In `client` the
columns to partition by vary for one choice of those to order by and the other way
round, since the two are compared apart; a load is the first call of its client,
since it shares nothing with a read. With two values a table that is read by the
text protocol has two rows, and so a row that is delivered, only if it has one
column.

Type invariants are stated for the two queues, where the proofs rest on them; the
other modules say the types of their variables where these are declared.

Fairness. Weak fairness of every started thread: the operating system runs it.
A consumer is assumed to call again only where the property is about that
(`SimpleQueue`, where consumers call `Pop` until it throws; the second pass of
`MultiPassRead`). In `MultiPassRead` the readers have strong fairness, because
the destructor may take and release the mutex again and again: a mutex is
assumed not to starve a thread for ever. Spurious wake-ups have no fairness, so
no property depends on them.

### What the refuted properties show

* `NoWaitForInactive`. `DeleteProducer` notifies the waiters of its producer only
  when the batch ends with it. A CAS thread that waits in `Get` for a chunk of a
  reader that fails, while another reader's chunk of the batch is still to be
  read by that same thread, waits for ever, although the loop's condition (its
  comment: "if producerId is not active, we should not wait anymore") would let
  it go.
* `AllRowsDelivered`. `Execute` fetches the first row whatever `prefetch` says,
  and the creator's `Prefetch` then replaces it: through the text protocol the
  first row is lost. `RowsInOrder` and `EndOrError` allow for exactly this row, and
  so does `ValuesReturn`, whose model of a load starts at the second row too.
* `ErrnoOfLastCall`. "S2Errno() returns the error code for the most recently invoked
  API function. A return value of zero means that no error occurred"
  (`s2_client_extern.h:249`). TLC finds `GetTableRowSchema` (`s2_client.cpp:201`), which
  tells its failure to the callback only. The same holds for `S2ClientInit`, whose
  failure leaves no client to ask, and for `LoadDataWrite` and `LoadDataAvro`;
  `S2Errno` is also 0 when `ParallelReadGetQueue` returns nullptr because a reader
  cannot connect or the type is unknown, and when `QueryGetQueue` does because the
  statement has no result: what is thrown then has the code 0
  (`s2_connection.cpp:546`), and that is also what the callback is told.
  `FailureReported`, which holds, lists these cases and says that in all others
  `S2Errno` and the callback agree.

`GetReturnsRequested`, which holds, is about chunks that were pushed. Asked for a
number that was never pushed by a reader that has ended, `Get` returns whatever
chunk is in the slot, because it does not compare the batch of an inactive reader.

Seen while modelling, without a run of their own:

* the chunk that is being filled when `NextChunk` throws is never freed
  (`result_table_reader.cpp:180`);
* through the text protocol every date and time is NULL, because `AdvanceText` leaves
  their pointers null (`s2_connection.cpp:374`). The model has this (`fetched`), and
  `ValuesReturn` promises nothing about these columns: the loss is a defect, against
  "in the same manner" of `s2_client_extern.h:191`, and not what a caller should
  expect;
* `assert(offset)` in `hdat/chunk_reader.cpp:86` fails for a null or empty variable
  value with no byte of another value behind it, as at the start of a chunk. A build
  without NDEBUG then aborts while it loads a chunk that the writer made; the default
  build type, RelWithDebInfo (`build_and_test.sh:4`), compiles the assertion out. The
  model has both builds (`ndebug`, `Abort`), and `ReadsBack` says where they may stop;
* the two ways to a schema differ for TIMESTAMP (a Time by its prefix, unsupported as
  a field), and for ENUM and SET (unsupported by their names, fixed strings as
  fields): `SchemasAgree` names them;
* a null callback is called without a test by `S2ClientInit` and the loads;
* the C `WriteVariable` keeps the space it needs in an int
  (`hdat/chunk_writer.cpp:429`): lengths near 2^31 and 2^32 are out of the model;
* `toDateTimeCAS` casts a double that may be negative to `ino64_t`, which is
  unsigned (`hdat/common.hpp:170`): undefined, and the model has the result of
  x86-64 compilers, where the sign survives (`test/time_test.c` has such times);
* `fromTimeCAS` casts the seconds to `int32_t` (`hdat/common.hpp:101`), which every TIME
  of the server (838:59:59 at most) fits; the model has no bound there;
* `ParallelReadGetQueue` does not check `queueCapacity`, unlike `QueryGetQueue`
  (`parallel_read.cpp:146`): with 0 every reader waits for ever;
* `MakeRowIdFilterQuery` names a result table without "::" (`utils.cpp:709`), so that
  `GetChunkMultipleRows` fails for every result table (`accepted`);
  `MakePointInTimeQuery` does not quote the key column (`utils.cpp:671`);
* the alias in `resultQuery + " AS alias "` is computed and discarded
  (`utils.cpp:610` and `:678`);
* `CheckExplainOperations` takes a plan without a line ResultTable for a simple one,
  and its early return leaks the stored result (`s2_connection.cpp:814`);
* a read of the type Original that the caller asks for by name takes no notice of
  `orderBy` in several passes, and needs a source table (a null pointer otherwise);
* rows that agree in the sort key of the original table may come in another order
  in every pass (`utils.cpp:644`);
* the infile handler keeps a pointer to a local variable of `WriteChunk` until the
  next load (`s2_connection.cpp:988`); `S2Error` returns a pointer that a later call
  frees (`s2_client.cpp:211`); the dummy partition of `QueryGetQueue` needs a database
  with a master partition (`queue/streaming_queue.cpp:60`).

## 4. The proofs

All theorems hold for every value of the constants that the named assumptions
allow. The assumptions say only what the types of the code and its callers give:
`BatchAssumption` finitely many producers, a positive batch size and a destructor
that is not a consumer; `SimpleAssumption` finite sets and a positive capacity;
those of the other modules that numbers are numbers, that rows have a size, and
what is named below.

`BatchQueueProofs` proves `[]TypeOK`, `[]NoOverwrite`, `[]CountsAgree`,
`[]HandedOnce` and `[]BatchBarrier` for `BatchQueue`. None of them is inductive.
The inductive invariant `IInv` adds

* `InWindow`: a set slot holds exactly the chunk of the current batch that
  belongs in it (the first chunk of the batch plus the place), and its reader has
  pushed that chunk;
* `InBatch`: no reader is beyond the end of the current batch; a reader's read
  and unread chunks of the batch are at most a batch; an active reader is not
  behind the batch either, and what it has pushed of the batch is what was read
  plus what is in its slots;
* `Counts`: `m_itemsToRead` and the length of `m_queue` are the number of set
  slots, `m_activeProducers` is the number of active flags;
* `QueueMatches`: in the first pass, until the destructor runs, `m_queue` names
  the chunks in the slots, each once, which is what `Pop` relies on when it frees
  the slot of the front;
* `Calls`: `Pop` is called only in the first pass and `Get` only in a later one,
  neither once the destructor runs;
* `Handed`: how often every chunk was handed out.

`NoOverwrite` needs all of it: a slot is free when the next batch opens because
the counts say that every chunk was read, and it stays free because the window
keeps the reader in its batch. The step is split by action, and each action by
whether it ends a batch (`resetBatch`).

`PartitionOrder` needs more: `Ordered` says that the chunks of a reader that are in
slots are the last ones it pushed, and `QueueOrdered` that `m_queue` has all of them
in the order of their numbers, so that its front is the oldest unread chunk of a
reader; `Pop` takes the front, and the destructor frees the slots in order.
`GetReturnsRequested` is an action property: a `Get` for a chunk of an active reader
can only leave its wait in the chunk's batch, and by `InWindow` the slot then holds
this chunk and no other.

`Refinement` proves `Spec => Implements`: every step of the batch queue is a step
of `ThreadSafeQueue` or leaves its variables alone, the pending chunks being those
in slots.

For `MultiPassRead`, the same module adds the readers and the CAS threads to the
invariant of the batch queue and proves `[]EndMeansComplete` and `[]ReplayFindsEveryChunk`.
`Told` keeps what a thread knew when it was told of the end; `Remembered` says that
the lists of the first pass are made of chunks that exist, each once over all
threads; `Replayed` says that, unless a reader has failed, the chunk a thread asks
for and those behind it in its list are still to be handed out. A `Get` could only
report the end if the queue had none left.

`SimpleQueueProofs` proves `[]TypeOK`, `[]Bounded`, `[]NoLostWakeup` and, as its
own `Refinement`, that the simple queue implements the same `ThreadSafeQueue`.
`NoLostWakeup` is the reason why `notify_one` suffices; it is inductive together
with the bounds and with the fact that only threads inside a call are in a
condition variable.

`PartitionsProofs` proves that the partitions of a worker are those whose number
is its own modulo the number of workers (`WorkersCover`), and that the partition
at a place of the worker's list belongs to the consumer that is the place modulo
the number of consumers, and to no other (`ConsumersCover`).

`StreamingReadProofs` proves `[]EndMeansComplete`, `[]NoUseAfterFree`,
`[]QueuesDrained` and `[]FastClose` for any number of partitions, workers,
consumers, chunks and failures and any capacity (`StreamingAssumption`). One
invariant carries all four. Its centre is `Counted`: `m_producers` of a queue is
the number of its readers that have yet to leave it, where `ConsumersCover` gives
the number at the creation. So a queue that is empty and has no producers stays
so (`Emptied`), which is what both a consumer that is told of the end and the
destructor have seen. `Queued` and `Stated` follow each chunk from its reader to
the queue and out of it, `Ended` gives the three reasons for which a reader ends,
and `Stopped` what `StopReaders` has seen when it looked at a reader: that one is
what `FastClose` rests on, because the reader may end between the look and the
flag.

`RowStreamProofs` proves `[]RowsInOrder`, `[]ChunksFilled`, `[]EndOrError` and
`[]StatementOpen` for result sets of any length, rows and chunks of any size and
both protocols. The invariant `Placed` says that what was delivered, followed by the
chunk in hand, is exactly the rows before the one in memory, the row that did not
fit included; `Opening` does the same for the rows that `Execute`, `Prepare` and
`Prefetch` fetch. Two operators of the model, the size of a chunk and the rows of
all chunks, are folds. Their equations are proved from a form of induction over
sets of numbers (`Least`, `Induction`), which follows from the library's theorem
that a well-founded relation has minimal elements and, unlike its induction
theorems, takes no operator as a parameter.

`MultiPassQueueProofs` proves the five invariants of `MultiPassQueue`. For the
creation, the loops are followed step by step: after `k` rounds a loop has the
first `k` elements of the closed form (`Listed`, `Taken`), the queues made so far have as
many producers as their consumers have partitions (`Sized`), and the partitions at
the places that were passed have their consumer (`Assigned`). That gives the
equality with the closed forms in `EveryPartitionOnce`; the number of producers is
counted by a bijection between the partitions of a consumer and their places in
the list. `Creation` has the order of the steps, one reader per partition, and
gives `DrainedQueuesHaveReaders` with the same count; `Told` and `Open` give
`FallbackReported`. For the point reads, `ReadsTyped` describes each consumer's
connection in any state that an earlier read has left it in, and `Filling` says that
`GetMultipleRows` has written the rows before the fetched one. `PointReadExact` is
part of the invariant. That the rows asked for have an enumeration in the order of
the key is shown by induction on their number, that rows written up to the first
one that does not fit are a prefix of it follows from `Filling`.

`ClientSessionProofs` proves `[]NoTableForgotten`, `[]FailureReported`,
`[]GroupsTogether` and `[]OrderDelivered` for any requests and rows
(`SessionAssumption`: the columns to order by are numbers, the key column differs in
every row). `Made` says that a table is the one the request makes for the type that
the caller was told, `Suits` that the source table is read directly only when both
keys match the request, `Promised` what a queue inherits from the table it reads: a
shard key within the columns to partition by, and an order that continues the order
asked for. A lemma on lexicographic orders shows that such an order refines the
one asked for; with the key column at its end it is total. `FailuresTold` proves
`[]FailureReported`: a caller that looks at both `S2Errno` and the callback misses a
failure only for a parallel read of unknown type and for a `QueryGetQueue` of a
statement without a result.

The same module proves that `fromDateTimeCAS`, `fromDateCAS` and `fromTimeCAS` undo
`toDateTimeCAS`, `toDateCAS` and `toTimeCAS` for every time, date and duration, on
both sides of the origins, given positive units and origins a whole number of days
apart (`CasTimeAssumption`). The argument goes through the truncating quotient of
C: lemmas say what it and its remainder are for both signs, and that a remainder
below zero is the floor one unit further down. Only the second before 1970 is
refused.

`SchemasEqual` proves `[]SchemasAgree`. The type names are finitely many sequences of
words, and the proof is a table: for each name the first prefix that fits
(`decides`), the field type, and the comparison of the two results. Columns have any
length and either character set. The names are the 29 of `protocolType`, which is a
definition and not an assumption; for three of them the theorem says that the
schemas differ.

`ValuesKept` proves `[]ValuesReturn` for any tables of these types, strings, numbers and
times, any number of rows and buffers of any size. Through the text protocol it is
about the rows after the first and the columns other than dates and times
(`delivered`); a table with a column of `DifferingNames` is not followed into a chunk
(`WriteRow`). The argument has four parts.

* The parser. `leads(p, text, q)` says that a text takes it from one state to another;
  it is closed under concatenation (`LeadsBoth`). `QuotedLeads` shows that `quoted` is
  undone character by character, a field that is not a string is one plain
  character, and `RowLeads` and `TextParsed` put fields between tabs and rows between
  newlines. So `ChunkParsed`: parsing the text of a chunk gives, row by row, the
  field of each cell (`parsedAs`).
* The Avro buffer. `ChunkTokens` finds the value of column `i` of row `k` at place
  `(k - 1) * n + i`, which is where the server looks for it.
* The cells. `ComesBack` shows for each type that the cell written for a value gives,
  as a field and as an Avro value, what `returns` says. For times it uses the
  conversions above, and that ADDDATE inverts them too; for fixed strings the
  padding, the trailing blanks that a CHAR loses and the bytes that are taken for
  null.
* The state. `LInv` has the rows of the table (`Filled`), the cells of the chunk, each
  of which is what `written` made of its value (`Cells`), and how much of the text the
  client library has (`Sending`); `Refused` gives the two reasons to refuse a chunk.

Flattening, the parser and the joins are recursive functions; their equations are
proved by the same induction over sets of numbers. `LoadDataAssumption` gives what
the types of the columns give: a time is within its type, so that its number is not
the one that stands for null, and a negative time is not zero.

This proof has corrected the model twice. A fixed string of zeros is taken for null
only when it fills its field: behind a shorter one there are blanks.
And some CASE expressions had guards that were not exclusive. TLC takes the first
guard that holds, as the code does, but TLA+ leaves the choice open; the guards now
exclude each other.

`SuperChunkProofs` proves `[]CellsApart`, `[]SpaceAccounted` and `[]ReadsBack` for all
schemas of at least one column (`SuperChunkAssumption`), sizes of chunks and lengths
of values, rows written as a whole or value by value. `width` is what a column takes at the front whatever its value is, `offset` the
sums of the widths, `place(n, i)` where column `i` of row `n` therefore is. `Good` says of a
writer that has come to column `k` of a row: the offsets are those sums, every cell
is in the front or in the back part and no two overlap (`Apart`), and at every place
up to here the memory has the value that was given (`Stored`), a string by the offset
and the length of its bytes. `GoodStep` shows that writing one value, of any type and
null or not, keeps it as long as the value fits. `WriteRow` writes the columns in a
fold; `WriteSteps` turns it into its steps, and `SizeSteps` does the same for `rowSize`,
so that the one check for the whole row is shown to be enough for each of its
values. `Reading` has the reader at the place of the first value it has not read. That
the assertion fails only for a null or empty value (`AbortOk`) follows from `Stored`: any
other value has bytes of its own in the back part, and so a distance.

Each inductive invariant was checked with TLC on the instance of its run before it
was proved.

Only model-checked:

* liveness: `Progress`, `Terminates`, `CallsReturn` and `Freed` need fairness and
  ENABLED, which TLAPS does not reason about.

Every other property of the passing runs is stated by a theorem. The three runs that
expect a violation show what the code does on an instance; nothing is proved about
them.

## 5. Not modelled

* The text of statements: quoting and escaping of names, the backticks and commas
  of an EXPLAIN. What a statement asks for is modelled.
* The calendar of the C library: `timegm` and `gmtime` are the identity on seconds.
* Two threads that use one client at the same time, which the interface does not
  promise; lengths beyond 2^31; a queue of capacity 0.
* The server version, which only selects an alias; `information_schema` as a
  database of one partition; logging.
* The public headers (declarations and error codes), the tests, and the MariaDB
  client library, libavro and jansson, which appear through their outcomes.

## 6. Plan

Done, in this order: the two queues with their interface, the assignment of
partitions, the single-pass and the multi-pass read, the way of rows into
chunks, the layout of chunks; then the creation and the point reads of a
multi-pass queue, dates, schemas, loads and the session. Proofs for the queues with
their refinements, the partitions and dates; then the reads, the way of rows,
the creation and the point reads, and the session; then the layout of chunks, the
schemas and the way of values through a load.

Nothing of the plan is left. What a change of the code asks for first: the run of
its module, and then the theorems, whose invariants say which fact the change
touches.
