---------------------------- MODULE StreamingRead ----------------------------
(***************************************************************************)
(* A single-pass parallel read on one CAS worker: StreamingQueue (queue/   *)
(* streaming_queue.cpp, queue/chunk_queue.hpp) with one ResultTableReader  *)
(* thread (result_table_reader.cpp) per partition, one                     *)
(* ThreadSafeSimpleQueue and one CAS consumer thread per consumer id, and  *)
(* the thread that creates the queue and destroys it.                      *)
(*                                                                         *)
(* An action is a step of one thread between two points where another      *)
(* thread can see it: a critical section of a queue, an access to an       *)
(* atomic flag or to an error under its mutex.                             *)
(***************************************************************************)
EXTENDS SimpleQueueOps, Partitions, FiniteSets

CONSTANTS TotalPartitions,  \* client->m_numPartitions
          NumWorkers, WorkerId,
          NConsumers,       \* nReaderThreads of ParallelReadGetQueue
          MaxChunks,        \* bound: chunks of data in a partition
          MaxFailures       \* bound: failures of the server or of malloc

ASSUME StreamingAssumption ==
    /\ TotalPartitions \in Nat
    /\ NumWorkers \in Nat \ {0}
    /\ WorkerId \in 0 .. (NumWorkers - 1)
    /\ NConsumers \in Nat \ {0}
    /\ Capacity \in Nat \ {0}
    /\ MaxChunks \in Nat
    /\ MaxFailures \in Nat

partitions == WorkerPartitions(NumWorkers, WorkerId, TotalPartitions)
Readers == elements(partitions)
ConsumerIds == 0 .. (NConsumers - 1)
m_partition_consumer == partitionConsumer(NConsumers, partitions, TotalPartitions)
readersOf(c) == elements(ConsumerPartitions(NConsumers, c, partitions))

VARIABLES data,        \* chunks of data that each partition still has
          failures,    \* failures that may still happen
          main,        \* where CreateChunkQueue or the destructor is
          step,        \* its loop variable
          m_row_schema,         \* "null", "set" or "freed"
          m_error_before_read,
          is_read_finished,     \* local variable of StopReaders
          m_consumer_queues,    \* consumer id -> queue
          deleted,     \* consumer ids whose queue has been deleted
          pc,          \* where each reader is ("absent": not created yet)
          chunkId,     \* local variable of Read
          m_error,     \* m_error.m_errorCode of each reader is not 0
          m_stop_reading,
          m_active,
          m_need_stmt_close,
          chunks,      \* state of the memory of each chunk
          call,        \* what each consumer thread is doing
          told         \* what the last call of a consumer reported

mainVars == <<main, step, m_row_schema, m_error_before_read, is_read_finished>>
readerVars == <<data, pc, chunkId, m_error, m_active>>
stopVars == <<m_stop_reading, m_need_stmt_close>>
consumerVars == <<call, told>>
queueVars == <<m_consumer_queues, deleted>>
vars == <<mainVars, readerVars, stopVars, consumerVars, failures, queueVars, chunks>>

Chunk == Readers \X (0 .. (MaxChunks - 1))

fail == failures > 0 /\ failures' = failures - 1

\* The thread of the destructor, a consumer of every queue it drains.
Destructor == -1

-----------------------------------------------------------------------------
(* CreateChunkQueue, on the thread that calls ParallelReadGetQueue.        *)

Init ==
    /\ data \in [Readers -> 0 .. MaxChunks]
    /\ failures = MaxFailures
    /\ main = "schema"
    /\ step = 1
    /\ m_row_schema = "null"
    /\ m_error_before_read = TRUE
    /\ is_read_finished = TRUE
    /\ m_consumer_queues =
           [c \in ConsumerIds |-> newQueue(Len(ConsumerPartitions(NConsumers, c, partitions)))]
    /\ deleted = {}
    /\ pc = [p \in Readers |-> "absent"]
    /\ chunkId = [p \in Readers |-> 0]
    /\ m_error = [p \in Readers |-> FALSE]
    /\ m_stop_reading = [p \in Readers |-> FALSE]
    /\ m_active = [p \in Readers |-> TRUE]
    /\ m_need_stmt_close = [p \in Readers |-> TRUE]
    /\ chunks = [k \in Chunk |-> "none"]
    /\ call = [c \in ConsumerIds |-> "idle"]
    /\ told = [c \in ConsumerIds |-> "nothing"]

\* ExplainRowSchema and GetAggregators: on an error nullptr is returned, and
\* the unique_ptr destroys the queue.
CreateSchema ==
    /\ main = "schema"
    /\ \/ m_row_schema' = "set" /\ main' = "create" /\ UNCHANGED failures
       \/ fail /\ m_row_schema' \in {"null", "set"} /\ main' = "stop"
    /\ UNCHANGED <<step, m_error_before_read, is_read_finished, readerVars, stopVars,
                   consumerVars, queueVars, chunks>>

\* CreateReader connects to an aggregator, or to the master aggregator when that
\* fails, or gives up.
CreateReader ==
    /\ main = "create"
    /\ step <= Len(partitions)
    /\ \/ /\ pc' = [pc EXCEPT ![partitions[step]] = "created"]
          /\ step' = step + 1
          /\ UNCHANGED <<main, failures>>
       \/ /\ fail
          /\ main' = "stop"
          /\ step' = 1
          /\ UNCHANGED pc
    /\ UNCHANGED <<m_row_schema, m_error_before_read, is_read_finished, data, chunkId, m_error,
                   m_active, stopVars, consumerVars, queueVars, chunks>>

StartReaders ==
    /\ main = "create"
    /\ step > Len(partitions)
    /\ m_error_before_read' = FALSE
    /\ main' = "start"
    /\ step' = 1
    /\ UNCHANGED <<m_row_schema, is_read_finished, readerVars, stopVars, consumerVars, failures,
                   queueVars, chunks>>

StartReading ==
    /\ main = "start"
    /\ step <= Len(partitions)
    /\ pc' = [pc EXCEPT ![partitions[step]] = "start"]
    /\ step' = step + 1
    /\ UNCHANGED <<main, m_row_schema, m_error_before_read, is_read_finished, data, chunkId,
                   m_error, m_active, stopVars, consumerVars, failures, queueVars, chunks>>

Created ==
    /\ main = "start"
    /\ step > Len(partitions)
    /\ main' = "open"
    /\ UNCHANGED <<step, m_row_schema, m_error_before_read, is_read_finished, readerVars, stopVars,
                   consumerVars, failures, queueVars, chunks>>

-----------------------------------------------------------------------------
(* ResultTableReader::Read, on the thread of each reader.                  *)

queueOf(p) == m_consumer_queues[m_partition_consumer[p]]

setQueue(c, q) == m_consumer_queues' = [m_consumer_queues EXCEPT ![c] = q]

goto(p, where) == pc' = [pc EXCEPT ![p] = where]

\* Executes the query and prefetches the first row.
PrepareRead(p) ==
    /\ pc[p] = "start"
    /\ \/ goto(p, "loop") /\ UNCHANGED <<m_error, failures>>
       \/ fail /\ m_error' = [m_error EXCEPT ![p] = TRUE] /\ goto(p, "delete")
    /\ UNCHANGED <<mainVars, data, chunkId, m_active, stopVars, consumerVars, queueVars, chunks>>

\* Mutant: the failure of NextChunk is not recorded in m_error.
FillChunkLosesError(p) ==
    /\ pc[p] = "loop"
    /\ ~m_stop_reading[p]
    /\ data[p] > 0
    /\ \/ /\ goto(p, "push")
          /\ data' = [data EXCEPT ![p] = @ - 1]
          /\ chunks' = [chunks EXCEPT ![<<p, chunkId[p]>>] = "filled"]
          /\ UNCHANGED failures
       \/ fail /\ goto(p, "delete") /\ UNCHANGED <<chunks, data>>
    /\ UNCHANGED <<mainVars, chunkId, m_error, m_active, stopVars, consumerVars, queueVars>>

\* One round of the loop up to Push.  malloc may fail, with nothing allocated;
\* NextChunk may throw, and then nothing refers to the chunk any more.
FillChunk(p) ==
    /\ pc[p] = "loop"
    /\ ~m_stop_reading[p]
    /\ data[p] > 0
    /\ \/ /\ goto(p, "push")
          /\ data' = [data EXCEPT ![p] = @ - 1]
          /\ chunks' = [chunks EXCEPT ![<<p, chunkId[p]>>] = "filled"]
          /\ UNCHANGED <<m_error, failures>>
       \/ /\ fail
          /\ m_error' = [m_error EXCEPT ![p] = TRUE]
          /\ goto(p, "delete")
          /\ \/ UNCHANGED chunks
             \/ chunks' = [chunks EXCEPT ![<<p, chunkId[p]>>] = "leaked"]
          /\ UNCHANGED data
    /\ UNCHANGED <<mainVars, chunkId, m_active, stopVars, consumerVars, queueVars>>

EndLoop(p) ==
    /\ pc[p] = "loop"
    /\ m_stop_reading[p] \/ data[p] = 0
    /\ goto(p, "delete")
    /\ UNCHANGED <<mainVars, data, chunkId, m_error, m_active, stopVars, consumerVars, failures,
                   queueVars, chunks>>

CanPush(p) == pc[p] = "push" /\ p \notin queueOf(p).m_fullCV

PushWait(p) ==
    /\ CanPush(p)
    /\ pushBlocks(queueOf(p))
    /\ setQueue(m_partition_consumer[p], pushWait(queueOf(p), p))
    /\ UNCHANGED <<mainVars, readerVars, stopVars, consumerVars, failures, deleted, chunks>>

Push(p) ==
    /\ CanPush(p)
    /\ ~pushBlocks(queueOf(p))
    /\ \E q \in pushed(queueOf(p), <<p, chunkId[p]>>) : setQueue(m_partition_consumer[p], q)
    /\ chunks' = [chunks EXCEPT ![<<p, chunkId[p]>>] = "queued"]
    /\ chunkId' = [chunkId EXCEPT ![p] = @ + 1]
    /\ goto(p, "loop")
    /\ UNCHANGED <<mainVars, data, m_error, m_active, stopVars, consumerVars, failures, deleted>>

DeleteProducer(p) ==
    /\ pc[p] = "delete"
    /\ setQueue(m_partition_consumer[p], producerDeleted(queueOf(p)))
    /\ goto(p, "deactivate")
    /\ UNCHANGED <<mainVars, data, chunkId, m_error, m_active, stopVars, consumerVars, failures,
                   deleted, chunks>>

SetInactive(p) ==
    /\ pc[p] = "deactivate"
    /\ m_active' = [m_active EXCEPT ![p] = FALSE]
    /\ goto(p, "done")
    /\ UNCHANGED <<mainVars, data, chunkId, m_error, stopVars, consumerVars, failures, queueVars,
                   chunks>>

-----------------------------------------------------------------------------
(* GetNextChunk, on the thread of each consumer: ChunkQueue::Get.          *)

CallGet(c) ==
    /\ main = "open"
    /\ call[c] = "idle"
    /\ call' = [call EXCEPT ![c] = "pop"]
    /\ UNCHANGED <<mainVars, readerVars, stopVars, told, failures, queueVars, chunks>>

CanPop(c) == call[c] = "pop" /\ c \notin m_consumer_queues[c].m_emptyCV

PopWait(c) ==
    /\ CanPop(c)
    /\ popBlocks(m_consumer_queues[c])
    /\ setQueue(c, popWait(m_consumer_queues[c], c))
    /\ UNCHANGED <<mainVars, readerVars, stopVars, consumerVars, failures, deleted, chunks>>

Pop(c) ==
    /\ CanPop(c)
    /\ m_consumer_queues[c].m_queue # <<>>
    /\ \E q \in popped(m_consumer_queues[c]) : setQueue(c, q)
    /\ chunks' = [chunks EXCEPT ![Head(m_consumer_queues[c].m_queue)] = "taken"]
    /\ call' = [call EXCEPT ![c] = "idle"]
    /\ told' = [told EXCEPT ![c] = "chunk"]
    /\ UNCHANGED <<mainVars, readerVars, stopVars, failures, deleted>>

PopThrow(c) ==
    /\ CanPop(c)
    /\ popThrows(m_consumer_queues[c])
    /\ call' = [call EXCEPT ![c] = "catch"]
    /\ UNCHANGED <<mainVars, readerVars, stopVars, told, failures, queueVars, chunks>>

\* GetError of every reader of the worker, after Pop has thrown.  The errors are
\* only ever set, so reading them one by one finds what one look would find.
CollectErrors(c) ==
    /\ call[c] = "catch"
    /\ told' = [told EXCEPT ![c] = IF \E p \in Readers : m_error[p] THEN "error" ELSE "end"]
    /\ call' = [call EXCEPT ![c] = "ended"]
    /\ UNCHANGED <<mainVars, readerVars, stopVars, failures, queueVars, chunks>>

-----------------------------------------------------------------------------
(* ChunkQueueFree: the destructor of StreamingQueue, then that of its      *)
(* members.  It also runs when CreateChunkQueue fails.                     *)

ChunkQueueFree ==
    /\ main = "open"
    /\ \A c \in ConsumerIds : call[c] \in {"idle", "ended"}
    /\ main' = "stop"
    /\ step' = 1
    /\ UNCHANGED <<m_row_schema, m_error_before_read, is_read_finished, readerVars, stopVars,
                   consumerVars, failures, queueVars, chunks>>

m_readers == {p \in Readers : pc[p] # "absent"}

\* Mutant: only the last reader decides whether all have finished.
StopReaderLast ==
    /\ main = "stop"
    /\ step <= Cardinality(m_readers)
    /\ is_read_finished' = ~m_active[partitions[step]]
    /\ m_stop_reading' = [m_stop_reading EXCEPT ![partitions[step]] = TRUE]
    /\ step' = step + 1
    /\ UNCHANGED <<main, m_row_schema, m_error_before_read, readerVars, m_need_stmt_close,
                   consumerVars, failures, queueVars, chunks>>

StopReader ==
    /\ main = "stop"
    /\ step <= Cardinality(m_readers)
    /\ is_read_finished' = (is_read_finished /\ ~m_active[partitions[step]])
    /\ m_stop_reading' = [m_stop_reading EXCEPT ![partitions[step]] = TRUE]
    /\ step' = step + 1
    /\ UNCHANGED <<main, m_row_schema, m_error_before_read, readerVars, m_need_stmt_close,
                   consumerVars, failures, queueVars, chunks>>

NotifyConnUnfinishedStmt ==
    /\ main = "stop"
    /\ step > Cardinality(m_readers)
    /\ m_need_stmt_close' =
           [p \in Readers |-> m_need_stmt_close[p] /\ (p \notin m_readers \/ is_read_finished)]
    /\ main' = "drain"
    /\ step' = 0
    /\ UNCHANGED <<m_row_schema, m_error_before_read, is_read_finished, readerVars, m_stop_reading,
                   consumerVars, failures, queueVars, chunks>>

\* The destructor frees the chunks of queue number step until Pop throws.
Draining ==
    /\ main = "drain"
    /\ step < NConsumers
    /\ ~m_error_before_read
    /\ Destructor \notin m_consumer_queues[step].m_emptyCV

DrainWait ==
    /\ Draining
    /\ popBlocks(m_consumer_queues[step])
    /\ setQueue(step, popWait(m_consumer_queues[step], Destructor))
    /\ UNCHANGED <<mainVars, readerVars, stopVars, consumerVars, failures, deleted, chunks>>

\* Mutant: what Pop returns is not freed.
DrainChunkLeaks ==
    /\ Draining
    /\ m_consumer_queues[step].m_queue # <<>>
    /\ \E q \in popped(m_consumer_queues[step]) : setQueue(step, q)
    /\ UNCHANGED <<mainVars, readerVars, stopVars, consumerVars, failures, deleted, chunks>>

DrainChunk ==
    /\ Draining
    /\ m_consumer_queues[step].m_queue # <<>>
    /\ \E q \in popped(m_consumer_queues[step]) : setQueue(step, q)
    /\ chunks' = [chunks EXCEPT ![Head(m_consumer_queues[step].m_queue)] = "freed"]
    /\ UNCHANGED <<mainVars, readerVars, stopVars, consumerVars, failures, deleted>>

\* Mutant: the queue is deleted as soon as it is empty.
DeleteQueueWhenEmpty ==
    /\ main = "drain"
    /\ step < NConsumers
    /\ m_error_before_read \/ (Draining /\ m_consumer_queues[step].m_queue = <<>>)
    /\ deleted' = deleted \cup {step}
    /\ step' = step + 1
    /\ UNCHANGED <<main, m_row_schema, m_error_before_read, is_read_finished, readerVars, stopVars,
                   consumerVars, failures, m_consumer_queues, chunks>>

DeleteQueue ==
    /\ main = "drain"
    /\ step < NConsumers
    /\ m_error_before_read \/ (Draining /\ popThrows(m_consumer_queues[step]))
    /\ deleted' = deleted \cup {step}
    /\ step' = step + 1
    /\ UNCHANGED <<main, m_row_schema, m_error_before_read, is_read_finished, readerVars, stopVars,
                   consumerVars, failures, m_consumer_queues, chunks>>

RowSchemaFree ==
    /\ main = "drain"
    /\ step = NConsumers
    /\ m_row_schema' = "freed"
    /\ main' = "join"
    /\ step' = 1
    /\ UNCHANGED <<m_error_before_read, is_read_finished, readerVars, stopVars, consumerVars,
                   failures, queueVars, chunks>>

\* ~ResultTableReader joins the thread, if one was started.
JoinReader ==
    /\ main = "join"
    /\ step <= Len(partitions)
    /\ pc[partitions[step]] \in {"absent", "created", "done"}
    /\ step' = step + 1
    /\ UNCHANGED <<main, m_row_schema, m_error_before_read, is_read_finished, readerVars, stopVars,
                   consumerVars, failures, queueVars, chunks>>

Destroyed ==
    /\ main = "join"
    /\ step > Len(partitions)
    /\ main' = "gone"
    /\ UNCHANGED <<step, m_row_schema, m_error_before_read, is_read_finished, readerVars, stopVars,
                   consumerVars, failures, queueVars, chunks>>

-----------------------------------------------------------------------------

SpuriousWakeup ==
    /\ \E c \in ConsumerIds : \E q \in spurious(m_consumer_queues[c]) : setQueue(c, q)
    /\ UNCHANGED <<mainVars, readerVars, stopVars, consumerVars, failures, deleted, chunks>>

Create == CreateSchema \/ CreateReader \/ StartReaders \/ StartReading \/ Created

Read(p) == \/ PrepareRead(p) \/ FillChunk(p) \/ EndLoop(p) \/ PushWait(p) \/ Push(p)
           \/ DeleteProducer(p) \/ SetInactive(p)

GetStep(c) == PopWait(c) \/ Pop(c) \/ PopThrow(c) \/ CollectErrors(c)

Destroy == \/ StopReader \/ NotifyConnUnfinishedStmt \/ DrainWait \/ DrainChunk \/ DeleteQueue
           \/ RowSchemaFree \/ JoinReader \/ Destroyed

Next ==
    \/ Create
    \/ \E p \in Readers : Read(p)
    \/ \E c \in ConsumerIds : CallGet(c) \/ GetStep(c)
    \/ ChunkQueueFree
    \/ Destroy
    \/ SpuriousWakeup

Spec == Init /\ [][Next]_vars

\* Every running thread keeps running.  A consumer need not call again and the
\* queue need not be freed; a spurious wake-up need not happen.
Fairness ==
    /\ WF_vars(Create)
    /\ WF_vars(Destroy)
    /\ \A p \in Readers : WF_vars(Read(p))
    /\ \A c \in ConsumerIds : WF_vars(GetStep(c))

FairSpec == Spec /\ Fairness

-----------------------------------------------------------------------------
(* Properties.                                                             *)

\* "GetNextChunk is called in a loop until false is returned meaning all results
\* have been added to the queue and retrieved from it": when it returns false
\* and reports no error, every chunk of every partition of this consumer was
\* handed to it, whatever the readers of other consumers do.
EndMeansComplete ==
    \A c \in ConsumerIds : told[c] = "end" =>
        \A p \in readersOf(c) :
            /\ data[p] = 0
            /\ pc[p] \notin {"start", "loop", "push"}
            /\ \A i \in 0 .. (chunkId[p] - 1) : chunks[<<p, i>>] = "taken"

\* The destructor deletes the queues and the row schema before it joins the
\* readers: no reader that has yet to use them is left then.
NoUseAfterFree ==
    /\ \A p \in Readers :
          pc[p] \in {"start", "loop", "push", "delete"} => m_partition_consumer[p] \notin deleted
    /\ m_row_schema = "freed" => \A p \in Readers : pc[p] \notin {"start", "loop"}

\* When the queue is gone, every chunk that reached a queue or was about to was
\* handed to a consumer or freed.
QueuesDrained ==
    main = "gone" => \A k \in Chunk : chunks[k] \notin {"filled", "queued"}

\* "allows us to destroy ChunkQueue object fast" (DiscardStmtClose): no
\* connection whose result is not read to its end, because its reader was told
\* to stop, is closed by closing its statement first.
FastClose ==
    main = "gone" =>
        \A p \in Readers :
            pc[p] = "done" /\ data[p] > 0 /\ ~m_error[p] => ~m_need_stmt_close[p]

\* GetNextChunk always returns, and the creation and the destructor always end,
\* however many chunks are left and whatever the readers are doing when it starts:
\* a consumer makes finitely many calls, so in the end none is in one and no
\* constructor or destructor is left half way.
Terminates ==
    <>[](/\ \A c \in ConsumerIds : call[c] \in {"idle", "ended"}
         /\ main \in {"open", "gone"})
==============================================================================
