---------------------------- MODULE MultiPassRead ----------------------------
(***************************************************************************)
(* A multi-pass read through one consumer queue of MultiPassQueue (queue/  *)
(* multi_pass_queue.cpp): the reader threads of its partitions             *)
(* (result_table_reader.cpp), the CAS threads, the destructor, and a       *)
(* second pass on a new MultiPassQueue in which every CAS thread asks with *)
(* GetChunkMulti for the chunks that GetNextChunk gave it in the first     *)
(* pass, in the same order, as test/multi_and_random_test.c does.          *)
(***************************************************************************)
EXTENDS BatchQueue

CONSTANTS MaxFailures,  \* bound: failures of the server or of malloc
          GiveUp        \* passes in which the queue may be freed before its end

ASSUME MultiPassAssumption == MaxFailures \in Nat /\ GiveUp \subseteq {"first", "later"}

VARIABLES total,     \* chunks of data in each partition, the same in every pass
          failures,  \* failures that may still happen
          pc,        \* where each reader is
          m_error,   \* m_error.m_errorCode of each reader is not 0
          m_stop_reading,
          closing,   \* the destructor has been called
          order,     \* the chunks each CAS thread got in the first pass
          pos,       \* how many of them it has got again
          told       \* how the last call of a CAS thread ended

readerVars == <<pc, m_error, m_stop_reading>>
casVars == <<order, pos, told>>
mvars == <<vars, total, failures, readerVars, closing, casVars>>

fail == failures > 0 /\ failures' = failures - 1
goto(p, where) == pc' = [pc EXCEPT ![p] = where]

MInit ==
    /\ Init
    /\ pass = "first"
    /\ total \in [Producers -> 0 .. MaxChunks]
    /\ failures = MaxFailures
    /\ pc = [p \in Producers |-> "start"]
    /\ m_error = [p \in Producers |-> FALSE]
    /\ m_stop_reading = [p \in Producers |-> FALSE]
    /\ closing = FALSE
    /\ order = [c \in Consumers |-> <<>>]
    /\ pos = [c \in Consumers |-> 0]
    /\ told = [c \in Consumers |-> "nothing"]

-----------------------------------------------------------------------------
(* ResultTableReader::Read.  nextId is its local variable chunkId.         *)

PrepareRead(p) ==
    /\ pc[p] = "start"
    /\ \/ goto(p, "loop") /\ UNCHANGED <<m_error, failures>>
       \/ fail /\ m_error' = [m_error EXCEPT ![p] = TRUE] /\ goto(p, "delete")
    /\ UNCHANGED <<vars, total, m_stop_reading, closing, casVars>>

\* Mutant: the failure is not recorded in m_error.
FillChunkLosesError(p) ==
    /\ pc[p] = "loop"
    /\ ~m_stop_reading[p]
    /\ nextId[p] < total[p]
    /\ \/ goto(p, "push") /\ UNCHANGED failures
       \/ fail /\ goto(p, "delete")
    /\ UNCHANGED <<vars, total, m_error, m_stop_reading, closing, casVars>>

\* One round of the loop up to Push: malloc and NextChunk.
FillChunk(p) ==
    /\ pc[p] = "loop"
    /\ ~m_stop_reading[p]
    /\ nextId[p] < total[p]
    /\ \/ goto(p, "push") /\ UNCHANGED <<m_error, failures>>
       \/ fail /\ m_error' = [m_error EXCEPT ![p] = TRUE] /\ goto(p, "delete")
    /\ UNCHANGED <<vars, total, m_stop_reading, closing, casVars>>

EndLoop(p) ==
    /\ pc[p] = "loop"
    /\ m_stop_reading[p] \/ nextId[p] = total[p]
    /\ goto(p, "delete")
    /\ UNCHANGED <<vars, total, failures, m_error, m_stop_reading, closing, casVars>>

ReaderPush(p) ==
    /\ pc[p] = "push"
    /\ \/ PushWait(p) /\ UNCHANGED pc
       \/ Push(p) /\ goto(p, "loop")
    /\ UNCHANGED <<total, failures, m_error, m_stop_reading, closing, casVars>>

ReaderEnd(p) ==
    /\ pc[p] = "delete"
    /\ DeleteProducer(p)
    /\ goto(p, "done")
    /\ UNCHANGED <<total, failures, m_error, m_stop_reading, closing, casVars>>

-----------------------------------------------------------------------------
(* GetNextChunk and GetChunkMulti.                                         *)

\* What Get and GetById report when the queue has thrown: the errors of all
\* readers.  Those of this queue that have failed set theirs before.
outcome == IF \E p \in Producers : m_error[p] THEN "error" ELSE "end"

GetNextChunk(c) ==
    /\ ~closing
    /\ CallPop(c)
    /\ UNCHANGED <<total, failures, readerVars, closing, casVars>>

ChunkQueueGet(c) ==
    /\ \/ PopWait(c) /\ UNCHANGED <<order, told>>
       \/ PopThrow(c) /\ told' = [told EXCEPT ![c] = outcome] /\ UNCHANGED order
       \/ /\ Pop(c)
          /\ order' = [order EXCEPT ![c] = Append(@, Head(m_queue))]
          /\ told' = [told EXCEPT ![c] = "chunk"]
    /\ UNCHANGED <<total, failures, readerVars, closing, pos>>

GetChunkMulti(c) ==
    /\ ~closing
    /\ pos[c] < Len(order[c])
    /\ LET k == order[c][pos[c] + 1] IN CallGet(c, k.partition_id, k.id)
    /\ UNCHANGED <<total, failures, readerVars, closing, casVars>>

GetById(c) ==
    /\ \/ GetWait(c) /\ UNCHANGED <<pos, told>>
       \/ /\ GetEmpty(c) \/ GetThrow(c)
          /\ told' = [told EXCEPT ![c] = outcome]
          /\ UNCHANGED pos
       \/ /\ Get(c)
          /\ pos' = [pos EXCEPT ![c] = @ + 1]
          /\ told' = [told EXCEPT ![c] = "chunk"]
    /\ UNCHANGED <<total, failures, readerVars, closing, order>>

-----------------------------------------------------------------------------
(* The destructor of MultiPassQueue, and the queue of the next pass.       *)

passComplete(c) ==
    call[c] = "ended" \/ (pass = "later" /\ call[c] = "idle" /\ pos[c] = Len(order[c]))

ChunkQueueFree ==
    /\ ~closing
    /\ pass \in GiveUp \/ \A c \in Consumers : passComplete(c)
    /\ \A c \in Consumers : call[c] \in {"idle", "ended"}
    /\ closing' = TRUE
    /\ UNCHANGED <<vars, total, failures, readerVars, casVars>>

\* StopReaders sets the flags one after the other, in the order of the readers;
\* here in any order.
StopReader(p) ==
    /\ closing
    /\ ~m_stop_reading[p]
    /\ m_stop_reading' = [m_stop_reading EXCEPT ![p] = TRUE]
    /\ UNCHANGED <<vars, total, failures, pc, m_error, closing, casVars>>

Destroy ==
    /\ closing
    /\ \A p \in Producers : m_stop_reading[p]
    /\ FreeBatchData \/ Destructor
    /\ UNCHANGED <<total, failures, readerVars, closing, casVars>>

\* ParallelReadGetQueue again, once the readers of the first pass are joined.
NextPass ==
    /\ drain = "done"
    /\ pass = "first"
    /\ pass' = "later"
    /\ m_queue' = <<>>
    /\ m_producerActive' = [p \in Producers |-> TRUE]
    /\ m_activeProducers' = Cardinality(Producers)
    /\ m_dataArray' = [idx \in Slots |-> NotSet]
    /\ m_currentBatch' = 0
    /\ m_readInBatch' = [p \in Producers |-> 0]
    /\ m_itemsToRead' = 0
    /\ emptyWaiters' = {}
    /\ busyWaiters' = {}
    /\ dataWaiters' = [p \in Producers |-> {}]
    /\ nextId' = [p \in Producers |-> 0]
    /\ call' = [c \in Consumers |-> "idle"]
    /\ drain' = "off"
    /\ handed' = [k \in Chunk |-> 0]
    /\ pc' = [p \in Producers |-> "start"]
    /\ m_error' = [p \in Producers |-> FALSE]
    /\ m_stop_reading' = [p \in Producers |-> FALSE]
    /\ closing' = FALSE
    /\ told' = [c \in Consumers |-> "nothing"]
    /\ UNCHANGED <<req, total, failures, order, pos>>

SpuriousWake ==
    /\ SpuriousWakeup
    /\ UNCHANGED <<total, failures, readerVars, closing, casVars>>

-----------------------------------------------------------------------------

Read(p) == PrepareRead(p) \/ FillChunk(p) \/ EndLoop(p) \/ ReaderPush(p) \/ ReaderEnd(p)

MNext ==
    \/ \E p \in Producers : Read(p) \/ StopReader(p)
    \/ \E c \in Consumers :
         GetNextChunk(c) \/ ChunkQueueGet(c) \/ GetChunkMulti(c) \/ GetById(c)
    \/ ChunkQueueFree
    \/ Destroy
    \/ NextPass
    \/ SpuriousWake

MSpec == MInit /\ [][MNext]_mvars

\* Every thread keeps running, and in the later pass a CAS thread calls
\* GetChunkMulti until it has all its chunks again or the queue is freed; in
\* the first pass it may stop when it likes.  Strong fairness of the readers: a
\* reader that finds m_mutex free again and again while the destructor takes
\* and releases it gets it in the end.  No fairness of spurious wake-ups.
MFairness ==
    /\ \A p \in Producers : SF_mvars(Read(p)) /\ WF_mvars(StopReader(p))
    /\ \A c \in Consumers : /\ WF_mvars(ChunkQueueGet(c))
                            /\ WF_mvars(GetChunkMulti(c))
                            /\ WF_mvars(GetById(c))
    /\ WF_mvars(Destroy)

MFairSpec == MSpec /\ MFairness

-----------------------------------------------------------------------------
(* Properties.                                                             *)

\* In the first pass, when GetNextChunk returns false without an error every
\* chunk of the partitions of this queue has been handed out.
EndMeansComplete ==
    \A c \in Consumers : pass = "first" /\ told[c] = "end" =>
        \A p \in Producers : nextId[p] = total[p] /\ \A i \in 0 .. (total[p] - 1) :
            handed[[partition_id |-> p, id |-> i]] = 1

\* A CAS thread that asks again for the chunks of its first pass, in their
\* order, is never told that there is no such chunk, unless a reader failed or
\* the queue is being freed.
ReplayFindsEveryChunk ==
    \A c \in Consumers : pass = "later" /\ ~closing => told[c] # "end"

\* And it never waits for ever: every call returns, whatever the order in which
\* the threads of the first pass got their chunks.
CallsReturn ==
    \A c \in Consumers : call[c] \in {"pop", "get", "getting"} ~> call[c] \in {"idle", "ended"}

\* The destructor returns, whatever was read before.
Freed == closing ~> drain = "done"

\* "if producerId is not active, we should not wait anymore" (Get): a thread that
\* waits for a chunk of a reader that has ended does not wait for ever.
NoWaitForInactive ==
    \A p \in Producers, c \in Consumers :
        (c \in dataWaiters[p] /\ ~m_producerActive[p]) ~> c \notin dataWaiters[p]
=============================================================================
