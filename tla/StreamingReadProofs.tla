------------------------ MODULE StreamingReadProofs -------------------------
(***************************************************************************)
(* Proofs about StreamingRead for any number of partitions, workers,       *)
(* consumers, chunks and failures, and any capacity of the queues: an end  *)
(* without an error is complete, the destructor frees nothing that a       *)
(* reader still uses, it loses no queued chunk, and no statement whose     *)
(* result is half read is closed the slow way.                             *)
(***************************************************************************)
EXTENDS StreamingRead, PartitionsProofs, FiniteSetTheorems, TLAPS

-----------------------------------------------------------------------------
(* The inductive invariant.                                                *)

Queue == [m_queue : Seq(Chunk), m_producers : Int,
          m_emptyCV : SUBSET (ConsumerIds \cup {Destructor}), m_fullCV : SUBSET Readers]

Waiting == {"absent", "created"}           \* the thread of the reader does not run yet
Over == {"delete", "deactivate", "done"}   \* the loop of Read has ended
Left == {"deactivate", "done"}             \* the reader is no producer any more
Before == {"schema", "create", "start", "open"}
Freeing == {"drain", "join", "gone"}

Typed ==
    /\ data \in [Readers -> Nat]
    /\ failures \in Nat
    /\ main \in Before \cup {"stop"} \cup Freeing
    /\ step \in Nat
    /\ m_row_schema \in {"null", "set", "freed"}
    /\ m_error_before_read \in BOOLEAN
    /\ is_read_finished \in BOOLEAN
    /\ m_consumer_queues \in [ConsumerIds -> Queue]
    /\ deleted \in SUBSET ConsumerIds
    /\ pc \in [Readers -> Waiting \cup {"start", "loop", "push"} \cup Over]
    /\ chunkId \in [Readers -> Nat]
    /\ m_error \in [Readers -> BOOLEAN]
    /\ m_stop_reading \in [Readers -> BOOLEAN]
    /\ m_active \in [Readers -> BOOLEAN]
    /\ m_need_stmt_close \in [Readers -> BOOLEAN]
    /\ chunks \in [Chunk -> {"none", "filled", "queued", "taken", "freed", "leaked"}]
    /\ call \in [ConsumerIds -> {"idle", "pop", "catch", "ended"}]
    /\ told \in [ConsumerIds -> {"nothing", "chunk", "error", "end"}]

present(c) == {p \in readersOf(c) : pc[p] \notin Left}

\* m_producers is the number of the readers that have yet to leave the queue.
Counted == \A c \in ConsumerIds : m_consumer_queues[c].m_producers = Cardinality(present(c))

\* What has happened when CreateChunkQueue, the consumers and the destructor are
\* where they are.
Phases ==
    /\ main \in {"schema", "create"} => m_error_before_read
    /\ main \in {"schema", "create", "start"} => step > 0
    /\ m_error_before_read => \A p \in Readers : pc[p] \in Waiting
    /\ main \in {"start", "open"} => ~m_error_before_read
    /\ main = "start" => \A i \in DOMAIN partitions : i >= step => pc[partitions[i]] \in Waiting
    /\ main \in Before => \A p \in Readers : ~m_stop_reading[p]
    /\ \A c \in ConsumerIds : call[c] \in {"pop", "catch"} => main = "open"
    /\ main \notin Freeing => deleted = {}
    /\ main = "drain" => /\ step <= NConsumers
                         /\ \A c \in ConsumerIds : c < step => c \in deleted
    /\ main \in {"join", "gone"} => deleted = ConsumerIds
    /\ m_row_schema = "freed" => main \in {"join", "gone"}

\* The chunk a reader works on is one of its partition.
Numbered ==
    \A p \in Readers :
        /\ chunkId[p] + data[p] <= MaxChunks
        /\ pc[p] = "push" => chunkId[p] + data[p] < MaxChunks
        /\ pc[p] \in Waiting \cup {"start"} => chunkId[p] = 0

\* Chunks up to the one at hand have been pushed, the others have not.
Stated ==
    \A k \in Chunk :
        /\ k[2] < chunkId[k[1]] => chunks[k] \in {"queued", "taken", "freed"}
        /\ k[2] >= chunkId[k[1]] => chunks[k] \in {"none", "leaked", "filled"}
        /\ chunks[k] = "filled" => pc[k[1]] = "push" /\ k[2] = chunkId[k[1]]
        /\ chunks[k] = "freed" => main \in Freeing

\* The queue of a consumer holds the queued chunks of its readers, each once.
Queued ==
    \A c \in ConsumerIds :
        LET q == m_consumer_queues[c].m_queue
        IN  /\ \A j \in DOMAIN q : q[j][1] \in readersOf(c) /\ chunks[q[j]] = "queued"
            /\ \A i, j \in DOMAIN q : q[i] = q[j] => i = j
            /\ \A k \in Chunk : k[1] \in readersOf(c) /\ chunks[k] = "queued" =>
                   \E j \in DOMAIN q : q[j] = k

\* Why a reader has ended: an error, the end of its data, or the destructor.
Ended ==
    \A p \in Readers :
        /\ pc[p] \in Over => m_error[p] \/ data[p] = 0 \/ m_stop_reading[p]
        /\ ~m_active[p] => pc[p] = "done"

\* When all the readers that StopReaders has looked at were inactive, they had read
\* everything; the statement of any other reader is not closed.
Stopped ==
    /\ \A p \in Readers : m_stop_reading[p] /\ is_read_finished =>
           pc[p] = "done" /\ (m_error[p] \/ data[p] = 0)
    /\ main \in Freeing => \A p \in Readers :
           pc[p] # "absent" /\ m_need_stmt_close[p] => is_read_finished

empty(c) == m_consumer_queues[c].m_queue = <<>> /\ m_consumer_queues[c].m_producers = 0

\* A consumer that was told of the end, and the destructor that has deleted a
\* queue, saw it empty and without producers, and so it stays.
Emptied ==
    /\ \A c \in ConsumerIds : call[c] \in {"catch", "ended"} => empty(c)
    /\ \A c \in deleted : m_error_before_read \/ empty(c)

\* EndMeansComplete, with what keeps it true.
Complete ==
    \A c \in ConsumerIds : told[c] = "end" =>
        /\ call[c] = "ended"
        /\ \A p \in readersOf(c) :
               data[p] = 0 /\ \A i \in 0 .. (chunkId[p] - 1) : chunks[<<p, i>>] = "taken"

IInv == /\ Typed /\ Counted /\ Phases /\ Numbered /\ Stated /\ Queued /\ Ended /\ Stopped
        /\ Emptied /\ Complete

-----------------------------------------------------------------------------
(* How the readers are dealt out.                                          *)

\* The list of the worker has every reader once.
LEMMA PartitionList ==
    /\ Len(partitions) \in Nat
    /\ DOMAIN partitions = 1 .. Len(partitions)
    /\ partitions \in Seq(Int)
    /\ \A i, j \in DOMAIN partitions : partitions[i] = partitions[j] => i = j
    /\ Readers = {p \in 0 .. (TotalPartitions - 1) : p % NumWorkers = WorkerId}
    /\ \A i \in DOMAIN partitions : partitions[i] \in Readers
<1> DEFINE len == loopLength(WorkerId, TotalPartitions, NumWorkers)
<1>1. WorkerId \in Nat /\ len \in Nat
  <2>1. WorkerId \in Nat BY StreamingAssumption
  <2> QED BY <2>1, StreamingAssumption, LoopLengthType
<1>2. partitions = [k \in 1 .. len |-> WorkerId + (k - 1) * NumWorkers]
  BY DEF partitions, WorkerPartitions
<1>3. \A k \in 1 .. len : WorkerId + (k - 1) * NumWorkers \in Int
  <2> TAKE k \in 1 .. len
  <2>1. k - 1 \in Int /\ NumWorkers \in Int BY <1>1, StreamingAssumption
  <2>2. (k - 1) * NumWorkers \in Int BY <2>1, SMT
  <2> QED BY <2>2, <1>1, SMT
<1> HIDE DEF len
<1>4. partitions \in Seq(Int) /\ Len(partitions) = len /\ DOMAIN partitions = 1 .. len
  BY <1>1, <1>2, <1>3
<1>5. \A i, j \in DOMAIN partitions : partitions[i] = partitions[j] => i = j
  BY <1>1, StreamingAssumption, WorkerListInjective DEF partitions
<1>6. Readers = {p \in 0 .. (TotalPartitions - 1) : p % NumWorkers = WorkerId}
  BY StreamingAssumption, WorkersCover DEF Readers, partitions
<1>7. \A i \in DOMAIN partitions : partitions[i] \in Readers
  BY DEF Readers, elements
<1> QED BY <1>1, <1>4, <1>5, <1>6, <1>7

\* The places in the list that the loop of ConsumerPartitions goes through.
LEMMA LoopPlaces ==
    ASSUME NEW c \in ConsumerIds, NEW k \in 1 .. loopLength(c, Len(partitions), NConsumers)
    PROVE  /\ c + (k - 1) * NConsumers \in Nat
           /\ c + (k - 1) * NConsumers + 1 \in DOMAIN partitions
<1> DEFINE at == c + (k - 1) * NConsumers
<1>1. c \in Nat /\ c < NConsumers /\ NConsumers \in Nat \ {0} /\ Len(partitions) \in Nat
  BY StreamingAssumption, PartitionList DEF ConsumerIds
<1>2. k - 1 \in Nat
  <2>1. loopLength(c, Len(partitions), NConsumers) \in Nat BY <1>1, LoopLengthType
  <2> QED BY <2>1
<1>3. (k - 1) * NConsumers \in Nat BY <1>1, <1>2, SMT
<1>4. at \in Nat BY <1>1, <1>3, SMT
<1>5. loopHits(at, c, Len(partitions), NConsumers) BY DEF loopHits
<1> HIDE DEF at
<1>6. at < Len(partitions) BY <1>1, <1>4, <1>5, LoopValues
<1>7. at + 1 \in DOMAIN partitions BY <1>4, <1>6, PartitionList
<1> QED BY <1>4, <1>7 DEF at

\* Every reader belongs to the queue of one consumer, the one at m_partition_consumer.
LEMMA ConsumerOf ==
    ASSUME NEW p \in Readers
    PROVE  /\ m_partition_consumer[p] \in ConsumerIds
           /\ \A c \in ConsumerIds : p \in readersOf(c) <=> c = m_partition_consumer[p]
<1>1. PICK j \in DOMAIN partitions : p = partitions[j]
  BY DEF Readers, elements
<1> DEFINE i == j - 1
           home == i % NConsumers
<1>2. i \in 0 .. (Len(partitions) - 1) /\ i + 1 = j
  BY PartitionList
<1>3. home \in ConsumerIds
  <2>1. i \in Nat /\ NConsumers \in Nat \ {0} BY <1>2, StreamingAssumption, PartitionList
  <2> HIDE DEF i
  <2>2. i % NConsumers \in 0 .. (NConsumers - 1) BY <2>1, SMT
  <2> QED BY <2>2 DEF ConsumerIds
<1>4. \A c \in ConsumerIds : p \in readersOf(c) <=> home = c
  <2> TAKE c \in ConsumerIds
  <2> DEFINE m == loopLength(c, Len(partitions), NConsumers)
             at(k) == c + (k - 1) * NConsumers
  <2>1. c \in Nat /\ c < NConsumers /\ NConsumers \in Nat \ {0} /\ Len(partitions) \in Nat
        /\ i \in Nat /\ i < Len(partitions)
    BY <1>2, StreamingAssumption, PartitionList DEF ConsumerIds
  <2> HIDE DEF i
  <2>2. loopHits(i, c, Len(partitions), NConsumers) <=> home = c
    BY <2>1, LoopValues
  <2>3. p \in readersOf(c) <=> \E k \in 1 .. m : partitions[i + 1] = partitions[at(k) + 1]
    BY <1>1, <1>2 DEF readersOf, elements, ConsumerPartitions
  <2>4. \A k \in 1 .. m : partitions[i + 1] = partitions[at(k) + 1] <=> i = at(k)
    <3> TAKE k \in 1 .. m
    <3>1. at(k) + 1 \in DOMAIN partitions /\ at(k) \in Nat BY LoopPlaces
    <3> HIDE DEF at
    <3> QED BY <3>1, <2>1, <1>1, <1>2, PartitionList
  <2> QED BY <2>2, <2>3, <2>4 DEF loopHits
<1> HIDE DEF home, i
<1>5. p \in 0 .. (TotalPartitions - 1) /\ p \in elements(partitions)
  BY PartitionList DEF Readers
<1>6. m_partition_consumer[p] =
          CHOOSE c \in ConsumerIds : p \in elements(ConsumerPartitions(NConsumers, c, partitions))
  BY <1>5 DEF m_partition_consumer, partitionConsumer, ConsumerIds
<1>7. m_partition_consumer[p] \in ConsumerIds /\ p \in readersOf(m_partition_consumer[p])
  BY <1>3, <1>4, <1>6 DEF readersOf
<1> QED BY <1>4, <1>7

\* The number that CreateChunkQueue gives to a queue is that of its readers.
LEMMA ProducersOf ==
    ASSUME NEW c \in ConsumerIds
    PROVE  /\ readersOf(c) \subseteq Readers
           /\ IsFiniteSet(readersOf(c))
           /\ Len(ConsumerPartitions(NConsumers, c, partitions)) = Cardinality(readersOf(c))
<1> DEFINE m == loopLength(c, Len(partitions), NConsumers)
           r == ConsumerPartitions(NConsumers, c, partitions)
           at(k) == c + (k - 1) * NConsumers
<1>1. c \in Nat /\ c < NConsumers /\ NConsumers \in Nat \ {0} /\ Len(partitions) \in Nat
  BY StreamingAssumption, PartitionList DEF ConsumerIds
<1>2. m \in Nat
  BY <1>1, LoopLengthType
<1>3. r = [k \in 1 .. m |-> partitions[at(k) + 1]]
  BY DEF ConsumerPartitions
<1>5. \A k \in 1 .. m : at(k) + 1 \in DOMAIN partitions
  BY LoopPlaces
<1>6. \A j, k \in 1 .. m : at(j) + 1 = at(k) + 1 => j = k
  <2> TAKE j, k \in 1 .. m
  <2> DEFINE a == j - 1
             b == k - 1
  <2>1. a \in Int /\ b \in Int BY <1>2
  <2>2. c + a * NConsumers + 1 = c + b * NConsumers + 1 => a = b
    <3> HIDE DEF a, b
    <3> QED BY <1>1, <2>1, SMT
  <2>3. a = b => j = k BY <1>2
  <2> QED BY <2>2, <2>3
<1> HIDE DEF m, at
<1>7. DOMAIN r = 1 .. m /\ \A k \in 1 .. m : r[k] = partitions[at(k) + 1] /\ r[k] \in Readers
  BY <1>3, <1>5, PartitionList
<1>8. \A j, k \in 1 .. m : r[j] = r[k] => j = k
  <2> TAKE j, k \in 1 .. m
  <2>1. r[j] = partitions[at(j) + 1] /\ r[k] = partitions[at(k) + 1] BY <1>7
  <2>2. at(j) + 1 \in DOMAIN partitions /\ at(k) + 1 \in DOMAIN partitions BY <1>5
  <2> QED BY <2>1, <2>2, <1>6, PartitionList
<1>9. r \in Seq(Readers) /\ Len(r) = m
  BY <1>2, <1>3, <1>7
<1> HIDE DEF r
<1>10. readersOf(c) = {r[k] : k \in 1 .. m} /\ readersOf(c) \subseteq Readers
  BY <1>7 DEF readersOf, elements, r
<1>11. r \in Bijection(1 .. m, readersOf(c))
  <2>1. r \in [1 .. m -> readersOf(c)] BY <1>7, <1>10, <1>3 DEF r
  <2>2. r \in Injection(1 .. m, readersOf(c)) BY <2>1, <1>8 DEF Injection, IsInjective
  <2>3. r \in Surjection(1 .. m, readersOf(c)) BY <2>1, <1>10 DEF Surjection
  <2> QED BY <2>2, <2>3 DEF Bijection
<1>12. ExistsBijection(1 .. m, readersOf(c))
  BY <1>11 DEF ExistsBijection
<1>13. IsFiniteSet(readersOf(c)) /\ Cardinality(readersOf(c)) = m
  BY <1>2, <1>12, FS_NatBijection, FS_CountingElements
<1> QED BY <1>9, <1>10, <1>13 DEF r

-----------------------------------------------------------------------------
(* What the operations of a queue do to its fields.                        *)

\* Push.
LEMMA PushedFields ==
    ASSUME NEW q \in Queue, NEW v \in Chunk, NEW r \in pushed(q, v)
    PROVE  r \in Queue /\ r.m_queue = Append(q.m_queue, v) /\ r.m_producers = q.m_producers
<1>1. PICK awake \in notifyOne(q.m_emptyCV) :
         r = [q EXCEPT !.m_queue = Append(@, v), !.m_emptyCV = awake]
  BY DEF pushed
<1>2. awake \in SUBSET (ConsumerIds \cup {Destructor})
  BY <1>1 DEF notifyOne, Queue
<1>3. Append(q.m_queue, v) \in Seq(Chunk)
  BY DEF Queue
<1> QED BY <1>1, <1>2, <1>3 DEF Queue

\* Pop.
LEMMA PoppedFields ==
    ASSUME NEW q \in Queue, q.m_queue # <<>>, NEW r \in popped(q)
    PROVE  r \in Queue /\ r.m_queue = Tail(q.m_queue) /\ r.m_producers = q.m_producers
<1>1. PICK awake \in notifyOne(q.m_fullCV) :
         r = [q EXCEPT !.m_queue = Tail(@), !.m_fullCV = awake]
  BY DEF popped
<1>2. awake \in SUBSET Readers
  BY <1>1 DEF notifyOne, Queue
<1>3. Tail(q.m_queue) \in Seq(Chunk)
  BY DEF Queue
<1> QED BY <1>1, <1>2, <1>3 DEF Queue

\* Waiting, and waking up for no reason.
LEMMA WaitFields ==
    ASSUME NEW q \in Queue, NEW r,
           \/ \E t \in Readers : r = pushWait(q, t)
           \/ \E t \in ConsumerIds \cup {Destructor} : r = popWait(q, t)
           \/ r \in spurious(q)
    PROVE  r \in Queue /\ r.m_queue = q.m_queue /\ r.m_producers = q.m_producers
  BY DEF Queue, pushWait, popWait, spurious

\* DeleteProducer.
LEMMA DeletedFields ==
    ASSUME NEW q \in Queue
    PROVE  /\ producerDeleted(q) \in Queue
           /\ producerDeleted(q).m_queue = q.m_queue
           /\ producerDeleted(q).m_producers = q.m_producers - 1
<1> DEFINE cv == IF q.m_producers = 1 THEN {} ELSE q.m_emptyCV
<1>1. producerDeleted(q) = [q EXCEPT !.m_producers = @ - 1, !.m_emptyCV = cv]
  BY DEF producerDeleted, Queue
<1>2. cv \in SUBSET (ConsumerIds \cup {Destructor}) /\ q.m_producers - 1 \in Int
  BY DEF Queue
<1> HIDE DEF cv
<1> QED BY <1>1, <1>2 DEF Queue

\* The queue of a consumer has no producers exactly when all its readers have left.
LEMMA NoProducers ==
    ASSUME Counted, NEW c \in ConsumerIds
    PROVE  /\ IsFiniteSet(present(c))
           /\ Cardinality(present(c)) \in Nat
           /\ m_consumer_queues[c].m_producers = 0 <=> \A p \in readersOf(c) : pc[p] \in Left
<1>1. present(c) \subseteq readersOf(c)
  BY DEF present
<1>2. IsFiniteSet(present(c)) /\ Cardinality(present(c)) \in Nat
  BY <1>1, ProducersOf, FS_Subset, FS_CardinalityType
<1>3. m_consumer_queues[c].m_producers = 0 <=> present(c) = {}
  BY <1>2, FS_EmptySet DEF Counted
<1> QED BY <1>2, <1>3 DEF present

-----------------------------------------------------------------------------
(* The first states.                                                       *)

\* The invariant holds when CreateChunkQueue begins.
LEMMA InitInvariant == Init => IInv
<1> SUFFICES ASSUME Init PROVE IInv
  OBVIOUS
<1>1. \A c \in ConsumerIds :
         /\ m_consumer_queues[c] = newQueue(Cardinality(readersOf(c)))
         /\ Cardinality(readersOf(c)) \in Nat
  BY ProducersOf, FS_CardinalityType DEF Init
<1>2. Typed
  <2>1. m_consumer_queues \in [ConsumerIds -> Queue]
    <3>1. \A n \in Nat : newQueue(n) \in Queue
      BY DEF newQueue, Queue
    <3>2. m_consumer_queues = [c \in ConsumerIds |-> m_consumer_queues[c]]
      BY DEF Init
    <3> QED BY <1>1, <3>1, <3>2
  <2>2. data \in [Readers -> Nat] /\ failures \in Nat
    BY StreamingAssumption DEF Init
  <2> QED BY <2>1, <2>2 DEF Init, Typed, Before, Freeing, Waiting, Over
<1>3. Counted
  <2>1. \A n : newQueue(n).m_producers = n
    BY DEF newQueue
  <2> SUFFICES ASSUME NEW c \in ConsumerIds PROVE present(c) = readersOf(c)
    BY <1>1, <2>1 DEF Counted
  <2> QED BY ProducersOf DEF Init, present, Left
<1>4. Phases
  BY PartitionList DEF Init, Phases, Waiting, Before, Freeing
<1>5. Numbered
  BY StreamingAssumption DEF Init, Numbered, Waiting
<1>6. Stated
  BY DEF Init, Stated, Chunk
<1>7. Queued
  BY <1>1 DEF Init, Queued, newQueue
<1>8. Ended /\ Stopped /\ Emptied /\ Complete
  BY DEF Init, Ended, Stopped, Emptied, Complete, Over, Freeing
<1> QED BY <1>2, <1>3, <1>4, <1>5, <1>6, <1>7, <1>8 DEF IInv

-----------------------------------------------------------------------------
(* The steps of CreateChunkQueue and of the destructor that leave the      *)
(* readers, the consumers and the contents of the queues alone.            *)

USE DEF mainVars, readerVars, stopVars, consumerVars, queueVars

\* The schema and the aggregators are asked for.
LEMMA CreateSchemaKeeps ==
    ASSUME IInv, CreateSchema
    PROVE  IInv'
<1>1. Typed'
  BY DEF IInv, Typed, CreateSchema, fail, Before, Freeing
<1>2. Counted' /\ Numbered' /\ Queued'
  BY DEF IInv, CreateSchema, fail, Counted, present, Numbered, Queued
<1>3. Phases'
  BY DEF IInv, Typed, Phases, CreateSchema, fail, Before, Freeing
<1>4. Stated'
  BY DEF IInv, CreateSchema, fail, Stated, Freeing
<1>5. Ended' /\ Stopped'
  BY DEF IInv, Typed, Phases, CreateSchema, fail, Ended, Stopped, Over, Freeing, Before
<1>6. Emptied' /\ Complete'
  BY DEF IInv, Typed, Phases, CreateSchema, fail, Emptied, empty, Complete, Freeing
<1> QED BY <1>1, <1>2, <1>3, <1>4, <1>5, <1>6 DEF IInv

\* All readers are connected.
LEMMA StartReadersKeeps ==
    ASSUME IInv, StartReaders
    PROVE  IInv'
<1>1. Typed'
  BY PartitionList DEF IInv, Typed, StartReaders, Before, Freeing
<1>2. Counted' /\ Numbered' /\ Queued'
  BY DEF IInv, StartReaders, Counted, present, Numbered, Queued
<1>3. Phases'
  BY PartitionList DEF IInv, Typed, Phases, StartReaders, Before, Freeing
<1>4. Stated'
  BY DEF IInv, StartReaders, Stated, Freeing
<1>5. Ended' /\ Stopped'
  BY DEF IInv, Typed, Phases, StartReaders, Ended, Stopped, Over, Freeing, Before
<1>6. Emptied' /\ Complete'
  BY DEF IInv, Typed, Phases, StartReaders, Emptied, empty, Complete, Freeing
<1> QED BY <1>1, <1>2, <1>3, <1>4, <1>5, <1>6 DEF IInv

\* The queue is returned.
LEMMA CreatedKeeps ==
    ASSUME IInv, Created
    PROVE  IInv'
<1>1. Typed'
  BY DEF IInv, Typed, Created, Before, Freeing
<1>2. Counted' /\ Numbered' /\ Queued'
  BY DEF IInv, Created, Counted, present, Numbered, Queued
<1>3. Phases'
  BY DEF IInv, Typed, Phases, Created, Before, Freeing
<1>4. Stated'
  BY DEF IInv, Created, Stated, Freeing
<1>5. Ended' /\ Stopped'
  BY DEF IInv, Typed, Phases, Created, Ended, Stopped, Over, Freeing, Before
<1>6. Emptied' /\ Complete'
  BY DEF IInv, Typed, Phases, Created, Emptied, empty, Complete, Freeing
<1> QED BY <1>1, <1>2, <1>3, <1>4, <1>5, <1>6 DEF IInv

\* The destructor begins.
LEMMA ChunkQueueFreeKeeps ==
    ASSUME IInv, ChunkQueueFree
    PROVE  IInv'
<1>1. Typed'
  BY DEF IInv, Typed, ChunkQueueFree, Before, Freeing
<1>2. Counted' /\ Numbered' /\ Queued'
  BY DEF IInv, ChunkQueueFree, Counted, present, Numbered, Queued
<1>3. Phases'
  BY DEF IInv, Typed, Phases, ChunkQueueFree, Before, Freeing
<1>4. Stated'
  BY DEF IInv, ChunkQueueFree, Stated, Freeing
<1>5. Ended' /\ Stopped'
  BY DEF IInv, Typed, Phases, ChunkQueueFree, Ended, Stopped, Over, Freeing, Before
<1>6. Emptied' /\ Complete'
  BY DEF IInv, Typed, Phases, ChunkQueueFree, Emptied, empty, Complete, Freeing
<1> QED BY <1>1, <1>2, <1>3, <1>4, <1>5, <1>6 DEF IInv

\* The destructor tells a reader to stop.
LEMMA StopReaderKeeps ==
    ASSUME IInv, StopReader
    PROVE  IInv'
<1>1. Typed'
  <2>1. m_stop_reading' \in [Readers -> BOOLEAN]
    BY DEF IInv, Typed, StopReader
  <2>2. is_read_finished' \in BOOLEAN
    BY DEF StopReader
  <2> QED BY <2>1, <2>2 DEF IInv, Typed, StopReader
<1>2. Counted' /\ Numbered' /\ Queued'
  BY DEF IInv, StopReader, Counted, present, Numbered, Queued
<1>3. Phases'
  BY DEF IInv, Typed, Phases, StopReader, Before, Freeing
<1>4. Stated'
  BY DEF IInv, StopReader, Stated, Freeing
<1>5. Ended' /\ Stopped'
  BY DEF IInv, Typed, Phases, StopReader, Ended, Stopped, Over, Freeing, Before
<1>6. Emptied' /\ Complete'
  BY DEF IInv, Typed, Phases, StopReader, Emptied, empty, Complete, Freeing
<1> QED BY <1>1, <1>2, <1>3, <1>4, <1>5, <1>6 DEF IInv

\* The destructor decides how the statements are closed.
LEMMA NotifyConnUnfinishedStmtKeeps ==
    ASSUME IInv, NotifyConnUnfinishedStmt
    PROVE  IInv'
<1>1. Typed'
  BY StreamingAssumption DEF IInv, Typed, NotifyConnUnfinishedStmt, Before, Freeing, ConsumerIds
<1>2. Counted' /\ Numbered' /\ Queued'
  BY DEF IInv, NotifyConnUnfinishedStmt, Counted, present, Numbered, Queued
<1>3. Phases'
  BY StreamingAssumption DEF IInv, Typed, Phases, NotifyConnUnfinishedStmt, Before, Freeing, ConsumerIds
<1>4. Stated'
  BY DEF IInv, NotifyConnUnfinishedStmt, Stated, Freeing
<1>5. Ended' /\ Stopped'
  BY DEF IInv, Typed, Phases, NotifyConnUnfinishedStmt, Ended, Stopped, Over, Freeing, Before, m_readers
<1>6. Emptied' /\ Complete'
  BY DEF IInv, Typed, Phases, NotifyConnUnfinishedStmt, Emptied, empty, Complete, Freeing
<1> QED BY <1>1, <1>2, <1>3, <1>4, <1>5, <1>6 DEF IInv

\* A queue is deleted when it has thrown.
LEMMA DeleteQueueKeeps ==
    ASSUME IInv, DeleteQueue
    PROVE  IInv'
<1>1. Typed'
  BY StreamingAssumption DEF IInv, Typed, DeleteQueue, Before, Freeing, ConsumerIds
<1>2. Counted' /\ Numbered' /\ Queued'
  BY DEF IInv, DeleteQueue, Counted, present, Numbered, Queued
<1>3. Phases'
  BY StreamingAssumption DEF IInv, Typed, Phases, DeleteQueue, Before, Freeing, ConsumerIds
<1>4. Stated'
  BY DEF IInv, DeleteQueue, Stated, Freeing
<1>5. Ended' /\ Stopped'
  BY DEF IInv, Typed, Phases, DeleteQueue, Ended, Stopped, Over, Freeing, Before
<1>6. Emptied' /\ Complete'
  BY DEF IInv, Typed, Phases, DeleteQueue, Emptied, empty, Complete, Freeing, Draining, popThrows
<1> QED BY <1>1, <1>2, <1>3, <1>4, <1>5, <1>6 DEF IInv

\* The schema is freed after all the queues.
LEMMA RowSchemaFreeKeeps ==
    ASSUME IInv, RowSchemaFree
    PROVE  IInv'
<1>1. Typed'
  BY StreamingAssumption DEF IInv, Typed, RowSchemaFree, Before, Freeing, ConsumerIds
<1>2. Counted' /\ Numbered' /\ Queued'
  BY DEF IInv, RowSchemaFree, Counted, present, Numbered, Queued
<1>3. Phases'
  <2>1. deleted = ConsumerIds
    <3>1. \A c \in ConsumerIds : c < step
      BY StreamingAssumption DEF RowSchemaFree, ConsumerIds
    <3> QED BY <3>1 DEF IInv, Typed, Phases, RowSchemaFree
  <2> QED BY <2>1 DEF IInv, Typed, Phases, RowSchemaFree, Before, Freeing
<1>4. Stated'
  BY DEF IInv, RowSchemaFree, Stated, Freeing
<1>5. Ended' /\ Stopped'
  BY DEF IInv, Typed, Phases, RowSchemaFree, Ended, Stopped, Over, Freeing, Before
<1>6. Emptied' /\ Complete'
  BY DEF IInv, Typed, Phases, RowSchemaFree, Emptied, empty, Complete, Freeing
<1> QED BY <1>1, <1>2, <1>3, <1>4, <1>5, <1>6 DEF IInv

\* A thread is joined.
LEMMA JoinReaderKeeps ==
    ASSUME IInv, JoinReader
    PROVE  IInv'
<1>1. Typed'
  BY DEF IInv, Typed, JoinReader, Before, Freeing
<1>2. Counted' /\ Numbered' /\ Queued'
  BY DEF IInv, JoinReader, Counted, present, Numbered, Queued
<1>3. Phases'
  BY DEF IInv, Typed, Phases, JoinReader, Before, Freeing
<1>4. Stated'
  BY DEF IInv, JoinReader, Stated, Freeing
<1>5. Ended' /\ Stopped'
  BY DEF IInv, Typed, Phases, JoinReader, Ended, Stopped, Over, Freeing, Before
<1>6. Emptied' /\ Complete'
  BY DEF IInv, Typed, Phases, JoinReader, Emptied, empty, Complete, Freeing
<1> QED BY <1>1, <1>2, <1>3, <1>4, <1>5, <1>6 DEF IInv

\* The destructor ends.
LEMMA DestroyedKeeps ==
    ASSUME IInv, Destroyed
    PROVE  IInv'
<1>1. Typed'
  BY DEF IInv, Typed, Destroyed, Before, Freeing
<1>2. Counted' /\ Numbered' /\ Queued'
  BY DEF IInv, Destroyed, Counted, present, Numbered, Queued
<1>3. Phases'
  BY DEF IInv, Typed, Phases, Destroyed, Before, Freeing
<1>4. Stated'
  BY DEF IInv, Destroyed, Stated, Freeing
<1>5. Ended' /\ Stopped'
  BY DEF IInv, Typed, Phases, Destroyed, Ended, Stopped, Over, Freeing, Before
<1>6. Emptied' /\ Complete'
  BY DEF IInv, Typed, Phases, Destroyed, Emptied, empty, Complete, Freeing
<1> QED BY <1>1, <1>2, <1>3, <1>4, <1>5, <1>6 DEF IInv

-----------------------------------------------------------------------------
(* The steps of the readers.                                               *)

\* A step by which nobody leaves a queue.
LEMMA CountedSame ==
    ASSUME Counted,
           \A p \in Readers : pc'[p] \in Left <=> pc[p] \in Left,
           \A c \in ConsumerIds :
               m_consumer_queues'[c].m_producers = m_consumer_queues[c].m_producers
    PROVE  Counted'
<1> SUFFICES ASSUME NEW c \in ConsumerIds PROVE present(c)' = present(c)
  BY DEF Counted
<1> QED BY ProducersOf DEF present

\* A reader that runs and has not left is known to its queue: nobody was told of
\* the end of that queue, and it is not deleted.
LEMMA Running ==
    ASSUME IInv, NEW p \in Readers, pc[p] \notin Left, pc[p] \notin Waiting
    PROVE  /\ m_partition_consumer[p] \in ConsumerIds
           /\ call[m_partition_consumer[p]] \notin {"catch", "ended"}
           /\ m_partition_consumer[p] \notin deleted
           /\ ~m_error_before_read
           /\ m_consumer_queues[m_partition_consumer[p]] \in Queue
           /\ \A c \in ConsumerIds : told[c] = "end" => p \notin readersOf(c)
<1> DEFINE c == m_partition_consumer[p]
<1>1. c \in ConsumerIds /\ p \in readersOf(c)
  BY ConsumerOf
<1>2. ~empty(c)
  BY <1>1, NoProducers DEF IInv, empty
<1>3. ~m_error_before_read
  BY DEF IInv, Phases
<1>4. call[c] \notin {"catch", "ended"} /\ c \notin deleted
  BY <1>1, <1>2, <1>3 DEF IInv, Emptied
<1>5. told[c] # "end"
  BY <1>1, <1>4 DEF IInv, Complete
<1>6. m_consumer_queues[c] \in Queue
  BY <1>1 DEF IInv, Typed
<1> QED BY <1>1, <1>3, <1>4, <1>5, <1>6, ConsumerOf

\* A reader is connected.
LEMMA CreateReaderKeeps ==
    ASSUME IInv, CreateReader
    PROVE  IInv'
<1> DEFINE p == partitions[step]
<1>1. p \in Readers /\ pc[p] \in Waiting /\ \A x \in Readers : pc[x] \in Waiting
  <2>1. step \in DOMAIN partitions
    BY PartitionList DEF CreateReader, IInv, Typed, Phases
  <2> QED BY <2>1, PartitionList DEF CreateReader, IInv, Phases
<1> HIDE DEF p
<1>2. /\ pc' = pc \/ pc' = [pc EXCEPT ![p] = "created"]
      /\ \A x \in Readers : pc'[x] \in Waiting
      /\ \A x \in Readers : pc'[x] \notin Over \cup {"push"} /\ pc[x] \notin Over \cup {"push"}
  <2>1. pc' = pc \/ pc' = [pc EXCEPT ![p] = "created"]
    BY DEF CreateReader, p
  <2>2. \A x \in Readers : pc'[x] \in Waiting
    BY <1>1, <2>1 DEF IInv, Typed, Waiting
  <2> QED BY <1>1, <2>1, <2>2 DEF Waiting, Over
<1>3. Typed'
  BY <1>1, <1>2 DEF IInv, Typed, CreateReader, fail, Before, Waiting
<1>4. Counted'
  BY <1>2, CountedSame DEF IInv, CreateReader, Over, Left
<1>5. Phases'
  BY <1>2 DEF IInv, Typed, Phases, CreateReader, fail, Before, Freeing
<1>6. Numbered'
  BY <1>1, <1>2 DEF IInv, Numbered, CreateReader
<1>7. Stated' /\ Queued'
  <2>1. \A k \in Chunk : k[1] \in Readers
    BY DEF Chunk
  <2> QED BY <1>2, <2>1 DEF IInv, Stated, Queued, CreateReader, fail, Freeing
<1>8. Ended' /\ Stopped'
  BY <1>2 DEF IInv, Phases, Ended, Stopped, CreateReader, fail, Over, Freeing, Before
<1>9. Emptied' /\ Complete'
  BY DEF IInv, Emptied, empty, Complete, CreateReader
<1> QED BY <1>3, <1>4, <1>5, <1>6, <1>7, <1>8, <1>9 DEF IInv

\* The thread of a reader is started.
LEMMA StartReadingKeeps ==
    ASSUME IInv, StartReading
    PROVE  IInv'
<1> DEFINE p == partitions[step]
<1>1. step \in DOMAIN partitions /\ p \in Readers /\ pc[p] \in Waiting
  <2>1. step \in DOMAIN partitions
    BY PartitionList DEF StartReading, IInv, Typed, Phases
  <2>2. partitions[step] \in Readers /\ step >= step
    BY <2>1, PartitionList
  <2>3. pc[partitions[step]] \in Waiting
    BY <2>1, <2>2 DEF StartReading, IInv, Phases
  <2> QED BY <2>1, <2>2, <2>3
<1> HIDE DEF p
<1>2. pc' = [pc EXCEPT ![p] = "start"]
  BY DEF StartReading, p
<1>3. Typed'
  <2>1. pc' \in [Readers -> Waiting \cup {"start", "loop", "push"} \cup Over]
    BY <1>1, <1>2 DEF IInv, Typed
  <2>2. step' \in Nat
    BY DEF IInv, Typed, StartReading
  <2> QED BY <2>1, <2>2 DEF IInv, Typed, StartReading
<1>4. Counted'
  <2>1. \A x \in Readers : pc'[x] \in Left <=> pc[x] \in Left
    BY <1>1, <1>2 DEF IInv, Typed, Waiting, Left
  <2> QED BY <2>1, CountedSame DEF IInv, StartReading
<1>5. Phases'
  <2>1. \A i \in DOMAIN partitions : i >= step' => pc'[partitions[i]] \in Waiting
    <3> SUFFICES ASSUME NEW i \in DOMAIN partitions, i >= step'
                 PROVE  pc'[partitions[i]] \in Waiting
      OBVIOUS
    <3>1. i >= step /\ i # step
      BY PartitionList DEF IInv, Typed, StartReading
    <3>2. partitions[i] # p /\ partitions[i] \in Readers
      BY <1>1, <3>1, PartitionList DEF p
    <3> QED BY <1>2, <3>1, <3>2 DEF IInv, Typed, Phases, StartReading
  <2>2. ~m_error_before_read'
    BY DEF IInv, Phases, StartReading
  <2> QED BY <2>1, <2>2 DEF IInv, Typed, Phases, StartReading, Before, Freeing
<1>6. Numbered'
  BY <1>1, <1>2 DEF IInv, Typed, Numbered, StartReading
<1>7. Stated' /\ Queued'
  <2>1. \A k \in Chunk : k[1] \in Readers
    BY DEF Chunk
  <2>2. \A x \in Readers : pc[x] = "push" => pc'[x] = "push"
    BY <1>1, <1>2 DEF IInv, Typed, Waiting
  <2>3. Stated'
    BY <2>1, <2>2 DEF IInv, Stated, StartReading
  <2>4. Queued'
    BY DEF IInv, Queued, StartReading
  <2> QED BY <2>3, <2>4
<1>8. Ended' /\ Stopped'
  BY <1>1, <1>2 DEF IInv, Typed, Ended, Stopped, StartReading, Over, Waiting, Freeing
<1>9. Emptied' /\ Complete'
  BY DEF IInv, Emptied, empty, Complete, StartReading
<1> QED BY <1>3, <1>4, <1>5, <1>6, <1>7, <1>8, <1>9 DEF IInv

\* The query is executed, or it fails.
LEMMA PrepareReadKeeps ==
    ASSUME IInv, NEW p \in Readers, PrepareRead(p)
    PROVE  IInv'
<1>1. pc[p] \notin Waiting /\ ~m_error_before_read /\ pc' = [pc EXCEPT ![p] = pc'[p]]
      /\ pc'[p] \in {"loop", "delete"}
  BY DEF IInv, Typed, Phases, PrepareRead, goto, Waiting
<1>2. Typed'
  <2>1. pc' \in [Readers -> Waiting \cup {"start", "loop", "push"} \cup Over]
    BY <1>1 DEF IInv, Typed, Over
  <2>2. m_error' = m_error \/ m_error' = [m_error EXCEPT ![p] = TRUE]
    BY DEF PrepareRead
  <2>3. m_error' \in [Readers -> BOOLEAN]
    BY <2>2 DEF IInv, Typed
  <2>4. failures' \in Nat
    BY DEF IInv, Typed, PrepareRead, fail
  <2> QED BY <2>1, <2>3, <2>4 DEF IInv, Typed, PrepareRead
<1>3. Counted'
  <2>1. \A x \in Readers : pc'[x] \in Left <=> pc[x] \in Left
    BY <1>1 DEF IInv, Typed, PrepareRead, Left
  <2> QED BY <2>1, CountedSame DEF IInv, PrepareRead
<1>4. Phases'
  <2>1. \A x \in Readers : pc[x] \in Waiting => pc'[x] \in Waiting
    BY <1>1 DEF IInv, Typed
  <2> QED BY <1>1, <2>1, PartitionList DEF IInv, Phases, PrepareRead
<1>5. Numbered'
  BY <1>1, StreamingAssumption DEF IInv, Typed, Numbered, PrepareRead, Waiting, Over
<1>6. Stated'
  <2>1. \A k \in Chunk : k[1] \in Readers
    BY DEF Chunk
  <2> QED BY <1>1, <2>1 DEF IInv, Typed, Stated, PrepareRead
<1>7. Queued'
  BY DEF IInv, Queued, PrepareRead
<1>8. Ended' /\ Stopped'
  <2>1. \A x \in Readers : m_error[x] => m_error'[x]
    BY DEF IInv, Typed, PrepareRead
  <2>2. pc'[p] \in Over => m_error'[p]
    BY <1>1 DEF IInv, Typed, PrepareRead, goto, Over
  <2>3. \A x \in Readers : x # p => pc'[x] = pc[x]
    BY <1>1 DEF IInv, Typed
  <2>4. Ended'
    BY <2>1, <2>2, <2>3 DEF IInv, Ended, PrepareRead
  <2>5. Stopped'
    BY <2>1, <2>3 DEF IInv, Stopped, PrepareRead
  <2> QED BY <2>4, <2>5
<1>9. Emptied' /\ Complete'
  BY DEF IInv, Emptied, empty, Complete, PrepareRead
<1> QED BY <1>2, <1>3, <1>4, <1>5, <1>6, <1>7, <1>8, <1>9 DEF IInv

\* The loop of a reader ends.
LEMMA EndLoopKeeps ==
    ASSUME IInv, NEW p \in Readers, EndLoop(p)
    PROVE  IInv'
<1>1. pc[p] \notin Waiting /\ ~m_error_before_read /\ pc' = [pc EXCEPT ![p] = pc'[p]]
      /\ pc'[p] \in {"delete"}
  BY DEF IInv, Typed, Phases, EndLoop, goto, Waiting
<1>2. Typed'
  BY <1>1 DEF IInv, Typed, EndLoop, Over
<1>3. Counted'
  <2>1. \A x \in Readers : pc'[x] \in Left <=> pc[x] \in Left
    BY <1>1 DEF IInv, Typed, EndLoop, Left
  <2> QED BY <2>1, CountedSame DEF IInv, EndLoop
<1>4. Phases'
  <2>1. \A x \in Readers : pc[x] \in Waiting => pc'[x] \in Waiting
    BY <1>1 DEF IInv, Typed
  <2> QED BY <1>1, <2>1, PartitionList DEF IInv, Phases, EndLoop
<1>5. Numbered'
  BY <1>1, StreamingAssumption DEF IInv, Typed, Numbered, EndLoop, Waiting, Over
<1>6. Stated'
  <2>1. \A k \in Chunk : k[1] \in Readers
    BY DEF Chunk
  <2> QED BY <1>1, <2>1 DEF IInv, Typed, Stated, EndLoop
<1>7. Queued'
  BY DEF IInv, Queued, EndLoop
<1>8. Ended' /\ Stopped'
  BY <1>1 DEF IInv, Typed, Ended, Stopped, EndLoop, Over, Freeing
<1>9. Emptied' /\ Complete'
  BY DEF IInv, Emptied, empty, Complete, EndLoop
<1> QED BY <1>2, <1>3, <1>4, <1>5, <1>6, <1>7, <1>8, <1>9 DEF IInv

\* A reader that has left is inactive.
LEMMA SetInactiveKeeps ==
    ASSUME IInv, NEW p \in Readers, SetInactive(p)
    PROVE  IInv'
<1>1. pc[p] \notin Waiting /\ ~m_error_before_read /\ pc' = [pc EXCEPT ![p] = pc'[p]]
      /\ pc'[p] \in {"done"}
  BY DEF IInv, Typed, Phases, SetInactive, goto, Waiting
<1>2. Typed'
  BY <1>1 DEF IInv, Typed, SetInactive, Over
<1>3. Counted'
  <2>1. \A x \in Readers : pc'[x] \in Left <=> pc[x] \in Left
    BY <1>1 DEF IInv, Typed, SetInactive, Left
  <2> QED BY <2>1, CountedSame DEF IInv, SetInactive
<1>4. Phases'
  <2>1. \A x \in Readers : pc[x] \in Waiting => pc'[x] \in Waiting
    BY <1>1 DEF IInv, Typed
  <2> QED BY <1>1, <2>1, PartitionList DEF IInv, Phases, SetInactive
<1>5. Numbered'
  BY <1>1, StreamingAssumption DEF IInv, Typed, Numbered, SetInactive, Waiting, Over
<1>6. Stated'
  <2>1. \A k \in Chunk : k[1] \in Readers
    BY DEF Chunk
  <2> QED BY <1>1, <2>1 DEF IInv, Typed, Stated, SetInactive
<1>7. Queued'
  BY DEF IInv, Queued, SetInactive
<1>8. Ended' /\ Stopped'
  BY <1>1 DEF IInv, Typed, Ended, Stopped, SetInactive, Over, Freeing
<1>9. Emptied' /\ Complete'
  BY DEF IInv, Emptied, empty, Complete, SetInactive
<1> QED BY <1>2, <1>3, <1>4, <1>5, <1>6, <1>7, <1>8, <1>9 DEF IInv

\* A chunk is filled, or the failure is recorded.
LEMMA FillChunkKeeps ==
    ASSUME IInv, NEW p \in Readers, FillChunk(p)
    PROVE  IInv'
<1> DEFINE k == <<p, chunkId[p]>>
<1>1. /\ pc[p] = "loop" /\ pc[p] \notin Waiting /\ pc[p] \notin Left /\ ~m_error_before_read
      /\ data[p] > 0
      /\ pc' = [pc EXCEPT ![p] = pc'[p]] /\ pc'[p] \in {"push", "delete"}
  BY DEF IInv, Typed, Phases, FillChunk, goto, Waiting, Left
<1>2. k \in Chunk /\ chunkId[p] \in Nat /\ data[p] \in Nat /\ chunkId[p] + data[p] <= MaxChunks
  <2>1. chunkId[p] \in Nat /\ data[p] \in Nat /\ chunkId[p] + data[p] <= MaxChunks
    BY DEF IInv, Typed, Numbered
  <2> QED BY <1>1, <2>1, StreamingAssumption DEF Chunk
<1>3. \/ /\ pc'[p] = "push" /\ m_error' = m_error
         /\ data' = [data EXCEPT ![p] = @ - 1]
         /\ chunks' = [chunks EXCEPT ![k] = "filled"]
      \/ /\ pc'[p] = "delete" /\ m_error' = [m_error EXCEPT ![p] = TRUE]
         /\ data' = data
         /\ chunks' = chunks \/ chunks' = [chunks EXCEPT ![k] = "leaked"]
  BY DEF FillChunk, goto, IInv, Typed
<1>4. \A x \in Chunk : x[1] \in Readers /\ (x = k <=> x[1] = p /\ x[2] = chunkId[p])
  BY <1>2 DEF Chunk
<1> HIDE DEF k
<1>5. Typed'
  <2>1. pc' \in [Readers -> Waiting \cup {"start", "loop", "push"} \cup Over]
    BY <1>1 DEF IInv, Typed, Over
  <2>2. m_error' \in [Readers -> BOOLEAN]
    BY <1>3 DEF IInv, Typed
  <2>3. failures' \in Nat
    BY DEF IInv, Typed, FillChunk, fail
  <2>4. data' \in [Readers -> Nat]
    BY <1>1, <1>3 DEF IInv, Typed
  <2>5. chunks' \in [Chunk -> {"none", "filled", "queued", "taken", "freed", "leaked"}]
    BY <1>3 DEF IInv, Typed
  <2> QED BY <2>1, <2>2, <2>3, <2>4, <2>5 DEF IInv, Typed, FillChunk
<1>6. Counted'
  <2>1. \A x \in Readers : pc'[x] \in Left <=> pc[x] \in Left
    BY <1>1 DEF IInv, Typed, Left
  <2> QED BY <2>1, CountedSame DEF IInv, FillChunk
<1>7. Phases'
  <2>1. \A x \in Readers : pc[x] \in Waiting => pc'[x] \in Waiting
    BY <1>1 DEF IInv, Typed
  <2> QED BY <1>1, <2>1, PartitionList DEF IInv, Phases, FillChunk
<1>8. Numbered'
  <2>1. chunkId' = chunkId
    BY DEF FillChunk
  <2>2. \A x \in Readers : x # p => pc'[x] = pc[x] /\ data'[x] = data[x]
    BY <1>1, <1>3 DEF IInv, Typed
  <2>3. data'[p] = data[p] \/ (data'[p] = data[p] - 1)
    BY <1>3 DEF IInv, Typed
  <2>4. pc'[p] = "push" => data'[p] = data[p] - 1
    BY <1>3 DEF IInv, Typed
  <2>5. pc'[p] \notin Waiting \cup {"start"}
    BY <1>1 DEF Waiting
  <2>6. chunkId[p] + data'[p] <= MaxChunks /\ (pc'[p] = "push" => chunkId[p] + data'[p] < MaxChunks)
    BY <1>2, <2>3, <2>4, StreamingAssumption
  <2> QED BY <2>1, <2>2, <2>5, <2>6 DEF IInv, Numbered
<1>9. Stated'
  <2> SUFFICES ASSUME NEW x \in Chunk
               PROVE  /\ x[2] < chunkId[x[1]] => chunks'[x] \in {"queued", "taken", "freed"}
                      /\ x[2] >= chunkId[x[1]] => chunks'[x] \in {"none", "leaked", "filled"}
                      /\ chunks'[x] = "filled" => pc'[x[1]] = "push" /\ x[2] = chunkId[x[1]]
                      /\ chunks'[x] = "freed" => main \in Freeing
    BY DEF Stated, FillChunk
  <2>1. CASE x = k
    <3>1. x[2] = chunkId[p] /\ x[1] = p /\ ~(chunkId[p] < chunkId[p])
      BY <2>1, <1>2, <1>4
    <3>2. chunks[k] \in {"none", "leaked", "filled"}
      BY <2>1, <3>1, <1>2 DEF IInv, Stated
    <3>3. chunks[k] # "filled"
      BY <2>1, <3>1, <1>1 DEF IInv, Stated
    <3>4. chunks'[k] = chunks[k] \/ chunks'[k] = "leaked" \/ (chunks'[k] = "filled" /\ pc'[p] = "push")
      BY <1>3, <2>1 DEF IInv, Typed
    <3> QED BY <2>1, <3>1, <3>2, <3>3, <3>4
  <2>2. CASE x # k
    <3>1. chunks'[x] = chunks[x]
      BY <1>3, <2>2 DEF IInv, Typed
    <3>2. pc'[x[1]] = pc[x[1]] \/ pc[x[1]] = "loop"
      BY <1>1, <1>4 DEF IInv, Typed
    <3> QED BY <3>1, <3>2 DEF IInv, Stated
  <2> QED BY <2>1, <2>2
<1>10. Queued'
  <2>1. chunks[k] # "queued" /\ chunks'[k] # "queued"
    <3>1. k[2] = chunkId[p] /\ k[1] = p
      BY <1>2, <1>4
    <3>2. chunks[k] \in {"none", "leaked", "filled"}
      BY <3>1, <1>2 DEF IInv, Stated
    <3> QED BY <3>2, <1>2, <1>3 DEF IInv, Typed
  <2>2. \A x \in Chunk : chunks'[x] = "queued" <=> chunks[x] = "queued"
    BY <1>3, <2>1 DEF IInv, Typed
  <2>3. \A c \in ConsumerIds : \A j \in DOMAIN m_consumer_queues[c].m_queue :
            m_consumer_queues[c].m_queue[j] \in Chunk
    BY DEF IInv, Typed, Queue
  <2> QED BY <2>2, <2>3 DEF IInv, Queued, FillChunk
<1>11. Ended' /\ Stopped'
  <2>1. \A x \in Readers : m_error[x] => m_error'[x]
    BY <1>3 DEF IInv, Typed
  <2>2. pc'[p] \in Over => m_error'[p]
    BY <1>1, <1>3 DEF IInv, Typed, Over
  <2>3. \A x \in Readers : x # p => pc'[x] = pc[x] /\ data'[x] = data[x]
    BY <1>1, <1>3 DEF IInv, Typed
  <2>4. Ended'
    BY <1>1, <2>1, <2>2, <2>3 DEF IInv, Ended, FillChunk
  <2>5. Stopped'
    BY <1>1, <2>1, <2>3 DEF IInv, Stopped, FillChunk
  <2> QED BY <2>4, <2>5
<1>12. Emptied'
  BY DEF IInv, Emptied, empty, FillChunk
<1>13. Complete'
  <2> SUFFICES ASSUME NEW c \in ConsumerIds, told[c] = "end", NEW x \in readersOf(c)
               PROVE  data'[x] = 0 /\ \A i \in 0 .. (chunkId[x] - 1) : chunks'[<<x, i>>] = "taken"
    BY DEF IInv, Complete, FillChunk
  <2>1. x # p /\ x \in Readers
    BY <1>1, Running, ProducersOf
  <2>2. data'[x] = data[x]
    BY <1>3, <2>1 DEF IInv, Typed
  <2>3. \A i : <<x, i>> # k
    BY <2>1 DEF k
  <2>4. \A i \in 0 .. (chunkId[x] - 1) : chunks[<<x, i>>] = "taken" => chunks'[<<x, i>>] = "taken"
    <3> TAKE i \in 0 .. (chunkId[x] - 1)
    <3>1. <<x, i>> \in Chunk
      BY <2>1, StreamingAssumption DEF Chunk, IInv, Typed, Numbered
    <3> QED BY <1>3, <2>3, <3>1 DEF IInv, Typed
  <2> QED BY <2>2, <2>4 DEF IInv, Complete
<1> QED BY <1>5, <1>6, <1>7, <1>8, <1>9, <1>10, <1>11, <1>12, <1>13 DEF IInv

\* A chunk is pushed: its reader is known to the queue, so nobody was told of the
\* end of it.
LEMMA PushKeeps ==
    ASSUME IInv, NEW p \in Readers, Push(p)
    PROVE  IInv'
<1> DEFINE k == <<p, chunkId[p]>>
           c == m_partition_consumer[p]
           q == m_consumer_queues[c]
           r == m_consumer_queues'[c]
<1>1. /\ pc[p] = "push" /\ pc[p] \notin Waiting /\ pc[p] \notin Left /\ ~m_error_before_read
      /\ pc' = [pc EXCEPT ![p] = "loop"]
  BY DEF IInv, Typed, Phases, Push, CanPush, goto, Waiting, Left
<1>2. k \in Chunk /\ chunkId[p] \in Nat /\ data[p] \in Nat /\ chunkId[p] + data[p] < MaxChunks
  <2>1. chunkId[p] \in Nat /\ data[p] \in Nat /\ chunkId[p] + data[p] < MaxChunks
    BY <1>1 DEF IInv, Typed, Numbered
  <2> QED BY <1>1, <2>1, StreamingAssumption DEF Chunk
<1>3. /\ c \in ConsumerIds /\ q \in Queue /\ call[c] \notin {"catch", "ended"} /\ c \notin deleted
      /\ \A d \in ConsumerIds : told[d] = "end" => p \notin readersOf(d)
  BY <1>1, Running
<1>4. /\ m_consumer_queues' = [m_consumer_queues EXCEPT ![c] = r]
      /\ r \in Queue /\ r.m_queue = Append(q.m_queue, k) /\ r.m_producers = q.m_producers
  <2>1. PICK x \in pushed(q, k) : m_consumer_queues' = [m_consumer_queues EXCEPT ![c] = x]
    BY DEF Push, queueOf, setQueue
  <2>2. r = x
    BY <1>3, <2>1 DEF IInv, Typed
  <2> HIDE DEF k, c, q, r
  <2>3. x \in Queue /\ x.m_queue = Append(q.m_queue, k) /\ x.m_producers = q.m_producers
    BY <1>2, <1>3, <2>1, PushedFields
  <2> QED BY <2>1, <2>2, <2>3
<1>5. \A x \in Chunk : x[1] \in Readers /\ x[2] \in Nat /\ (x = k <=> x[1] = p /\ x[2] = chunkId[p])
  BY <1>2, StreamingAssumption DEF Chunk
<1>6. chunks' = [chunks EXCEPT ![k] = "queued"] /\ chunkId' = [chunkId EXCEPT ![p] = @ + 1]
  BY DEF Push
<1>7. p \in readersOf(c) /\ \A d \in ConsumerIds : p \in readersOf(d) => d = c
  BY ConsumerOf
<1> HIDE DEF k, c, r
<1>8. Typed'
  <2>1. pc' \in [Readers -> Waiting \cup {"start", "loop", "push"} \cup Over]
    BY <1>1 DEF IInv, Typed
  <2>2. m_consumer_queues' \in [ConsumerIds -> Queue]
    BY <1>4 DEF IInv, Typed
  <2>3. chunkId' \in [Readers -> Nat]
    BY <1>2, <1>6 DEF IInv, Typed
  <2>4. chunks' \in [Chunk -> {"none", "filled", "queued", "taken", "freed", "leaked"}]
    BY <1>6 DEF IInv, Typed
  <2> QED BY <2>1, <2>2, <2>3, <2>4 DEF IInv, Typed, Push
<1>9. Counted'
  <2>1. \A x \in Readers : pc'[x] \in Left <=> pc[x] \in Left
    BY <1>1 DEF IInv, Typed, Left
  <2>2. \A d \in ConsumerIds : m_consumer_queues'[d].m_producers = m_consumer_queues[d].m_producers
    BY <1>3, <1>4 DEF IInv, Typed
  <2> QED BY <2>1, <2>2, CountedSame DEF IInv
<1>10. Phases'
  <2>1. \A x \in Readers : pc[x] \in Waiting => pc'[x] \in Waiting
    BY <1>1 DEF IInv, Typed
  <2> QED BY <1>1, <2>1, PartitionList DEF IInv, Phases, Push
<1>11. Numbered'
  <2>1. \A x \in Readers : x # p => pc'[x] = pc[x] /\ chunkId'[x] = chunkId[x]
    BY <1>1, <1>6 DEF IInv, Typed
  <2>2. pc'[p] = "loop" /\ chunkId'[p] = chunkId[p] + 1
    BY <1>1, <1>6 DEF IInv, Typed
  <2>3. chunkId'[p] + data[p] <= MaxChunks
    BY <1>2, <2>2, StreamingAssumption
  <2> QED BY <2>1, <2>2, <2>3 DEF IInv, Numbered, Push, Waiting
<1>12. Stated'
  <2> SUFFICES ASSUME NEW x \in Chunk
               PROVE  /\ x[2] < chunkId'[x[1]] => chunks'[x] \in {"queued", "taken", "freed"}
                      /\ x[2] >= chunkId'[x[1]] => chunks'[x] \in {"none", "leaked", "filled"}
                      /\ chunks'[x] = "filled" => pc'[x[1]] = "push" /\ x[2] = chunkId'[x[1]]
                      /\ chunks'[x] = "freed" => main \in Freeing
    BY DEF Stated, Push
  <2>1. CASE x = k
    <3>1. x[1] = p /\ x[2] = chunkId[p] /\ chunkId'[p] = chunkId[p] + 1 /\ chunks'[x] = "queued"
      BY <2>1, <1>5, <1>6 DEF IInv, Typed
    <3> QED BY <3>1, <1>2
  <2>2. CASE x # k
    <3>1. chunks'[x] = chunks[x]
      BY <1>6, <2>2 DEF IInv, Typed
    <3>2. CASE x[1] = p
      <4>1. x[2] # chunkId[p] /\ chunkId'[p] = chunkId[p] + 1
        BY <2>2, <3>2, <1>5, <1>6 DEF IInv, Typed
      <4>2. x[2] < chunkId'[p] <=> x[2] < chunkId[p]
        BY <4>1, <1>2, <1>5
      <4>3. x[2] >= chunkId'[p] => x[2] >= chunkId[p]
        BY <4>1, <1>2, <1>5
      <4>4. chunks[x] # "filled"
        BY <3>2, <4>1 DEF IInv, Stated
      <4> QED BY <3>1, <3>2, <4>2, <4>3, <4>4 DEF IInv, Stated
    <3>3. CASE x[1] # p
      <4>1. pc'[x[1]] = pc[x[1]] /\ chunkId'[x[1]] = chunkId[x[1]]
        BY <1>1, <1>5, <1>6, <3>3 DEF IInv, Typed
      <4> QED BY <3>1, <4>1 DEF IInv, Stated
    <3> QED BY <3>2, <3>3
  <2> QED BY <2>1, <2>2
<1>13. chunks[k] # "queued"
  <2>1. k[1] = p /\ k[2] = chunkId[p]
    BY <1>2, <1>5
  <2> QED BY <1>2, <2>1 DEF IInv, Stated
<1>14. Queued'
  <2> SUFFICES ASSUME NEW d \in ConsumerIds
               PROVE  LET w == m_consumer_queues'[d].m_queue
                      IN  /\ \A j \in DOMAIN w : w[j][1] \in readersOf(d) /\ chunks'[w[j]] = "queued"
                          /\ \A i, j \in DOMAIN w : w[i] = w[j] => i = j
                          /\ \A x \in Chunk : x[1] \in readersOf(d) /\ chunks'[x] = "queued" =>
                                 \E j \in DOMAIN w : w[j] = x
    BY DEF Queued
  <2> DEFINE u == m_consumer_queues[d].m_queue
             w == m_consumer_queues'[d].m_queue
  <2>1. u \in Seq(Chunk) /\ Len(u) \in Nat /\ DOMAIN u = 1 .. Len(u)
    BY DEF IInv, Typed, Queue
  <2>2. /\ \A j \in DOMAIN u : u[j] \in Chunk /\ u[j][1] \in readersOf(d) /\ chunks[u[j]] = "queued"
        /\ \A i, j \in DOMAIN u : u[i] = u[j] => i = j
        /\ \A x \in Chunk : x[1] \in readersOf(d) /\ chunks[x] = "queued" =>
               \E j \in DOMAIN u : u[j] = x
    BY <2>1 DEF IInv, Queued
  <2>3. \A x \in Chunk : x # k => chunks'[x] = chunks[x]
    BY <1>6 DEF IInv, Typed
  <2>4. \A j \in DOMAIN u : u[j] # k /\ chunks'[u[j]] = "queued"
    BY <1>13, <2>2, <2>3
  <2>5. CASE d = c
    <3>1. w = Append(u, k)
      BY <1>4, <2>5 DEF r
    <3> HIDE DEF u, w
    <3>2. /\ DOMAIN w = 1 .. (Len(u) + 1)
          /\ \A j \in DOMAIN u : w[j] = u[j]
          /\ w[Len(u) + 1] = k
      BY <1>2, <2>1, <3>1
    <3>3. \A j \in DOMAIN w : j \in DOMAIN u \/ j = Len(u) + 1
      BY <2>1, <3>2
    <3>4. \A j \in DOMAIN u : j \in DOMAIN w
      BY <2>1, <3>2
    <3>5. Len(u) + 1 \in DOMAIN w
      BY <2>1, <3>2
    <3>6. chunks'[k] = "queued" /\ k[1] \in readersOf(d)
      BY <1>2, <1>5, <1>6, <1>7, <2>5 DEF IInv, Typed
    <3>7. \A j \in DOMAIN w : w[j][1] \in readersOf(d) /\ chunks'[w[j]] = "queued"
      BY <2>2, <2>4, <3>2, <3>3, <3>6
    <3>8. \A i, j \in DOMAIN w : w[i] = w[j] => i = j
      BY <2>2, <2>4, <3>2, <3>3
    <3>9. ASSUME NEW x \in Chunk, x[1] \in readersOf(d), chunks'[x] = "queued"
          PROVE  \E j \in DOMAIN w : w[j] = x
      <4>1. CASE x = k
        BY <3>2, <3>5, <4>1
      <4>2. CASE x # k
        BY <2>2, <2>3, <3>2, <3>4, <3>9, <4>2
      <4> QED BY <4>1, <4>2
    <3> QED BY <3>7, <3>8, <3>9 DEF w
  <2>6. CASE d # c
    <3>1. w = u
      BY <1>4, <2>6 DEF IInv, Typed
    <3>2. \A x \in Chunk : x[1] \in readersOf(d) => x # k
      BY <1>5, <1>7, <2>6
    <3> HIDE DEF u, w
    <3> QED BY <2>2, <2>3, <2>4, <3>1, <3>2 DEF w
  <2> QED BY <2>5, <2>6
<1>15. Ended' /\ Stopped'
  <2>1. \A x \in Readers : x # p => pc'[x] = pc[x]
    BY <1>1 DEF IInv, Typed
  <2>2. pc'[p] = "loop" /\ pc'[p] \notin Over
    BY <1>1 DEF IInv, Typed, Over
  <2>3. Ended'
    BY <1>1, <2>1, <2>2 DEF IInv, Ended, Push
  <2>4. Stopped'
    BY <1>1, <2>1, <2>2 DEF IInv, Stopped, Push
  <2> QED BY <2>3, <2>4
<1>16. Emptied'
  <2>1. \A d \in ConsumerIds : d # c => (empty(d)' <=> empty(d))
    BY <1>4 DEF IInv, Typed, empty
  <2>2. deleted \subseteq ConsumerIds
    BY DEF IInv, Typed
  <2> QED BY <1>3, <2>1, <2>2 DEF IInv, Emptied, Push
<1>17. Complete'
  <2> SUFFICES ASSUME NEW d \in ConsumerIds, told[d] = "end", NEW x \in readersOf(d)
               PROVE  data[x] = 0 /\ \A i \in 0 .. (chunkId'[x] - 1) : chunks'[<<x, i>>] = "taken"
    BY DEF IInv, Complete, Push
  <2>1. x # p /\ x \in Readers
    BY <1>3, ProducersOf
  <2>2. chunkId'[x] = chunkId[x]
    BY <1>6, <2>1 DEF IInv, Typed
  <2>3. \A i : <<x, i>> # k
    BY <2>1 DEF k
  <2>4. \A i \in 0 .. (chunkId[x] - 1) : chunks[<<x, i>>] = "taken" => chunks'[<<x, i>>] = "taken"
    <3> TAKE i \in 0 .. (chunkId[x] - 1)
    <3>1. <<x, i>> \in Chunk
      BY <2>1, StreamingAssumption DEF Chunk, IInv, Typed, Numbered
    <3> QED BY <1>6, <2>3, <3>1 DEF IInv, Typed
  <2> QED BY <2>2, <2>4 DEF IInv, Complete
<1> QED BY <1>8, <1>9, <1>10, <1>11, <1>12, <1>14, <1>15, <1>16, <1>17 DEF IInv

\* A reader leaves its queue.
LEMMA DeleteProducerKeeps ==
    ASSUME IInv, NEW p \in Readers, DeleteProducer(p)
    PROVE  IInv'
<1> DEFINE c == m_partition_consumer[p]
           q == m_consumer_queues[c]
           r == m_consumer_queues'[c]
<1>1. /\ pc[p] = "delete" /\ pc[p] \notin Waiting /\ pc[p] \notin Left /\ ~m_error_before_read
      /\ pc' = [pc EXCEPT ![p] = "deactivate"]
  BY DEF IInv, Typed, Phases, DeleteProducer, goto, Waiting, Left
<1>2. /\ c \in ConsumerIds /\ q \in Queue /\ call[c] \notin {"catch", "ended"} /\ c \notin deleted
  BY <1>1, Running
<1>3. /\ m_consumer_queues' = [m_consumer_queues EXCEPT ![c] = r]
      /\ r \in Queue /\ r.m_queue = q.m_queue /\ r.m_producers = q.m_producers - 1
  <2>1. m_consumer_queues' = [m_consumer_queues EXCEPT ![c] = producerDeleted(q)]
    BY DEF DeleteProducer, queueOf, setQueue
  <2>2. r = producerDeleted(q)
    BY <1>2, <2>1 DEF IInv, Typed
  <2> HIDE DEF c, q, r
  <2>3. /\ producerDeleted(q) \in Queue
        /\ producerDeleted(q).m_queue = q.m_queue
        /\ producerDeleted(q).m_producers = q.m_producers - 1
    BY <1>2, DeletedFields
  <2> QED BY <2>1, <2>2, <2>3
<1>4. p \in readersOf(c) /\ \A d \in ConsumerIds : p \in readersOf(d) => d = c
  BY ConsumerOf
<1>5. \A d \in ConsumerIds : d # c => m_consumer_queues'[d] = m_consumer_queues[d]
  BY <1>3 DEF IInv, Typed
<1>6. \A x \in Readers : x # p => pc'[x] = pc[x]
  BY <1>1 DEF IInv, Typed
<1>7. pc'[p] = "deactivate" /\ pc'[p] \in Left /\ pc'[p] \in Over /\ pc[p] \in Over
  BY <1>1 DEF IInv, Typed, Left, Over
<1>8. \A d \in ConsumerIds : m_consumer_queues'[d].m_queue = m_consumer_queues[d].m_queue
  BY <1>3, <1>5
<1> HIDE DEF c, r
<1>9. Typed'
  <2>1. pc' \in [Readers -> Waiting \cup {"start", "loop", "push"} \cup Over]
    BY <1>1 DEF IInv, Typed, Over
  <2>2. m_consumer_queues' \in [ConsumerIds -> Queue]
    BY <1>3 DEF IInv, Typed
  <2> QED BY <2>1, <2>2 DEF IInv, Typed, DeleteProducer
<1>10. Counted'
  <2> SUFFICES ASSUME NEW d \in ConsumerIds
               PROVE  m_consumer_queues'[d].m_producers = Cardinality(present(d)')
    BY DEF Counted
  <2>1. readersOf(d) \subseteq Readers /\ m_consumer_queues[d].m_producers = Cardinality(present(d))
    BY ProducersOf DEF IInv, Counted
  <2>2. CASE d = c
    <3>1. present(d)' = present(d) \ {p} /\ p \in present(d)
      BY <1>1, <1>4, <1>6, <1>7, <2>1, <2>2 DEF present
    <3>2. IsFiniteSet(present(d))
      BY NoProducers DEF IInv
    <3>3. Cardinality(present(d) \ {p}) = Cardinality(present(d)) - 1
      BY <3>1, <3>2, FS_RemoveElement
    <3>4. m_consumer_queues'[d].m_producers = m_consumer_queues[d].m_producers - 1
      BY <1>3, <2>2 DEF r
    <3> QED BY <2>1, <3>1, <3>3, <3>4
  <2>3. CASE d # c
    <3>1. present(d)' = present(d)
      BY <1>4, <1>6, <2>1, <2>3 DEF present
    <3> QED BY <1>5, <2>1, <2>3, <3>1
  <2> QED BY <2>2, <2>3
<1>11. Phases'
  <2>1. \A x \in Readers : pc[x] \in Waiting => pc'[x] \in Waiting
    BY <1>1, <1>6
  <2> QED BY <1>1, <2>1, PartitionList DEF IInv, Phases, DeleteProducer
<1>12. Numbered'
  BY <1>6, <1>7 DEF IInv, Numbered, DeleteProducer, Waiting
<1>13. Stated' /\ Queued'
  <2>1. \A k \in Chunk : k[1] \in Readers
    BY DEF Chunk
  <2>2. Stated'
    BY <1>1, <1>6, <2>1 DEF IInv, Stated, DeleteProducer
  <2>3. Queued'
    BY <1>8 DEF IInv, Queued, DeleteProducer
  <2> QED BY <2>2, <2>3
<1>14. Ended' /\ Stopped'
  BY <1>1, <1>6, <1>7 DEF IInv, Ended, Stopped, DeleteProducer
<1>15. Emptied'
  <2>1. \A d \in ConsumerIds : d # c => (empty(d)' <=> empty(d))
    BY <1>5 DEF empty
  <2>2. deleted \subseteq ConsumerIds
    BY DEF IInv, Typed
  <2> QED BY <1>2, <2>1, <2>2 DEF IInv, Emptied, DeleteProducer
<1>16. Complete'
  BY DEF IInv, Complete, DeleteProducer
<1> QED BY <1>9, <1>10, <1>11, <1>12, <1>13, <1>14, <1>15, <1>16 DEF IInv

-----------------------------------------------------------------------------
(* The steps of a queue's waiting threads.                                 *)

\* A step after which every queue has what it had, and nothing else has changed.
LEMMA QueuesKept ==
    ASSUME IInv,
           UNCHANGED <<mainVars, readerVars, stopVars, consumerVars, failures, deleted, chunks>>,
           m_consumer_queues' \in [ConsumerIds -> Queue],
           \A c \in ConsumerIds :
               /\ m_consumer_queues'[c].m_queue = m_consumer_queues[c].m_queue
               /\ m_consumer_queues'[c].m_producers = m_consumer_queues[c].m_producers
    PROVE  IInv'
<1>1. Typed'
  BY DEF IInv, Typed
<1>2. Counted'
  BY CountedSame DEF IInv
<1>3. Phases' /\ Numbered' /\ Stated' /\ Ended' /\ Stopped' /\ Complete'
  BY DEF IInv, Phases, Numbered, Stated, Ended, Stopped, Complete
<1>4. Queued'
  BY DEF IInv, Queued
<1>5. Emptied'
  <2>1. deleted \subseteq ConsumerIds
    BY DEF IInv, Typed
  <2> QED BY <2>1 DEF IInv, Emptied, empty
<1> QED BY <1>1, <1>2, <1>3, <1>4, <1>5 DEF IInv

\* One queue is replaced by one that has what it had.
LEMMA OneQueueKept ==
    ASSUME IInv,
           UNCHANGED <<mainVars, readerVars, stopVars, consumerVars, failures, deleted, chunks>>,
           NEW c \in ConsumerIds, NEW q,
           q \in Queue,
           q.m_queue = m_consumer_queues[c].m_queue,
           q.m_producers = m_consumer_queues[c].m_producers,
           setQueue(c, q)
    PROVE  IInv'
<1>1. m_consumer_queues \in [ConsumerIds -> Queue]
  BY DEF IInv, Typed
<1>2. m_consumer_queues' \in [ConsumerIds -> Queue]
  BY <1>1 DEF setQueue
<1>3. \A d \in ConsumerIds :
         /\ m_consumer_queues'[d].m_queue = m_consumer_queues[d].m_queue
         /\ m_consumer_queues'[d].m_producers = m_consumer_queues[d].m_producers
  BY <1>1 DEF setQueue
<1> QED BY <1>2, <1>3, QueuesKept

\* A reader waits for a free place.
LEMMA PushWaitKeeps ==
    ASSUME IInv, NEW p \in Readers, PushWait(p)
    PROVE  IInv'
<1> DEFINE c == m_partition_consumer[p]
           q == m_consumer_queues[c]
           r == pushWait(q, p)
<1>1. c \in ConsumerIds /\ q \in Queue
  BY ConsumerOf DEF IInv, Typed
<1>2. setQueue(c, r) /\ UNCHANGED <<mainVars, readerVars, stopVars, consumerVars, failures, deleted, chunks>>
  BY DEF PushWait, queueOf
<1>3. \E t \in Readers : r = pushWait(q, t)
  OBVIOUS
<1> HIDE DEF c, r
<1>4. r \in Queue /\ r.m_queue = q.m_queue /\ r.m_producers = q.m_producers
  BY <1>1, <1>3, WaitFields
<1> QED BY <1>1, <1>2, <1>4, OneQueueKept

\* A consumer waits for a chunk.
LEMMA PopWaitKeeps ==
    ASSUME IInv, NEW c \in ConsumerIds, PopWait(c)
    PROVE  IInv'
<1> DEFINE q == m_consumer_queues[c]
           r == popWait(q, c)
<1>1. q \in Queue
  BY DEF IInv, Typed
<1>2. setQueue(c, r) /\ UNCHANGED <<mainVars, readerVars, stopVars, consumerVars, failures, deleted, chunks>>
  BY DEF PopWait
<1>3. \E t \in ConsumerIds \cup {Destructor} : r = popWait(q, t)
  OBVIOUS
<1> HIDE DEF r
<1>4. r \in Queue /\ r.m_queue = q.m_queue /\ r.m_producers = q.m_producers
  BY <1>1, <1>3, WaitFields
<1> QED BY <1>2, <1>4, OneQueueKept

\* The destructor waits for a chunk.
LEMMA DrainWaitKeeps ==
    ASSUME IInv, DrainWait
    PROVE  IInv'
<1> DEFINE q == m_consumer_queues[step]
           r == popWait(q, Destructor)
<1>1. step \in ConsumerIds /\ q \in Queue
  BY StreamingAssumption DEF IInv, Typed, DrainWait, Draining, ConsumerIds
<1>2. setQueue(step, r) /\ UNCHANGED <<mainVars, readerVars, stopVars, consumerVars, failures, deleted, chunks>>
  BY DEF DrainWait
<1>3. \E t \in ConsumerIds \cup {Destructor} : r = popWait(q, t)
  OBVIOUS
<1> HIDE DEF r
<1>4. r \in Queue /\ r.m_queue = q.m_queue /\ r.m_producers = q.m_producers
  BY <1>1, <1>3, WaitFields
<1> QED BY <1>1, <1>2, <1>4, OneQueueKept

\* A thread wakes up for no reason.
LEMMA SpuriousWakeupKeeps ==
    ASSUME IInv, SpuriousWakeup
    PROVE  IInv'
<1>1. PICK c \in ConsumerIds : \E q \in spurious(m_consumer_queues[c]) : setQueue(c, q)
  BY DEF SpuriousWakeup
<1>2. PICK r \in spurious(m_consumer_queues[c]) : setQueue(c, r)
  BY <1>1
<1>3. m_consumer_queues[c] \in Queue
  BY DEF IInv, Typed
<1>4. /\ r \in Queue /\ r.m_queue = m_consumer_queues[c].m_queue
      /\ r.m_producers = m_consumer_queues[c].m_producers
  BY <1>3, WaitFields
<1> QED BY <1>2, <1>4, OneQueueKept DEF SpuriousWakeup

-----------------------------------------------------------------------------
(* The steps of the consumers, and those by which the destructor drains.   *)

\* The first chunk of a queue is removed from it: the parts of the invariant that
\* do not depend on who removes it.
LEMMA Dequeued ==
    ASSUME IInv, NEW c \in ConsumerIds, NEW s \in {"taken", "freed"},
           UNCHANGED <<mainVars, readerVars, stopVars, failures, deleted>>,
           m_consumer_queues[c].m_queue # <<>>,
           \E r \in popped(m_consumer_queues[c]) : setQueue(c, r),
           chunks' = [chunks EXCEPT ![Head(m_consumer_queues[c].m_queue)] = s],
           s = "freed" => main \in Freeing
    PROVE  /\ ~empty(c)
           /\ m_consumer_queues' \in [ConsumerIds -> Queue]
           /\ chunks' \in [Chunk -> {"none", "filled", "queued", "taken", "freed", "leaked"}]
           /\ Counted' /\ Numbered' /\ Stated' /\ Queued' /\ Ended' /\ Stopped'
           /\ \A d \in ConsumerIds : d # c => (empty(d)' <=> empty(d))
           /\ \A d \in ConsumerIds : \A p \in readersOf(d) : \A j \in 0 .. (chunkId[p] - 1) :
                  d # c => chunks'[<<p, j>>] = chunks[<<p, j>>]
<1> DEFINE u == m_consumer_queues[c].m_queue
           w == m_consumer_queues'[c].m_queue
           k == Head(u)
<1>1. PICK r \in popped(m_consumer_queues[c]) : setQueue(c, r)
  OBVIOUS
<1>2. m_consumer_queues \in [ConsumerIds -> Queue] /\ m_consumer_queues[c] \in Queue
  BY DEF IInv, Typed
<1>3. r \in Queue /\ r.m_queue = Tail(u) /\ r.m_producers = m_consumer_queues[c].m_producers
  BY <1>1, <1>2, PoppedFields
<1>4. /\ m_consumer_queues' \in [ConsumerIds -> Queue]
      /\ m_consumer_queues'[c] = r
      /\ \A d \in ConsumerIds : d # c => m_consumer_queues'[d] = m_consumer_queues[d]
  BY <1>1, <1>2, <1>3 DEF setQueue
<1>5. u \in Seq(Chunk) /\ u # <<>> /\ Len(u) \in Nat /\ DOMAIN u = 1 .. Len(u) /\ w = Tail(u)
  BY <1>2, <1>3, <1>4 DEF Queue
<1>6. /\ \A j \in DOMAIN u : u[j] \in Chunk /\ u[j][1] \in readersOf(c) /\ chunks[u[j]] = "queued"
      /\ \A i, j \in DOMAIN u : u[i] = u[j] => i = j
      /\ \A x \in Chunk : x[1] \in readersOf(c) /\ chunks[x] = "queued" =>
             \E j \in DOMAIN u : u[j] = x
  BY <1>5 DEF IInv, Queued
<1> HIDE DEF u, w
<1>7. 1 \in DOMAIN u /\ k = u[1]
  BY <1>5
<1>8. k \in Chunk /\ k[1] \in readersOf(c) /\ chunks[k] = "queued" /\ k[1] \in Readers /\ k[2] \in Int
  <2>1. k \in Chunk /\ k[1] \in readersOf(c) /\ chunks[k] = "queued"
    BY <1>6, <1>7
  <2> QED BY <2>1, StreamingAssumption DEF Chunk
<1> HIDE DEF k
<1>9. chunks' = [chunks EXCEPT ![k] = s]
  BY DEF k, u
<1>10. chunks'[k] = s /\ \A x \in Chunk : x # k => chunks'[x] = chunks[x]
  BY <1>8, <1>9 DEF IInv, Typed
<1>11. chunks' \in [Chunk -> {"none", "filled", "queued", "taken", "freed", "leaked"}]
  BY <1>9 DEF IInv, Typed
<1>12. Counted'
  <2>1. \A d \in ConsumerIds : m_consumer_queues'[d].m_producers = m_consumer_queues[d].m_producers
    BY <1>3, <1>4
  <2> QED BY <2>1, CountedSame DEF IInv
<1>13. Numbered' /\ Ended' /\ Stopped'
  BY DEF IInv, Numbered, Ended, Stopped
<1>14. Stated'
  <2> SUFFICES ASSUME NEW x \in Chunk
               PROVE  /\ x[2] < chunkId[x[1]] => chunks'[x] \in {"queued", "taken", "freed"}
                      /\ x[2] >= chunkId[x[1]] => chunks'[x] \in {"none", "leaked", "filled"}
                      /\ chunks'[x] = "filled" => pc[x[1]] = "push" /\ x[2] = chunkId[x[1]]
                      /\ chunks'[x] = "freed" => main \in Freeing
    BY DEF Stated
  <2>1. CASE x = k
    <3>1. ~(x[2] >= chunkId[x[1]])
      BY <1>8, <2>1 DEF IInv, Stated
    <3> QED BY <1>10, <2>1, <3>1
  <2>2. CASE x # k
    BY <1>10, <2>2 DEF IInv, Stated
  <2> QED BY <2>1, <2>2
<1>15. Queued'
  <2> SUFFICES ASSUME NEW d \in ConsumerIds
               PROVE  LET v == m_consumer_queues'[d].m_queue
                      IN  /\ \A j \in DOMAIN v : v[j][1] \in readersOf(d) /\ chunks'[v[j]] = "queued"
                          /\ \A i, j \in DOMAIN v : v[i] = v[j] => i = j
                          /\ \A x \in Chunk : x[1] \in readersOf(d) /\ chunks'[x] = "queued" =>
                                 \E j \in DOMAIN v : v[j] = x
    BY DEF Queued
  <2>1. CASE d = c
    <3>1. /\ DOMAIN w = 1 .. (Len(u) - 1)
          /\ \A j \in DOMAIN w : w[j] = u[j + 1]
      BY <1>5
    <3>2. \A j \in DOMAIN w : j + 1 \in DOMAIN u /\ j + 1 # 1
      BY <1>5, <3>1
    <3>3. \A j \in DOMAIN w : w[j] # k /\ w[j] \in Chunk
      BY <1>6, <1>7, <3>1, <3>2
    <3>4. \A j \in DOMAIN w : w[j][1] \in readersOf(d) /\ chunks'[w[j]] = "queued"
      BY <1>6, <1>10, <2>1, <3>1, <3>2, <3>3
    <3>5. \A i, j \in DOMAIN w : w[i] = w[j] => i = j
      <4> TAKE i, j \in DOMAIN w
      <4>1. w[i] = w[j] => i + 1 = j + 1
        BY <1>6, <3>1, <3>2
      <4>2. i \in Int /\ j \in Int
        BY <1>5, <3>1
      <4> QED BY <4>1, <4>2
    <3>6. ASSUME NEW x \in Chunk, x[1] \in readersOf(d), chunks'[x] = "queued"
          PROVE  \E j \in DOMAIN w : w[j] = x
      <4>1. x # k
        BY <1>10, <3>6
      <4>2. PICK j \in DOMAIN u : u[j] = x
        BY <1>6, <1>10, <2>1, <3>6, <4>1
      <4>3. j # 1
        BY <1>7, <4>1, <4>2
      <4>4. j - 1 \in DOMAIN w /\ (j - 1) + 1 = j
        BY <1>5, <3>1, <4>3
      <4> QED BY <3>1, <4>2, <4>4
    <3> QED BY <2>1, <3>4, <3>5, <3>6 DEF w
  <2>2. CASE d # c
    <3> DEFINE v == m_consumer_queues[d].m_queue
    <3>1. m_consumer_queues'[d].m_queue = v /\ v \in Seq(Chunk)
      BY <1>2, <1>4, <2>2 DEF Queue
    <3>2. \A x \in Chunk : x[1] \in readersOf(d) => x # k
      BY <1>8, <2>2, ConsumerOf
    <3>3. /\ \A j \in DOMAIN v : v[j] \in Chunk /\ v[j][1] \in readersOf(d) /\ chunks[v[j]] = "queued"
          /\ \A i, j \in DOMAIN v : v[i] = v[j] => i = j
          /\ \A x \in Chunk : x[1] \in readersOf(d) /\ chunks[x] = "queued" =>
                 \E j \in DOMAIN v : v[j] = x
      BY <3>1 DEF IInv, Queued
    <3> HIDE DEF v
    <3> QED BY <1>10, <3>1, <3>2, <3>3
  <2> QED BY <2>1, <2>2
<1>16. \A d \in ConsumerIds : d # c => (empty(d)' <=> empty(d))
  BY <1>4 DEF empty
<1>17. ASSUME NEW d \in ConsumerIds, NEW p \in readersOf(d), NEW j \in 0 .. (chunkId[p] - 1), d # c
       PROVE  chunks'[<<p, j>>] = chunks[<<p, j>>]
  <2>1. p \in Readers
    BY ProducersOf
  <2>2. <<p, j>> \in Chunk
    BY <2>1, StreamingAssumption DEF Chunk, IInv, Typed, Numbered
  <2>3. p # k[1]
    BY <1>8, <1>17, <2>1, ConsumerOf
  <2> QED BY <1>10, <2>2, <2>3
<1> QED BY <1>4, <1>11, <1>12, <1>13, <1>14, <1>15, <1>16, <1>17 DEF empty

\* A consumer takes a chunk.
LEMMA PopKeeps ==
    ASSUME IInv, NEW c \in ConsumerIds, Pop(c)
    PROVE  IInv'
<1>1. /\ ~empty(c)
      /\ m_consumer_queues' \in [ConsumerIds -> Queue]
      /\ chunks' \in [Chunk -> {"none", "filled", "queued", "taken", "freed", "leaked"}]
      /\ Counted' /\ Numbered' /\ Stated' /\ Queued' /\ Ended' /\ Stopped'
      /\ \A d \in ConsumerIds : d # c => (empty(d)' <=> empty(d))
      /\ \A d \in ConsumerIds : \A p \in readersOf(d) : \A j \in 0 .. (chunkId[p] - 1) :
             d # c => chunks'[<<p, j>>] = chunks[<<p, j>>]
  BY Dequeued DEF Pop
<1>2. /\ call' = [call EXCEPT ![c] = "idle"] /\ told' = [told EXCEPT ![c] = "chunk"]
      /\ UNCHANGED <<mainVars, readerVars, stopVars, failures, deleted>>
  BY DEF Pop
<1>3. /\ call'[c] = "idle" /\ told'[c] = "chunk"
      /\ \A d \in ConsumerIds : d # c => call'[d] = call[d] /\ told'[d] = told[d]
  BY <1>2 DEF IInv, Typed
<1>4. Typed'
  <2>1. call' \in [ConsumerIds -> {"idle", "pop", "catch", "ended"}]
    BY <1>2 DEF IInv, Typed
  <2>2. told' \in [ConsumerIds -> {"nothing", "chunk", "error", "end"}]
    BY <1>2 DEF IInv, Typed
  <2> QED BY <1>1, <1>2, <2>1, <2>2 DEF IInv, Typed
<1>5. Phases'
  BY <1>2, <1>3 DEF IInv, Phases
<1>6. Emptied'
  <2>1. deleted \subseteq ConsumerIds
    BY DEF IInv, Typed
  <2> QED BY <1>1, <1>2, <1>3, <2>1 DEF IInv, Emptied
<1>7. Complete'
  BY <1>1, <1>2, <1>3 DEF IInv, Complete
<1> QED BY <1>1, <1>4, <1>5, <1>6, <1>7 DEF IInv

\* The destructor frees a chunk.
LEMMA DrainChunkKeeps ==
    ASSUME IInv, DrainChunk
    PROVE  IInv'
<1> DEFINE c == step
<1>1. c \in ConsumerIds /\ main \in Freeing
  BY StreamingAssumption DEF IInv, Typed, DrainChunk, Draining, ConsumerIds, Freeing
<1>2. /\ ~empty(c)
      /\ m_consumer_queues' \in [ConsumerIds -> Queue]
      /\ chunks' \in [Chunk -> {"none", "filled", "queued", "taken", "freed", "leaked"}]
      /\ Counted' /\ Numbered' /\ Stated' /\ Queued' /\ Ended' /\ Stopped'
      /\ \A d \in ConsumerIds : d # c => (empty(d)' <=> empty(d))
      /\ \A d \in ConsumerIds : \A p \in readersOf(d) : \A j \in 0 .. (chunkId[p] - 1) :
             d # c => chunks'[<<p, j>>] = chunks[<<p, j>>]
  BY <1>1, Dequeued DEF DrainChunk
<1>3. UNCHANGED <<mainVars, readerVars, stopVars, consumerVars, failures, deleted>>
  BY DEF DrainChunk
<1>4. Typed' /\ Phases'
  BY <1>2, <1>3 DEF IInv, Typed, Phases
<1>5. Emptied'
  <2>1. deleted \subseteq ConsumerIds
    BY DEF IInv, Typed
  <2> QED BY <1>2, <1>3, <2>1 DEF IInv, Emptied
<1>6. Complete'
  <2>1. told[c] # "end"
    BY <1>1, <1>2 DEF IInv, Complete, Emptied
  <2> QED BY <1>2, <1>3, <2>1 DEF IInv, Complete
<1> QED BY <1>2, <1>4, <1>5, <1>6 DEF IInv

\* A consumer calls GetNextChunk.
LEMMA CallGetKeeps ==
    ASSUME IInv, NEW c \in ConsumerIds, CallGet(c)
    PROVE  IInv'
<1>1. call'[c] = "pop" /\ \A d \in ConsumerIds : d # c => call'[d] = call[d]
  BY DEF IInv, Typed, CallGet
<1>2. Typed'
  BY DEF IInv, Typed, CallGet
<1>3. Counted'
  BY CountedSame DEF IInv, CallGet
<1>4. Phases'
  BY <1>1 DEF IInv, Phases, CallGet
<1>5. Numbered' /\ Stated' /\ Queued' /\ Ended' /\ Stopped'
  BY DEF IInv, CallGet, Numbered, Stated, Queued, Ended, Stopped
<1>6. Emptied'
  BY <1>1 DEF IInv, Emptied, empty, CallGet
<1>7. Complete'
  BY <1>1 DEF IInv, Complete, CallGet
<1> QED BY <1>2, <1>3, <1>4, <1>5, <1>6, <1>7 DEF IInv

\* Pop throws at the end of the queue.
LEMMA PopThrowKeeps ==
    ASSUME IInv, NEW c \in ConsumerIds, PopThrow(c)
    PROVE  IInv'
<1>1. call'[c] = "catch" /\ call[c] = "pop" /\ \A d \in ConsumerIds : d # c => call'[d] = call[d]
  BY DEF IInv, Typed, PopThrow, CanPop
<1>2. Typed'
  BY DEF IInv, Typed, PopThrow
<1>3. Counted'
  BY CountedSame DEF IInv, PopThrow
<1>4. Phases'
  BY <1>1 DEF IInv, Phases, PopThrow
<1>5. Numbered' /\ Stated' /\ Queued' /\ Ended' /\ Stopped'
  BY DEF IInv, PopThrow, Numbered, Stated, Queued, Ended, Stopped
<1>6. Emptied'
  BY <1>1 DEF IInv, Emptied, empty, PopThrow, popThrows
<1>7. Complete'
  BY <1>1 DEF IInv, Complete, PopThrow
<1> QED BY <1>2, <1>3, <1>4, <1>5, <1>6, <1>7 DEF IInv

\* The errors of the readers are asked for, and the end is reported if there is
\* none: every reader of the queue had left it, none was told to stop, and so each
\* had read all its data.
LEMMA CollectErrorsKeeps ==
    ASSUME IInv, NEW c \in ConsumerIds, CollectErrors(c)
    PROVE  IInv'
<1>1. /\ call[c] = "catch" /\ call'[c] = "ended"
      /\ \A d \in ConsumerIds : d # c => call'[d] = call[d] /\ told'[d] = told[d]
  BY DEF IInv, Typed, CollectErrors
<1>2. told'[c] = "end" => \A p \in Readers : ~m_error[p]
  BY DEF IInv, Typed, CollectErrors
<1>3. Typed'
  <2>1. call' \in [ConsumerIds -> {"idle", "pop", "catch", "ended"}]
    BY DEF IInv, Typed, CollectErrors
  <2>2. told' \in [ConsumerIds -> {"nothing", "chunk", "error", "end"}]
    BY DEF IInv, Typed, CollectErrors
  <2> QED BY <2>1, <2>2 DEF IInv, Typed, CollectErrors
<1>4. Counted'
  BY CountedSame DEF IInv, CollectErrors
<1>5. Phases'
  BY <1>1 DEF IInv, Phases, CollectErrors
<1>6. Numbered' /\ Stated' /\ Queued' /\ Ended' /\ Stopped'
  BY DEF IInv, CollectErrors, Numbered, Stated, Queued, Ended, Stopped
<1>7. Emptied'
  BY <1>1 DEF IInv, Emptied, empty, CollectErrors
<1>8. Complete'
  <2>1. main = "open" /\ empty(c)
    BY <1>1 DEF IInv, Phases, Emptied
  <2>2. \A p \in readersOf(c) : p \in Readers /\ pc[p] \in Left /\ ~m_stop_reading[p]
    BY <2>1, NoProducers, ProducersOf DEF IInv, empty, Phases, Before
  <2>3. \A p \in readersOf(c) : m_error[p] \/ data[p] = 0
    BY <2>2 DEF IInv, Ended, Left, Over
  <2>4. \A p \in readersOf(c) : \A i \in 0 .. (chunkId[p] - 1) : chunks[<<p, i>>] = "taken"
    <3> TAKE p \in readersOf(c)
    <3> TAKE i \in 0 .. (chunkId[p] - 1)
    <3> DEFINE k == <<p, i>>
    <3>1. k \in Chunk /\ k[1] = p /\ k[2] = i /\ i < chunkId[p]
      BY <2>2, StreamingAssumption DEF Chunk, IInv, Typed, Numbered
    <3> HIDE DEF k
    <3>2. chunks[k] \in {"queued", "taken", "freed"}
      BY <3>1 DEF IInv, Stated
    <3>3. chunks[k] # "freed"
      BY <3>1, <2>1 DEF IInv, Stated, Freeing
    <3>4. chunks[k] # "queued"
      <4>1. m_consumer_queues[c].m_queue = <<>>
        BY <2>1 DEF empty
      <4>2. ~\E j \in DOMAIN m_consumer_queues[c].m_queue : m_consumer_queues[c].m_queue[j] = k
        BY <4>1
      <4> QED BY <3>1, <4>2 DEF IInv, Queued
    <3> QED BY <3>2, <3>3, <3>4 DEF k
  <2>5. told'[c] = "end" => \A p \in readersOf(c) : data[p] = 0
    BY <1>2, <2>2, <2>3
  <2> QED BY <1>1, <2>4, <2>5 DEF IInv, Complete, CollectErrors
<1> QED BY <1>3, <1>4, <1>5, <1>6, <1>7, <1>8 DEF IInv

-----------------------------------------------------------------------------
(* The theorems.                                                           *)

\* Every step keeps the invariant.
LEMMA NextInvariant == IInv /\ [Next]_vars => IInv'
<1> SUFFICES ASSUME IInv, [Next]_vars PROVE IInv'
  OBVIOUS
<1>1. CASE Create
  BY <1>1, CreateSchemaKeeps, CreateReaderKeeps, StartReadersKeeps, StartReadingKeeps, CreatedKeeps
     DEF Create
<1>2. ASSUME NEW p \in Readers, Read(p) PROVE IInv'
  <2>1. CASE PrepareRead(p) BY <2>1, PrepareReadKeeps
  <2>2. CASE FillChunk(p) BY <2>2, FillChunkKeeps
  <2>3. CASE EndLoop(p) BY <2>3, EndLoopKeeps
  <2>4. CASE PushWait(p) BY <2>4, PushWaitKeeps
  <2>5. CASE Push(p) BY <2>5, PushKeeps
  <2>6. CASE DeleteProducer(p) BY <2>6, DeleteProducerKeeps
  <2>7. CASE SetInactive(p) BY <2>7, SetInactiveKeeps
  <2> QED BY <1>2, <2>1, <2>2, <2>3, <2>4, <2>5, <2>6, <2>7 DEF Read
<1>3. ASSUME NEW c \in ConsumerIds, CallGet(c) \/ GetStep(c) PROVE IInv'
  <2>1. CASE CallGet(c) BY <2>1, CallGetKeeps
  <2>2. CASE PopWait(c) BY <2>2, PopWaitKeeps
  <2>3. CASE Pop(c) BY <2>3, PopKeeps
  <2>4. CASE PopThrow(c) BY <2>4, PopThrowKeeps
  <2>5. CASE CollectErrors(c) BY <2>5, CollectErrorsKeeps
  <2> QED BY <1>3, <2>1, <2>2, <2>3, <2>4, <2>5 DEF GetStep
<1>4. CASE ChunkQueueFree
  BY <1>4, ChunkQueueFreeKeeps
<1>5. CASE Destroy
  BY <1>5, StopReaderKeeps, NotifyConnUnfinishedStmtKeeps, DrainWaitKeeps, DrainChunkKeeps,
     DeleteQueueKeeps, RowSchemaFreeKeeps, JoinReaderKeeps, DestroyedKeeps DEF Destroy
<1>6. CASE SpuriousWakeup
  BY <1>6, SpuriousWakeupKeeps
<1>7. CASE UNCHANGED vars
  <2>1. UNCHANGED <<mainVars, readerVars, stopVars, consumerVars, failures, deleted, chunks>>
        /\ m_consumer_queues' = m_consumer_queues
    BY <1>7 DEF vars
  <2>2. m_consumer_queues' \in [ConsumerIds -> Queue]
    BY <2>1 DEF IInv, Typed
  <2> QED BY <2>1, <2>2, QueuesKept
<1> QED BY <1>1, <1>2, <1>3, <1>4, <1>5, <1>6, <1>7 DEF Next

\* A single-pass read (CreateChunkQueue, ResultTableReader::Read, ChunkQueue::Get and
\* ~StreamingQueue) always satisfies its inductive invariant.
THEOREM Invariant == Spec => []IInv
  BY InitInvariant, NextInvariant, PTL DEF Spec

\* GetNextChunk returns false without an error to a consumer only when all the data of
\* its partitions was handed to it.
THEOREM EndMeansCompleteHolds == Spec => []EndMeansComplete
<1>1. IInv => EndMeansComplete
  <2> SUFFICES ASSUME IInv, NEW c \in ConsumerIds, told[c] = "end", NEW p \in readersOf(c)
               PROVE  /\ data[p] = 0
                      /\ pc[p] \notin {"start", "loop", "push"}
                      /\ \A i \in 0 .. (chunkId[p] - 1) : chunks[<<p, i>>] = "taken"
    BY DEF EndMeansComplete
  <2>1. call[c] = "ended" /\ data[p] = 0 /\ \A i \in 0 .. (chunkId[p] - 1) : chunks[<<p, i>>] = "taken"
    BY DEF IInv, Complete
  <2>2. empty(c)
    BY <2>1 DEF IInv, Emptied
  <2>3. pc[p] \in Left
    BY <2>2, NoProducers DEF IInv, empty
  <2> QED BY <2>1, <2>3 DEF Left
<1> QED BY <1>1, Invariant, PTL

\* The destructor of StreamingQueue deletes a queue only when none of its readers will
\* call it again, and the row schema only when no reader will read it again.
THEOREM NoUseAfterFreeHolds == Spec => []NoUseAfterFree
<1>1. IInv => NoUseAfterFree
  <2> SUFFICES ASSUME IInv PROVE NoUseAfterFree
    OBVIOUS
  <2>1. ASSUME NEW p \in Readers, pc[p] \in {"start", "loop", "push", "delete"}
        PROVE  m_partition_consumer[p] \notin deleted
    <3>1. pc[p] \notin Left /\ pc[p] \notin Waiting
      BY <2>1 DEF Left, Waiting
    <3> QED BY <3>1, Running
  <2>2. m_row_schema = "freed" => deleted = ConsumerIds
    BY DEF IInv, Phases
  <2>3. \A p \in Readers : m_partition_consumer[p] \in ConsumerIds
    BY ConsumerOf
  <2> QED BY <2>1, <2>2, <2>3 DEF NoUseAfterFree
<1> QED BY <1>1, Invariant, PTL

\* When the StreamingQueue is gone, no chunk is left in a queue or on its way to one.
THEOREM QueuesDrainedHolds == Spec => []QueuesDrained
<1>1. IInv => QueuesDrained
  <2> SUFFICES ASSUME IInv, main = "gone", NEW k \in Chunk
               PROVE  chunks[k] \notin {"filled", "queued"}
    BY DEF QueuesDrained
  <2> DEFINE p == k[1]
             c == m_partition_consumer[p]
  <2>1. p \in Readers /\ c \in ConsumerIds /\ p \in readersOf(c) /\ c \in deleted
    <3>1. p \in Readers BY DEF Chunk
    <3> QED BY <3>1, ConsumerOf DEF IInv, Phases
  <2>2. chunks[k] # "filled"
    <3>1. pc[p] # "push"
      BY <2>1, Running DEF Left, Waiting
    <3> QED BY <3>1 DEF IInv, Stated
  <2>3. chunks[k] # "queued"
    <3>1. CASE m_error_before_read
      <4>1. chunkId[p] = 0 /\ k[2] >= 0
        BY <2>1, <3>1, StreamingAssumption DEF IInv, Phases, Numbered, Chunk
      <4> QED BY <4>1 DEF IInv, Stated
    <3>2. CASE ~m_error_before_read
      <4>1. m_consumer_queues[c].m_queue = <<>>
        BY <2>1, <3>2 DEF IInv, Emptied, empty
      <4>2. ~\E j \in DOMAIN m_consumer_queues[c].m_queue : m_consumer_queues[c].m_queue[j] = k
        BY <4>1
      <4> QED BY <2>1, <4>2 DEF IInv, Queued
    <3> QED BY <3>1, <3>2
  <2> QED BY <2>2, <2>3
<1> QED BY <1>1, Invariant, PTL

\* A connection whose result was not read to its end is closed without closing its
\* statement first.
THEOREM FastCloseHolds == Spec => []FastClose
<1>1. IInv => FastClose
  <2> SUFFICES ASSUME IInv, main = "gone", NEW p \in Readers, pc[p] = "done", data[p] > 0,
                      ~m_error[p], m_need_stmt_close[p]
               PROVE  FALSE
    BY DEF FastClose
  <2>1. data[p] # 0
    BY DEF IInv, Typed
  <2>2. m_stop_reading[p]
    BY <2>1 DEF IInv, Ended, Over
  <2>3. is_read_finished
    BY DEF IInv, Stopped, Freeing
  <2> QED BY <2>1, <2>2, <2>3 DEF IInv, Stopped
<1> QED BY <1>1, Invariant, PTL
=============================================================================
