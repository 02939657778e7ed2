----------------------------- MODULE Partitions -----------------------------
(***************************************************************************)
(* How the partitions of a table are dealt out (utils.cpp): to the CAS     *)
(* workers round robin, and those of one worker round robin to its         *)
(* consumer threads.  CreateChunkQueue of both queue classes uses the two  *)
(* lists to size the queue of every consumer and to fill                   *)
(* m_partition_consumer.                                                   *)
(***************************************************************************)
EXTENDS Integers, Sequences

\* Values the loop `for (i = first; i < limit; i += step)` goes through.
loopLength(first, limit, step) ==
    IF first >= limit THEN 0 ELSE (limit - 1 - first) \div step + 1

WorkerPartitions(numWorkers, workerId, totalPartitions) ==
    [k \in 1 .. loopLength(workerId, totalPartitions, numWorkers) |->
        workerId + (k - 1) * numWorkers]

\* workerPartitions is indexed from 0 in the code, from 1 here.
ConsumerPartitions(nConsumers, consumerId, workerPartitions) ==
    [k \in 1 .. loopLength(consumerId, Len(workerPartitions), nConsumers) |->
        workerPartitions[consumerId + (k - 1) * nConsumers + 1]]

elements(s) == {s[i] : i \in DOMAIN s}

\* m_partition_consumer: the consumer of every partition, -1 for the partitions
\* of other workers.
partitionConsumer(nConsumers, workerPartitions, totalPartitions) ==
    [p \in 0 .. (totalPartitions - 1) |->
        IF p \in elements(workerPartitions)
        THEN CHOOSE c \in 0 .. (nConsumers - 1) :
                 p \in elements(ConsumerPartitions(nConsumers, c, workerPartitions))
        ELSE -1]
=============================================================================
