--------------------------- MODULE PartitionLoops ---------------------------
(***************************************************************************)
(* The loops by which one worker finds its partitions and deals them out   *)
(* to its consumers: WorkerPartitions and ConsumerPartitions (utils.cpp)   *)
(* as CreateChunkQueue of StreamingQueue and of MultiPassQueue calls them. *)
(* One step is one round of a loop.  The module Partitions has the results *)
(* in closed form; here they are computed as the code does.                *)
(***************************************************************************)
EXTENDS Partitions, FiniteSets

CONSTANTS MaxWorkers, MaxPartitions, MaxConsumers  \* bounds of the inputs

ASSUME LoopsAssumption ==
    MaxWorkers \in Nat \ {0} /\ MaxPartitions \in Nat /\ MaxConsumers \in Nat \ {0}

VARIABLES numWorkers, workerId, totalPartitions, nConsumers,  \* the inputs
          loop,        \* the loop that runs: "worker", "consumer", "assign", "done"
          i,           \* its variable
          partitions,  \* result of WorkerPartitions
          consumer_id,
          consumer_partitions,   \* result of ConsumerPartitions
          producers,   \* number of producers given to the queue of each consumer
          m_partition_consumer

inputs == <<numWorkers, workerId, totalPartitions, nConsumers>>
vars == <<inputs, loop, i, partitions, consumer_id, consumer_partitions, producers,
          m_partition_consumer>>

Init ==
    /\ numWorkers \in 1 .. MaxWorkers
    /\ workerId \in 0 .. (numWorkers - 1)
    /\ totalPartitions \in 0 .. MaxPartitions
    /\ nConsumers \in 0 .. MaxConsumers
    /\ loop = "worker"
    /\ i = workerId
    /\ partitions = <<>>
    /\ consumer_id = 0
    /\ consumer_partitions = <<>>
    /\ producers = <<>>
    /\ m_partition_consumer = [p \in 0 .. (totalPartitions - 1) |-> -1]

-----------------------------------------------------------------------------

WorkerLoop ==
    /\ loop = "worker"
    /\ i < totalPartitions
    /\ partitions' = Append(partitions, i)
    /\ i' = i + numWorkers
    /\ UNCHANGED <<inputs, loop, consumer_id, consumer_partitions, producers, m_partition_consumer>>

\* The head of the loop of CreateChunkQueue over the consumers.
NextConsumer ==
    /\ \/ loop = "worker" /\ i >= totalPartitions /\ consumer_id' = 0
       \/ loop = "assign" /\ i > Len(consumer_partitions) /\ consumer_id' = consumer_id + 1
    /\ loop' = IF consumer_id' < nConsumers THEN "consumer" ELSE "done"
    /\ i' = consumer_id'
    /\ consumer_partitions' = <<>>
    /\ UNCHANGED <<inputs, partitions, producers, m_partition_consumer>>

\* Mutant: steps by the number of workers.
ConsumerLoopByWorkers ==
    /\ loop = "consumer"
    /\ i < Len(partitions)
    /\ consumer_partitions' = Append(consumer_partitions, partitions[i + 1])
    /\ i' = i + numWorkers
    /\ UNCHANGED <<inputs, loop, partitions, consumer_id, producers, m_partition_consumer>>

ConsumerLoop ==
    /\ loop = "consumer"
    /\ i < Len(partitions)
    /\ consumer_partitions' = Append(consumer_partitions, partitions[i + 1])
    /\ i' = i + nConsumers
    /\ UNCHANGED <<inputs, loop, partitions, consumer_id, producers, m_partition_consumer>>

NewQueue ==
    /\ loop = "consumer"
    /\ i >= Len(partitions)
    /\ producers' = Append(producers, Len(consumer_partitions))
    /\ loop' = "assign"
    /\ i' = 1
    /\ UNCHANGED <<inputs, partitions, consumer_id, consumer_partitions, m_partition_consumer>>

Assign ==
    /\ loop = "assign"
    /\ i <= Len(consumer_partitions)
    /\ m_partition_consumer' =
           [m_partition_consumer EXCEPT ![consumer_partitions[i]] = consumer_id]
    /\ i' = i + 1
    /\ UNCHANGED <<inputs, loop, partitions, consumer_id, consumer_partitions, producers>>

Next == WorkerLoop \/ NextConsumer \/ ConsumerLoop \/ NewQueue \/ Assign

Spec == Init /\ [][Next]_vars

-----------------------------------------------------------------------------
(* Properties.                                                             *)

\* The closed forms that StreamingRead uses are what the loops compute.
closedForms ==
    /\ loop # "worker" => partitions = WorkerPartitions(numWorkers, workerId, totalPartitions)
    /\ loop = "assign" =>
          consumer_partitions = ConsumerPartitions(nConsumers, consumer_id, partitions)
    /\ loop = "done" /\ nConsumers > 0 =>
          m_partition_consumer = partitionConsumer(nConsumers, partitions, totalPartitions)

\* Of the partitions of the table this worker reads exactly those whose number
\* is its own modulo the number of workers, so that together the workers read
\* every partition and no partition twice; each goes to one of its consumers,
\* and the queue of a consumer waits for exactly as many readers as push to it.
\* The loops compute the closed forms that the other modules use.
EveryPartitionOnce ==
    /\ closedForms
    /\ loop = "done" /\ nConsumers > 0 =>
          /\ \A p \in 0 .. (totalPartitions - 1) :
                m_partition_consumer[p] # -1 <=> p % numWorkers = workerId
          /\ \A c \in 0 .. (nConsumers - 1) :
                producers[c + 1] =
                    Cardinality({p \in 0 .. (totalPartitions - 1) : m_partition_consumer[p] = c})

=============================================================================
