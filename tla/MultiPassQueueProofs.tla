------------------------ MODULE MultiPassQueueProofs ------------------------
(***************************************************************************)
(* Proofs about MultiPassQueue for any numbers of workers, partitions,     *)
(* consumers and aggregators, any rows and any failures: the loops deal    *)
(* out every partition once, a queue that is drained has its readers, no   *)
(* failure of the creation is kept from the caller, and a point read gives *)
(* the rows that were asked for.                                           *)
(***************************************************************************)
EXTENDS MultiPassQueue, PartitionsProofs, FiniteSetTheorems, WellFoundedInduction

-----------------------------------------------------------------------------
(* The inductive invariant of the loops.                                   *)

LoopsTyped ==
    /\ numWorkers \in Nat \ {0} /\ workerId \in 0 .. (numWorkers - 1)
    /\ totalPartitions \in Nat /\ nConsumers \in Nat
    /\ loop \in {"worker", "consumer", "assign", "done"}
    /\ i \in Nat /\ consumer_id \in Nat
    /\ partitions \in Seq(Nat) /\ consumer_partitions \in Seq(Nat) /\ producers \in Seq(Nat)
    /\ m_partition_consumer \in [0 .. (totalPartitions - 1) -> Int]

\* The list of the worker as far as the first loop has come.
Listed ==
    /\ loop = "worker" =>
          /\ Len(partitions) <= loopLength(workerId, totalPartitions, numWorkers)
          /\ i = workerId + Len(partitions) * numWorkers
          /\ \A k \in 1 .. Len(partitions) : partitions[k] = workerId + (k - 1) * numWorkers
    /\ loop # "worker" => partitions = WorkerPartitions(numWorkers, workerId, totalPartitions)

\* The list of the consumer at which the loop over the consumers has come.
Taken ==
    /\ loop = "worker" => consumer_id = 0
    /\ loop \in {"consumer", "assign"} => consumer_id < nConsumers
    /\ loop = "done" => consumer_id = nConsumers
    /\ loop = "consumer" =>
          /\ Len(consumer_partitions) <= loopLength(consumer_id, Len(partitions), nConsumers)
          /\ i = consumer_id + Len(consumer_partitions) * nConsumers
          /\ \A k \in 1 .. Len(consumer_partitions) :
                consumer_partitions[k] = partitions[consumer_id + (k - 1) * nConsumers + 1]
    /\ loop = "assign" =>
          /\ consumer_partitions = ConsumerPartitions(nConsumers, consumer_id, partitions)
          /\ i \in 1 .. (Len(consumer_partitions) + 1)

\* The producers given to the queues so far.
Sized ==
    /\ Len(producers) = IF loop = "assign" THEN consumer_id + 1 ELSE consumer_id
    /\ \A k \in 1 .. Len(producers) : producers[k] = loopLength(k - 1, Len(partitions), nConsumers)

\* The partition at this place of the list (counted from 0) has its consumer.
settled(place) ==
    \/ nConsumers > 0 /\ place % nConsumers < consumer_id
    \/ loop = "assign" /\ \E k \in 1 .. (i - 1) : place = consumer_id + (k - 1) * nConsumers

Assigned ==
    /\ \A p \in 0 .. (totalPartitions - 1) :
          loop = "worker" \/ p \notin elements(partitions) => m_partition_consumer[p] = -1
    /\ loop # "worker" =>
          \A place \in 0 .. (Len(partitions) - 1) :
              m_partition_consumer[partitions[place + 1]] =
                  IF settled(place) THEN place % nConsumers ELSE -1

LoopsInv == LoopsTyped /\ Listed /\ Taken /\ Sized /\ Assigned

-----------------------------------------------------------------------------
(* The inductive invariant of the creation.                                *)

Before == {"loops", "schema", "aggregators", "keys", "readers"}

QTyped ==
    /\ pc \in Before \cup {"open", "null", "undefined", "terminated"}
    /\ m_aggregators \in Nat
    /\ m_readers \in Seq([partition : Nat, node : Int])
    /\ m_error_before_read \in BOOLEAN
    /\ m_consumers \in Seq(elements(m_consumers))

\* The loops come first; a reader is made for every partition of the list, one
\* after another, and all of them are started at the end.
Creation ==
    /\ pc = "loops" \/ loop = "done"
    /\ Len(m_readers) <= Len(partitions)
    /\ \A n \in 1 .. Len(m_readers) : m_readers[n].partition = partitions[n]
    /\ pc \in Before \cup {"null"} => m_error_before_read = TRUE /\ started = 0
    /\ m_error_before_read = FALSE =>
          started = Len(partitions) /\ Len(m_readers) = Len(partitions)

\* What the callback was told.
Told ==
    /\ pc \in Before \ {"readers"} => m_readers = <<>>
    /\ \A n \in 1 .. Len(m_readers) :
          \/ m_readers[n].node = FillCredentials(m_readers[n].partition)
          \/ m_readers[n].node = Master /\ told("WARNING", m_readers[n].partition) \in cb
    /\ pc = "null" => m_read_type = "Unknown" \/ \E k \in cb : k.severity = "ERROR"
    /\ pc # "null" => \A k \in cb : k.severity = "WARNING"

\* The elements of m_consumers are there unless the worker has no partitions.
Open ==
    /\ pc = "open" /\ partitions # <<>> =>
          Len(m_consumers) = nConsumers /\ m_consumer_threads_num = nConsumers
    /\ pc = "undefined" => nConsumers = 0 \/ partitions = <<>>

CreationInv == LoopsInv /\ QTyped /\ Creation /\ Told /\ Open

-----------------------------------------------------------------------------
(* The inductive invariant of the point reads.                             *)

Row == [id : Nat, size : Nat]

isConn(k) ==
    k = [m_stmt |-> k.m_stmt, m_res |-> k.m_res,
         m_use_binary_protocol |-> k.m_use_binary_protocol,
         m_last_fetched_row |-> k.m_last_fetched_row, result |-> k.result, cursor |-> k.cursor]

isConsumer(c) ==
    /\ c = [conn |-> c.conn, node |-> c.node]
    /\ c.conn = <<>> \/ (c.conn = <<c.conn[1]>> /\ isConn(c.conn[1]))

isAnswer(r) == r = answer(r.op, r.thread, r.partition, r.ids, r.size, r.rows, r.err)

ReadsTyped ==
    /\ \A k \in DOMAIN m_consumers : isConsumer(m_consumers[k])
    /\ isAnswer(ret)
    /\ ret.partition \in Nat /\ ret.size \in Nat /\ ret.rows \in Seq(Row)

\* GetMultipleRows has written the rows before the one that is fetched.
Filling ==
    call = "filling" =>
        LET conn == connection
            n    == Len(ret.rows)
        IN  /\ ret.op = "rows" /\ ret.err = 0
            /\ ret.thread + 1 \in DOMAIN m_consumers
            /\ m_consumers[ret.thread + 1].conn = <<conn>> /\ isConn(conn)
            /\ conn.result = askedRows /\ conn.m_use_binary_protocol = TRUE
            /\ n <= Len(askedRows) /\ \A k \in 1 .. n : ret.rows[k] = askedRows[k]
            /\ HasNextRow(conn) =>
                  /\ n < Len(askedRows) /\ conn.cursor = n + 1
                  /\ conn.m_last_fetched_row = <<askedRows[n + 1]>>
            /\ ~HasNextRow(conn) => n = Len(askedRows) /\ n > 0

\* No point read runs, or was made, before the queue is open.
Quiet ==
    /\ call \in {"idle", "filling"}
    /\ pc \in Before => call = "idle" /\ ret.op = "none"

Terminated == pc = "terminated" => ret.size < askedRows[1].size

ReadInv == ReadsTyped /\ Quiet /\ Filling /\ PointReadExact /\ Terminated

QInv == CreationInv /\ ReadInv

-----------------------------------------------------------------------------
(* The loops.                                                              *)

\* After k rounds of `for (i = f; i < t; i += n)` there is another one just if k
\* is less than the number of rounds.
LEMMA LoopGoesOn ==
    ASSUME NEW n \in Nat \ {0}, NEW f \in Nat, NEW t \in Nat, NEW k \in Nat
    PROVE  f + k * n < t <=> k < loopLength(f, t, n)
<1>1. k * n \in Nat
  BY SMT
<1>2. CASE f >= t
  BY <1>1, <1>2 DEF loopLength
<1>3. CASE f < t
  <2> DEFINE d == t - 1 - f
             q == d \div n
  <2>1. d \in Nat
    BY <1>3
  <2>2. q \in Nat /\ q * n <= d /\ d < q * n + n /\ q * n \in Nat
    <3> HIDE DEF d
    <3> QED BY <2>1, SMT
  <2>3. loopLength(f, t, n) = q + 1
    BY <1>3 DEF loopLength
  <2>4. (f + k * n < t) <=> (k * n <= d)
    BY <1>1, <2>1
  <2> HIDE DEF d, q
  <2>5. ASSUME k <= q PROVE k * n <= d
    <3>1. k * n <= q * n
      BY <2>2, <2>5, SMT
    <3> QED BY <1>1, <2>1, <2>2, <3>1
  <2>6. ASSUME k > q PROVE ~(k * n <= d)
    <3>1. q + 1 <= k /\ (q + 1) * n = q * n + n
      BY <2>2, <2>6, SMT
    <3>2. (q + 1) * n <= k * n
      BY <2>2, <3>1, SMT
    <3> QED BY <1>1, <2>1, <2>2, <3>1, <3>2
  <2> QED BY <2>2, <2>3, <2>4, <2>5, <2>6
<1> QED BY <1>2, <1>3

\* The closed form of the list of the worker, with its length and its numbers.
LEMMA ListOf ==
    ASSUME LoopsTyped, partitions = WorkerPartitions(numWorkers, workerId, totalPartitions)
    PROVE  /\ Len(partitions) = loopLength(workerId, totalPartitions, numWorkers)
           /\ Len(partitions) \in Nat /\ DOMAIN partitions = 1 .. Len(partitions)
           /\ \A k \in 1 .. Len(partitions) : partitions[k] \in 0 .. (totalPartitions - 1)
           /\ \A k, n \in 1 .. Len(partitions) : partitions[k] = partitions[n] => k = n
           /\ elements(partitions) =
                 {p \in 0 .. (totalPartitions - 1) : p % numWorkers = workerId}
<1> DEFINE len == loopLength(workerId, totalPartitions, numWorkers)
<1>1. workerId \in Nat /\ numWorkers \in Nat \ {0} /\ totalPartitions \in Nat
  BY DEF LoopsTyped
<1>2. len \in Nat
  BY <1>1, LoopLengthType
<1>3. partitions = [k \in 1 .. len |-> workerId + (k - 1) * numWorkers]
  BY DEF WorkerPartitions
<1>4. partitions \in Seq(Nat)
  BY DEF LoopsTyped
<1> HIDE DEF len
<1>5. Len(partitions) = len /\ DOMAIN partitions = 1 .. len
  BY <1>2, <1>3, <1>4
<1>6. elements(partitions) = {p \in 0 .. (totalPartitions - 1) : p % numWorkers = workerId}
  BY WorkersCover DEF LoopsTyped
<1>7. \A k \in 1 .. len : partitions[k] \in 0 .. (totalPartitions - 1)
  BY <1>5, <1>6 DEF elements
<1>8. \A k, n \in 1 .. len : partitions[k] = partitions[n] => k = n
  BY <1>1, <1>5, WorkerListInjective
<1> QED BY <1>2, <1>5, <1>6, <1>7, <1>8 DEF len

\* The places that the loop of ConsumerPartitions goes through: those that are the
\* consumer modulo the number of consumers, each once.
LEMMA PlacesOf ==
    ASSUME NEW c \in Nat, NEW n \in Nat, c < n, NEW t \in Nat
    PROVE  /\ loopLength(c, t, n) \in Nat
           /\ \A k \in 1 .. loopLength(c, t, n) : c + (k - 1) * n \in 0 .. (t - 1)
           /\ \A place \in 0 .. (t - 1) :
                 place % n = c <=> loopHits(place, c, t, n)
           /\ \A k \in Nat : (c + (k - 1) * n) % n = c
           /\ \A j, k \in Nat : c + (j - 1) * n = c + (k - 1) * n => j = k
<1> DEFINE len == loopLength(c, t, n)
<1>1. n \in Nat \ {0} /\ c \in Nat /\ c < n /\ t \in Nat
  OBVIOUS
<1>2. len \in Nat
  BY <1>1, LoopLengthType
<1>3. ASSUME NEW k \in 1 .. len PROVE c + (k - 1) * n \in 0 .. (t - 1)
  <2> DEFINE a == k - 1
  <2>1. a \in Nat /\ a < len
    BY <1>2
  <2> HIDE DEF a
  <2>2. a * n \in Nat
    BY <1>1, <2>1, SMT
  <2>3. c + a * n < t
    BY <1>1, <2>1, LoopGoesOn
  <2>4. c + a * n \in 0 .. (t - 1)
    BY <1>1, <2>2, <2>3
  <2> QED BY <2>4 DEF a
<1>4. \A place \in 0 .. (t - 1) :
         place % n = c <=> loopHits(place, c, t, n)
  <2> TAKE place \in 0 .. (t - 1)
  <2>1. place \in Nat /\ place < t
    OBVIOUS
  <2>2. loopHits(place, c, t, n) <=> (place < t /\ place % n = c)
    BY <1>1, <2>1, LoopValues
  <2> QED BY <2>1, <2>2
<1>5. ASSUME NEW k \in Nat PROVE (c + (k - 1) * n) % n = c
  <2> DEFINE a == k - 1
  <2>1. a \in Int
    OBVIOUS
  <2> HIDE DEF a
  <2>2. (c + a * n) % n = c
    BY <1>1, <2>1, SMT
  <2> QED BY <2>2 DEF a
<1>6. ASSUME NEW j \in Nat, NEW k \in Nat, c + (j - 1) * n = c + (k - 1) * n PROVE j = k
  <2> DEFINE a == j - 1
             b == k - 1
  <2>1. a \in Int /\ b \in Int /\ c + a * n = c + b * n
    BY <1>6
  <2> HIDE DEF a, b
  <2>2. a = b
    BY <1>1, <2>1, SMT
  <2> QED BY <2>2 DEF a, b
<1> QED BY <1>2, <1>3, <1>4, <1>5, <1>6

\* The lists and the consumers before the first loop.
LEMMA LoopsInit == Init => LoopsInv
<1> SUFFICES ASSUME Init PROVE LoopsInv
  OBVIOUS
<1>1. LoopsTyped
  BY LoopsAssumption DEF Init, LoopsTyped
<1>2. loopLength(workerId, totalPartitions, numWorkers) \in Nat
  <2>1. workerId \in Nat /\ totalPartitions \in Nat /\ numWorkers \in Nat \ {0}
    BY <1>1 DEF LoopsTyped
  <2> QED BY <2>1, LoopLengthType
<1>3. Listed /\ Taken /\ Sized
  BY <1>1, <1>2 DEF Init, LoopsTyped, Listed, Taken, Sized
<1>4. Assigned
  BY <1>1 DEF Init, Assigned
<1> QED BY <1>1, <1>3, <1>4 DEF LoopsInv

\* A round of WorkerPartitions.
LEMMA WorkerLoopStep == LoopsInv /\ WorkerLoop => LoopsInv'
<1> SUFFICES ASSUME LoopsInv, WorkerLoop PROVE LoopsInv'
  OBVIOUS
<1> DEFINE len == Len(partitions)
<1>1. /\ loop = "worker" /\ i < totalPartitions
      /\ partitions' = Append(partitions, i) /\ i' = i + numWorkers
      /\ UNCHANGED <<numWorkers, workerId, totalPartitions, nConsumers, loop, consumer_id,
                     consumer_partitions, producers, m_partition_consumer>>
  BY DEF WorkerLoop, inputs
<1>2. /\ numWorkers \in Nat \ {0} /\ workerId \in Nat /\ totalPartitions \in Nat
      /\ i \in Nat /\ partitions \in Seq(Nat) /\ len \in Nat
  BY DEF LoopsInv, LoopsTyped
<1>3. /\ len <= loopLength(workerId, totalPartitions, numWorkers)
      /\ i = workerId + len * numWorkers
      /\ \A k \in 1 .. len : partitions[k] = workerId + (k - 1) * numWorkers
  BY <1>1 DEF LoopsInv, Listed
<1>4. /\ Len(partitions') = len + 1 /\ partitions'[len + 1] = i
      /\ \A k \in 1 .. len : partitions'[k] = partitions[k]
      /\ partitions' \in Seq(Nat)
  BY <1>1, <1>2
<1>5. LoopsTyped'
  BY <1>1, <1>2, <1>4 DEF LoopsInv, LoopsTyped
<1>6. len < loopLength(workerId, totalPartitions, numWorkers)
  BY <1>1, <1>2, <1>3, LoopGoesOn
<1> HIDE DEF len
<1>7. loopLength(workerId, totalPartitions, numWorkers) \in Nat
  BY <1>2, LoopLengthType
<1>8. Listed'
  <2>1. len + 1 <= loopLength(workerId, totalPartitions, numWorkers)
    BY <1>2, <1>6, <1>7
  <2>2. workerId + (len + 1) * numWorkers = workerId + len * numWorkers + numWorkers
    BY <1>2, SMT
  <2>3. i' = workerId + (len + 1) * numWorkers
    BY <1>1, <1>3, <2>2
  <2>4. ASSUME NEW k \in 1 .. (len + 1) PROVE partitions'[k] = workerId + (k - 1) * numWorkers
    <3>1. CASE k = len + 1
      <4>1. k - 1 = len
        BY <1>2, <3>1
      <4> QED BY <1>3, <1>4, <3>1, <4>1
    <3>2. CASE k # len + 1
      <4>1. k \in 1 .. len
        BY <1>2, <3>2
      <4> QED BY <1>3, <1>4, <4>1
    <3> QED BY <3>1, <3>2
  <2> QED BY <1>1, <1>4, <2>1, <2>3, <2>4 DEF Listed
<1>9. Taken' /\ Sized'
  <2>1. consumer_id = 0 /\ Len(producers) = 0
    BY <1>1 DEF LoopsInv, Taken, Sized
  <2> QED BY <1>1, <2>1 DEF Taken, Sized
<1>10. Assigned'
  BY <1>1 DEF LoopsInv, Assigned
<1> QED BY <1>5, <1>8, <1>9, <1>10 DEF LoopsInv

\* The first list is whole when its loop ends, and a consumer is done when all of
\* its partitions are assigned.
LEMMA NextConsumerStep == LoopsInv /\ NextConsumer => LoopsInv'
<1> SUFFICES ASSUME LoopsInv, NextConsumer PROVE LoopsInv'
  OBVIOUS
<1>1. /\ \/ loop = "worker" /\ i >= totalPartitions /\ consumer_id' = 0
         \/ loop = "assign" /\ i > Len(consumer_partitions) /\ consumer_id' = consumer_id + 1
      /\ loop' = IF consumer_id' < nConsumers THEN "consumer" ELSE "done"
      /\ i' = consumer_id' /\ consumer_partitions' = <<>>
      /\ UNCHANGED <<numWorkers, workerId, totalPartitions, nConsumers, partitions, producers,
                     m_partition_consumer>>
  BY DEF NextConsumer, inputs
<1>2. /\ numWorkers \in Nat \ {0} /\ workerId \in Nat /\ totalPartitions \in Nat
      /\ nConsumers \in Nat /\ consumer_id \in Nat /\ i \in Nat
      /\ partitions \in Seq(Nat) /\ consumer_partitions \in Seq(Nat)
      /\ m_partition_consumer \in [0 .. (totalPartitions - 1) -> Int]
  BY DEF LoopsInv, LoopsTyped
<1>3. consumer_id' \in Nat /\ consumer_id' <= nConsumers
  BY <1>1, <1>2 DEF LoopsInv, Taken
<1>4. LoopsTyped'
  BY <1>1, <1>2, <1>3 DEF LoopsInv, LoopsTyped
<1>5. partitions = WorkerPartitions(numWorkers, workerId, totalPartitions)
  <2>1. CASE loop = "worker"
    <3> DEFINE len == loopLength(workerId, totalPartitions, numWorkers)
    <3>1. /\ Len(partitions) <= len /\ i = workerId + Len(partitions) * numWorkers
          /\ \A k \in 1 .. Len(partitions) : partitions[k] = workerId + (k - 1) * numWorkers
      BY <2>1 DEF LoopsInv, Listed
    <3>2. len \in Nat /\ Len(partitions) \in Nat
      <4>1. len \in Nat
        BY <1>2, LoopLengthType
      <4>2. Len(partitions) \in Nat
        BY <1>2
      <4> QED BY <4>1, <4>2
    <3>3. ~(Len(partitions) < len)
      <4>1. ~(i < totalPartitions)
        BY <1>1, <1>2, <2>1
      <4> QED BY <1>2, <3>1, <3>2, <4>1, LoopGoesOn
    <3> HIDE DEF len
    <3>4. Len(partitions) = len
      BY <3>1, <3>2, <3>3
    <3>5. partitions = [k \in 1 .. len |-> workerId + (k - 1) * numWorkers]
      <4>1. partitions = [k \in 1 .. len |-> partitions[k]]
        BY <1>2, <3>4
      <4>2. \A k \in 1 .. len : partitions[k] = workerId + (k - 1) * numWorkers
        BY <3>1, <3>4
      <4> QED BY <4>1, <4>2
    <3> QED BY <3>5 DEF len, WorkerPartitions
  <2>2. CASE loop # "worker"
    BY <2>2 DEF LoopsInv, Listed
  <2> QED BY <2>1, <2>2
<1>6. Listed'
  BY <1>1, <1>5 DEF Listed
<1>7. Taken'
  <2>1. loopLength(consumer_id', Len(partitions), nConsumers) \in Nat \/ ~(consumer_id' < nConsumers)
    <3>1. consumer_id' < nConsumers => nConsumers \in Nat \ {0}
      BY <1>2, <1>3
    <3>2. Len(partitions) \in Nat
      BY <1>2
    <3> QED BY <1>3, <3>1, <3>2, LoopLengthType
  <2>2. 0 * nConsumers = 0
    BY <1>2, SMT
  <2>3. Len(consumer_partitions') = 0
    BY <1>1
  <2>4. i' = consumer_id' + Len(consumer_partitions') * nConsumers
    BY <1>1, <1>3, <2>2, <2>3
  <2>5. loop' = "consumer" => consumer_id' < nConsumers
    BY <1>1
  <2>6. loop' = "done" => consumer_id' = nConsumers
    BY <1>1, <1>2, <1>3
  <2>7. loop' \in {"consumer", "done"}
    BY <1>1
  <2>8. loop' = "consumer" => 0 <= loopLength(consumer_id', Len(partitions), nConsumers)
    BY <2>1, <2>5
  <2> QED BY <1>1, <2>3, <2>4, <2>5, <2>6, <2>7, <2>8 DEF Taken
<1>8. Sized'
  <2>1. Len(producers) = consumer_id'
    BY <1>1 DEF LoopsInv, Sized, Taken
  <2> QED BY <1>1, <2>1 DEF LoopsInv, Sized
<1>9. Assigned'
  <2>1. ASSUME NEW place \in 0 .. (Len(partitions) - 1)
        PROVE  m_partition_consumer[partitions[place + 1]] =
                  IF settled(place)' THEN place % nConsumers ELSE -1
    <3>1. Len(partitions) \in Nat /\ place \in Nat /\ place + 1 \in 1 .. Len(partitions)
      BY <1>2
    <3>2. settled(place)' <=> nConsumers > 0 /\ place % nConsumers < consumer_id'
      BY <1>1 DEF settled
    <3>3. CASE loop = "worker"
      <4>1. partitions[place + 1] \in 0 .. (totalPartitions - 1)
        BY <1>4, <1>5, <3>1, ListOf DEF LoopsInv
      <4>2. ~settled(place)'
        <5>1. nConsumers > 0 => place % nConsumers >= 0
          BY <1>2, <3>1, SMT
        <5>2. nConsumers > 0 => place % nConsumers \in Nat
          BY <1>2, <3>1, SMT
        <5> QED BY <1>1, <3>2, <3>3, <5>1, <5>2
      <4> QED BY <3>3, <4>1, <4>2 DEF LoopsInv, Assigned
    <3>4. CASE loop = "assign"
      <4> DEFINE len == loopLength(consumer_id, Len(partitions), nConsumers)
      <4>1. consumer_id < nConsumers /\ consumer_partitions = ConsumerPartitions(nConsumers, consumer_id, partitions)
            /\ i \in 1 .. (Len(consumer_partitions) + 1)
        BY <3>4 DEF LoopsInv, Taken
      <4>2. len \in Nat
        BY <1>2, <3>1, <4>1, PlacesOf
      <4>3. Len(consumer_partitions) = len
        <5>1. DOMAIN consumer_partitions = 1 .. len
          BY <4>1 DEF ConsumerPartitions
        <5> HIDE DEF len
        <5> QED BY <1>2, <4>2, <5>1
      <4>4. i - 1 = len
        BY <1>1, <1>2, <3>4, <4>1, <4>2, <4>3
      <4>5. place % nConsumers = consumer_id <=>
               \E k \in 1 .. len : place = consumer_id + (k - 1) * nConsumers
        <5>1. place % nConsumers = consumer_id <=> loopHits(place, consumer_id, Len(partitions), nConsumers)
          BY <1>2, <3>1, <4>1, PlacesOf
        <5> QED BY <5>1 DEF loopHits
      <4> HIDE DEF len
      <4>6. settled(place) <=> (place % nConsumers < consumer_id \/ place % nConsumers = consumer_id)
        <5>1. settled(place) <=>
                 \/ nConsumers > 0 /\ place % nConsumers < consumer_id
                 \/ \E k \in 1 .. len : place = consumer_id + (k - 1) * nConsumers
          BY <3>4, <4>4 DEF settled
        <5>2. nConsumers > 0
          BY <1>2, <4>1
        <5> QED BY <4>5, <5>1, <5>2
      <4>7. place % nConsumers \in Nat
        BY <1>2, <3>1, <4>1, SMT
      <4>8. settled(place) <=> settled(place)'
        BY <1>1, <1>2, <3>2, <3>4, <4>1, <4>6, <4>7
      <4> QED BY <3>4, <4>8 DEF LoopsInv, Assigned
    <3> QED BY <1>1, <3>3, <3>4
  <2>2. ASSUME NEW p \in 0 .. (totalPartitions - 1), p \notin elements(partitions)
        PROVE  m_partition_consumer[p] = -1
    BY <1>1, <2>2 DEF LoopsInv, Assigned
  <2>3. loop' # "worker"
    BY <1>1
  <2> QED BY <1>1, <2>1, <2>2, <2>3 DEF Assigned
<1> QED BY <1>4, <1>6, <1>7, <1>8, <1>9 DEF LoopsInv

\* A round of ConsumerPartitions.
LEMMA ConsumerLoopStep == LoopsInv /\ ConsumerLoop => LoopsInv'
<1> SUFFICES ASSUME LoopsInv, ConsumerLoop PROVE LoopsInv'
  OBVIOUS
<1> DEFINE len == Len(consumer_partitions)
<1>1. /\ loop = "consumer" /\ i < Len(partitions)
      /\ consumer_partitions' = Append(consumer_partitions, partitions[i + 1])
      /\ i' = i + nConsumers
      /\ UNCHANGED <<numWorkers, workerId, totalPartitions, nConsumers, loop, partitions,
                     consumer_id, producers, m_partition_consumer>>
  BY DEF ConsumerLoop, inputs
<1>2. /\ nConsumers \in Nat /\ consumer_id \in Nat /\ i \in Nat /\ len \in Nat
      /\ partitions \in Seq(Nat) /\ consumer_partitions \in Seq(Nat) /\ Len(partitions) \in Nat
  BY DEF LoopsInv, LoopsTyped
<1>3. /\ len <= loopLength(consumer_id, Len(partitions), nConsumers)
      /\ i = consumer_id + len * nConsumers /\ consumer_id < nConsumers
      /\ \A k \in 1 .. len :
            consumer_partitions[k] = partitions[consumer_id + (k - 1) * nConsumers + 1]
  BY <1>1 DEF LoopsInv, Taken
<1>4. partitions[i + 1] \in Nat
  BY <1>1, <1>2
<1>5. /\ Len(consumer_partitions') = len + 1 /\ consumer_partitions'[len + 1] = partitions[i + 1]
      /\ \A k \in 1 .. len : consumer_partitions'[k] = consumer_partitions[k]
      /\ consumer_partitions' \in Seq(Nat)
  BY <1>1, <1>2, <1>4
<1>6. LoopsTyped'
  BY <1>1, <1>2, <1>5 DEF LoopsInv, LoopsTyped
<1>7. nConsumers \in Nat \ {0}
  BY <1>2, <1>3
<1>8. len < loopLength(consumer_id, Len(partitions), nConsumers)
  BY <1>1, <1>2, <1>3, <1>7, LoopGoesOn
<1> HIDE DEF len
<1>9. loopLength(consumer_id, Len(partitions), nConsumers) \in Nat
  BY <1>2, <1>7, LoopLengthType
<1>10. Taken'
  <2>1. len + 1 <= loopLength(consumer_id, Len(partitions), nConsumers)
    BY <1>2, <1>8, <1>9
  <2>2. consumer_id + (len + 1) * nConsumers = consumer_id + len * nConsumers + nConsumers
    BY <1>2, SMT
  <2>3. i' = consumer_id + (len + 1) * nConsumers
    BY <1>1, <1>3, <2>2
  <2>4. ASSUME NEW k \in 1 .. (len + 1)
        PROVE  consumer_partitions'[k] = partitions[consumer_id + (k - 1) * nConsumers + 1]
    <3>1. CASE k = len + 1
      <4>1. k - 1 = len
        BY <1>2, <3>1
      <4> QED BY <1>3, <1>5, <3>1, <4>1
    <3>2. CASE k # len + 1
      <4>1. k \in 1 .. len
        BY <1>2, <3>2
      <4> QED BY <1>3, <1>5, <4>1
    <3> QED BY <3>1, <3>2
  <2> QED BY <1>1, <1>3, <1>5, <2>1, <2>3, <2>4 DEF Taken
<1>11. Listed' /\ Sized'
  BY <1>1 DEF LoopsInv, Listed, Sized
<1>12. Assigned'
  <2>1. \A place : settled(place)' <=> settled(place)
    BY <1>1 DEF settled
  <2> QED BY <1>1, <2>1 DEF LoopsInv, Assigned
<1> QED BY <1>6, <1>10, <1>11, <1>12 DEF LoopsInv

\* The list of the consumer is whole, and its queue gets its length.
LEMMA NewQueueStep == LoopsInv /\ NewQueue => LoopsInv'
<1> SUFFICES ASSUME LoopsInv, NewQueue PROVE LoopsInv'
  OBVIOUS
<1> DEFINE len == loopLength(consumer_id, Len(partitions), nConsumers)
<1>1. /\ loop = "consumer" /\ i >= Len(partitions)
      /\ producers' = Append(producers, Len(consumer_partitions))
      /\ loop' = "assign" /\ i' = 1
      /\ UNCHANGED <<numWorkers, workerId, totalPartitions, nConsumers, partitions,
                     consumer_id, consumer_partitions, m_partition_consumer>>
  BY DEF NewQueue, inputs
<1>2. /\ nConsumers \in Nat /\ consumer_id \in Nat /\ i \in Nat /\ producers \in Seq(Nat)
      /\ partitions \in Seq(Nat) /\ consumer_partitions \in Seq(Nat)
      /\ Len(partitions) \in Nat /\ Len(consumer_partitions) \in Nat
  BY DEF LoopsInv, LoopsTyped
<1>3. /\ Len(consumer_partitions) <= len
      /\ i = consumer_id + Len(consumer_partitions) * nConsumers /\ consumer_id < nConsumers
      /\ \A k \in 1 .. Len(consumer_partitions) :
            consumer_partitions[k] = partitions[consumer_id + (k - 1) * nConsumers + 1]
  BY <1>1 DEF LoopsInv, Taken
<1>4. nConsumers \in Nat \ {0}
  BY <1>2, <1>3
<1>5. len \in Nat
  BY <1>2, <1>4, LoopLengthType
<1>6. ~(Len(consumer_partitions) < len)
  <2>1. ~(i < Len(partitions))
    BY <1>1, <1>2
  <2> QED BY <1>2, <1>3, <1>4, <2>1, LoopGoesOn
<1> HIDE DEF len
<1>7. Len(consumer_partitions) = len
  BY <1>2, <1>3, <1>5, <1>6
<1>8. consumer_partitions = ConsumerPartitions(nConsumers, consumer_id, partitions)
  <2>1. consumer_partitions = [k \in 1 .. len |-> consumer_partitions[k]]
    BY <1>2, <1>7
  <2>2. \A k \in 1 .. len :
           consumer_partitions[k] = partitions[consumer_id + (k - 1) * nConsumers + 1]
    BY <1>3, <1>7
  <2>3. consumer_partitions = [k \in 1 .. len |-> partitions[consumer_id + (k - 1) * nConsumers + 1]]
    BY <2>1, <2>2
  <2> QED BY <2>3 DEF len, ConsumerPartitions
<1>9. LoopsTyped'
  BY <1>1, <1>2 DEF LoopsInv, LoopsTyped
<1>10. Listed'
  BY <1>1 DEF LoopsInv, Listed
<1>11. Taken'
  <2>1. 1 \in 1 .. (Len(consumer_partitions) + 1)
    BY <1>2
  <2> QED BY <1>1, <1>3, <1>8, <2>1 DEF Taken
<1>12. Sized'
  <2>1. Len(producers) = consumer_id
        /\ \A k \in 1 .. Len(producers) : producers[k] = loopLength(k - 1, Len(partitions), nConsumers)
    BY <1>1 DEF LoopsInv, Sized
  <2>2. /\ Len(producers') = consumer_id + 1 /\ producers'[consumer_id + 1] = len
        /\ \A k \in 1 .. consumer_id : producers'[k] = producers[k]
    BY <1>1, <1>2, <1>7, <2>1
  <2>3. ASSUME NEW k \in 1 .. (consumer_id + 1)
        PROVE  producers'[k] = loopLength(k - 1, Len(partitions), nConsumers)
    <3>1. CASE k = consumer_id + 1
      <4>1. k - 1 = consumer_id
        BY <1>2, <3>1
      <4> QED BY <2>2, <3>1, <4>1 DEF len
    <3>2. CASE k # consumer_id + 1
      <4>1. k \in 1 .. consumer_id
        BY <1>2, <3>2
      <4> QED BY <2>1, <2>2, <4>1
    <3> QED BY <3>1, <3>2
  <2> QED BY <1>1, <2>2, <2>3 DEF Sized
<1>13. Assigned'
  <2>1. \A place : settled(place)' <=> settled(place)
    <3>1. 1 .. (1 - 1) = {}
      OBVIOUS
    <3> QED BY <1>1, <3>1 DEF settled
  <2> QED BY <1>1, <2>1 DEF LoopsInv, Assigned
<1> QED BY <1>9, <1>10, <1>11, <1>12, <1>13 DEF LoopsInv

\* The next partition of the consumer gets it.
LEMMA AssignStep == LoopsInv /\ Assign => LoopsInv'
<1> SUFFICES ASSUME LoopsInv, Assign PROVE LoopsInv'
  OBVIOUS
<1> DEFINE len == loopLength(consumer_id, Len(partitions), nConsumers)
           here == consumer_id + (i - 1) * nConsumers
<1>1. /\ loop = "assign" /\ i <= Len(consumer_partitions)
      /\ m_partition_consumer' =
            [m_partition_consumer EXCEPT ![consumer_partitions[i]] = consumer_id]
      /\ i' = i + 1
      /\ UNCHANGED <<numWorkers, workerId, totalPartitions, nConsumers, loop, partitions,
                     consumer_id, consumer_partitions, producers>>
  BY DEF Assign, inputs
<1>2. /\ nConsumers \in Nat /\ consumer_id \in Nat /\ i \in Nat /\ totalPartitions \in Nat
      /\ partitions \in Seq(Nat) /\ consumer_partitions \in Seq(Nat)
      /\ Len(partitions) \in Nat /\ Len(consumer_partitions) \in Nat
      /\ m_partition_consumer \in [0 .. (totalPartitions - 1) -> Int]
  BY DEF LoopsInv, LoopsTyped
<1>3. /\ consumer_id < nConsumers /\ i \in 1 .. (Len(consumer_partitions) + 1)
      /\ consumer_partitions = ConsumerPartitions(nConsumers, consumer_id, partitions)
  BY <1>1 DEF LoopsInv, Taken
<1>4. len \in Nat
  BY <1>2, <1>3, PlacesOf
<1>5. Len(consumer_partitions) = len
  <2>1. DOMAIN consumer_partitions = 1 .. len
    BY <1>3 DEF ConsumerPartitions
  <2> HIDE DEF len
  <2> QED BY <1>2, <1>4, <2>1
<1>6. i \in 1 .. len
  <2> HIDE DEF len
  <2> QED BY <1>1, <1>2, <1>3, <1>4, <1>5
<1>7. consumer_partitions[i] = partitions[here + 1]
  BY <1>3, <1>6 DEF ConsumerPartitions
<1>8. here \in 0 .. (Len(partitions) - 1)
  BY <1>2, <1>3, <1>6, PlacesOf
<1>9. here % nConsumers = consumer_id
  BY <1>2, <1>3, PlacesOf
<1> HIDE DEF len, here
<1>10. partitions = WorkerPartitions(numWorkers, workerId, totalPartitions) /\ LoopsTyped
  BY <1>1 DEF LoopsInv, Listed
<1>11. /\ here + 1 \in 1 .. Len(partitions)
       /\ partitions[here + 1] \in 0 .. (totalPartitions - 1)
       /\ partitions[here + 1] \in elements(partitions)
  <2>1. here + 1 \in 1 .. Len(partitions)
    BY <1>2, <1>8
  <2>2. partitions[here + 1] \in 0 .. (totalPartitions - 1) /\ here + 1 \in DOMAIN partitions
    BY <1>10, <2>1, ListOf
  <2> QED BY <2>1, <2>2 DEF elements
<1>12. /\ m_partition_consumer' \in [0 .. (totalPartitions - 1) -> Int]
       /\ m_partition_consumer'[partitions[here + 1]] = consumer_id
       /\ \A p \in 0 .. (totalPartitions - 1) : p # partitions[here + 1] =>
             m_partition_consumer'[p] = m_partition_consumer[p]
  BY <1>1, <1>2, <1>7, <1>11
<1>13. LoopsTyped'
  BY <1>1, <1>2, <1>12 DEF LoopsInv, LoopsTyped
<1>14. Listed' /\ Sized'
  BY <1>1 DEF LoopsInv, Listed, Sized
<1>15. Taken'
  <2>1. i + 1 \in 1 .. (Len(consumer_partitions) + 1)
    BY <1>1, <1>2
  <2> QED BY <1>1, <1>3, <2>1 DEF Taken
<1>16. Assigned'
  <2>1. ASSUME NEW place \in 0 .. (Len(partitions) - 1)
        PROVE  settled(place)' <=> settled(place) \/ place = here
    <3> DEFINE at(k) == consumer_id + (k - 1) * nConsumers
               passed == nConsumers > 0 /\ place % nConsumers < consumer_id
    <3>1. settled(place) <=> passed \/ \E k \in 1 .. (i - 1) : place = at(k)
      BY <1>1 DEF settled
    <3>2. settled(place)' <=> passed \/ \E k \in 1 .. (i' - 1) : place = at(k)
      <4>1. loop' = "assign" /\ nConsumers' = nConsumers /\ consumer_id' = consumer_id
        BY <1>1
      <4>2. settled(place)' <=>
               \/ nConsumers' > 0 /\ place % nConsumers' < consumer_id'
               \/ loop' = "assign"
                  /\ \E k \in 1 .. (i' - 1) : place = consumer_id' + (k - 1) * nConsumers'
        BY DEF settled
      <4> QED BY <4>1, <4>2
    <3>3. here = at(i)
      BY DEF here
    <3> HIDE DEF at, passed
    <3>4. i' - 1 = i
      BY <1>1, <1>2
    <3>5. \A k : k \in 1 .. i <=> k \in 1 .. (i - 1) \/ k = i
      BY <1>2, <1>3
    <3> QED BY <3>1, <3>2, <3>3, <3>4, <3>5
  <2>2. ASSUME NEW place \in 0 .. (Len(partitions) - 1)
        PROVE  m_partition_consumer'[partitions[place + 1]] =
                  IF settled(place)' THEN place % nConsumers ELSE -1
    <3>1. CASE place = here
      BY <1>9, <1>12, <2>1, <3>1
    <3>2. CASE place # here
      <4>1. place + 1 \in 1 .. Len(partitions) /\ place + 1 # here + 1
        BY <1>2, <1>8, <3>2
      <4>2. partitions[place + 1] # partitions[here + 1]
            /\ partitions[place + 1] \in 0 .. (totalPartitions - 1)
        BY <1>10, <1>11, <4>1, ListOf
      <4>3. settled(place)' <=> settled(place)
        BY <2>1, <3>2
      <4> QED BY <1>1, <1>12, <4>2, <4>3 DEF LoopsInv, Assigned
    <3> QED BY <3>1, <3>2
  <2>3. ASSUME NEW p \in 0 .. (totalPartitions - 1), p \notin elements(partitions)
        PROVE  m_partition_consumer'[p] = -1
    BY <1>1, <1>11, <1>12, <2>3 DEF LoopsInv, Assigned
  <2> QED BY <1>1, <2>2, <2>3 DEF Assigned
<1> QED BY <1>13, <1>14, <1>15, <1>16 DEF LoopsInv

\* Every round of the loops.
LEMMA LoopsStep == LoopsInv /\ Next => LoopsInv'
BY WorkerLoopStep, NextConsumerStep, ConsumerLoopStep, NewQueueStep, AssignStep DEF Next

-----------------------------------------------------------------------------
(* What the loops have computed when they are done.                        *)

\* The places of the consumer c in a list of length t that is dealt out to n.
placesOf(c, t, n) == {q \in 0 .. (t - 1) : q % n = c}

\* A consumer has as many places in any list without repetition as its loop has
\* rounds.
LEMMA PlacesCounted ==
    ASSUME NEW c \in Nat, NEW n \in Nat, c < n, NEW t \in Nat, NEW f,
           \A j, k \in 1 .. t : f[j] = f[k] => j = k
    PROVE  Cardinality({f[place + 1] : place \in placesOf(c, t, n)}) = loopLength(c, t, n)
<1> DEFINE m == loopLength(c, t, n)
           at(k) == c + (k - 1) * n
           S == {f[place + 1] : place \in {q \in 0 .. (t - 1) : q % n = c}}
           g == [k \in 1 .. m |-> f[at(k) + 1]]
<1>1. /\ m \in Nat
      /\ \A k \in 1 .. m : at(k) \in 0 .. (t - 1) /\ at(k) % n = c
      /\ \A j, k \in 1 .. m : at(j) = at(k) => j = k
  <2>1. m \in Nat /\ 1 .. m \subseteq Nat
    <3>1. m \in Nat
      BY PlacesOf
    <3> HIDE DEF m
    <3> QED BY <3>1
  <2>2. \A k \in 1 .. m : at(k) \in 0 .. (t - 1)
    BY PlacesOf
  <2>3. \A k \in Nat : at(k) % n = c
    BY PlacesOf
  <2>4. \A j, k \in Nat : at(j) = at(k) => j = k
    BY PlacesOf
  <2> HIDE DEF m, at
  <2> QED BY <2>1, <2>2, <2>3, <2>4
<1>2. ASSUME NEW place \in 0 .. (t - 1), place % n = c
      PROVE  \E k \in 1 .. m : place = at(k)
  <2>1. loopHits(place, c, t, n)
    BY <1>2, PlacesOf
  <2> QED BY <2>1 DEF loopHits
<1> HIDE DEF m, at
<1>3. \A k \in 1 .. m : g[k] \in S
  BY <1>1
<1>4. \A j, k \in 1 .. m : g[j] = g[k] => j = k
  <2> TAKE j, k \in 1 .. m
  <2>1. at(j) + 1 \in 1 .. t /\ at(k) + 1 \in 1 .. t /\ at(j) \in Int /\ at(k) \in Int
    BY <1>1
  <2>2. g[j] = f[at(j) + 1] /\ g[k] = f[at(k) + 1]
    OBVIOUS
  <2>3. g[j] = g[k] => at(j) + 1 = at(k) + 1
    BY <2>1, <2>2
  <2> QED BY <1>1, <2>1, <2>3
<1>5. \A s \in S : \E k \in 1 .. m : g[k] = s
  <2> TAKE s \in S
  <2>1. PICK place \in 0 .. (t - 1) : place % n = c /\ s = f[place + 1]
    OBVIOUS
  <2>2. PICK k \in 1 .. m : place = at(k)
    BY <1>2, <2>1
  <2> QED BY <2>1, <2>2
<1>6. g \in Bijection(1 .. m, S)
  <2> HIDE DEF S
  <2>1. g \in [1 .. m -> S]
    BY <1>3
  <2> HIDE DEF g
  <2>2. g \in Injection(1 .. m, S)
    BY <1>4, <2>1 DEF Injection, IsInjective
  <2>3. g \in Surjection(1 .. m, S)
    BY <1>5, <2>1 DEF Surjection
  <2> QED BY <2>2, <2>3 DEF Bijection
<1>7. ExistsBijection(1 .. m, S)
  BY <1>6 DEF ExistsBijection
<1>8. Cardinality(S) = m
  <2> HIDE DEF S, g
  <2> QED BY <1>1, <1>7, FS_CountingElements
<1> QED BY <1>8 DEF m, placesOf

\* Once the loops are done the consumer of every partition of the list is its place
\* modulo the number of consumers.
LEMMA AllAssigned ==
    ASSUME LoopsInv, loop = "done", nConsumers > 0
    PROVE  \A place \in 0 .. (Len(partitions) - 1) :
              m_partition_consumer[partitions[place + 1]] = place % nConsumers
<1> TAKE place \in 0 .. (Len(partitions) - 1)
<1>1. nConsumers \in Nat \ {0} /\ consumer_id = nConsumers /\ place \in Nat
  BY DEF LoopsInv, LoopsTyped, Taken
<1>2. place % nConsumers < consumer_id
  BY <1>1, SMT
<1>3. settled(place)
  BY <1>1, <1>2 DEF settled
<1> QED BY <1>3 DEF LoopsInv, Assigned

\* ConsumerPartitions gives a consumer the places that are its number modulo the
\* number of consumers.
LEMMA ConsumerOf ==
    ASSUME LoopsTyped, nConsumers \in Nat \ {0},
           partitions = WorkerPartitions(numWorkers, workerId, totalPartitions),
           NEW place \in 0 .. (Len(partitions) - 1), NEW c \in 0 .. (nConsumers - 1)
    PROVE  partitions[place + 1] \in elements(ConsumerPartitions(nConsumers, c, partitions))
               <=> place % nConsumers = c
<1> DEFINE t == Len(partitions)
           m == loopLength(c, t, nConsumers)
           at(k) == c + (k - 1) * nConsumers
           s == ConsumerPartitions(nConsumers, c, partitions)
<1>1. t \in Nat /\ \A k, n \in 1 .. t : partitions[k] = partitions[n] => k = n
  BY ListOf
<1>2. c \in Nat /\ c < nConsumers /\ nConsumers \in Nat /\ place \in 0 .. (t - 1)
  OBVIOUS
<1>3. DOMAIN s = 1 .. m /\ \A k \in 1 .. m : s[k] = partitions[at(k) + 1]
  BY DEF ConsumerPartitions
<1> HIDE DEF t, s
<1>4. m \in Nat /\ \A k \in 1 .. m : at(k) \in 0 .. (t - 1)
  BY <1>1, <1>2, PlacesOf
<1>5. place % nConsumers = c <=> loopHits(place, c, t, nConsumers)
  BY <1>1, <1>2, PlacesOf
<1>6. loopHits(place, c, t, nConsumers) <=> \E k \in 1 .. m : place = at(k)
  BY DEF loopHits
<1> HIDE DEF m, at
<1>7. ASSUME NEW k \in 1 .. m PROVE s[k] = partitions[place + 1] <=> place = at(k)
  <2>1. at(k) \in 0 .. (t - 1)
    BY <1>4
  <2>2. at(k) + 1 \in 1 .. t /\ place + 1 \in 1 .. t
    BY <1>1, <1>2, <2>1
  <2>3. at(k) + 1 = place + 1 <=> place = at(k)
    BY <1>1, <1>2, <2>1
  <2> QED BY <1>1, <1>3, <2>2, <2>3
<1>8. partitions[place + 1] \in elements(s) <=> \E k \in 1 .. m : place = at(k)
  BY <1>3, <1>7 DEF elements
<1>9. partitions[place + 1] \in elements(s) <=> place % nConsumers = c
  BY <1>5, <1>6, <1>8
<1> QED BY <1>9 DEF s

\* The loops compute the closed forms, and the queue of every consumer is told as
\* many producers as partitions are given to it.
LEMMA LoopsCover == LoopsInv => EveryPartitionOnce
<1> SUFFICES ASSUME LoopsInv PROVE EveryPartitionOnce
  OBVIOUS
<1>1. /\ loop # "worker" => partitions = WorkerPartitions(numWorkers, workerId, totalPartitions)
      /\ loop = "assign" =>
            consumer_partitions = ConsumerPartitions(nConsumers, consumer_id, partitions)
  BY DEF LoopsInv, Listed, Taken
<1>2. ASSUME loop = "done", nConsumers > 0
      PROVE  /\ m_partition_consumer = partitionConsumer(nConsumers, partitions, totalPartitions)
             /\ \A p \in 0 .. (totalPartitions - 1) :
                   m_partition_consumer[p] # -1 <=> p % numWorkers = workerId
             /\ \A c \in 0 .. (nConsumers - 1) :
                   producers[c + 1] =
                       Cardinality({p \in 0 .. (totalPartitions - 1) :
                                       m_partition_consumer[p] = c})
  <2>1. /\ LoopsTyped
        /\ partitions = WorkerPartitions(numWorkers, workerId, totalPartitions)
        /\ nConsumers \in Nat \ {0}
        /\ m_partition_consumer \in [0 .. (totalPartitions - 1) -> Int]
    BY <1>1, <1>2 DEF LoopsInv, LoopsTyped
  <2>2. /\ Len(partitions) \in Nat /\ DOMAIN partitions = 1 .. Len(partitions)
        /\ \A k \in 1 .. Len(partitions) : partitions[k] \in 0 .. (totalPartitions - 1)
        /\ \A k, n \in 1 .. Len(partitions) : partitions[k] = partitions[n] => k = n
        /\ elements(partitions) =
              {p \in 0 .. (totalPartitions - 1) : p % numWorkers = workerId}
    BY <2>1, ListOf
  <2>3. \A place \in 0 .. (Len(partitions) - 1) :
           m_partition_consumer[partitions[place + 1]] = place % nConsumers
    BY <1>2, AllAssigned
  <2>4. \A p \in 0 .. (totalPartitions - 1) :
           p \notin elements(partitions) => m_partition_consumer[p] = -1
    BY DEF LoopsInv, Assigned
  <2>5. \A p \in elements(partitions) :
           \E place \in 0 .. (Len(partitions) - 1) : p = partitions[place + 1]
    <3> TAKE p \in elements(partitions)
    <3>1. PICK k \in 1 .. Len(partitions) : p = partitions[k]
      BY <2>2 DEF elements
    <3>2. k - 1 \in 0 .. (Len(partitions) - 1) /\ (k - 1) + 1 = k
      BY <2>2
    <3> QED BY <3>1, <3>2
  <2>6. \A place \in 0 .. (Len(partitions) - 1) :
           partitions[place + 1] \in elements(partitions)
    <3> TAKE place \in 0 .. (Len(partitions) - 1)
    <3>1. place + 1 \in 1 .. Len(partitions)
      BY <2>2
    <3> QED BY <2>2, <3>1 DEF elements
  <2>7. \A place \in 0 .. (Len(partitions) - 1) :
           place % nConsumers \in 0 .. (nConsumers - 1)
    <3> TAKE place \in 0 .. (Len(partitions) - 1)
    <3>1. place \in Nat
      BY <2>2
    <3>2. place % nConsumers >= 0 /\ place % nConsumers < nConsumers
          /\ place % nConsumers \in Int
      BY <2>1, <3>1, SMT
    <3> QED BY <2>1, <3>2
  <2>8. m_partition_consumer = partitionConsumer(nConsumers, partitions, totalPartitions)
    <3> DEFINE of(p) == CHOOSE c \in 0 .. (nConsumers - 1) :
                            p \in elements(ConsumerPartitions(nConsumers, c, partitions))
    <3>1. ASSUME NEW p \in elements(partitions) PROVE m_partition_consumer[p] = of(p)
      <4>1. PICK place \in 0 .. (Len(partitions) - 1) : p = partitions[place + 1]
        BY <2>5
      <4>2. \A c \in 0 .. (nConsumers - 1) :
               p \in elements(ConsumerPartitions(nConsumers, c, partitions))
                   <=> place % nConsumers = c
        BY <2>1, <4>1, ConsumerOf
      <4>3. place % nConsumers \in 0 .. (nConsumers - 1)
        BY <2>7
      <4>4. of(p) = place % nConsumers
        BY <4>2, <4>3
      <4> QED BY <2>3, <4>1, <4>4
    <3> HIDE DEF of
    <3>2. m_partition_consumer = [p \in 0 .. (totalPartitions - 1) |->
              IF p \in elements(partitions) THEN of(p) ELSE -1]
      BY <2>1, <2>4, <3>1
    <3> QED BY <3>2 DEF partitionConsumer, of
  <2>9. ASSUME NEW p \in 0 .. (totalPartitions - 1)
        PROVE  m_partition_consumer[p] # -1 <=> p % numWorkers = workerId
    <3>1. ASSUME p \in elements(partitions) PROVE m_partition_consumer[p] # -1
      <4>1. PICK place \in 0 .. (Len(partitions) - 1) : p = partitions[place + 1]
        BY <2>5, <3>1
      <4>2. place % nConsumers \in 0 .. (nConsumers - 1)
        BY <2>7
      <4>3. m_partition_consumer[p] = place % nConsumers
        BY <2>3, <4>1
      <4> HIDE <4>1
      <4> QED BY <2>1, <4>2, <4>3
    <3> QED BY <2>2, <2>4, <3>1
  <2>10. ASSUME NEW c \in 0 .. (nConsumers - 1)
         PROVE  producers[c + 1] =
                    Cardinality({p \in 0 .. (totalPartitions - 1) : m_partition_consumer[p] = c})
    <3> DEFINE S == {p \in 0 .. (totalPartitions - 1) : m_partition_consumer[p] = c}
               P == {q \in 0 .. (Len(partitions) - 1) : q % nConsumers = c}
    <3>1. c \in Nat /\ c < nConsumers /\ c # -1
      BY <2>1
    <3>2. S = {partitions[place + 1] : place \in P}
      <4>1. ASSUME NEW p \in S PROVE \E place \in P : p = partitions[place + 1]
        <5>1. p \in elements(partitions)
          BY <2>4, <3>1
        <5>2. PICK place \in 0 .. (Len(partitions) - 1) : p = partitions[place + 1]
          BY <2>5, <5>1
        <5> QED BY <2>3, <5>2
      <4>2. ASSUME NEW place \in P PROVE partitions[place + 1] \in S
        <5>1. partitions[place + 1] \in 0 .. (totalPartitions - 1)
          BY <2>2, <2>6
        <5> QED BY <2>3, <5>1
      <4> QED BY <4>1, <4>2
    <3>3. Cardinality({partitions[place + 1] : place \in P})
              = loopLength(c, Len(partitions), nConsumers)
      <4> DEFINE t == Len(partitions)
      <4>1. t \in Nat /\ \A j, k \in 1 .. t : partitions[j] = partitions[k] => j = k
        BY <2>2
      <4>2. nConsumers \in Nat
        BY <2>1
      <4> HIDE DEF t
      <4>3. Cardinality({partitions[place + 1] :
                place \in placesOf(c, t, nConsumers)}) = loopLength(c, t, nConsumers)
        BY <3>1, <4>1, <4>2, PlacesCounted
      <4> QED BY <4>3 DEF t, placesOf
    <3>4. producers[c + 1] = loopLength(c, Len(partitions), nConsumers)
      <4>1. Len(producers) = nConsumers
        BY <1>2 DEF LoopsInv, Sized, Taken
      <4>2. c + 1 \in 1 .. Len(producers) /\ (c + 1) - 1 = c
        BY <2>1, <4>1
      <4> QED BY <4>2 DEF LoopsInv, Sized
    <3> QED BY <3>2, <3>3, <3>4
  <2> QED BY <2>8, <2>9, <2>10
<1> QED BY <1>1, <1>2 DEF EveryPartitionOnce, closedForms

-----------------------------------------------------------------------------
(* The creation.                                                           *)

\* A function on 1 .. m is a sequence.
LEMMA FunctionIsSequence ==
    ASSUME NEW m \in Nat, NEW E, NEW r \in [1 .. m -> E]
    PROVE  r \in Seq(E) /\ Len(r) = m
OBVIOUS

\* A sequence keeps its length when one of its elements is replaced.
LEMMA Replaced ==
    ASSUME NEW s, s \in Seq(elements(s)), NEW k, NEW v, NEW r, r = [s EXCEPT ![k] = v]
    PROVE  r \in Seq(elements(r)) /\ Len(r) = Len(s) /\ DOMAIN r = DOMAIN s
<1>1. Len(s) \in Nat /\ DOMAIN s = 1 .. Len(s)
  OBVIOUS
<1>2. DOMAIN r = DOMAIN s
  OBVIOUS
<1>3. r = [n \in 1 .. Len(s) |-> r[n]] /\ \A n \in 1 .. Len(s) : r[n] \in elements(r)
  BY <1>1, <1>2 DEF elements
<1> DEFINE E == elements(r)
<1> HIDE DEF E
<1>4. r \in [1 .. Len(s) -> E]
  <2>1. \A n \in 1 .. Len(s) : r[n] \in E
    BY <1>3 DEF E
  <2> QED BY <1>3, <2>1
<1> DEFINE m == Len(s)
<1>5. m \in Nat /\ r \in [1 .. m -> E]
  BY <1>1, <1>4
<1> HIDE DEF m
<1>6. r \in Seq(E) /\ Len(r) = m
  BY <1>5, FunctionIsSequence
<1> QED BY <1>2, <1>6 DEF E, m

\* The first state of the creation.
LEMMA CreationInit == QInit => CreationInv
<1> SUFFICES ASSUME QInit PROVE CreationInv
  OBVIOUS
<1>1. LoopsInv
  BY LoopsInit DEF QInit
<1>2. QTyped
  BY DEF QInit, QTyped, Before, elements
<1>3. Len(partitions) \in Nat
  BY <1>1 DEF LoopsInv, LoopsTyped
<1>4. Creation
  BY <1>3 DEF QInit, Creation, Before
<1>5. Told /\ Open
  BY DEF QInit, Told, Open, Before
<1> QED BY <1>1, <1>2, <1>4, <1>5 DEF CreationInv

\* The loops and everything that depends on them only.
LEMMA LoopsKept == LoopsInv /\ UNCHANGED vars => LoopsInv'
<1> SUFFICES ASSUME LoopsInv, UNCHANGED vars PROVE LoopsInv'
  OBVIOUS
<1>1. LoopsTyped' /\ Listed' /\ Taken' /\ Sized'
  BY DEF LoopsInv, LoopsTyped, Listed, Taken, Sized, vars, inputs
<1>2. \A place : settled(place)' <=> settled(place)
  BY DEF settled, vars, inputs
<1>3. Assigned'
  BY <1>2 DEF LoopsInv, Assigned, vars, inputs
<1> QED BY <1>1, <1>3 DEF LoopsInv

\* A round of the loops.
LEMMA LoopsAction == CreationInv /\ Loops => CreationInv'
<1> SUFFICES ASSUME CreationInv, Loops PROVE CreationInv'
  OBVIOUS
<1>1. /\ pc = "loops" /\ Next /\ pc' = IF loop' = "done" THEN "schema" ELSE "loops"
      /\ UNCHANGED <<m_read_type, m_aggregators, m_readers, started, m_error_before_read,
                     m_consumer_threads_num, cb, m_consumers>>
  BY DEF Loops, created, reads
<1>2. LoopsInv'
  BY <1>1, LoopsStep DEF CreationInv
<1>3. m_readers = <<>> /\ Len(partitions') \in Nat
  BY <1>1, <1>2 DEF CreationInv, Told, Before, LoopsInv, LoopsTyped
<1>4. QTyped'
  BY <1>1 DEF CreationInv, QTyped, Before, elements
<1>5. Creation'
  <2>1. Len(m_readers) = 0 /\ m_error_before_read = TRUE /\ started = 0
    BY <1>1, <1>3 DEF CreationInv, Creation, Before
  <2> QED BY <1>1, <1>3, <2>1 DEF Creation, Before
<1>6. Told'
  BY <1>1, <1>3 DEF CreationInv, Told, Before
<1>7. Open'
  BY <1>1 DEF Open
<1> QED BY <1>2, <1>4, <1>5, <1>6, <1>7 DEF CreationInv

\* An error of a statement is told to the callback and no reader is started.
LEMMA ThrowsAction ==
    ASSUME CreationInv, pc \in Before \ {"loops"}, CreateThrows, UNCHANGED <<vars, reads>>
    PROVE  CreationInv'
<1>1. /\ cb' = cb \cup {[severity |-> "ERROR", partition |-> -1]} /\ pc' = "null"
      /\ UNCHANGED <<m_read_type, m_aggregators, m_readers, started, m_error_before_read,
                     m_consumer_threads_num, m_consumers>>
  BY DEF CreateThrows, reads
<1>2. LoopsInv'
  BY LoopsKept DEF CreationInv
<1>3. UNCHANGED <<loop, partitions, nConsumers>>
  BY DEF vars, inputs
<1>4. QTyped'
  BY <1>1 DEF CreationInv, QTyped, elements
<1>5. Creation'
  BY <1>1, <1>3 DEF CreationInv, Creation, Before
<1>6. Told'
  <2>1. \A n \in 1 .. Len(m_readers) : FillCredentials(m_readers[n].partition)' =
                                        FillCredentials(m_readers[n].partition)
    BY <1>1 DEF FillCredentials
  <2>2. \E k \in cb' : k.severity = "ERROR"
    <3>1. PICK k : k = [severity |-> "ERROR", partition |-> -1]
      OBVIOUS
    <3>2. k.severity = "ERROR" /\ k \in cb'
      BY <1>1, <3>1
    <3> QED BY <3>2
  <2> QED BY <1>1, <2>1, <2>2 DEF CreationInv, Told, Before
<1>7. Open'
  BY <1>1 DEF Open
<1> QED BY <1>2, <1>4, <1>5, <1>6, <1>7 DEF CreationInv

\* The schema, the keys and the aggregators are asked for before the first reader.
LEMMA AskingAction ==
    CreationInv /\ (ExplainRowSchema \/ GetAggregators \/ GetTableKeys) => CreationInv'
<1> SUFFICES ASSUME CreationInv, ExplainRowSchema \/ GetAggregators \/ GetTableKeys
             PROVE  CreationInv'
  OBVIOUS
<1>1. /\ pc \in {"schema", "aggregators", "keys"} /\ UNCHANGED <<vars, reads>>
      /\ \/ CreateThrows
         \/ /\ pc' \in {"aggregators", "keys", "readers"}
            /\ m_aggregators' \in {m_aggregators} \cup 0 .. MaxAggregators
            /\ UNCHANGED <<m_read_type, m_readers, started, m_error_before_read,
                           m_consumer_threads_num, cb>>
  BY DEF ExplainRowSchema, GetAggregators, GetTableKeys, created
<1>2. CASE CreateThrows
  BY <1>1, <1>2, ThrowsAction DEF Before
<1>3. CASE /\ pc' \in {"aggregators", "keys", "readers"}
           /\ m_aggregators' \in {m_aggregators} \cup 0 .. MaxAggregators
           /\ UNCHANGED <<m_read_type, m_readers, started, m_error_before_read,
                          m_consumer_threads_num, cb>>
  <2>1. LoopsInv'
    BY <1>1, LoopsKept DEF CreationInv
  <2>2. UNCHANGED <<loop, partitions, nConsumers, m_consumers>>
    BY <1>1 DEF vars, inputs, reads
  <2>3. m_readers = <<>> /\ Len(m_readers) = 0
    BY <1>1 DEF CreationInv, Told, Before
  <2>4. QTyped'
    <3>1. m_aggregators' \in Nat
      BY <1>3, MultiPassQueueAssumption DEF CreationInv, QTyped
    <3> QED BY <1>3, <2>2, <3>1 DEF CreationInv, QTyped, Before, elements
  <2>5. Creation'
    BY <1>1, <1>3, <2>2 DEF CreationInv, Creation, Before
  <2>6. Told'
    BY <1>1, <1>3, <2>3 DEF CreationInv, Told, Before
  <2>7. Open'
    BY <1>3 DEF Open
  <2> QED BY <2>1, <2>4, <2>5, <2>6, <2>7 DEF CreationInv
<1> QED BY <1>1, <1>2, <1>3

\* A partition of the list has no consumer only when there are no consumers.
LEMMA ConsumerKnown ==
    ASSUME LoopsInv, loop = "done", NEW n \in 1 .. Len(partitions),
           m_partition_consumer[partitions[n]] = -1
    PROVE  nConsumers = 0
<1> SUFFICES ASSUME nConsumers # 0 PROVE FALSE
  OBVIOUS
<1>1. nConsumers \in Nat /\ nConsumers > 0 /\ Len(partitions) \in Nat
  BY DEF LoopsInv, LoopsTyped
<1>2. n - 1 \in 0 .. (Len(partitions) - 1) /\ (n - 1) + 1 = n /\ n - 1 \in Nat
  BY <1>1
<1>3. (n - 1) % nConsumers = -1
  BY <1>1, <1>2, AllAssigned
<1> DEFINE a == n - 1
<1>4. a \in Nat /\ a % nConsumers = -1
  BY <1>2, <1>3
<1> HIDE DEF a
<1> QED BY <1>1, <1>4, SMT

\* One round of the loop over the partitions.
LEMMA NextReaderAction == CreationInv /\ NextReader => CreationInv'
<1> SUFFICES ASSUME CreationInv, NextReader PROVE CreationInv'
  OBVIOUS
<1> DEFINE len == Len(m_readers)
           partition == partitions[len + 1]
<1>1. /\ pc = "readers" /\ len < Len(partitions)
      /\ \/ m_read_type = "Unknown" /\ pc' = "null" /\ UNCHANGED <<m_readers, cb>>
         \/ /\ m_partition_consumer[partition] = -1 /\ pc' = "undefined"
            /\ UNCHANGED <<m_readers, cb>>
         \/ CreateReader(partition)
      /\ UNCHANGED <<m_read_type, m_aggregators, started, m_error_before_read,
                     m_consumer_threads_num, m_consumers>>
      /\ UNCHANGED vars
  BY DEF NextReader, reads
<1>2. LoopsInv'
  BY <1>1, LoopsKept DEF CreationInv
<1>3. UNCHANGED <<loop, partitions, nConsumers>>
  BY <1>1 DEF vars, inputs
<1>4. /\ loop = "done" /\ m_error_before_read = TRUE /\ started = 0
      /\ len \in Nat /\ Len(partitions) \in Nat /\ partitions \in Seq(Nat)
      /\ m_readers \in Seq([partition : Nat, node : Int]) /\ m_aggregators \in Nat
  BY <1>1 DEF CreationInv, Creation, QTyped, LoopsInv, LoopsTyped, Before
<1>5. \A p : FillCredentials(p)' = FillCredentials(p)
  BY <1>1 DEF FillCredentials
<1>6. len + 1 \in 1 .. Len(partitions) /\ partition \in Nat
  BY <1>1, <1>4
<1>7. CASE pc' \in {"null", "undefined"} /\ UNCHANGED m_readers
  <2>1. QTyped'
    BY <1>1, <1>7 DEF CreationInv, QTyped, elements
  <2>2. Creation'
    BY <1>1, <1>3, <1>4, <1>7 DEF CreationInv, Creation, Before
  <2>3. Open'
    <3>1. ASSUME pc' = "undefined" PROVE nConsumers = 0
      <4>1. m_partition_consumer[partition] = -1
        BY <1>1, <3>1 DEF CreateReader
      <4> QED BY <1>4, <1>6, <4>1, ConsumerKnown DEF CreationInv
    <3> QED BY <1>3, <1>7, <3>1 DEF Open
  <2>4. /\ \A k \in cb : k \in cb'
        /\ pc' = "null" => m_read_type = "Unknown" \/ \E k \in cb' : k.severity = "ERROR"
        /\ pc' # "null" => \A k \in cb' : k.severity = "WARNING"
    <3>1. CASE m_read_type = "Unknown" /\ pc' = "null" /\ UNCHANGED cb
      BY <3>1
    <3>2. CASE pc' = "undefined" /\ UNCHANGED cb
      BY <1>1, <3>2 DEF CreationInv, Told
    <3>3. CASE CreateReader(partition)
      <4>1. cb' = cb \cup {told("WARNING", partition), told("ERROR", partition)} /\ pc' = "null"
        BY <1>1, <1>7, <3>3 DEF CreateReader
      <4>2. PICK k : k = told("ERROR", partition)
        OBVIOUS
      <4>3. k.severity = "ERROR" /\ k \in cb'
        BY <4>1, <4>2 DEF told
      <4> QED BY <4>1, <4>3
    <3> QED BY <1>1, <3>1, <3>2, <3>3
  <2>5. Told'
    <3>1. pc' \notin Before
      BY <1>7 DEF Before
    <3> QED BY <1>1, <1>5, <1>7, <2>4, <3>1 DEF CreationInv, Told
  <2> QED BY <1>2, <2>1, <2>2, <2>3, <2>5 DEF CreationInv
<1>8. CASE /\ \/ /\ m_readers' = Append(m_readers, [partition |-> partition,
                                                    node |-> FillCredentials(partition)])
                 /\ UNCHANGED cb
              \/ /\ m_readers' = Append(m_readers, [partition |-> partition, node |-> Master])
                 /\ cb' = cb \cup {told("WARNING", partition)}
           /\ UNCHANGED pc
  <2>1. FillCredentials(partition) \in Int /\ Master \in Int
    <3>1. Master \in Int
      BY DEF Master
    <3>2. CASE m_aggregators = 0
      BY <3>1, <3>2 DEF FillCredentials
    <3>3. CASE m_aggregators # 0
      <4> HIDE DEF partition
      <4>1. partition % m_aggregators \in Int
        BY <1>4, <1>6, <3>3, SMT
      <4> QED BY <3>1, <3>3, <4>1 DEF FillCredentials
    <3> QED BY <3>1, <3>2, <3>3
  <2>2. PICK r : /\ m_readers' = Append(m_readers, r)
                 /\ r \in [partition : Nat, node : Int]
                 /\ r.partition = partition
                 /\ \/ r.node = FillCredentials(partition) /\ UNCHANGED cb
                    \/ r.node = Master /\ cb' = cb \cup {told("WARNING", partition)}
    <3> HIDE DEF partition
    <3>1. CASE m_readers' = Append(m_readers, [partition |-> partition,
                                               node |-> FillCredentials(partition)])
               /\ UNCHANGED cb
      <4>1. PICK r : r = [partition |-> partition, node |-> FillCredentials(partition)]
        OBVIOUS
      <4>2. r \in [partition : Nat, node : Int] /\ r.partition = partition
            /\ r.node = FillCredentials(partition)
        BY <1>6, <2>1, <4>1
      <4> QED BY <3>1, <4>1, <4>2
    <3>2. CASE m_readers' = Append(m_readers, [partition |-> partition, node |-> Master])
               /\ cb' = cb \cup {told("WARNING", partition)}
      <4>1. PICK r : r = [partition |-> partition, node |-> Master]
        OBVIOUS
      <4>2. r \in [partition : Nat, node : Int] /\ r.partition = partition
            /\ r.node = Master
        BY <1>6, <2>1, <4>1
      <4> QED BY <3>2, <4>1, <4>2
    <3> QED BY <1>8, <3>1, <3>2
  <2>3. /\ m_readers' \in Seq([partition : Nat, node : Int]) /\ Len(m_readers') = len + 1
        /\ m_readers'[len + 1] = r /\ \A n \in 1 .. len : m_readers'[n] = m_readers[n]
    BY <1>4, <2>2
  <2> HIDE DEF partition, len
  <2>4. \A n \in 1 .. (len + 1) : n \in 1 .. len \/ n = len + 1
    BY <1>4
  <2>5. QTyped'
    BY <1>1, <1>8, <2>3 DEF CreationInv, QTyped, elements
  <2>6. Creation'
    <3>1. \A n \in 1 .. len : m_readers[n].partition = partitions[n]
      BY DEF CreationInv, Creation, len
    <3>2. \A n \in 1 .. (len + 1) : m_readers'[n].partition = partitions[n]
      <4>1. r.partition = partitions[len + 1]
        BY <2>2 DEF partition
      <4> QED BY <2>3, <2>4, <3>1, <4>1
    <3>3. len + 1 <= Len(partitions)
      BY <1>1, <1>4
    <3> QED BY <1>1, <1>3, <1>4, <1>8, <2>3, <3>2, <3>3 DEF Creation, Before
  <2>7. Told'
    <3>1. \A n \in 1 .. len :
             \/ m_readers[n].node = FillCredentials(m_readers[n].partition)
             \/ m_readers[n].node = Master /\ told("WARNING", m_readers[n].partition) \in cb
      BY DEF CreationInv, Told, len
    <3>2. /\ \A k \in cb : k \in cb'
          /\ \/ r.node = FillCredentials(r.partition)
             \/ r.node = Master /\ told("WARNING", r.partition) \in cb'
      BY <2>2
    <3>3. \A n \in 1 .. (len + 1) :
             \/ m_readers'[n].node = FillCredentials(m_readers'[n].partition)
             \/ m_readers'[n].node = Master /\ told("WARNING", m_readers'[n].partition) \in cb'
      BY <2>3, <2>4, <3>1, <3>2
    <3>4. \A k \in cb' : k.severity = "WARNING"
      <4>1. told("WARNING", partition).severity = "WARNING"
        BY DEF told
      <4>2. \A k \in cb : k.severity = "WARNING"
        BY <1>1 DEF CreationInv, Told
      <4> QED BY <2>2, <4>1, <4>2
    <3>5. \A n : told("WARNING", m_readers[n].partition)' = told("WARNING", m_readers'[n].partition)
      BY DEF told
    <3> QED BY <1>1, <1>5, <1>8, <2>3, <3>3, <3>4, <3>5 DEF Told, Before
  <2>8. Open'
    BY <1>1, <1>8 DEF Open
  <2> QED BY <1>2, <2>5, <2>6, <2>7, <2>8 DEF CreationInv
<1> HIDE DEF partition, len
<1> QED BY <1>1, <1>7, <1>8 DEF CreateReader

\* All the readers are there and are started.
LEMMA StartReadersAction == CreationInv /\ StartReaders => CreationInv'
<1> SUFFICES ASSUME CreationInv, StartReaders PROVE CreationInv'
  OBVIOUS
<1>1. /\ pc = "readers" /\ Len(m_readers) = Len(partitions)
      /\ m_error_before_read' = FALSE /\ started' = Len(m_readers) /\ pc' = "open"
      /\ m_readers = <<>> => UNCHANGED m_consumers
      /\ m_readers # <<>> => /\ m_consumer_threads_num' = nConsumers
                             /\ m_consumers' = [c \in 1 .. nConsumers |-> NoConnection]
      /\ UNCHANGED <<m_read_type, m_aggregators, m_readers, cb>>
      /\ UNCHANGED vars
  BY DEF StartReaders
<1>2. LoopsInv'
  BY <1>1, LoopsKept DEF CreationInv
<1>3. UNCHANGED <<loop, partitions, nConsumers>> /\ loop = "done"
  BY <1>1 DEF vars, inputs, CreationInv, Creation
<1>4. nConsumers \in Nat /\ m_readers \in Seq([partition : Nat, node : Int])
      /\ partitions \in Seq(Nat)
  BY DEF CreationInv, LoopsInv, LoopsTyped, QTyped
<1>5. ASSUME m_readers # <<>>
      PROVE  m_consumers' \in Seq(elements(m_consumers')) /\ Len(m_consumers') = nConsumers
  <2> DEFINE r == m_consumers'
             E == elements(r)
  <2>1. r = [c \in 1 .. nConsumers |-> NoConnection]
    BY <1>1, <1>5
  <2>2. \A c \in 1 .. nConsumers : NoConnection \in E
    BY <2>1 DEF elements
  <2> HIDE DEF E
  <2>3. r \in [1 .. nConsumers -> E]
    BY <2>1, <2>2
  <2>4. r \in Seq(E) /\ Len(r) = nConsumers
    <3> HIDE DEF r
    <3> QED BY <1>4, <2>3, FunctionIsSequence
  <2> QED BY <2>4 DEF E
<1>6. QTyped'
  <2>1. m_consumers' \in Seq(elements(m_consumers'))
    <3>1. CASE m_readers = <<>>
      BY <1>1, <3>1 DEF CreationInv, QTyped, elements
    <3> QED BY <1>5, <3>1
  <2>2. m_consumers' \in Seq(elements(m_consumers)')
    BY <2>1 DEF elements
  <2> QED BY <1>1, <2>2 DEF CreationInv, QTyped
<1>7. Creation'
  BY <1>1, <1>3 DEF CreationInv, Creation, Before
<1>8. Told'
  <2>1. \A p : FillCredentials(p)' = FillCredentials(p)
    BY <1>1 DEF FillCredentials
  <2> QED BY <1>1, <2>1 DEF CreationInv, Told, Before
<1>9. Open'
  <2>1. partitions # <<>> => m_readers # <<>>
    BY <1>1, <1>4
  <2> QED BY <1>1, <1>3, <1>5, <2>1 DEF Open
<1> QED BY <1>2, <1>6, <1>7, <1>8, <1>9 DEF CreationInv

\* What every step of a point read leaves alone: the creation is over, the vector of
\* the consumers keeps its length, and memory outside of it is read only in a
\* queue without partitions.
LEMMA PointReadFrame ==
    ASSUME CreationInv, (\E t \in Threads : PointRead(t)) \/ FillRow \/ FillTerminates \/ FillReturns
    PROVE  /\ pc = "open" /\ pc' \in {"open", "undefined", "terminated"}
           /\ UNCHANGED vars /\ UNCHANGED created
           /\ \/ UNCHANGED m_consumers
              \/ \E k, v : m_consumers' = [m_consumers EXCEPT ![k] = v]
           /\ pc' = "undefined" => partitions = <<>>
<1>1. CASE \E t \in Threads : BadThread(t)
  <2>1. PICK t \in Threads : BadThread(t)
    BY <1>1
  <2>2. t \in Nat /\ nConsumers \in Nat
    BY <2>1, LoopsAssumption DEF Threads, CreationInv, LoopsInv, LoopsTyped
  <2>3. pc' \in {pc, "undefined"} /\ pc = "open" /\ UNCHANGED vars /\ UNCHANGED created
        /\ UNCHANGED m_consumers
    BY <2>1 DEF BadThread, Idle
  <2>4. ASSUME pc' = "undefined" PROVE partitions = <<>>
    <3>1. t >= Len(m_consumers) /\ t < m_consumer_threads_num
      BY <2>1, <2>3, <2>4 DEF BadThread
    <3> SUFFICES ASSUME partitions # <<>> PROVE FALSE
      OBVIOUS
    <3>2. Len(m_consumers) = nConsumers /\ m_consumer_threads_num = nConsumers
      BY <2>3 DEF CreationInv, Open
    <3> QED BY <2>2, <3>1, <3>2
  <2> QED BY <2>3, <2>4
<1>2. CASE \E t \in Threads, partition \in Range(partitions) :
              \/ ConnectFails(t, partition)
              \/ GetMultipleRowsNoMemory(t, partition)
  BY <1>2 DEF ConnectFails, GetMultipleRowsNoMemory, Idle
<1>3. CASE \E t \in Threads, partition \in Range(partitions) :
              \E rowId \in rowIdsOf(partition) : GetSingleRow(t, partition, rowId)
  <2>1. PICK t, partition, rowId : GetSingleRow(t, partition, rowId)
    BY <1>3
  <2> QED BY <2>1 DEF GetSingleRow, Idle
<1>4. CASE \E t \in Threads, partition \in Range(partitions) :
              \E places \in RowIdSets, size \in ChunkSizes :
                  GetMultipleRows(t, partition, {keyOf(partition, k) : k \in places}, size)
  <2>1. PICK t, partition, ids, size : GetMultipleRows(t, partition, ids, size)
    BY <1>4
  <2> QED BY <2>1 DEF GetMultipleRows, Idle
<1>5. CASE FillRow
  <2>1. /\ pc = "open" /\ UNCHANGED pc /\ UNCHANGED vars /\ UNCHANGED created
        /\ \/ UNCHANGED m_consumers
           \/ \E o \in Advance(connection) :
                 m_consumers' = [m_consumers EXCEPT ![ret.thread + 1].conn = <<o.conn>>]
    BY <1>5 DEF FillRow
  <2>2. \/ UNCHANGED m_consumers
        \/ \E k, v : m_consumers' = [m_consumers EXCEPT ![k] = v]
    BY <2>1
  <2> QED BY <2>1, <2>2
<1>6. CASE FillTerminates \/ FillReturns
  BY <1>6 DEF FillTerminates, FillReturns, reads
<1> QED BY <1>1, <1>2, <1>3, <1>4, <1>5, <1>6 DEF PointRead

\* A point read keeps what the creation left.
LEMMA PointReadAction ==
    ASSUME CreationInv, (\E t \in Threads : PointRead(t)) \/ FillRow \/ FillTerminates \/ FillReturns
    PROVE  CreationInv'
<1>1. /\ pc = "open" /\ pc' \in {"open", "undefined", "terminated"}
      /\ UNCHANGED vars
      /\ UNCHANGED <<m_read_type, m_aggregators, m_readers, started, m_error_before_read,
                     m_consumer_threads_num, cb>>
      /\ pc' = "undefined" => partitions = <<>>
  BY PointReadFrame DEF created
<1>2. LoopsInv'
  BY <1>1, LoopsKept DEF CreationInv
<1>3. UNCHANGED <<loop, partitions, nConsumers>>
  BY <1>1 DEF vars, inputs
<1>4. m_consumers' \in Seq(elements(m_consumers)') /\ Len(m_consumers') = Len(m_consumers)
  <2>1. m_consumers \in Seq(elements(m_consumers))
    BY DEF CreationInv, QTyped
  <2>2. CASE UNCHANGED m_consumers
    BY <2>1, <2>2 DEF elements
  <2>3. CASE \E k, v : m_consumers' = [m_consumers EXCEPT ![k] = v]
    <3>1. m_consumers' \in Seq(elements(m_consumers')) /\ Len(m_consumers') = Len(m_consumers)
      BY <2>1, <2>3, Replaced
    <3> QED BY <3>1 DEF elements
  <2> QED BY <2>2, <2>3, PointReadFrame
<1>5. QTyped'
  BY <1>1, <1>4 DEF CreationInv, QTyped
<1>6. Creation'
  BY <1>1, <1>3 DEF CreationInv, Creation, Before
<1>7. Told'
  <2>1. \A p : FillCredentials(p)' = FillCredentials(p)
    BY <1>1 DEF FillCredentials
  <2> QED BY <1>1, <2>1 DEF CreationInv, Told, Before
<1>8. Open'
  BY <1>1, <1>3, <1>4 DEF CreationInv, Open
<1> QED BY <1>2, <1>5, <1>6, <1>7, <1>8 DEF CreationInv

\* Nothing moves.
LEMMA CreationStutters == CreationInv /\ UNCHANGED qvars => CreationInv'
<1> SUFFICES ASSUME CreationInv, UNCHANGED qvars PROVE CreationInv'
  OBVIOUS
<1>1. /\ UNCHANGED vars /\ UNCHANGED <<loop, partitions, nConsumers>>
      /\ UNCHANGED <<pc, m_read_type, m_aggregators, m_readers, started, m_error_before_read,
                     m_consumer_threads_num, cb, m_consumers>>
  BY DEF qvars, vars, inputs, created, reads
<1>2. LoopsInv'
  BY <1>1, LoopsKept DEF CreationInv
<1>3. QTyped' /\ Creation' /\ Open'
  BY <1>1 DEF CreationInv, QTyped, Creation, Open, elements
<1>4. Told'
  <2>1. \A p : FillCredentials(p)' = FillCredentials(p)
    BY <1>1 DEF FillCredentials
  <2> QED BY <1>1, <2>1 DEF CreationInv, Told
<1> QED BY <1>2, <1>3, <1>4 DEF CreationInv

\* CreateChunkQueue of MultiPassQueue and everything after it keep the invariant of
\* the creation.
THEOREM CreationInvariance == QSpec => []CreationInv
<1>1. CreationInv /\ [QNext]_qvars => CreationInv'
  <2> SUFFICES ASSUME CreationInv, [QNext]_qvars PROVE CreationInv'
    OBVIOUS
  <2>1. CASE Create
    BY <2>1, LoopsAction, AskingAction, NextReaderAction, StartReadersAction DEF Create
  <2>2. CASE (\E t \in Threads : PointRead(t)) \/ FillRow \/ FillTerminates \/ FillReturns
    BY <2>2, PointReadAction
  <2>3. CASE UNCHANGED qvars
    BY <2>3, CreationStutters
  <2> QED BY <2>1, <2>2, <2>3 DEF QNext
<1> QED BY <1>1, CreationInit, PTL DEF QSpec

\* WorkerPartitions and ConsumerPartitions as CreateChunkQueue calls them: each
\* partition goes to one consumer of one worker and every queue waits for exactly
\* the readers that push to it, for any numbers of workers, partitions and consumers.
THEOREM PartitionsDealt == QSpec => []EveryPartitionOnce
<1>1. CreationInv => EveryPartitionOnce
  BY LoopsCover DEF CreationInv
<1> QED BY <1>1, CreationInvariance, PTL

\* The destructor of MultiPassQueue waits for the producers of a queue only when
\* as many readers as the queue expects were started.
THEOREM DrainsHaveReaders == QSpec => []DrainedQueuesHaveReaders
<1>1. ASSUME CreationInv PROVE DrainedQueuesHaveReaders
  <2>1. ASSUME m_error_before_read = FALSE, NEW c \in 0 .. (nConsumers - 1)
        PROVE  Cardinality(readersOf(c)) = producers[c + 1]
    <3> DEFINE t == Len(partitions)
               f == [n \in 1 .. t |-> n]
    <3>1. /\ LoopsInv /\ loop = "done" /\ started = t /\ Len(m_readers) = t
          /\ \A n \in 1 .. t : m_readers[n].partition = partitions[n]
      BY <1>1, <2>1 DEF CreationInv, Creation, Before
    <3>2. c \in Nat /\ c < nConsumers /\ nConsumers \in Nat /\ t \in Nat /\ nConsumers > 0
      BY <3>1 DEF LoopsInv, LoopsTyped
    <3>3. \A place \in 0 .. (t - 1) :
             m_partition_consumer[partitions[place + 1]] = place % nConsumers
      BY <3>1, <3>2, AllAssigned
    <3>4. producers[c + 1] = loopLength(c, t, nConsumers)
      <4>1. Len(producers) = nConsumers
        BY <3>1 DEF LoopsInv, Sized, Taken
      <4>2. c + 1 \in 1 .. Len(producers) /\ (c + 1) - 1 = c
        BY <3>2, <4>1
      <4> QED BY <3>1, <4>2 DEF LoopsInv, Sized
    <3> HIDE DEF t
    <3>5. readersOf(c) = {f[place + 1] : place \in placesOf(c, t, nConsumers)}
      <4>1. ASSUME NEW n \in readersOf(c)
            PROVE  \E place \in placesOf(c, t, nConsumers) : n = f[place + 1]
        <5>1. n \in 1 .. t /\ m_partition_consumer[partitions[n]] = c
          BY <3>1 DEF readersOf
        <5> DEFINE q == n - 1
        <5>2. q \in 0 .. (t - 1) /\ q + 1 = n
          BY <3>2, <5>1
        <5> HIDE DEF q
        <5>3. q % nConsumers = c
          BY <3>3, <5>1, <5>2
        <5>4. q \in placesOf(c, t, nConsumers)
          BY <5>2, <5>3 DEF placesOf
        <5>5. f[q + 1] = n
          BY <5>1, <5>2
        <5> QED BY <5>4, <5>5
      <4>2. ASSUME NEW place \in placesOf(c, t, nConsumers)
            PROVE  f[place + 1] \in readersOf(c)
        <5>1. place \in 0 .. (t - 1) /\ place % nConsumers = c
          BY DEF placesOf
        <5>2. place + 1 \in 1 .. t
          BY <3>2, <5>1
        <5>3. m_partition_consumer[m_readers[place + 1].partition] = c
          BY <3>1, <3>3, <5>1, <5>2
        <5> QED BY <3>1, <5>2, <5>3 DEF readersOf
      <4> QED BY <4>1, <4>2
    <3>6. \A j, k \in 1 .. t : f[j] = f[k] => j = k
      OBVIOUS
    <3> HIDE DEF f
    <3>7. Cardinality({f[place + 1] : place \in placesOf(c, t, nConsumers)})
              = loopLength(c, t, nConsumers)
      BY <3>2, <3>6, PlacesCounted
    <3> QED BY <3>4, <3>5, <3>7
  <2>2. pc = "null" => started = 0 /\ m_error_before_read = TRUE
    BY <1>1 DEF CreationInv, Creation
  <2>3. m_error_before_read \in BOOLEAN
    BY <1>1 DEF CreationInv, QTyped
  <2> QED BY <2>1, <2>2, <2>3 DEF DrainedQueuesHaveReaders
<1> QED BY <1>1, CreationInvariance, PTL

\* A reader is at another node than its aggregator only after a warning, and nullptr
\* is returned only after an error was reported or for ReadTypeUnknown.
THEOREM FallbacksTold == QSpec => []FallbackReported
<1>1. ASSUME CreationInv PROVE FallbackReported
  <2>1. DOMAIN m_readers = 1 .. Len(m_readers)
    BY <1>1 DEF CreationInv, QTyped
  <2> QED BY <1>1, <2>1 DEF CreationInv, Told, FallbackReported
<1> QED BY <1>1, CreationInvariance, PTL

-----------------------------------------------------------------------------
(* The rows of the statements of the point reads.                          *)

less == {ss \in Nat \X Nat : ss[1] < ss[2]}

\* A set of natural numbers that is not empty has a least element.
LEMMA Least ==
    ASSUME NEW S \in SUBSET Nat, S # {}
    PROVE  \E m \in S : \A k \in S : m <= k
<1>1. IsWellFoundedOn(less, Nat)
  BY NatLessThanWellFounded DEF OpToRel, less
<1>2. PICK m \in S : \A k \in S : ~(<<k, m>> \in less)
  BY <1>1, WFMin
<1>3. ASSUME NEW k \in S PROVE m <= k
  <2>1. m \in Nat /\ k \in Nat /\ ~(<<k, m>> \in less)
    BY <1>2
  <2> QED BY <2>1 DEF less
<1> QED BY <1>3

\* A set that has 0 and with every number the next one has them all.
LEMMA Induction ==
    ASSUME NEW S \in SUBSET Nat, 0 \in S, \A n \in S : n + 1 \in S
    PROVE  S = Nat
<1> SUFFICES ASSUME S # Nat PROVE FALSE
  OBVIOUS
<1>1. Nat \ S \in SUBSET Nat /\ Nat \ S # {}
  OBVIOUS
<1>2. PICK m \in Nat \ S : \A k \in Nat \ S : m <= k
  BY <1>1, Least
<1>3. m - 1 \in Nat /\ m - 1 < m
  BY <1>2
<1>4. m - 1 \in S
  BY <1>2, <1>3
<1> QED BY <1>2, <1>4

\* The rows of a partition: their keys fall along the sort key.
LEMMA RowsOf ==
    ASSUME NEW p \in Nat
    PROVE  /\ Len(RowSizes) \in Nat /\ DOMAIN rowsOf(p) = 1 .. Len(RowSizes)
           /\ \A j \in 1 .. Len(RowSizes) : rowsOf(p)[j] \in Row
           /\ \A j, k \in 1 .. Len(RowSizes) :
                 /\ rowsOf(p)[j].id = rowsOf(p)[k].id => j = k
                 /\ j < k => rowsOf(p)[k].id < rowsOf(p)[j].id
<1> DEFINE L == Len(RowSizes)
           b == p * L + L
<1>1. L \in Nat /\ DOMAIN RowSizes = 1 .. L /\ \A j \in 1 .. L : RowSizes[j] \in Nat
  BY MultiPassQueueAssumption
<1>2. b \in Nat /\ b >= L
  <2>1. p * L \in Nat
    <3> HIDE DEF L
    <3> QED BY <1>1, SMT
  <2> HIDE DEF L
  <2> QED BY <1>1, <2>1
<1>3. rowsOf(p) = [j \in 1 .. L |-> [id |-> b - j + 1, size |-> RowSizes[j]]]
  BY <1>1 DEF rowsOf
<1> HIDE DEF L, b
<1>4. ASSUME NEW j \in 1 .. L
      PROVE  rowsOf(p)[j] \in Row /\ rowsOf(p)[j].id = b - j + 1
  <2>1. PICK r : r = [id |-> b - j + 1, size |-> RowSizes[j]]
    OBVIOUS
  <2>2. b - j + 1 \in Nat /\ RowSizes[j] \in Nat
    BY <1>1, <1>2
  <2>3. r \in Row /\ r.id = b - j + 1
    BY <2>1, <2>2 DEF Row
  <2> QED BY <1>3, <2>1, <2>3
<1>5. \A j, k \in 1 .. L : /\ rowsOf(p)[j].id = rowsOf(p)[k].id => j = k
                           /\ j < k => rowsOf(p)[k].id < rowsOf(p)[j].id
  <2> TAKE j, k \in 1 .. L
  <2>1. rowsOf(p)[j].id = b - j + 1 /\ rowsOf(p)[k].id = b - k + 1
    BY <1>4
  <2>2. j \in Int /\ k \in Int
    BY <1>1
  <2> QED BY <1>2, <2>1, <2>2
<1>6. DOMAIN rowsOf(p) = 1 .. L
  BY <1>3
<1> QED BY <1>1, <1>4, <1>5, <1>6 DEF L

\* The rows with given keys are finitely many, and a key names one row.
LEMMA AskedSet ==
    ASSUME NEW p \in Nat, NEW A, A \in SUBSET Range(rowsOf(p))
    PROVE  /\ A \in SUBSET Row /\ IsFiniteSet(A)
           /\ \A r, q \in A : r.id = q.id => r = q
<1> DEFINE L == Len(RowSizes)
           f == rowsOf(p)
           R == Range(f)
<1>1. /\ L \in Nat /\ DOMAIN f = 1 .. L /\ \A j \in 1 .. L : f[j] \in Row
      /\ \A j, k \in 1 .. L : f[j].id = f[k].id => j = k
  BY RowsOf
<1>2. f = [j \in 1 .. L |-> f[j]]
  BY <1>1 DEF rowsOf
<1> HIDE DEF L, f
<1>3. \A r \in R : \E j \in 1 .. L : r = f[j]
  BY <1>1 DEF Range
<1>4. \A j \in 1 .. L : f[j] \in R
  BY <1>1 DEF Range
<1>5. IsFiniteSet(R)
  <2> HIDE DEF R
  <2>1. f \in Surjection(1 .. L, R)
    BY <1>2, <1>3, <1>4 DEF Surjection
  <2>2. IsFiniteSet(1 .. L)
    BY <1>1, FS_Interval
  <2> QED BY <2>1, <2>2, FS_Surjection
<1>6. A \in SUBSET R
  BY DEF f
<1> HIDE DEF R
<1>7. IsFiniteSet(A)
  BY <1>5, <1>6, FS_Subset
<1>8. \A r, q \in A : r.id = q.id => r = q
  BY <1>1, <1>3, <1>6
<1> QED BY <1>1, <1>3, <1>6, <1>7, <1>8

\* The rows are in the order of the key and are all of A.
inOrder(rows, A) ==
    /\ Range(rows) = A
    /\ \A k, n \in DOMAIN rows : k < n => rows[k].id < rows[n].id

\* Any n rows of a partition can be put in the order of their keys.
LEMMA OrderExists ==
    ASSUME NEW p \in Nat, NEW n \in Nat, NEW A \in SUBSET Range(rowsOf(p)), Cardinality(A) = n
    PROVE  \E rows \in [1 .. n -> A] : inOrder(rows, A)
<1> DEFINE R == Range(rowsOf(p))
           S == {k \in Nat : \A B \in SUBSET R :
                    Cardinality(B) = k => \E rows \in [1 .. k -> B] : inOrder(rows, B)}
<1>1. 0 \in S
  <2> SUFFICES ASSUME NEW B \in SUBSET R, Cardinality(B) = 0
               PROVE  \E rows \in [1 .. 0 -> B] : inOrder(rows, B)
    OBVIOUS
  <2>1. B = {}
    BY AskedSet, FS_EmptySet
  <2> DEFINE rows == [k \in 1 .. 0 |-> 0]
  <2>2. rows \in [1 .. 0 -> B] /\ inOrder(rows, B)
    BY <2>1 DEF inOrder, Range
  <2> HIDE DEF rows
  <2> QED BY <2>2
<1>2. ASSUME NEW k \in S PROVE k + 1 \in S
  <2>1. k \in Nat /\ \A B \in SUBSET R :
            Cardinality(B) = k => \E rows \in [1 .. k -> B] : inOrder(rows, B)
    OBVIOUS
  <2> HIDE DEF S
  <2> SUFFICES ASSUME NEW B \in SUBSET R, Cardinality(B) = k + 1
               PROVE  \E rows \in [1 .. (k + 1) -> B] : inOrder(rows, B)
    BY <2>1 DEF S
  <2> DEFINE L == Len(RowSizes)
             f == rowsOf(p)
             J == {j \in 1 .. L : f[j] \in B}
  <2>2. /\ L \in Nat /\ DOMAIN f = 1 .. L
        /\ \A i1, i2 \in 1 .. L : i1 < i2 => f[i2].id < f[i1].id
    BY RowsOf
  <2>3. \A r \in B : \E j \in 1 .. L : r = f[j]
    BY <2>2 DEF Range
  <2>4. B \in SUBSET Row /\ IsFiniteSet(B)
    BY AskedSet
  <2> HIDE DEF L, f
  <2>5. B # {}
    <3>1. k + 1 # 0
      BY <2>1
    <3>2. Cardinality({}) = 0
      BY FS_EmptySet
    <3> QED BY <3>1, <3>2
  <2>6. J \in SUBSET Nat /\ J # {}
    BY <2>2, <2>3, <2>5
  <2>7. PICK j0 \in J : \A j \in J : j0 <= j
    <3> HIDE DEF J
    <3> QED BY <2>6, Least
  <2> DEFINE m == f[j0]
             C == B \ {m}
  <2>8. m \in B /\ m \in Row
    BY <2>4, <2>7
  <2>9. \A r \in C : r.id < m.id
    <3> TAKE r \in C
    <3>1. PICK j \in 1 .. L : r = f[j]
      BY <2>3
    <3>2. j \in J /\ j # j0 /\ j0 \in 1 .. L
      BY <2>7, <3>1
    <3>3. j0 < j
      BY <2>2, <2>7, <3>2
    <3> QED BY <2>2, <3>1, <3>2, <3>3
  <2> HIDE DEF m, J, R
  <2>10. C \in SUBSET R /\ Cardinality(C) = k
    <3>1. C \in SUBSET R
      OBVIOUS
    <3>2. Cardinality(C) = Cardinality(B) - 1
      BY <2>4, <2>8, FS_RemoveElement
    <3>3. (k + 1) - 1 = k
      BY <2>1
    <3> QED BY <3>1, <3>2, <3>3
  <2>11. PICK rows \in [1 .. k -> C] : inOrder(rows, C)
    BY <2>1, <2>10
  <2>12. /\ DOMAIN rows = 1 .. k /\ \A j \in 1 .. k : rows[j] \in C
         /\ \A r \in C : \E j \in 1 .. k : r = rows[j]
         /\ \A i1, i2 \in 1 .. k : i1 < i2 => rows[i1].id < rows[i2].id
    BY <2>11 DEF inOrder, Range
  <2> DEFINE g == [j \in 1 .. (k + 1) |-> IF j = k + 1 THEN m ELSE rows[j]]
  <2>13. \A j \in 1 .. (k + 1) : j \in 1 .. k \/ j = k + 1
    BY <2>1
  <2>14. \A j \in 1 .. k : j \in 1 .. (k + 1) /\ j # k + 1 /\ j < k + 1
    BY <2>1
  <2>15. /\ g[k + 1] = m /\ k + 1 \in 1 .. (k + 1)
         /\ \A j \in 1 .. k : g[j] = rows[j] /\ g[j] \in C
    BY <2>1, <2>12, <2>14
  <2>16. g \in [1 .. (k + 1) -> B]
    BY <2>8, <2>12, <2>13
  <2> HIDE DEF g
  <2>17. Range(g) = B
    <3>1. DOMAIN g = 1 .. (k + 1)
      BY DEF g
    <3>2. ASSUME NEW r \in B PROVE \E j \in 1 .. (k + 1) : g[j] = r
      <4>1. CASE r = m
        BY <2>15, <4>1
      <4>2. CASE r # m
        <5>1. PICK j \in 1 .. k : r = rows[j]
          BY <2>12, <4>2
        <5> QED BY <2>14, <2>15, <5>1
      <4> QED BY <4>1, <4>2
    <3>3. \A j \in 1 .. (k + 1) : g[j] \in B
      BY <2>16
    <3> QED BY <3>1, <3>2, <3>3 DEF Range
  <2>18. ASSUME NEW i1 \in 1 .. (k + 1), NEW i2 \in 1 .. (k + 1), i1 < i2
         PROVE  g[i1].id < g[i2].id
    <3>1. i1 \in 1 .. k
      BY <2>1, <2>18
    <3>2. CASE i2 = k + 1
      BY <2>9, <2>15, <3>1, <3>2
    <3>3. CASE i2 \in 1 .. k
      BY <2>12, <2>15, <2>18, <3>1, <3>3
    <3> QED BY <2>13, <3>2, <3>3
  <2>19. inOrder(g, B)
    <3>1. DOMAIN g = 1 .. (k + 1)
      BY DEF g
    <3> QED BY <2>17, <2>18, <3>1 DEF inOrder
  <2> QED BY <2>16, <2>19
<1>3. S = Nat
  <2> HIDE DEF S
  <2>1. S \in SUBSET Nat
    BY DEF S
  <2> QED BY <1>1, <1>2, <2>1, Induction
<1> QED BY <1>3

\* MakeRowIdFilterQuery: the rows asked for, in the order of their keys.
LEMMA RowIdFilter ==
    ASSUME NEW p \in Nat, NEW ids, NEW rows, rows = MakeRowIdFilterQuery(p, ids)
    PROVE  rows \in Seq(Row) /\ inOrder(rows, withIds(p, ids))
<1> DEFINE A == withIds(p, ids)
           n == Cardinality(A)
<1>1. A \in SUBSET Range(rowsOf(p))
  BY DEF withIds
<1>2. A \in SUBSET Row /\ IsFiniteSet(A)
  BY <1>1, AskedSet
<1> HIDE DEF A
<1>3. n \in Nat
  BY <1>2, FS_CardinalityType
<1>4. \E r \in [1 .. n -> A] : inOrder(r, A)
  BY <1>1, <1>3, OrderExists
<1>5. rows = CHOOSE r \in [1 .. n -> A] : inOrder(r, A)
  BY DEF MakeRowIdFilterQuery, inOrder, A
<1> HIDE DEF n
<1>6. rows \in [1 .. n -> A] /\ inOrder(rows, A)
  BY <1>4, <1>5
<1>7. rows \in [1 .. n -> Row]
  BY <1>2, <1>6
<1> QED BY <1>3, <1>6, <1>7, FunctionIsSequence DEF A

\* MakePointInTimeQuery: no row, or the one with the key.
LEMMA PointInTime ==
    ASSUME NEW p \in Nat, NEW rowId \in Nat, NEW rows, rows = MakePointInTimeQuery(p, rowId),
           Len(rows) # 0
    PROVE  /\ rows[1] \in Row
           /\ m_read_type = "ResultTable" => rows[1] = rowsOf(p)[rowId + 1]
           /\ m_read_type # "ResultTable" => {rows[1]} = withIds(p, {rowId})
<1>1. CASE m_read_type = "ResultTable"
  <2>1. rowId < Len(RowSizes) /\ rows = <<rowsOf(p)[rowId + 1]>>
    BY <1>1 DEF MakePointInTimeQuery
  <2>2. Len(RowSizes) \in Nat /\ \A j \in 1 .. Len(RowSizes) : rowsOf(p)[j] \in Row
    BY RowsOf
  <2>3. rowId + 1 \in 1 .. Len(RowSizes)
    BY <2>1, <2>2
  <2> QED BY <1>1, <2>1, <2>2, <2>3
<1>2. CASE m_read_type # "ResultTable"
  <2> DEFINE A == withIds(p, {rowId})
             n == Cardinality(A)
  <2>1. A \in SUBSET Range(rowsOf(p)) /\ \A r \in A : r.id = rowId
    BY DEF withIds
  <2>2. rows = CHOOSE f \in [1 .. n -> A] : IsInjective(f)
    BY <1>2 DEF MakePointInTimeQuery, SetToSeq
  <2> HIDE DEF A
  <2>3. A \in SUBSET Row /\ IsFiniteSet(A) /\ \A r, q \in A : r.id = q.id => r = q
    BY <2>1, AskedSet
  <2>4. A # {}
    <3> SUFFICES ASSUME A = {} PROVE FALSE
      OBVIOUS
    <3>1. n = 0
      BY FS_EmptySet
    <3> DEFINE g == [k \in 1 .. 0 |-> 0]
    <3>2. g \in [1 .. 0 -> A] /\ IsInjective(g)
      BY DEF IsInjective
    <3> HIDE DEF g, n
    <3>3. rows \in [1 .. 0 -> A]
      BY <2>2, <3>1, <3>2
    <3>4. 0 \in Nat
      OBVIOUS
    <3>5. Len(rows) = 0
      BY <3>3, <3>4, FunctionIsSequence
    <3> QED BY <3>5
  <2>5. PICK r \in A : TRUE
    BY <2>4
  <2>6. A = {r}
    BY <2>1, <2>3, <2>5
  <2>7. n = 1
    BY <2>6, FS_Singleton
  <2> DEFINE g == [k \in 1 .. 1 |-> r]
  <2>8. g \in [1 .. 1 -> A] /\ IsInjective(g)
    BY <2>5 DEF IsInjective
  <2> HIDE DEF g, n
  <2>9. rows \in [1 .. 1 -> A]
    BY <2>2, <2>7, <2>8
  <2>10. rows[1] \in A
    BY <2>9
  <2>11. {rows[1]} = A
    BY <2>6, <2>10
  <2> QED BY <1>2, <2>3, <2>10, <2>11 DEF A
<1> QED BY <1>1, <1>2

\* Nothing is written yet.
LEMMA BytesEmpty == bytes(<<>>) = 0
<1> DEFINE v(g, u) == IF u = {} THEN 0 ELSE g[u \ {Max(u)}] + <<>>[Max(u)].size
           f == [u \in SUBSET {} |-> 0]
           h == CHOOSE g : g = [u \in SUBSET {} |-> v(g, u)]
<1>1. DOMAIN <<>> = {}
  OBVIOUS
<1>2. bytes(<<>>) = (CHOOSE g : g = [u \in SUBSET DOMAIN <<>> |->
          IF u = {} THEN 0 ELSE g[u \ {Max(u)}] + <<>>[Max(u)].size])[DOMAIN <<>>]
  BY DEF bytes, FoldLeft, MapThenFoldSet
<1>3. bytes(<<>>) = h[{}]
  BY <1>1, <1>2
<1>4. \A u \in SUBSET {} : u = {}
  OBVIOUS
<1>5. f = [u \in SUBSET {} |-> v(f, u)]
  BY <1>4
<1> HIDE DEF f
<1>6. h = [u \in SUBSET {} |-> v(h, u)]
  BY <1>5
<1> HIDE DEF h
<1>7. h[{}] = 0
  BY <1>6
<1> QED BY <1>3, <1>7

-----------------------------------------------------------------------------
(* What the calls of a connection leave.                                   *)

nextFetched(o, k) ==
    \/ o.threw = TRUE /\ o.code = ServerError
    \/ /\ o.threw = FALSE /\ o.code = 0
       /\ o.conn.result = k.result /\ o.conn.m_use_binary_protocol = TRUE
       /\ \/ k.cursor = Len(k.result) /\ o.conn.m_last_fetched_row = <<>>
          \/ /\ k.cursor # Len(k.result) /\ o.conn.cursor = k.cursor + 1
             /\ o.conn.m_last_fetched_row = <<k.result[k.cursor + 1]>>

\* Advance on a prepared statement.
LEMMA AdvanceOf ==
    ASSUME NEW k, isConn(k), k.m_use_binary_protocol = TRUE, NEW o \in Advance(k)
    PROVE  isConn(o.conn) /\ nextFetched(o, k)
<1>1. \/ o = threw(FreeLastFetched(k), ServerError)
      \/ k.cursor = Len(k.result) /\ o = returned(CleanupStatement(k))
      \/ k.cursor # Len(k.result) /\ o = returned(fetchNext(k))
  BY DEF Advance, AdvanceBinary
<1>2. CASE o = threw(FreeLastFetched(k), ServerError)
  <2>1. PICK d : d = FreeLastFetched(k)
    OBVIOUS
  <2>2. isConn(d)
    BY <2>1 DEF FreeLastFetched, isConn
  <2>3. o.conn = d /\ o.threw = TRUE /\ o.code = ServerError
    BY <1>2, <2>1 DEF threw
  <2> QED BY <2>2, <2>3 DEF nextFetched
<1>3. CASE k.cursor = Len(k.result) /\ o = returned(CleanupStatement(k))
  <2>1. PICK d : d = CleanupStatement(k)
    OBVIOUS
  <2>2. /\ isConn(d) /\ d.result = k.result /\ d.m_use_binary_protocol = TRUE
        /\ d.m_last_fetched_row = <<>>
    BY <2>1 DEF CleanupStatement, FreeLastFetched, isConn
  <2>3. o.conn = d /\ o.threw = FALSE /\ o.code = 0
    BY <1>3, <2>1 DEF returned
  <2> QED BY <1>3, <2>2, <2>3 DEF nextFetched
<1>4. CASE k.cursor # Len(k.result) /\ o = returned(fetchNext(k))
  <2>1. PICK d : d = fetchNext(k)
    OBVIOUS
  <2>2. /\ isConn(d) /\ d.result = k.result /\ d.m_use_binary_protocol = TRUE
        /\ d.cursor = k.cursor + 1 /\ d.m_last_fetched_row = <<k.result[k.cursor + 1]>>
    BY <2>1 DEF fetchNext, isConn
  <2>3. o.conn = d /\ o.threw = FALSE /\ o.code = 0
    BY <1>4, <2>1 DEF returned
  <2> QED BY <1>4, <2>2, <2>3 DEF nextFetched
<1> QED BY <1>1, <1>2, <1>3, <1>4

prefetched(k, rows) == Prepare(k, rows, TRUE)

firstFetched(o, rows) ==
    \/ o.threw = TRUE /\ o.code = ServerError
    \/ /\ o.threw = FALSE /\ o.code = 0
       /\ o.conn.result = rows /\ o.conn.m_use_binary_protocol = TRUE
       /\ found(o) => /\ Len(rows) # 0 /\ o.conn.cursor = 1
                      /\ o.conn.m_last_fetched_row = <<rows[1]>>

\* Prepare and the first Advance: whatever the statement before left, the row that
\* is fetched is the first of the new result.
LEMMA PrepareOf ==
    ASSUME NEW k, isConn(k), NEW rows, NEW o, o \in prefetched(k, rows)
    PROVE  isConn(o.conn) /\ firstFetched(o, rows)
<1> DEFINE clean(stmt) == [CleanupStatement(k) EXCEPT !.m_stmt = stmt,
                                                      !.m_use_binary_protocol = TRUE]
           e == opened(clean("executed"), rows)
<1>1. \/ \E stmt \in {"null", "init", "prepared"} : o = threw(clean(stmt), ServerError)
      \/ o \in Advance(e)
      \/ o = returned(e)
  BY DEF prefetched, Prepare
<1>2. ASSUME NEW stmt
      PROVE  /\ isConn(clean(stmt)) /\ clean(stmt).m_use_binary_protocol = TRUE
             /\ clean(stmt).m_last_fetched_row = <<>>
  <2>1. PICK d : d = CleanupStatement(k)
    OBVIOUS
  <2>2. isConn(d) /\ d.m_last_fetched_row = <<>>
    BY <2>1 DEF CleanupStatement, FreeLastFetched, isConn
  <2>3. PICK h : h = [d EXCEPT !.m_stmt = stmt, !.m_use_binary_protocol = TRUE]
    OBVIOUS
  <2>4. isConn(h) /\ h.m_use_binary_protocol = TRUE /\ h.m_last_fetched_row = <<>>
    BY <2>2, <2>3 DEF isConn
  <2> QED BY <2>1, <2>3, <2>4
<1> HIDE DEF clean
<1>3. /\ isConn(e) /\ e.result = rows /\ e.cursor = 0 /\ e.m_use_binary_protocol = TRUE
      /\ e.m_last_fetched_row = <<>>
  <2>1. PICK d : d = clean("executed")
    OBVIOUS
  <2>2. isConn(d) /\ d.m_use_binary_protocol = TRUE /\ d.m_last_fetched_row = <<>>
    BY <1>2, <2>1
  <2>3. PICK h : h = [d EXCEPT !.result = rows, !.cursor = 0]
    OBVIOUS
  <2>4. /\ isConn(h) /\ h.result = rows /\ h.cursor = 0 /\ h.m_use_binary_protocol = TRUE
        /\ h.m_last_fetched_row = <<>>
    BY <2>2, <2>3 DEF isConn
  <2> QED BY <2>1, <2>3, <2>4 DEF opened
<1> HIDE DEF e
<1>4. CASE \E stmt \in {"null", "init", "prepared"} : o = threw(clean(stmt), ServerError)
  <2>1. PICK stmt \in {"null", "init", "prepared"} : o = threw(clean(stmt), ServerError)
    BY <1>4
  <2>2. o.conn = clean(stmt) /\ o.threw = TRUE /\ o.code = ServerError
    BY <2>1 DEF threw
  <2> QED BY <1>2, <2>2 DEF firstFetched
<1>5. CASE o \in Advance(e)
  <2>1. /\ isConn(o.conn)
        /\ \/ o.threw = TRUE /\ o.code = ServerError
           \/ /\ o.threw = FALSE /\ o.code = 0
              /\ o.conn.result = rows /\ o.conn.m_use_binary_protocol = TRUE
              /\ \/ o.conn.m_last_fetched_row = <<>>
                 \/ /\ Len(rows) # 0 /\ o.conn.cursor = 0 + 1
                    /\ o.conn.m_last_fetched_row = <<rows[0 + 1]>>
    BY <1>3, <1>5, AdvanceOf DEF nextFetched
  <2> QED BY <2>1 DEF firstFetched, found, HasNextRow
<1>6. CASE o = returned(e)
  <2>1. o.conn = e /\ o.threw = FALSE /\ o.code = 0
    BY <1>6 DEF returned
  <2> QED BY <1>3, <2>1 DEF firstFetched, found, HasNextRow
<1> QED BY <1>1, <1>4, <1>5, <1>6

\* A consumer thread that has a connection has one that a statement can be prepared on.
LEMMA ConnectedOf ==
    ASSUME ReadsTyped, NEW t, t + 1 \in DOMAIN m_consumers, NEW partition,
           NEW c \in connected(t, partition), c.conn # <<>>
    PROVE  isConsumer(c) /\ isConn(c.conn[1])
<1>1. CASE m_consumers[t + 1].conn # <<>>
  <2>1. c = m_consumers[t + 1]
    BY <1>1 DEF connected
  <2> QED BY <2>1 DEF ReadsTyped, isConsumer
<1>2. CASE m_consumers[t + 1].conn = <<>>
  <2>1. PICK d, node : /\ d \in {<<>>, <<newConnection>>}
                       /\ c = [conn |-> d, node |-> node]
    BY <1>2 DEF connected
  <2>2. c.conn = <<newConnection>> /\ c = [conn |-> c.conn, node |-> c.node]
    BY <2>1
  <2>3. c.conn[1] = newConnection /\ isConn(newConnection)
    BY <2>2 DEF newConnection, isConn
  <2> QED BY <2>2, <2>3 DEF isConsumer
<1> QED BY <1>1, <1>2

-----------------------------------------------------------------------------
(* The point reads.                                                        *)

\* What PointReadExact says of an answer.
exact(r, readType) ==
    /\ r.err = 0 <=> r.rows # <<>>
    /\ r.err = 0 =>
        LET asked == withIds(r.partition, r.ids)
            missing == asked \ Range(r.rows)
        IN  \/ /\ r.op = "row"
               /\ Len(r.rows) = 1
               /\ IF readType = "ResultTable"
                  THEN \E k \in r.ids : r.rows[1] = rowsOf(r.partition)[k + 1]
                  ELSE {r.rows[1]} = asked
            \/ /\ r.op = "rows"
               /\ Range(r.rows) \subseteq asked
               /\ \A k, n \in DOMAIN r.rows : k < n => r.rows[k].id < r.rows[n].id
               /\ \A row \in missing :
                     /\ row.id > Last(r.rows).id
                     /\ \E other \in missing :
                           other.id <= row.id /\ ~(bytes(r.rows) + other.size <= r.size)

\* PointReadExact before and after a step.
LEMMA ExactNow == /\ PointReadExact <=> (answered => exact(ret, m_read_type))
                  /\ PointReadExact' <=> (answered' => exact(ret', m_read_type'))
<1>1. PointReadExact <=> (answered => exact(ret, m_read_type))
  BY DEF PointReadExact, exact, rowsOrError
<1>2. PointReadExact' <=> (answered' => exact(ret', m_read_type'))
  BY DEF PointReadExact, exact, rowsOrError
<1> QED BY <1>1, <1>2

\* The rows that are asked for after a step.
LEMMA AskedNow == askedRows' = MakeRowIdFilterQuery(ret'.partition, ret'.ids)
BY DEF askedRows

\* The fields of an answer.
LEMMA AnswerFields ==
    ASSUME NEW op, NEW t, NEW p, NEW ids, NEW size, NEW rows, NEW err,
           NEW r, r = answer(op, t, p, ids, size, rows, err)
    PROVE  /\ isAnswer(r) /\ r.op = op /\ r.thread = t /\ r.partition = p /\ r.ids = ids
           /\ r.size = size /\ r.rows = rows /\ r.err = err
BY DEF answer, isAnswer

\* No call runs and none was made when the queue is opened.
LEMMA CreateReads == QInv /\ Create => ReadInv'
<1> SUFFICES ASSUME QInv, Create PROVE ReadInv'
  OBVIOUS
<1>1. /\ pc \in Before /\ pc' # "terminated" /\ UNCHANGED <<call, ret>>
      /\ \/ UNCHANGED m_consumers
         \/ m_consumers' = [c \in 1 .. nConsumers |-> NoConnection]
  <2>1. CASE Loops
    BY <2>1 DEF Loops, reads, Before
  <2>2. CASE ExplainRowSchema \/ GetAggregators \/ GetTableKeys
    BY <2>2 DEF ExplainRowSchema, GetAggregators, GetTableKeys, CreateThrows, reads, Before
  <2>3. CASE NextReader
    BY <2>3 DEF NextReader, CreateReader, reads, Before
  <2>4. CASE StartReaders
    BY <2>4 DEF StartReaders, Before
  <2> QED BY <2>1, <2>2, <2>3, <2>4 DEF Create
<1>2. call = "idle" /\ ret.op = "none"
  BY <1>1 DEF QInv, ReadInv, Quiet
<1>3. isConsumer(NoConnection)
  BY DEF NoConnection, isConsumer
<1>4. ReadsTyped'
  BY <1>1, <1>3 DEF QInv, ReadInv, ReadsTyped
<1>5. Quiet' /\ Filling' /\ Terminated'
  BY <1>1, <1>2 DEF Quiet, Filling, Terminated
<1>6. PointReadExact'
  BY <1>1, <1>2, ExactNow DEF answered
<1> QED BY <1>4, <1>5, <1>6 DEF ReadInv

\* A call that gives an error and no rows.
LEMMA Refused ==
    ASSUME QInv, pc = "open", UNCHANGED pc, call' = "idle",
           \A k \in DOMAIN m_consumers' : isConsumer(m_consumers'[k]),
           NEW op, NEW t, NEW p \in Nat, NEW ids, NEW size \in Nat, NEW err, err # 0,
           ret' = answer(op, t, p, ids, size, <<>>, err)
    PROVE  ReadInv'
<1>1. /\ isAnswer(ret') /\ ret'.partition = p /\ ret'.size = size /\ ret'.rows = <<>>
      /\ ret'.err = err
  BY AnswerFields
<1>2. ReadsTyped'
  <2>1. ret'.rows \in Seq(Row)
    <3>1. <<>> \in Seq(Row)
      OBVIOUS
    <3> QED BY <1>1, <3>1
  <2>2. isAnswer(ret)'
    BY <1>1 DEF isAnswer
  <2>3. \A k \in DOMAIN m_consumers' : isConsumer(m_consumers[k])'
    BY DEF isConsumer
  <2> QED BY <1>1, <2>1, <2>2, <2>3 DEF ReadsTyped
<1>3. Quiet' /\ Filling' /\ Terminated'
  BY DEF Quiet, Filling, Terminated, Before
<1>4. PointReadExact'
  BY <1>1, ExactNow DEF exact
<1> QED BY <1>2, <1>3, <1>4 DEF ReadInv

\* The place of a thread in m_consumers.
LEMMA ThreadPlace ==
    ASSUME QInv, NEW t \in Threads, t < Len(m_consumers)
    PROVE  t + 1 \in DOMAIN m_consumers
<1>1. m_consumers \in Seq(elements(m_consumers))
  BY DEF QInv, CreationInv, QTyped
<1> DEFINE E == elements(m_consumers)
<1> HIDE DEF E
<1>2. Len(m_consumers) \in Nat /\ DOMAIN m_consumers = 1 .. Len(m_consumers)
  BY <1>1 DEF E
<1>3. t \in Nat
  BY LoopsAssumption DEF Threads
<1> QED BY <1>2, <1>3

\* The other consumers keep their connections.
LEMMA ConsumersKept ==
    ASSUME ReadsTyped, NEW k, NEW d, isConsumer(d), m_consumers' = [m_consumers EXCEPT ![k] = d]
    PROVE  \A n \in DOMAIN m_consumers' : isConsumer(m_consumers'[n])
BY DEF ReadsTyped

\* A consumer whose connection ran a statement.
LEMMA ConsumerWith ==
    ASSUME NEW c, c = [conn |-> c.conn, node |-> c.node], NEW k, isConn(k)
    PROVE  /\ isConsumer([c EXCEPT !.conn = <<k>>])
           /\ [c EXCEPT !.conn = <<k>>].conn = <<k>>
<1>1. PICK d : d = [c EXCEPT !.conn = <<k>>]
  OBVIOUS
<1>2. d = [conn |-> <<k>>, node |-> c.node]
  BY <1>1
<1>3. d.conn = <<k>> /\ d.conn[1] = k /\ d = [conn |-> d.conn, node |-> d.node]
  BY <1>2
<1> QED BY <1>1, <1>3 DEF isConsumer

\* A partition of the list and the numbers of the errors.
LEMMA Numbers ==
    /\ CreationInv => \A p \in Range(partitions) : p \in Nat
    /\ InvArg # 0 /\ NoMemory # 0 /\ ServerError # 0
<1>1. ASSUME CreationInv PROVE \A p \in Range(partitions) : p \in Nat
  <2>1. partitions \in Seq(Nat)
    BY <1>1 DEF CreationInv, LoopsInv, LoopsTyped
  <2> QED BY <2>1 DEF Range
<1> QED BY <1>1 DEF InvArg, NoMemory, ServerError

\* A thread number that is too large.
LEMMA BadThreadReads ==
    ASSUME QInv, NEW t \in Threads, BadThread(t)
    PROVE  ReadInv'
<1>1. /\ pc = "open" /\ call = "idle" /\ UNCHANGED m_consumers /\ UNCHANGED call
      /\ UNCHANGED m_read_type
      /\ \/ ret' = answer("row", t, 0, {}, 0, <<>>, InvArg) /\ UNCHANGED pc
         \/ pc' = "undefined" /\ UNCHANGED ret
  BY DEF BadThread, Idle, created
<1>2. CASE ret' = answer("row", t, 0, {}, 0, <<>>, InvArg) /\ UNCHANGED pc
  <2>1. \A k \in DOMAIN m_consumers' : isConsumer(m_consumers'[k])
    BY <1>1 DEF QInv, ReadInv, ReadsTyped
  <2>2. call' = "idle" /\ 0 \in Nat
    BY <1>1
  <2> QED BY <1>1, <1>2, <2>1, <2>2, Numbers, Refused
<1>3. CASE pc' = "undefined" /\ UNCHANGED ret
  <2>1. ReadsTyped'
    BY <1>1, <1>3 DEF QInv, ReadInv, ReadsTyped
  <2>2. Quiet' /\ Filling' /\ Terminated'
    BY <1>1, <1>3 DEF Quiet, Filling, Terminated, Before
  <2>3. PointReadExact'
    BY <1>3, ExactNow DEF answered
  <2> QED BY <2>1, <2>2, <2>3 DEF ReadInv
<1> QED BY <1>1, <1>2, <1>3

\* The thread cannot connect, or the chunk cannot be allocated.
LEMMA NoRead ==
    ASSUME QInv, NEW t \in Threads, NEW p \in Range(partitions),
           ConnectFails(t, p) \/ GetMultipleRowsNoMemory(t, p)
    PROVE  ReadInv'
<1>1. p \in Nat /\ 0 \in Nat
  BY Numbers DEF QInv
<1>2. CASE ConnectFails(t, p)
  <2>1. /\ pc = "open" /\ UNCHANGED pc /\ call' = "idle" /\ UNCHANGED m_consumers
        /\ ret' = answer("row", t, p, {}, 0, <<>>, ServerError)
    BY <1>2 DEF ConnectFails, Idle
  <2>2. \A k \in DOMAIN m_consumers' : isConsumer(m_consumers'[k])
    BY <2>1 DEF QInv, ReadInv, ReadsTyped
  <2> QED BY <1>1, <2>1, <2>2, Numbers, Refused
<1>3. CASE GetMultipleRowsNoMemory(t, p)
  <2>1. /\ pc = "open" /\ UNCHANGED pc /\ call' = "idle" /\ t < Len(m_consumers)
        /\ ret' = answer("rows", t, p, {}, 0, <<>>, NoMemory)
        /\ \E c \in {d \in connected(t, p) : d.conn # <<>>} :
              m_consumers' = [m_consumers EXCEPT ![t + 1] = c]
    BY <1>3 DEF GetMultipleRowsNoMemory, Idle
  <2>2. PICK c \in connected(t, p) : /\ c.conn # <<>>
                                     /\ m_consumers' = [m_consumers EXCEPT ![t + 1] = c]
    BY <2>1
  <2>3. isConsumer(c)
    BY <2>1, <2>2, ThreadPlace, ConnectedOf DEF QInv, ReadInv
  <2>4. \A k \in DOMAIN m_consumers' : isConsumer(m_consumers'[k])
    BY <2>2, <2>3, ConsumersKept DEF QInv, ReadInv
  <2> QED BY <1>1, <2>1, <2>4, Numbers, Refused
<1> QED BY <1>2, <1>3

\* The key of a row is a number.
LEMMA KeyType ==
    ASSUME NEW p \in Nat, NEW rowId \in rowIdsOf(p)
    PROVE  rowId \in Nat
<1> DEFINE L == Len(RowSizes)
<1>1. L \in Nat
  BY RowsOf
<1> HIDE DEF L
<1>2. p * L \in Nat
  BY <1>1, SMT
<1>3. \A place \in 0 .. L : keyOf(p, place) \in Nat
  <2> TAKE place \in 0 .. L
  <2>1. place \in Nat
    BY <1>1
  <2>2. keyOf(p, place) = IF place = 0 THEN 0 ELSE p * L + place
    BY DEF keyOf, L
  <2> QED BY <1>2, <2>1, <2>2
<1>4. rowId \in 0 .. L \/ \E place \in 0 .. L : rowId = keyOf(p, place)
  BY DEF rowIdsOf, L
<1> QED BY <1>1, <1>3, <1>4

\* GetSingleRow: an error, or the one row.
LEMMA SingleRowReads ==
    ASSUME QInv, NEW t \in Threads, NEW p \in Range(partitions), NEW rowId \in rowIdsOf(p),
           GetSingleRow(t, p, rowId)
    PROVE  ReadInv'
<1> DEFINE rows == MakePointInTimeQuery(p, rowId)
<1>1. p \in Nat /\ rowId \in Nat /\ 0 \in Nat
  BY Numbers, KeyType DEF QInv
<1>2. /\ pc = "open" /\ UNCHANGED pc /\ call' = "idle" /\ t < Len(m_consumers)
      /\ UNCHANGED m_read_type
      /\ \E c \in {d \in connected(t, p) : d.conn # <<>>} :
         \E o \in Prepare(c.conn[1], rows, TRUE) :
         \E err \in IF o.threw THEN {o.code}
                    ELSE IF ~found(o) THEN {InvArg} ELSE {0, NoMemory, ServerError} :
            /\ ret' = answer("row", t, p, {rowId}, 0,
                             IF err = 0 THEN o.conn.m_last_fetched_row ELSE <<>>, err)
            /\ m_consumers' = [m_consumers EXCEPT ![t + 1] =
                  [c EXCEPT !.conn = <<IF err = 0 THEN CleanupStatement(o.conn) ELSE o.conn>>]]
  BY DEF GetSingleRow, Idle, created
<1> HIDE DEF rows
<1>3. PICK c \in connected(t, p) : /\ c.conn # <<>>
         /\ \E o \in Prepare(c.conn[1], rows, TRUE) :
            \E err \in IF o.threw THEN {o.code}
                       ELSE IF ~found(o) THEN {InvArg} ELSE {0, NoMemory, ServerError} :
               /\ ret' = answer("row", t, p, {rowId}, 0,
                                IF err = 0 THEN o.conn.m_last_fetched_row ELSE <<>>, err)
               /\ m_consumers' = [m_consumers EXCEPT ![t + 1] =
                     [c EXCEPT !.conn =
                         <<IF err = 0 THEN CleanupStatement(o.conn) ELSE o.conn>>]]
  BY <1>2
<1>4. PICK o \in Prepare(c.conn[1], rows, TRUE) :
         \E err \in IF o.threw THEN {o.code}
                    ELSE IF ~found(o) THEN {InvArg} ELSE {0, NoMemory, ServerError} :
            /\ ret' = answer("row", t, p, {rowId}, 0,
                             IF err = 0 THEN o.conn.m_last_fetched_row ELSE <<>>, err)
            /\ m_consumers' = [m_consumers EXCEPT ![t + 1] =
                  [c EXCEPT !.conn = <<IF err = 0 THEN CleanupStatement(o.conn) ELSE o.conn>>]]
  BY <1>3
<1>5. PICK err \in IF o.threw THEN {o.code}
                   ELSE IF ~found(o) THEN {InvArg} ELSE {0, NoMemory, ServerError} :
         /\ ret' = answer("row", t, p, {rowId}, 0,
                          IF err = 0 THEN o.conn.m_last_fetched_row ELSE <<>>, err)
         /\ m_consumers' = [m_consumers EXCEPT ![t + 1] =
               [c EXCEPT !.conn = <<IF err = 0 THEN CleanupStatement(o.conn) ELSE o.conn>>]]
  BY <1>4
<1>6. isConsumer(c) /\ isConn(c.conn[1])
  BY <1>2, <1>3, ThreadPlace, ConnectedOf DEF QInv, ReadInv
<1>7. /\ isConn(o.conn)
      /\ \/ o.threw = TRUE /\ o.code = ServerError
         \/ /\ o.threw = FALSE /\ o.code = 0
            /\ found(o) => /\ Len(rows) # 0
                           /\ o.conn.m_last_fetched_row = <<rows[1]>>
  <2>1. PICK k : k = c.conn[1]
    OBVIOUS
  <2>2. isConn(k) /\ o \in prefetched(k, rows)
    BY <1>4, <1>6, <2>1 DEF prefetched
  <2>3. isConn(o.conn) /\ firstFetched(o, rows)
    BY <2>2, PrepareOf
  <2> QED BY <2>3 DEF firstFetched
<1>8. \A k \in DOMAIN m_consumers' : isConsumer(m_consumers'[k])
  <2>1. PICK h : h = IF err = 0 THEN CleanupStatement(o.conn) ELSE o.conn
    OBVIOUS
  <2>2. isConn(CleanupStatement(o.conn))
    <3>1. PICK g : g = CleanupStatement(o.conn)
      OBVIOUS
    <3>2. isConn(g)
      BY <1>7, <3>1 DEF CleanupStatement, FreeLastFetched, isConn
    <3> QED BY <3>1, <3>2
  <2>3. isConn(h)
    BY <1>7, <2>1, <2>2
  <2>4. isConsumer([c EXCEPT !.conn = <<h>>])
    BY <1>6, <2>3, ConsumerWith DEF isConsumer
  <2>5. m_consumers' = [m_consumers EXCEPT ![t + 1] = [c EXCEPT !.conn = <<h>>]]
    BY <1>5, <2>1
  <2> QED BY <2>4, <2>5, ConsumersKept DEF QInv, ReadInv
<1>9. CASE err # 0
  <2>1. ret' = answer("row", t, p, {rowId}, 0, <<>>, err)
    BY <1>5, <1>9
  <2> QED BY <1>1, <1>2, <1>8, <1>9, <2>1, Refused
<1>10. CASE err = 0
  <2>1. o.threw = FALSE /\ found(o)
    BY <1>5, <1>7, <1>10, Numbers
  <2>2. Len(rows) # 0 /\ o.conn.m_last_fetched_row = <<rows[1]>>
    BY <1>7, <2>1
  <2>3. /\ rows[1] \in Row
        /\ m_read_type = "ResultTable" => rows[1] = rowsOf(p)[rowId + 1]
        /\ m_read_type # "ResultTable" => {rows[1]} = withIds(p, {rowId})
    <3>1. rows = MakePointInTimeQuery(p, rowId)
      BY DEF rows
    <3> QED BY <1>1, <2>2, <3>1, PointInTime
  <2>4. ret' = answer("row", t, p, {rowId}, 0, <<rows[1]>>, 0)
    BY <1>5, <1>10, <2>2
  <2>5. /\ isAnswer(ret') /\ ret'.op = "row" /\ ret'.partition = p /\ ret'.ids = {rowId}
        /\ ret'.size = 0 /\ ret'.rows = <<rows[1]>> /\ ret'.err = 0
    BY <2>4, AnswerFields
  <2>6. ReadsTyped'
    <3>1. ret'.rows \in Seq(Row)
      BY <2>3, <2>5
    <3>2. isAnswer(ret)'
      BY <2>5 DEF isAnswer
    <3>3. \A k \in DOMAIN m_consumers' : isConsumer(m_consumers[k])'
      BY <1>8 DEF isConsumer
    <3> QED BY <1>1, <2>5, <3>1, <3>2, <3>3 DEF ReadsTyped
  <2>7. Quiet' /\ Filling' /\ Terminated'
    BY <1>2 DEF Quiet, Filling, Terminated, Before
  <2>8. PointReadExact'
    <3>1. Len(ret'.rows) = 1 /\ ret'.rows[1] = rows[1] /\ ret'.rows # <<>>
      BY <2>5
    <3>2. CASE m_read_type = "ResultTable"
      <4>1. \E k \in ret'.ids : ret'.rows[1] = rowsOf(ret'.partition)[k + 1]
        BY <2>3, <2>5, <3>1, <3>2
      <4>2. exact(ret', m_read_type')
        BY <1>2, <2>5, <3>1, <3>2, <4>1 DEF exact
      <4> QED BY <4>2, ExactNow
    <3>3. CASE m_read_type # "ResultTable"
      <4>1. {ret'.rows[1]} = withIds(ret'.partition, ret'.ids)
        BY <2>3, <2>5, <3>1, <3>3
      <4>2. exact(ret', m_read_type')
        BY <1>2, <2>5, <3>1, <3>3, <4>1 DEF exact
      <4> QED BY <4>2, ExactNow
    <3> QED BY <3>2, <3>3
  <2> QED BY <2>6, <2>7, <2>8 DEF ReadInv
<1> QED BY <1>9, <1>10

\* GetMultipleRows: an error, or the first of the rows is fetched.
LEMMA MultipleRowsReads ==
    ASSUME QInv, NEW t \in Threads, NEW p \in Range(partitions), NEW ids, NEW size \in ChunkSizes,
           GetMultipleRows(t, p, ids, size)
    PROVE  ReadInv'
<1> DEFINE rows == MakeRowIdFilterQuery(p, ids)
           code(o) == IF o.threw THEN o.code ELSE IF found(o) THEN 0 ELSE InvArg
<1>1. p \in Nat /\ size \in Nat
  BY Numbers, MultiPassQueueAssumption DEF QInv
<1>2. /\ pc = "open" /\ UNCHANGED pc /\ t < Len(m_consumers) /\ UNCHANGED m_read_type
      /\ \E c \in {d \in connected(t, p) : d.conn # <<>>} :
         \E o \in PrepareRowIdFilter(c.conn[1], p, ids) :
            /\ m_consumers' = [m_consumers EXCEPT ![t + 1] = [c EXCEPT !.conn = <<o.conn>>]]
            /\ ret' = answer("rows", t, p, ids, size, <<>>, code(o))
            /\ call' = IF ~o.threw /\ found(o) THEN "filling" ELSE "idle"
  BY DEF GetMultipleRows, Idle, created
<1>3. \A k : PrepareRowIdFilter(k, p, ids) \subseteq Prepare(k, rows, TRUE)
  BY DEF PrepareRowIdFilter
<1> HIDE DEF rows, code
<1>4. PICK c \in connected(t, p) : /\ c.conn # <<>>
         /\ \E o \in Prepare(c.conn[1], rows, TRUE) :
               /\ m_consumers' = [m_consumers EXCEPT ![t + 1] = [c EXCEPT !.conn = <<o.conn>>]]
               /\ ret' = answer("rows", t, p, ids, size, <<>>, code(o))
               /\ call' = IF ~o.threw /\ found(o) THEN "filling" ELSE "idle"
  BY <1>2, <1>3
<1>5. PICK o \in Prepare(c.conn[1], rows, TRUE) :
         /\ m_consumers' = [m_consumers EXCEPT ![t + 1] = [c EXCEPT !.conn = <<o.conn>>]]
         /\ ret' = answer("rows", t, p, ids, size, <<>>, code(o))
         /\ call' = IF ~o.threw /\ found(o) THEN "filling" ELSE "idle"
  BY <1>4
<1>6. t + 1 \in DOMAIN m_consumers
  BY <1>2, ThreadPlace
<1>7. isConsumer(c) /\ isConn(c.conn[1])
  BY <1>4, <1>6, ConnectedOf DEF QInv, ReadInv
<1>8. /\ isConn(o.conn)
      /\ \/ o.threw = TRUE /\ o.code = ServerError
         \/ /\ o.threw = FALSE /\ o.code = 0
            /\ o.conn.result = rows /\ o.conn.m_use_binary_protocol = TRUE
            /\ found(o) => /\ Len(rows) # 0 /\ o.conn.cursor = 1
                           /\ o.conn.m_last_fetched_row = <<rows[1]>>
  <2>1. PICK k : k = c.conn[1]
    OBVIOUS
  <2>2. isConn(k) /\ o \in prefetched(k, rows)
    BY <1>5, <1>7, <2>1 DEF prefetched
  <2>3. isConn(o.conn) /\ firstFetched(o, rows)
    BY <2>2, PrepareOf
  <2> QED BY <2>3 DEF firstFetched
<1>9. PICK d : d = [c EXCEPT !.conn = <<o.conn>>]
  OBVIOUS
<1>10. isConsumer(d) /\ d.conn = <<o.conn>>
  BY <1>7, <1>8, <1>9, ConsumerWith DEF isConsumer
<1>11. m_consumers' = [m_consumers EXCEPT ![t + 1] = d]
  BY <1>5, <1>9
<1>12. \A k \in DOMAIN m_consumers' : isConsumer(m_consumers'[k])
  BY <1>10, <1>11, ConsumersKept DEF QInv, ReadInv
<1>13. CASE ~(o.threw = FALSE /\ found(o))
  <2>1. call' = "idle" /\ code(o) # 0
    BY <1>5, <1>8, <1>13, Numbers DEF code
  <2> QED BY <1>1, <1>2, <1>5, <1>12, <2>1, Refused
<1>14. CASE o.threw = FALSE /\ found(o)
  <2>1. call' = "filling" /\ code(o) = 0
    BY <1>5, <1>14 DEF code
  <2>2. /\ isAnswer(ret') /\ ret'.op = "rows" /\ ret'.thread = t /\ ret'.partition = p
        /\ ret'.ids = ids /\ ret'.size = size /\ ret'.rows = <<>> /\ ret'.err = 0
    BY <1>5, <2>1, AnswerFields
  <2>3. ReadsTyped'
    <3>1. ret'.rows \in Seq(Row)
      <4>1. <<>> \in Seq(Row)
        OBVIOUS
      <4> QED BY <2>2, <4>1
    <3>2. isAnswer(ret)'
      BY <2>2 DEF isAnswer
    <3>3. \A k \in DOMAIN m_consumers' : isConsumer(m_consumers[k])'
      BY <1>12 DEF isConsumer
    <3> QED BY <1>1, <2>2, <3>1, <3>2, <3>3 DEF ReadsTyped
  <2>4. Quiet' /\ Terminated'
    BY <1>2, <2>1 DEF Quiet, Terminated, Before
  <2>5. PointReadExact'
    BY <2>1, ExactNow DEF answered
  <2>6. askedRows' = rows /\ rows \in Seq(Row)
    <3>1. askedRows' = rows
      BY <2>2, AskedNow DEF rows
    <3>2. rows \in Seq(Row)
      BY <1>1, RowIdFilter DEF rows
    <3> QED BY <3>1, <3>2
  <2>7. /\ m_consumers'[ret'.thread + 1] = d /\ ret'.thread + 1 \in DOMAIN m_consumers'
        /\ connection' = o.conn
    <3>1. m_consumers'[ret'.thread + 1] = d /\ ret'.thread + 1 \in DOMAIN m_consumers'
      BY <1>6, <1>11, <2>2
    <3> QED BY <1>10, <3>1 DEF connection
  <2>8. Len(rows) \in Nat /\ Len(rows) # 0 /\ Len(ret'.rows) = 0
    BY <1>8, <1>14, <2>2, <2>6
  <2>9. Filling'
    <3>1. HasNextRow(o.conn)
      BY <1>14 DEF found
    <3>2. o.conn.cursor = 0 + 1 /\ o.conn.m_last_fetched_row = <<rows[0 + 1]>>
          /\ o.conn.result = rows /\ o.conn.m_use_binary_protocol = TRUE
      BY <1>8, <1>14
    <3>3. isConn(connection)'
      BY <1>8, <2>7 DEF isConn
    <3>4. HasNextRow(connection)' <=> HasNextRow(o.conn)
      BY <2>7 DEF HasNextRow
    <3>5. 0 <= Len(rows) /\ 0 < Len(rows) /\ 1 .. 0 = {}
      BY <2>8
    <3>6. m_consumers'[ret'.thread + 1].conn = <<connection'>>
      BY <1>10, <2>7
    <3> QED BY <2>2, <2>6, <2>7, <2>8, <3>1, <3>2, <3>3, <3>4, <3>5, <3>6 DEF Filling
  <2> QED BY <2>3, <2>4, <2>5, <2>9 DEF ReadInv
<1> QED BY <1>13, <1>14

\* What a chunk that is being filled has to do with the statement.
LEMMA FillingNow ==
    ASSUME QInv, call = "filling"
    PROVE  /\ ret.op = "rows" /\ ret.err = 0 /\ isAnswer(ret)
           /\ ret.partition \in Nat /\ ret.size \in Nat /\ ret.rows \in Seq(Row)
           /\ ret.thread + 1 \in DOMAIN m_consumers
           /\ m_consumers[ret.thread + 1].conn = <<connection>> /\ isConn(connection)
           /\ connection.result = askedRows /\ connection.m_use_binary_protocol = TRUE
           /\ askedRows \in Seq(Row) /\ inOrder(askedRows, withIds(ret.partition, ret.ids))
           /\ Len(ret.rows) \in Nat /\ Len(askedRows) \in Nat /\ Len(ret.rows) <= Len(askedRows)
           /\ \A k \in 1 .. Len(ret.rows) : ret.rows[k] = askedRows[k]
           /\ HasNextRow(connection) =>
                 /\ Len(ret.rows) < Len(askedRows) /\ connection.cursor = Len(ret.rows) + 1
                 /\ connection.m_last_fetched_row = <<askedRows[Len(ret.rows) + 1]>>
                 /\ fetchedRow = askedRows[Len(ret.rows) + 1]
           /\ ~HasNextRow(connection) => Len(ret.rows) = Len(askedRows) /\ Len(ret.rows) > 0
<1>1. ret.partition \in Nat /\ ret.size \in Nat /\ ret.rows \in Seq(Row) /\ isAnswer(ret)
  BY DEF QInv, ReadInv, ReadsTyped
<1>2. askedRows \in Seq(Row) /\ inOrder(askedRows, withIds(ret.partition, ret.ids))
  BY <1>1, RowIdFilter DEF askedRows
<1>3. Len(ret.rows) \in Nat /\ Len(askedRows) \in Nat
  BY <1>1, <1>2
<1>4. /\ ret.op = "rows" /\ ret.err = 0
      /\ ret.thread + 1 \in DOMAIN m_consumers
      /\ m_consumers[ret.thread + 1].conn = <<connection>> /\ isConn(connection)
      /\ connection.result = askedRows /\ connection.m_use_binary_protocol = TRUE
      /\ Len(ret.rows) <= Len(askedRows)
      /\ \A k \in 1 .. Len(ret.rows) : ret.rows[k] = askedRows[k]
      /\ HasNextRow(connection) =>
            /\ Len(ret.rows) < Len(askedRows) /\ connection.cursor = Len(ret.rows) + 1
            /\ connection.m_last_fetched_row = <<askedRows[Len(ret.rows) + 1]>>
      /\ ~HasNextRow(connection) => Len(ret.rows) = Len(askedRows) /\ Len(ret.rows) > 0
  BY DEF QInv, ReadInv, Filling
<1>5. HasNextRow(connection) => fetchedRow = askedRows[Len(ret.rows) + 1]
  BY <1>4 DEF fetchedRow
<1> QED BY <1>1, <1>2, <1>3, <1>4, <1>5

\* A call that fails while the chunk is filled.
LEMMA FillFails ==
    ASSUME QInv, pc = "open", UNCHANGED pc, call = "filling", call' = "idle",
           \A k \in DOMAIN m_consumers' : isConsumer(m_consumers'[k]),
           ret' = [ret EXCEPT !.rows = <<>>, !.err = ServerError]
    PROVE  ReadInv'
<1>1. isAnswer(ret) /\ ret.partition \in Nat /\ ret.size \in Nat
  BY FillingNow
<1>2. ret' = answer(ret.op, ret.thread, ret.partition, ret.ids, ret.size, <<>>, ServerError)
  BY <1>1 DEF isAnswer, answer
<1> QED BY <1>1, <1>2, Numbers, Refused

\* A row is written and the next one is fetched.
LEMMA FillRowReads == QInv /\ FillRow => ReadInv'
<1> SUFFICES ASSUME QInv, FillRow PROVE ReadInv'
  OBVIOUS
<1> DEFINE n == Len(ret.rows)
           place == ret.thread + 1
<1>1. /\ pc = "open" /\ UNCHANGED pc /\ call = "filling" /\ HasNextRow(connection)
      /\ \/ \E o \in Advance(connection) :
               /\ m_consumers' = [m_consumers EXCEPT ![place].conn = <<o.conn>>]
               /\ ret' = [ret EXCEPT !.rows = IF o.threw THEN <<>> ELSE Append(@, fetchedRow),
                                     !.err = o.code]
               /\ call' = IF o.threw THEN "idle" ELSE "filling"
         \/ /\ ret' = [ret EXCEPT !.rows = <<>>, !.err = ServerError]
            /\ call' = "idle" /\ UNCHANGED m_consumers
  BY DEF FillRow
<1>2. CASE /\ ret' = [ret EXCEPT !.rows = <<>>, !.err = ServerError]
           /\ call' = "idle" /\ UNCHANGED m_consumers
  <2>1. \A k \in DOMAIN m_consumers' : isConsumer(m_consumers'[k])
    BY <1>2 DEF QInv, ReadInv, ReadsTyped
  <2> QED BY <1>1, <1>2, <2>1, FillFails
<1>3. CASE \E o \in Advance(connection) :
              /\ m_consumers' = [m_consumers EXCEPT ![place].conn = <<o.conn>>]
              /\ ret' = [ret EXCEPT !.rows = IF o.threw THEN <<>> ELSE Append(@, fetchedRow),
                                    !.err = o.code]
              /\ call' = IF o.threw THEN "idle" ELSE "filling"
  <2>1. PICK o \in Advance(connection) :
           /\ m_consumers' = [m_consumers EXCEPT ![place].conn = <<o.conn>>]
           /\ ret' = [ret EXCEPT !.rows = IF o.threw THEN <<>> ELSE Append(@, fetchedRow),
                                 !.err = o.code]
           /\ call' = IF o.threw THEN "idle" ELSE "filling"
    BY <1>3
  <2>2. /\ isAnswer(ret) /\ ret.partition \in Nat /\ ret.size \in Nat /\ ret.rows \in Seq(Row)
        /\ place \in DOMAIN m_consumers /\ isConn(connection)
        /\ connection.result = askedRows /\ connection.m_use_binary_protocol = TRUE
        /\ askedRows \in Seq(Row) /\ n \in Nat /\ Len(askedRows) \in Nat /\ n < Len(askedRows)
        /\ \A k \in 1 .. n : ret.rows[k] = askedRows[k]
        /\ connection.cursor = n + 1 /\ fetchedRow = askedRows[n + 1] /\ ret.op = "rows"
    BY <1>1, FillingNow
  <2>3. /\ isConn(o.conn)
        /\ \/ o.threw = TRUE /\ o.code = ServerError
           \/ /\ o.threw = FALSE /\ o.code = 0
              /\ o.conn.result = askedRows /\ o.conn.m_use_binary_protocol = TRUE
              /\ \/ n + 1 = Len(askedRows) /\ o.conn.m_last_fetched_row = <<>>
                 \/ /\ n + 1 # Len(askedRows) /\ o.conn.cursor = (n + 1) + 1
                    /\ o.conn.m_last_fetched_row = <<askedRows[(n + 1) + 1]>>
    <3>1. PICK k : k = connection
      OBVIOUS
    <3>2. isConn(k) /\ k.m_use_binary_protocol = TRUE /\ o \in Advance(k)
          /\ k.result = askedRows /\ k.cursor = n + 1
      BY <2>1, <2>2, <3>1
    <3>3. isConn(o.conn) /\ nextFetched(o, k)
      BY <3>2, AdvanceOf
    <3> HIDE DEF n
    <3> QED BY <3>2, <3>3 DEF nextFetched
  <2>4. PICK d : d = [m_consumers[place] EXCEPT !.conn = <<o.conn>>]
    OBVIOUS
  <2>5. isConsumer(d) /\ d.conn = <<o.conn>>
    <3>1. m_consumers[place] = [conn |-> m_consumers[place].conn,
                                node |-> m_consumers[place].node]
      BY <2>2 DEF QInv, ReadInv, ReadsTyped, isConsumer
    <3> QED BY <2>3, <2>4, <3>1, ConsumerWith
  <2>6. m_consumers' = [m_consumers EXCEPT ![place] = d]
    BY <2>1, <2>4
  <2>7. \A k \in DOMAIN m_consumers' : isConsumer(m_consumers'[k])
    BY <2>5, <2>6, ConsumersKept DEF QInv, ReadInv
  <2>8. CASE o.threw = TRUE
    <3>1. call' = "idle" /\ ret' = [ret EXCEPT !.rows = <<>>, !.err = ServerError]
      BY <2>1, <2>3, <2>8
    <3> QED BY <1>1, <2>7, <3>1, FillFails
  <2>9. CASE o.threw = FALSE
    <3>1. call' = "filling" /\ o.code = 0
      BY <2>1, <2>3, <2>9
    <3>2. PICK rows : rows = Append(ret.rows, fetchedRow)
      OBVIOUS
    <3>3. fetchedRow \in Row
      <4>1. n + 1 \in 1 .. Len(askedRows)
        BY <2>2
      <4> QED BY <2>2, <4>1
    <3>4. /\ rows \in Seq(Row) /\ Len(rows) = n + 1 /\ rows[n + 1] = fetchedRow
          /\ \A k \in 1 .. n : rows[k] = ret.rows[k]
      BY <2>2, <3>2, <3>3
    <3>5. ret' = [ret EXCEPT !.rows = rows, !.err = 0]
      BY <2>1, <2>9, <3>1, <3>2
    <3>6. ret' = answer(ret.op, ret.thread, ret.partition, ret.ids, ret.size, rows, 0)
      BY <2>2, <3>5 DEF isAnswer, answer
    <3>7. /\ isAnswer(ret') /\ ret'.op = "rows" /\ ret'.thread = ret.thread
          /\ ret'.partition = ret.partition /\ ret'.ids = ret.ids /\ ret'.size = ret.size
          /\ ret'.rows = rows /\ ret'.err = 0
      BY <2>2, <3>6, AnswerFields
    <3>8. ReadsTyped'
      <4>1. isAnswer(ret)'
        BY <3>7 DEF isAnswer
      <4>2. \A k \in DOMAIN m_consumers' : isConsumer(m_consumers[k])'
        BY <2>7 DEF isConsumer
      <4> QED BY <2>2, <3>4, <3>7, <4>1, <4>2 DEF ReadsTyped
    <3>9. Quiet' /\ Terminated'
      BY <1>1, <3>1 DEF Quiet, Terminated, Before
    <3>10. PointReadExact'
      BY <3>1, ExactNow DEF answered
    <3>11. askedRows' = askedRows
      BY <3>7, AskedNow DEF askedRows
    <3>12. /\ ret'.thread + 1 \in DOMAIN m_consumers' /\ connection' = o.conn
           /\ m_consumers'[ret'.thread + 1].conn = <<connection'>>
      <4>1. m_consumers'[ret'.thread + 1] = d /\ ret'.thread + 1 \in DOMAIN m_consumers'
        BY <2>2, <2>6, <3>7
      <4>2. connection' = o.conn
        BY <2>5, <4>1 DEF connection
      <4> QED BY <2>5, <4>1, <4>2
    <3>13. \A k \in 1 .. (n + 1) : rows[k] = askedRows[k]
      <4> TAKE k \in 1 .. (n + 1)
      <4>1. k \in 1 .. n \/ k = n + 1
        BY <2>2
      <4> QED BY <2>2, <3>4, <4>1
    <3>14. Filling'
      <4> DEFINE len == Len(askedRows)
      <4>1. n + 1 <= len /\ n + 1 > 0 /\ n + 1 \in Nat /\ len \in Nat
        BY <2>2
      <4>2. isConn(connection)'
        BY <2>3, <3>12 DEF isConn
      <4>3. HasNextRow(connection)' <=> o.conn.m_last_fetched_row # <<>>
        BY <3>12 DEF HasNextRow
      <4>4. Len(ret'.rows) = n + 1 /\ \A k \in 1 .. (n + 1) : ret'.rows[k] = askedRows[k]
        BY <3>4, <3>7, <3>13
      <4>5. o.conn.result = askedRows /\ o.conn.m_use_binary_protocol = TRUE
        BY <2>3, <2>9
      <4>6. CASE n + 1 = len /\ o.conn.m_last_fetched_row = <<>>
        <5> HIDE DEF n, len
        <5> QED BY <3>7, <3>11, <3>12, <4>1, <4>2, <4>3, <4>4, <4>5, <4>6 DEF Filling, len
      <4>7. CASE /\ n + 1 # len /\ o.conn.cursor = (n + 1) + 1
                 /\ o.conn.m_last_fetched_row = <<askedRows[(n + 1) + 1]>>
        <5>1. n + 1 < len /\ <<askedRows[(n + 1) + 1]>> # <<>>
          BY <4>1, <4>7
        <5> HIDE DEF n, len
        <5> QED BY <3>7, <3>11, <3>12, <4>1, <4>2, <4>3, <4>4, <4>5, <4>7, <5>1 DEF Filling, len
      <4> QED BY <2>3, <2>9, <4>6, <4>7
    <3> QED BY <3>8, <3>9, <3>10, <3>14 DEF ReadInv
  <2> QED BY <2>3, <2>8, <2>9
<1> QED BY <1>1, <1>2, <1>3

\* Not even the first row fits.
LEMMA FillTerminatesReads == QInv /\ FillTerminates => ReadInv'
<1> SUFFICES ASSUME QInv, FillTerminates PROVE ReadInv'
  OBVIOUS
<1>1. /\ pc = "open" /\ call = "filling" /\ ret.rows = <<>> /\ ~HasEnoughSpace(fetchedRow)
      /\ pc' = "terminated" /\ UNCHANGED <<m_consumers, call, ret>> /\ UNCHANGED created
  BY DEF FillTerminates, reads
<1>2. Len(ret.rows) = 0
  BY <1>1
<1>3. /\ HasNextRow(connection) /\ fetchedRow = askedRows[0 + 1] /\ 0 < Len(askedRows)
      /\ askedRows \in Seq(Row) /\ Len(askedRows) \in Nat /\ ret.size \in Nat
  BY <1>1, <1>2, FillingNow
<1>4. askedRows[1] \in Row /\ fetchedRow = askedRows[1]
  <2>1. 1 \in 1 .. Len(askedRows)
    BY <1>3
  <2> QED BY <1>3, <2>1
<1>5. askedRows[1].size \in Nat
  BY <1>4 DEF Row
<1>6. ~(0 + askedRows[1].size <= ret.size)
  BY <1>1, <1>4, BytesEmpty DEF HasEnoughSpace
<1>7. ret.size < askedRows[1].size
  BY <1>3, <1>5, <1>6
<1>8. askedRows' = askedRows
  BY <1>1, AskedNow DEF askedRows
<1>9. ReadsTyped' /\ Quiet'
  BY <1>1 DEF QInv, ReadInv, ReadsTyped, Quiet, Before
<1>10. Filling'
  BY <1>1, <1>8 DEF QInv, ReadInv, Filling, connection
<1>11. PointReadExact'
  BY <1>1, ExactNow DEF answered
<1>12. Terminated'
  BY <1>1, <1>7, <1>8 DEF Terminated
<1> QED BY <1>9, <1>10, <1>11, <1>12 DEF ReadInv

\* The chunk is returned: the rows before the next one, which does not fit.
LEMMA FillReturnsReads == QInv /\ FillReturns => ReadInv'
<1> SUFFICES ASSUME QInv, FillReturns PROVE ReadInv'
  OBVIOUS
<1> DEFINE n == Len(ret.rows)
           len == Len(askedRows)
           asked == withIds(ret.partition, ret.ids)
           missing == asked \ Range(ret.rows)
<1>1. /\ pc = "open" /\ call = "filling" /\ ret.rows # <<>> /\ call' = "idle"
      /\ HasNextRow(connection) => ~HasEnoughSpace(fetchedRow)
      /\ UNCHANGED <<pc, m_consumers, ret>> /\ UNCHANGED m_read_type
  BY DEF FillReturns, created
<1>2. /\ ret.op = "rows" /\ ret.err = 0 /\ ret.rows \in Seq(Row)
      /\ askedRows \in Seq(Row) /\ inOrder(askedRows, asked)
      /\ n \in Nat /\ len \in Nat /\ n <= len
      /\ \A k \in 1 .. n : ret.rows[k] = askedRows[k]
      /\ HasNextRow(connection) => n < len /\ fetchedRow = askedRows[n + 1]
      /\ ~HasNextRow(connection) => n = len
  BY <1>1, FillingNow
<1>3. /\ DOMAIN askedRows = 1 .. len /\ DOMAIN ret.rows = 1 .. n /\ n > 0
      /\ Range(askedRows) = asked
      /\ \A j, k \in 1 .. len : j < k => askedRows[j].id < askedRows[k].id
  BY <1>1, <1>2 DEF inOrder
<1> HIDE DEF asked, n, len
<1>4. \A k \in 1 .. n : k \in 1 .. len
  BY <1>2
<1>5. Range(ret.rows) \subseteq asked
  BY <1>2, <1>3, <1>4 DEF Range
<1>6. \A j, k \in 1 .. n : j < k => ret.rows[j].id < ret.rows[k].id
  BY <1>2, <1>3, <1>4
<1>7. ASSUME NEW row \in missing
      PROVE  /\ row.id > Last(ret.rows).id
             /\ \E other \in missing :
                   other.id <= row.id /\ ~(bytes(ret.rows) + other.size <= ret.size)
  <2>1. PICK j \in 1 .. len : row = askedRows[j]
    BY <1>3 DEF Range
  <2>2. j \notin 1 .. n
    BY <1>2, <1>3, <2>1 DEF Range
  <2>3. j > n /\ n + 1 \in 1 .. len /\ n \in 1 .. len /\ n \in 1 .. n /\ j \in Nat /\ n < len
    BY <1>2, <1>3, <2>1, <2>2
  <2>4. Last(ret.rows) = askedRows[n]
    BY <1>2, <2>3 DEF Last, n
  <2>5. \A k \in 1 .. len : askedRows[k].id \in Nat
    <3> TAKE k \in 1 .. len
    <3>1. askedRows[k] \in Row
      BY <1>2, <1>3
    <3> QED BY <3>1 DEF Row
  <2>6. row.id > Last(ret.rows).id
    <3>1. askedRows[n].id < askedRows[j].id
      BY <1>3, <2>1, <2>3
    <3> QED BY <2>1, <2>3, <2>4, <2>5, <3>1
  <2> DEFINE other == askedRows[n + 1]
  <2>7. other \in missing
    <3>1. other \in asked
      BY <1>3, <2>3 DEF Range
    <3>2. \A k \in 1 .. n : ret.rows[k] # other
      <4> TAKE k \in 1 .. n
      <4>1. k < n + 1 /\ k \in 1 .. len
        BY <1>2, <1>4
      <4>2. askedRows[k].id < other.id /\ askedRows[k].id \in Nat
        BY <1>3, <2>3, <2>5, <4>1
      <4>3. askedRows[k] # other
        BY <4>2
      <4> QED BY <1>2, <4>3
    <3> QED BY <1>3, <3>1, <3>2 DEF Range
  <2>8. other.id <= row.id
    <3>1. CASE j = n + 1
      BY <2>1, <2>3, <2>5, <3>1
    <3>2. CASE j # n + 1
      <4>1. n + 1 < j
        BY <1>2, <2>3, <3>2
      <4>2. other.id < row.id
        BY <1>3, <2>1, <2>3, <4>1
      <4>3. other.id \in Nat /\ row.id \in Nat
        BY <2>1, <2>3, <2>5
      <4> QED BY <4>2, <4>3
    <3> QED BY <3>1, <3>2
  <2>9. ~(bytes(ret.rows) + other.size <= ret.size)
    <3>1. HasNextRow(connection)
      BY <1>2, <2>3
    <3> QED BY <1>1, <1>2, <3>1 DEF HasEnoughSpace
  <2> HIDE DEF other, missing
  <2> QED BY <2>6, <2>7, <2>8, <2>9
<1>8. exact(ret, m_read_type)
  BY <1>1, <1>2, <1>3, <1>5, <1>6, <1>7 DEF exact, asked
<1>9. PointReadExact'
  BY <1>1, <1>8, ExactNow
<1>10. ReadsTyped' /\ Quiet' /\ Filling' /\ Terminated'
  BY <1>1 DEF QInv, ReadInv, ReadsTyped, Quiet, Filling, Terminated, Before
<1> QED BY <1>9, <1>10 DEF ReadInv

\* Every step of the point reads.
LEMMA PointReads ==
    ASSUME QInv, (\E t \in Threads : PointRead(t)) \/ FillRow \/ FillTerminates \/ FillReturns
    PROVE  ReadInv'
<1>1. CASE \E t \in Threads : PointRead(t)
  <2>1. PICK t \in Threads : PointRead(t)
    BY <1>1
  <2>2. CASE BadThread(t)
    BY <2>2, BadThreadReads
  <2>3. CASE \E p \in Range(partitions) :
                \/ ConnectFails(t, p)
                \/ \E rowId \in rowIdsOf(p) : GetSingleRow(t, p, rowId)
                \/ GetMultipleRowsNoMemory(t, p)
                \/ \E places \in RowIdSets, size \in ChunkSizes :
                      GetMultipleRows(t, p, {keyOf(p, k) : k \in places}, size)
    <3>1. PICK p \in Range(partitions) :
                \/ ConnectFails(t, p)
                \/ \E rowId \in rowIdsOf(p) : GetSingleRow(t, p, rowId)
                \/ GetMultipleRowsNoMemory(t, p)
                \/ \E places \in RowIdSets, size \in ChunkSizes :
                      GetMultipleRows(t, p, {keyOf(p, k) : k \in places}, size)
      BY <2>3
    <3>2. CASE ConnectFails(t, p) \/ GetMultipleRowsNoMemory(t, p)
      BY <3>2, NoRead
    <3>3. CASE \E rowId \in rowIdsOf(p) : GetSingleRow(t, p, rowId)
      BY <3>3, SingleRowReads
    <3>4. CASE \E places \in RowIdSets, size \in ChunkSizes :
                  GetMultipleRows(t, p, {keyOf(p, k) : k \in places}, size)
      <4>1. PICK places \in RowIdSets, size \in ChunkSizes :
               GetMultipleRows(t, p, {keyOf(p, k) : k \in places}, size)
        BY <3>4
      <4>2. PICK ids : ids = {keyOf(p, k) : k \in places}
        OBVIOUS
      <4>3. GetMultipleRows(t, p, ids, size)
        BY <4>1, <4>2
      <4> QED BY <4>3, MultipleRowsReads
    <3> QED BY <3>1, <3>2, <3>3, <3>4
  <2> QED BY <2>1, <2>2, <2>3 DEF PointRead
<1>2. CASE FillRow \/ FillTerminates \/ FillReturns
  BY <1>2, FillRowReads, FillTerminatesReads, FillReturnsReads
<1> QED BY <1>1, <1>2

\* Nothing moves.
LEMMA ReadsStutter == QInv /\ UNCHANGED qvars => ReadInv'
<1> SUFFICES ASSUME QInv, UNCHANGED qvars PROVE ReadInv'
  OBVIOUS
<1>1. UNCHANGED <<pc, call, ret, m_consumers>> /\ UNCHANGED m_read_type
  BY DEF qvars, reads, created
<1>2. askedRows' = askedRows
  BY <1>1, AskedNow DEF askedRows
<1>3. ReadsTyped' /\ Quiet'
  BY <1>1 DEF QInv, ReadInv, ReadsTyped, Quiet
<1>4. Filling' /\ Terminated'
  BY <1>1, <1>2 DEF QInv, ReadInv, Filling, Terminated, connection
<1>5. PointReadExact'
  BY <1>1, ExactNow DEF QInv, ReadInv, answered
<1> QED BY <1>3, <1>4, <1>5 DEF ReadInv

\* GetSingleRow and GetMultipleRows, and the creation before them, keep the whole
\* invariant.
THEOREM QueueInvariance == QSpec => []QInv
<1>1. QInit => QInv
  <2> SUFFICES ASSUME QInit PROVE QInv
    OBVIOUS
  <2>1. /\ call = "idle" /\ ret = NoCall /\ pc = "loops" /\ m_consumers = <<>>
    BY DEF QInit
  <2>2. NoCall = answer("none", 0, 0, {}, 0, <<>>, 0)
    BY DEF NoCall, answer
  <2>3. /\ isAnswer(ret) /\ ret.op = "none" /\ ret.partition = 0 /\ ret.size = 0
        /\ ret.rows = <<>>
    BY <2>1, <2>2, AnswerFields
  <2>4. ReadsTyped
    <3>1. <<>> \in Seq(Row) /\ 0 \in Nat
      OBVIOUS
    <3> QED BY <2>1, <2>3, <3>1 DEF ReadsTyped
  <2>5. Quiet /\ Filling /\ PointReadExact /\ Terminated
    BY <2>1, <2>3 DEF Quiet, Filling, PointReadExact, answered, Terminated
  <2> QED BY <2>4, <2>5, CreationInit DEF QInv, ReadInv
<1>2. QInv /\ [QNext]_qvars => QInv'
  <2> SUFFICES ASSUME QInv, [QNext]_qvars PROVE QInv'
    OBVIOUS
  <2>1. CASE Create
    <3>1. CreationInv'
      BY <2>1, LoopsAction, AskingAction, NextReaderAction, StartReadersAction DEF Create, QInv
    <3> QED BY <2>1, <3>1, CreateReads DEF QInv
  <2>2. CASE (\E t \in Threads : PointRead(t)) \/ FillRow \/ FillTerminates \/ FillReturns
    BY <2>2, PointReadAction, PointReads DEF QInv
  <2>3. CASE UNCHANGED qvars
    BY <2>3, CreationStutters, ReadsStutter DEF QInv
  <2> QED BY <2>1, <2>2, <2>3 DEF QNext
<1> QED BY <1>1, <1>2, PTL DEF QSpec

\* GetChunkRow and GetChunkMultipleRows give an error or exactly the rows asked for,
\* whatever an earlier call of the thread left in its connection.
THEOREM PointReadsExact == QSpec => []PointReadExact
<1>1. QInv => PointReadExact
  BY DEF QInv, ReadInv
<1> QED BY <1>1, QueueInvariance, PTL

\* The process ends, or memory outside of a vector is read, only where the caller
\* passed a chunk smaller than the first row, or no reader thread, or asks a queue
\* without partitions.
THEOREM TerminationExplained == QSpec => []NoTermination
<1>1. QInv => NoTermination
  BY DEF QInv, ReadInv, CreationInv, Open, Terminated, NoTermination
<1> QED BY <1>1, QueueInvariance, PTL

=============================================================================
