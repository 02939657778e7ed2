-------------------------- MODULE PartitionsProofs --------------------------
(***************************************************************************)
(* The partitions are dealt out exactly: for any number of workers,        *)
(* partitions and consumers, the lists of the workers cover every          *)
(* partition and no two of them share one, and so do the lists of the      *)
(* consumers of a worker with the partitions of that worker.               *)
(***************************************************************************)
EXTENDS Partitions, TLAPS

\* p is one of the values of the loop.
loopHits(p, f, t, n) == \E k \in 1 .. loopLength(f, t, n) : p = f + (k - 1) * n

\* The loop `for (i = f; i < t; i += n)` started at f < n goes through exactly
\* the numbers below t that are f modulo n.
LEMMA LoopValues ==
    ASSUME NEW n \in Nat \ {0}, NEW f \in Nat, f < n, NEW t \in Nat, NEW p \in Nat
    PROVE  loopHits(p, f, t, n) <=> (p < t /\ p % n = f)
<1>1. ASSUME NEW k \in 1 .. loopLength(f, t, n), p = f + (k - 1) * n
      PROVE  p < t /\ p % n = f
  <2>1. f < t
    BY SMT DEF loopLength
  <2>2. k - 1 \in Nat /\ k - 1 <= (t - 1 - f) \div n
    BY <2>1, SMT DEF loopLength
  <2>3. ((t - 1 - f) \div n) * n <= t - 1 - f /\ (t - 1 - f) \div n \in Nat
    BY <2>1, SMT
  <2>4. (k - 1) * n <= ((t - 1 - f) \div n) * n /\ (k - 1) * n \in Nat
    <3> DEFINE a == k - 1
               b == (t - 1 - f) \div n
    <3>1. a \in Nat /\ b \in Nat /\ a <= b BY <2>2, <2>3
    <3> HIDE DEF a, b
    <3>2. a * n <= b * n /\ a * n \in Nat BY <3>1, SMT
    <3> QED BY <3>2 DEF a, b
  <2>5. p < t
    <3> DEFINE a == (k - 1) * n
               b == ((t - 1 - f) \div n) * n
    <3>1. a \in Nat /\ a <= b /\ b <= t - 1 - f /\ p = f + a /\ b \in Int
      BY <1>1, <2>3, <2>4, SMT
    <3> HIDE DEF a, b
    <3> QED BY <3>1, SMT
  <2>6. p % n = f
    BY <1>1, <2>2, SMT
  <2> QED BY <2>5, <2>6
<1>2. ASSUME p < t, p % n = f
      PROVE  \E k \in 1 .. loopLength(f, t, n) : p = f + (k - 1) * n
  <2>1. p = f + (p \div n) * n /\ p \div n \in Nat
    BY <1>2, SMT
  <2>2. f < t
    BY <1>2, <2>1, SMT
  <2>3. p \div n <= (t - 1 - f) \div n
    BY <1>2, <2>1, <2>2, SMT
  <2>4. (p \div n) + 1 \in 1 .. loopLength(f, t, n)
    BY <2>1, <2>2, <2>3, SMT DEF loopLength
  <2>5. ((p \div n) + 1) - 1 = p \div n
    BY <2>1, SMT
  <2> QED BY <2>1, <2>4, <2>5
<1> QED BY <1>1, <1>2 DEF loopHits

\* The same for a place below n, as the theorems use it.
LEMMA LoopOf ==
    ASSUME NEW n \in Nat \ {0}, NEW f \in 0 .. (n - 1), NEW t \in Nat
    PROVE  \A p \in Nat : loopHits(p, f, t, n) <=> (p < t /\ p % n = f)
<1> TAKE p \in Nat
<1>1. f \in Nat /\ f < n
  OBVIOUS
<1> QED BY <1>1, LoopValues

\* The number of iterations of such a loop is a natural number.
LEMMA LoopLengthType ==
    ASSUME NEW n \in Nat \ {0}, NEW f \in Nat, NEW t \in Nat
    PROVE  loopLength(f, t, n) \in Nat
<1>1. CASE f >= t
  BY <1>1 DEF loopLength
<1>2. CASE f < t
  <2>1. (t - 1 - f) \div n \in Nat BY <1>2, SMT
  <2> QED BY <2>1, <1>2, SMT DEF loopLength
<1> QED BY <1>1, <1>2, SMT

\* WorkerPartitions: a worker reads the partitions whose number is its own
\* modulo the number of workers.  As every number has one remainder, the
\* workers together read every partition, each one exactly once.
THEOREM WorkersCover ==
    ASSUME NEW numWorkers \in Nat \ {0}, NEW workerId \in 0 .. (numWorkers - 1),
           NEW totalPartitions \in Nat
    PROVE  elements(WorkerPartitions(numWorkers, workerId, totalPartitions)) =
               {p \in 0 .. (totalPartitions - 1) : p % numWorkers = workerId}
<1> DEFINE len == loopLength(workerId, totalPartitions, numWorkers)
           s == WorkerPartitions(numWorkers, workerId, totalPartitions)
<1>1. len \in Nat
  BY LoopLengthType
<1>2. DOMAIN s = 1 .. len /\ \A k \in 1 .. len : s[k] = workerId + (k - 1) * numWorkers
  BY DEF WorkerPartitions
<1>3. \A p \in Nat : p \in elements(s) <=> (p < totalPartitions /\ p % numWorkers = workerId)
  <2> TAKE p \in Nat
  <2>1. p \in elements(s) <=> \E k \in 1 .. len : p = workerId + (k - 1) * numWorkers
    BY <1>2 DEF elements
  <2> QED BY <2>1, LoopOf DEF loopHits
<1>4. elements(s) \subseteq Nat
  <2> SUFFICES ASSUME NEW k \in 1 .. len PROVE workerId + (k - 1) * numWorkers \in Nat
    BY <1>2 DEF elements
  <2>1. k - 1 \in Nat BY <1>1
  <2>2. (k - 1) * numWorkers \in Nat BY <2>1, SMT
  <2> QED BY <2>2, SMT
<1> HIDE DEF s
<1>5. \A p : p \in elements(s) <=> p \in {x \in 0 .. (totalPartitions - 1) : x % numWorkers = workerId}
  BY <1>3, <1>4
<1> QED BY <1>5 DEF s

\* The list of a worker has no partition twice.
LEMMA WorkerListInjective ==
    ASSUME NEW numWorkers \in Nat \ {0}, NEW workerId \in Nat, NEW totalPartitions \in Nat,
           NEW s, s = WorkerPartitions(numWorkers, workerId, totalPartitions),
           NEW j \in DOMAIN s, NEW k \in DOMAIN s, s[j] = s[k]
    PROVE  j = k
<1>1. DOMAIN s = 1 .. loopLength(workerId, totalPartitions, numWorkers)
      /\ \A x \in DOMAIN s : s[x] = workerId + (x - 1) * numWorkers
  BY DEF WorkerPartitions
<1>2. j \in Nat /\ k \in Nat /\ j - 1 \in Int /\ k - 1 \in Int
  <2>1. loopLength(workerId, totalPartitions, numWorkers) \in Nat
    BY LoopLengthType
  <2> QED BY <1>1, <2>1
<1>3. workerId + (j - 1) * numWorkers = workerId + (k - 1) * numWorkers
  BY <1>1
<1>4. (j - 1) * numWorkers = (k - 1) * numWorkers
  BY <1>2, <1>3, SMT
<1>5. j - 1 = k - 1
  <2> DEFINE a == j - 1
             b == k - 1
  <2>1. a \in Int /\ b \in Int /\ a * numWorkers = b * numWorkers BY <1>2, <1>4
  <2> HIDE DEF a, b
  <2>2. a = b BY <2>1, SMT
  <2> QED BY <2>2 DEF a, b
<1> QED BY <1>2, <1>5, SMT

\* ConsumerPartitions: the partition at place i of the worker's list goes to the
\* consumer i modulo the number of consumers and to no other, so that every
\* partition has one queue and every queue waits for the readers it has.
THEOREM ConsumersCover ==
    ASSUME NEW numWorkers \in Nat \ {0}, NEW workerId \in 0 .. (numWorkers - 1),
           NEW totalPartitions \in Nat, NEW nConsumers \in Nat \ {0},
           NEW consumerId \in 0 .. (nConsumers - 1),
           NEW s, s = WorkerPartitions(numWorkers, workerId, totalPartitions),
           NEW i \in 0 .. (Len(s) - 1)
    PROVE  s[i + 1] \in elements(ConsumerPartitions(nConsumers, consumerId, s))
               <=> i % nConsumers = consumerId
<1> DEFINE len == loopLength(workerId, totalPartitions, numWorkers)
           m == loopLength(consumerId, Len(s), nConsumers)
           r == ConsumerPartitions(nConsumers, consumerId, s)
<1>1. len \in Nat /\ DOMAIN s = 1 .. len /\ s \in Seq(Int) /\ Len(s) = len
  <2>1. len \in Nat BY LoopLengthType
  <2>2. s = [k \in 1 .. len |-> workerId + (k - 1) * numWorkers]
    BY DEF WorkerPartitions
  <2>3. \A k \in 1 .. len : workerId + (k - 1) * numWorkers \in Int
    <3> TAKE k \in 1 .. len
    <3>1. k - 1 \in Int BY <2>1
    <3>2. (k - 1) * numWorkers \in Int BY <3>1, SMT
    <3> QED BY <3>2, SMT
  <2> HIDE DEF len
  <2> QED BY <2>1, <2>2, <2>3
<1>2. m \in Nat
  <2>1. Len(s) \in Nat /\ consumerId \in Nat BY <1>1
  <2> QED BY <2>1, LoopLengthType
<1>3. DOMAIN r = 1 .. m /\ \A k \in 1 .. m : r[k] = s[consumerId + (k - 1) * nConsumers + 1]
  BY DEF ConsumerPartitions
<1>4. \A p \in Nat : loopHits(p, consumerId, Len(s), nConsumers)
                        <=> (p < Len(s) /\ p % nConsumers = consumerId)
  <2>1. Len(s) \in Nat BY <1>1
  <2> QED BY <2>1, LoopOf
<1>5. \A k \in 1 .. m : /\ consumerId + (k - 1) * nConsumers \in Nat
                        /\ consumerId + (k - 1) * nConsumers < Len(s)
  <2> TAKE k \in 1 .. m
  <2>1. k - 1 \in Nat BY <1>2
  <2>2. (k - 1) * nConsumers \in Nat BY <2>1, SMT
  <2>3. consumerId + (k - 1) * nConsumers \in Nat BY <2>2, SMT
  <2>4. loopHits(consumerId + (k - 1) * nConsumers, consumerId, Len(s), nConsumers)
    BY DEF loopHits
  <2> QED BY <2>3, <2>4, <1>4
<1> HIDE DEF r, m, len
<1>6. ASSUME s[i + 1] \in elements(r) PROVE i % nConsumers = consumerId
  <2>1. PICK k \in 1 .. m : s[i + 1] = s[consumerId + (k - 1) * nConsumers + 1]
    BY <1>3, <1>6 DEF elements
  <2> DEFINE p == consumerId + (k - 1) * nConsumers
  <2>2. p \in Nat /\ p < Len(s)
    BY <1>5
  <2>3. i + 1 \in DOMAIN s /\ p + 1 \in DOMAIN s
    <3> HIDE DEF p
    <3> QED BY <1>1, <2>2
  <2>4. s[i + 1] = s[p + 1]
    BY <2>1
  <2>5. i + 1 = p + 1
    <3> HIDE DEF p
    <3> QED BY <2>3, <2>4, WorkerListInjective
  <2>6. i = p
    <3> HIDE DEF p
    <3> QED BY <2>2, <2>5
  <2>7. loopHits(i, consumerId, Len(s), nConsumers)
    BY <2>6 DEF loopHits, m
  <2>8. i \in Nat
    BY <1>1
  <2> QED BY <2>7, <2>8, <1>4
<1>7. ASSUME i % nConsumers = consumerId PROVE s[i + 1] \in elements(r)
  <2>1. i \in Nat /\ i < Len(s)
    BY <1>1
  <2>2. PICK k \in 1 .. m : i = consumerId + (k - 1) * nConsumers
    <3>1. loopHits(i, consumerId, Len(s), nConsumers) BY <2>1, <1>4, <1>7
    <3> QED BY <3>1 DEF loopHits, m
  <2>3. r[k] = s[i + 1]
    BY <2>2, <1>3
  <2> QED BY <2>3, <1>3 DEF elements
<1> QED BY <1>6, <1>7 DEF r
=============================================================================
