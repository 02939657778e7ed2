-------------------------- MODULE BatchQueueProofs --------------------------
(***************************************************************************)
(* Proofs about BatchQueue for any sets of readers and consumers, any      *)
(* batch size and any number of chunks: the queue never overwrites a chunk *)
(* nobody has read, never loses or duplicates one, its counters agree with *)
(* its contents, the first pass keeps the order of every partition, Get    *)
(* returns what was asked for, and the queue implements its interface.     *)
(* Then proofs about MultiPassRead, which reads through the queue: the end *)
(* of the first pass is complete, and a CAS thread that asks again for the *)
(* chunks of its first pass, in their order, is never told that there is   *)
(* no such chunk.                                                          *)
(***************************************************************************)
EXTENDS MultiPassRead, FiniteSetTheorems, TLAPS

-----------------------------------------------------------------------------
(* The inductive invariant.                                                *)

first == m_currentBatch * BatchSize

filled(d) == {idx \in Slots : d[idx] # NotSet}
filledOf(d, p) == {k \in 0 .. (BatchSize - 1) : d[<<p, k>>] # NotSet}
activeSet(a) == {p \in Producers : a[p]}

\* A slot holds the chunk of the current batch that belongs in it, and that
\* chunk has been pushed.
InWindow ==
    \A idx \in Slots : isSet(idx) =>
        /\ m_dataArray[idx] = first + idx[2]
        /\ m_dataArray[idx] < nextId[idx[1]]

\* How far each reader is: never past the end of the current batch, and an
\* active one has exactly its read and its unread chunks in it.
InBatch ==
    \A p \in Producers :
        /\ nextId[p] <= first + BatchSize
        /\ m_readInBatch[p] + Cardinality(filledOf(m_dataArray, p)) <= BatchSize
        /\ m_producerActive[p] =>
              /\ first <= nextId[p]
              /\ m_readInBatch[p] + Cardinality(filledOf(m_dataArray, p)) = nextId[p] - first

Counts ==
    /\ m_itemsToRead = Cardinality(filled(m_dataArray))
    /\ Len(m_queue) = m_itemsToRead
    /\ m_activeProducers = Cardinality(activeSet(m_producerActive))

\* While consumers pop, m_queue lists chunks that are in their slots, each once.
QueueMatches ==
    pass = "first" /\ drain = "off" =>
        /\ \A i \in 1 .. Len(m_queue) :
              m_dataArray[targetIndex(m_queue[i].partition_id, m_queue[i].id)] = m_queue[i].id
        /\ \A i, j \in 1 .. Len(m_queue) : m_queue[i] = m_queue[j] => i = j

\* The operations of the two passes and of the destructor are not mixed.
Calls ==
    \A c \in Consumers :
        /\ call[c] = "pop" => pass = "first" /\ drain = "off"
        /\ call[c] \in {"get", "getting"} => pass = "later" /\ drain = "off"

Handed ==
    \A k \in Chunk :
        IF k.id < nextId[k.partition_id]
        THEN handed[k] = IF m_dataArray[targetIndex(k.partition_id, k.id)] = k.id THEN 0 ELSE 1
        ELSE handed[k] = 0

IInv ==
    /\ TypeOK
    /\ InWindow
    /\ InBatch
    /\ Counts
    /\ QueueMatches
    /\ Calls
    /\ Handed
-----------------------------------------------------------------------------
(* Lemmas on division, the slots and their number.                         *)

\* A chunk number that is not before the current batch and not after it is in it.
LEMMA InCurrentBatch ==
    ASSUME NEW B \in Nat \ {0}, NEW n \in Nat, NEW b \in Nat,
           n \div B <= b, b * B <= n
    PROVE  n \div B = b /\ n % B = n - b * B
  BY SMT

\* The number of a chunk determines its batch and its place in the batch.
LEMMA PlaceOf ==
    ASSUME NEW B \in Nat \ {0}, NEW b \in Nat, NEW k \in 0 .. (B - 1)
    PROVE  (b * B + k) \div B = b /\ (b * B + k) % B = k
  BY SMT

\* Division is monotonic.
LEMMA BatchOfEarlier ==
    ASSUME NEW B \in Nat \ {0}, NEW n \in Nat, NEW b \in Nat, n < b * B + B
    PROVE  n \div B <= b
  BY SMT

\* Every chunk number has a place among the slots of its reader.
LEMMA PlaceType ==
    ASSUME NEW B \in Nat \ {0}, NEW n \in Nat
    PROVE  n % B \in 0 .. (B - 1)
  BY SMT

\* The fields of a chunk: its reader, its number, and its place.
LEMMA ChunkFields ==
    ASSUME NEW k \in Chunk
    PROVE  /\ k.partition_id \in Producers /\ k.id \in ChunkIds
           /\ k.id \in Nat /\ k.id # NotSet
           /\ k.id % BatchSize \in 0 .. (BatchSize - 1)
<1>1. k.partition_id \in Producers /\ k.id \in ChunkIds
  BY DEF Chunk
<1>2. k.id \in Nat /\ k.id # NotSet
  BY <1>1, BatchAssumption DEF ChunkIds, NotSet
<1>3. k.id % BatchSize \in 0 .. (BatchSize - 1)
  BY <1>2, BatchAssumption, PlaceType
<1> QED BY <1>1, <1>2, <1>3

\* The set of the slots, and every set of slots, is finite.
LEMMA FiniteSlots ==
    /\ IsFiniteSet(Slots)
    /\ IsFiniteSet(0 .. (BatchSize - 1))
    /\ \A d : IsFiniteSet(filled(d))
    /\ \A d, p : IsFiniteSet(filledOf(d, p))
    /\ \A a : IsFiniteSet(activeSet(a))
<1>1. IsFiniteSet(0 .. (BatchSize - 1))
  BY FS_Interval, BatchAssumption
<1>2. IsFiniteSet(Slots)
  BY <1>1, FS_Product, BatchAssumption DEF Slots
<1>3. \A d : IsFiniteSet(filled(d))
  <2> TAKE d
  <2> filled(d) \subseteq Slots BY DEF filled
  <2> QED BY <1>2, FS_Subset
<1>4. \A d, p : IsFiniteSet(filledOf(d, p))
  <2> TAKE d, p
  <2> filledOf(d, p) \subseteq 0 .. (BatchSize - 1) BY DEF filledOf
  <2> QED BY <1>1, FS_Subset
<1>5. \A a : IsFiniteSet(activeSet(a))
  <2> TAKE a
  <2> activeSet(a) \subseteq Producers BY DEF activeSet
  <2> QED BY FS_Subset, BatchAssumption
<1> QED BY <1>1, <1>2, <1>3, <1>4, <1>5

\* Filling an empty slot adds one to the number of full slots of the queue and
\* of its reader, and nothing to the other readers'.
LEMMA FillSlot ==
    ASSUME m_dataArray \in [Slots -> ChunkIds \cup {NotSet}], NEW p \in Producers,
           NEW j \in 0 .. (BatchSize - 1), NEW n \in ChunkIds, m_dataArray[<<p, j>>] = NotSet,
           m_dataArray' = [m_dataArray EXCEPT ![<<p, j>>] = n]
    PROVE  /\ Cardinality(filled(m_dataArray')) = Cardinality(filled(m_dataArray)) + 1
           /\ Cardinality(filledOf(m_dataArray', p)) = Cardinality(filledOf(m_dataArray, p)) + 1
           /\ \A q \in Producers \ {p} : filledOf(m_dataArray', q) = filledOf(m_dataArray, q)
<1>1. <<p, j>> \in Slots /\ n # NotSet
  BY DEF Slots, ChunkIds, NotSet
<1>2. filled(m_dataArray') = filled(m_dataArray) \cup {<<p, j>>} /\ <<p, j>> \notin filled(m_dataArray)
  BY <1>1 DEF filled
<1>3. filledOf(m_dataArray', p) = filledOf(m_dataArray, p) \cup {j} /\ j \notin filledOf(m_dataArray, p)
  BY <1>1 DEF filledOf, Slots
<1>4. \A q \in Producers \ {p} : filledOf(m_dataArray', q) = filledOf(m_dataArray, q)
  BY <1>1 DEF filledOf, Slots
<1>5. Cardinality(filled(m_dataArray')) = Cardinality(filled(m_dataArray)) + 1
  BY <1>2, FS_AddElement, FiniteSlots
<1>6. Cardinality(filledOf(m_dataArray', p)) = Cardinality(filledOf(m_dataArray, p)) + 1
  BY <1>3, FS_AddElement, FiniteSlots
<1> QED BY <1>4, <1>5, <1>6

\* Emptying a full slot takes one from them.
LEMMA ClearSlot ==
    ASSUME m_dataArray \in [Slots -> ChunkIds \cup {NotSet}], NEW p \in Producers,
           NEW j \in 0 .. (BatchSize - 1), m_dataArray[<<p, j>>] # NotSet,
           m_dataArray' = [m_dataArray EXCEPT ![<<p, j>>] = NotSet]
    PROVE  /\ Cardinality(filled(m_dataArray')) = Cardinality(filled(m_dataArray)) - 1
           /\ Cardinality(filledOf(m_dataArray', p)) = Cardinality(filledOf(m_dataArray, p)) - 1
           /\ \A q \in Producers \ {p} : filledOf(m_dataArray', q) = filledOf(m_dataArray, q)
<1>1. <<p, j>> \in Slots
  BY DEF Slots
<1>2. filled(m_dataArray') = filled(m_dataArray) \ {<<p, j>>} /\ <<p, j>> \in filled(m_dataArray)
  BY <1>1 DEF filled
<1>3. filledOf(m_dataArray', p) = filledOf(m_dataArray, p) \ {j} /\ j \in filledOf(m_dataArray, p)
  BY <1>1 DEF filledOf, Slots
<1>4. \A q \in Producers \ {p} : filledOf(m_dataArray', q) = filledOf(m_dataArray, q)
  BY <1>1 DEF filledOf, Slots
<1>5. Cardinality(filled(m_dataArray')) = Cardinality(filled(m_dataArray)) - 1
  BY <1>2, FS_RemoveElement, FiniteSlots
<1>6. Cardinality(filledOf(m_dataArray', p)) = Cardinality(filledOf(m_dataArray, p)) - 1
  BY <1>3, FS_RemoveElement, FiniteSlots
<1> QED BY <1>4, <1>5, <1>6
-----------------------------------------------------------------------------
(* The invariant is inductive.                                             *)

\* A queue that was just constructed satisfies the inductive invariant.
LEMMA InitIInv == Init => IInv
<1> SUFFICES ASSUME Init PROVE IInv
  OBVIOUS
<1> USE DEF Init
<1>1. Cardinality(Producers) \in Nat /\ Cardinality({}) = 0
  BY BatchAssumption, FS_CardinalityType, FS_EmptySet
<1>2. \A idx \in Slots : ~isSet(idx)
  BY DEF isSet
<1>3. filled(m_dataArray) = {} /\ \A p \in Producers : filledOf(m_dataArray, p) = {}
  BY DEF filled, filledOf, Slots
<1>4. TypeOK
  BY <1>1, BatchAssumption DEF TypeOK, NoRequest
<1>5. InWindow
  BY <1>2 DEF InWindow
<1>6. InBatch
  <2>1. first = 0
    BY BatchAssumption DEF first
  <2>2. SUFFICES ASSUME NEW p \in Producers
                 PROVE  /\ nextId[p] <= first + BatchSize
                        /\ m_readInBatch[p] + Cardinality(filledOf(m_dataArray, p)) <= BatchSize
                        /\ first <= nextId[p]
                        /\ m_readInBatch[p] + Cardinality(filledOf(m_dataArray, p)) = nextId[p] - first
    BY DEF InBatch
  <2>3. Cardinality(filledOf(m_dataArray, p)) = 0 /\ nextId[p] = 0 /\ m_readInBatch[p] = 0
    BY <1>1, <1>3
  <2> QED BY <2>1, <2>3, BatchAssumption
<1>7. Counts
  <2> activeSet(m_producerActive) = Producers BY DEF activeSet
  <2> QED BY <1>1, <1>3 DEF Counts
<1>8. QueueMatches
  BY DEF QueueMatches
<1>9. Calls
  BY DEF Calls
<1>10. Handed
  BY DEF Handed, Chunk, ChunkIds
<1> QED BY <1>4, <1>5, <1>6, <1>7, <1>8, <1>9, <1>10 DEF IInv

\* Steps that change only who waits, who calls and what they ask for.
LEMMA QuietStep ==
    ASSUME IInv, UNCHANGED <<queueVars, nextId, handed, pass>>, TypeOK', Calls',
           drain' = "off" => drain = "off"
    PROVE  IInv'
<1> USE DEF IInv, queueVars
<1>1. InWindow'
  BY DEF InWindow, isSet, first
<1>2. InBatch'
  BY DEF InBatch, first
<1>3. Counts'
  BY DEF Counts
<1>4. QueueMatches'
  BY DEF QueueMatches, targetIndex
<1>5. Handed'
  BY DEF Handed, targetIndex
<1> QED BY <1>1, <1>2, <1>3, <1>4, <1>5

\* What resetIfFinished does to the invariant's parts on the batch, once the
\* counters it is given are right.
LEMMA ResetStep ==
    ASSUME TypeOK, NEW read \in [Producers -> 0 .. BatchSize],
           resetIfFinished(m_producerActive', read, m_itemsToRead'),
           m_itemsToRead' \in Nat,
           m_dataArray' \in [Slots -> ChunkIds \cup {NotSet}],
           nextId' \in [Producers -> 0 .. MaxChunks],
           m_itemsToRead' = Cardinality(filled(m_dataArray')),
           \A idx \in Slots : m_dataArray'[idx] # NotSet =>
               m_dataArray'[idx] = first + idx[2] /\ m_dataArray'[idx] < nextId'[idx[1]],
           \A p \in Producers :
               /\ nextId'[p] <= first + BatchSize
               /\ read[p] + Cardinality(filledOf(m_dataArray', p)) <= BatchSize
               /\ m_producerActive'[p] =>
                     /\ first <= nextId'[p]
                     /\ read[p] + Cardinality(filledOf(m_dataArray', p)) = nextId'[p] - first
    PROVE  /\ InWindow' /\ InBatch'
           /\ m_currentBatch' \in Nat
           /\ m_readInBatch' \in [Producers -> 0 .. BatchSize]
           /\ busyWaiters' \in SUBSET Producers
           /\ dataWaiters' \in [Producers -> SUBSET Consumers]
<1> USE BatchAssumption DEF TypeOK
<1> DEFINE d == m_dataArray'
<1>1. CASE isBatchFinished(m_producerActive', read, m_itemsToRead')
  <2>1. m_readInBatch' = [p \in Producers |-> 0] /\ m_currentBatch' = m_currentBatch + 1
        /\ busyWaiters' = {} /\ dataWaiters' = [p \in Producers |-> {}]
    BY <1>1 DEF resetIfFinished, resetBatch
  <2>2. first' = first + BatchSize /\ first \in Nat
    BY <2>1 DEF first
  <2>3. filled(d) = {}
    BY <1>1, FiniteSlots, FS_EmptySet DEF isBatchFinished
  <2>4. \A p \in Producers : filledOf(d, p) = {}
    BY <2>3 DEF filled, filledOf, Slots
  <2>5. InWindow'
    BY <2>3 DEF InWindow, isSet, filled
  <2>6. InBatch'
    <3> SUFFICES ASSUME NEW p \in Producers
                 PROVE  /\ nextId'[p] <= first' + BatchSize
                        /\ m_readInBatch'[p] + Cardinality(filledOf(d, p)) <= BatchSize
                        /\ m_producerActive'[p] =>
                              /\ first' <= nextId'[p]
                              /\ m_readInBatch'[p] + Cardinality(filledOf(d, p)) = nextId'[p] - first'
      BY DEF InBatch
    <3>1. Cardinality(filledOf(d, p)) = 0 /\ m_readInBatch'[p] = 0
      BY <2>1, <2>4, FS_EmptySet
    <3>2. nextId'[p] \in Nat /\ nextId'[p] <= first + BatchSize
      OBVIOUS
    <3>3. m_producerActive'[p] => nextId'[p] = first + BatchSize
      <4> HAVE m_producerActive'[p]
      <4>1. read[p] = BatchSize BY <1>1 DEF isBatchFinished
      <4>2. read[p] + Cardinality(filledOf(d, p)) = nextId'[p] - first OBVIOUS
      <4> QED BY <4>1, <4>2, <3>1, <3>2, <2>2
    <3> HIDE DEF d
    <3> QED BY <3>1, <3>2, <3>3, <2>2
  <2> QED BY <2>1, <2>5, <2>6
<1>2. CASE ~isBatchFinished(m_producerActive', read, m_itemsToRead')
  <2>1. m_readInBatch' = read /\ UNCHANGED <<m_currentBatch, busyWaiters, dataWaiters>>
    BY <1>2 DEF resetIfFinished
  <2>2. first' = first
    BY <2>1 DEF first
  <2>3. InWindow'
    BY <2>2 DEF InWindow, isSet
  <2>4. InBatch'
    BY <2>1, <2>2 DEF InBatch
  <2> QED BY <2>1, <2>3, <2>4
<1> QED BY <1>1, <1>2

\* Taking the chunk out of a full slot, with the m_queue.pop() that goes with it.
LEMMA ReadStep ==
    ASSUME IInv, NEW p \in Producers, NEW j \in 0 .. (BatchSize - 1), isSet(<<p, j>>),
           readValue(<<p, j>>), m_queue' = Tail(m_queue),
           handOut([partition_id |-> p, id |-> m_dataArray[<<p, j>>]]),
           UNCHANGED <<m_producerActive, m_activeProducers, nextId>>
    PROVE  /\ InWindow' /\ InBatch' /\ Counts' /\ Handed'
           /\ m_queue # <<>>
           /\ m_queue' \in Seq(Chunk)
           /\ m_currentBatch' \in Nat
           /\ m_readInBatch' \in [Producers -> 0 .. BatchSize]
           /\ m_itemsToRead' \in Nat
           /\ m_dataArray' = [m_dataArray EXCEPT ![<<p, j>>] = NotSet]
           /\ m_dataArray' \in [Slots -> ChunkIds \cup {NotSet}]
           /\ busyWaiters' \in SUBSET Producers
           /\ dataWaiters' \in [Producers -> SUBSET Consumers]
           /\ handed' \in [Chunk -> Nat]
<1> USE BatchAssumption
<1> DEFINE d == m_dataArray
           e == m_dataArray'
           read == [m_readInBatch EXCEPT ![p] = @ + 1]
<1>1. TypeOK /\ InWindow /\ InBatch /\ Counts /\ Handed
  BY DEF IInv
<1>2. <<p, j>> \in Slots /\ d \in [Slots -> ChunkIds \cup {NotSet}] /\ d[<<p, j>>] # NotSet
      /\ d[<<p, j>>] \in ChunkIds
  BY <1>1 DEF Slots, TypeOK, isSet
<1>3. /\ m_dataArray' = [d EXCEPT ![<<p, j>>] = NotSet]
      /\ m_itemsToRead' = m_itemsToRead - 1
      /\ resetIfFinished(m_producerActive', read, m_itemsToRead')
  BY DEF readValue
<1>4. /\ Cardinality(filled(e)) = Cardinality(filled(d)) - 1
      /\ Cardinality(filledOf(e, p)) = Cardinality(filledOf(d, p)) - 1
      /\ \A q \in Producers \ {p} : filledOf(e, q) = filledOf(d, q)
  BY <1>2, <1>3, ClearSlot
<1>5. e \in [Slots -> ChunkIds \cup {NotSet}] /\ \A s \in Slots : e[s] # NotSet => s # <<p, j>> /\ e[s] = d[s]
  BY <1>2, <1>3
<1>6. /\ \A q \in Producers : Cardinality(filledOf(d, q)) \in Nat /\ Cardinality(filledOf(e, q)) \in Nat
      /\ Cardinality(filled(d)) \in Nat /\ Cardinality(filled(e)) \in Nat
  BY FiniteSlots, FS_CardinalityType
<1>7. /\ m_itemsToRead - 1 \in Nat /\ m_itemsToRead - 1 = Cardinality(filled(e))
      /\ m_itemsToRead # 0 /\ Len(m_queue) = m_itemsToRead
  BY <1>1, <1>4, <1>6 DEF Counts, TypeOK
<1>8. m_queue # <<>> /\ m_queue' \in Seq(Chunk) /\ Len(m_queue') = m_itemsToRead - 1
  BY <1>1, <1>7 DEF TypeOK
<1>9. \A q \in Producers : read[q] + Cardinality(filledOf(e, q)) = m_readInBatch[q] + Cardinality(filledOf(d, q))
  <2> TAKE q \in Producers
  <2>1. read \in [Producers -> Nat] /\ m_readInBatch[q] \in Nat
        /\ read[q] = IF q = p THEN m_readInBatch[q] + 1 ELSE m_readInBatch[q]
    BY <1>1 DEF TypeOK
  <2> HIDE DEF e, d, read
  <2>2. CASE q = p
    BY <2>1, <2>2, <1>4, <1>6
  <2>3. CASE q # p
    <3>1. filledOf(e, q) = filledOf(d, q) BY <2>3, <1>4
    <3> QED BY <3>1, <2>1, <2>3
  <2> QED BY <2>2, <2>3
<1>10. read \in [Producers -> 0 .. BatchSize]
  <2>1. m_readInBatch[p] + Cardinality(filledOf(d, p)) <= BatchSize /\ m_readInBatch[p] \in Nat
    BY <1>1 DEF InBatch, TypeOK
  <2>2. m_readInBatch[p] + 1 \in 0 .. BatchSize
    <3> HIDE DEF d, e, read
    <3> QED BY <2>1, <1>4, <1>6
  <2> QED BY <2>2, <1>1 DEF TypeOK
<1>11. /\ InWindow' /\ InBatch'
       /\ m_currentBatch' \in Nat
       /\ m_readInBatch' \in [Producers -> 0 .. BatchSize]
       /\ busyWaiters' \in SUBSET Producers
       /\ dataWaiters' \in [Producers -> SUBSET Consumers]
  <2>1. /\ m_producerActive \in [Producers -> BOOLEAN] /\ nextId \in [Producers -> 0 .. MaxChunks]
        /\ nextId' = nextId /\ m_producerActive' = m_producerActive
    BY <1>1 DEF TypeOK
  <2>2. \A s \in Slots : e[s] # NotSet => e[s] = first + s[2] /\ e[s] < nextId'[s[1]]
    BY <1>1, <1>5, <2>1 DEF InWindow, isSet
  <2>3. \A q \in Producers :
               /\ nextId'[q] <= first + BatchSize
               /\ read[q] + Cardinality(filledOf(e, q)) <= BatchSize
               /\ m_producerActive'[q] =>
                     /\ first <= nextId'[q]
                     /\ read[q] + Cardinality(filledOf(e, q)) = nextId'[q] - first
    <3> HIDE DEF read, e
    <3> QED BY <1>1, <1>9, <2>1 DEF InBatch
  <2> HIDE DEF read
  <2> QED BY <1>1, <1>3, <1>5, <1>7, <1>10, <2>1, <2>2, <2>3, ResetStep
<1>12. Counts'
  BY <1>1, <1>3, <1>7, <1>8 DEF Counts, activeSet
<1>13. Handed' /\ handed' \in [Chunk -> Nat]
  <2> DEFINE c == [partition_id |-> p, id |-> d[<<p, j>>]]
  <2>1. c \in Chunk /\ d[<<p, j>>] = first + j /\ d[<<p, j>>] < nextId[p]
    BY <1>1, <1>2 DEF Chunk, InWindow, isSet
  <2>2. d[<<p, j>>] % BatchSize = j
    <3>1. m_currentBatch \in Nat
      BY <1>1 DEF TypeOK
    <3>2. (m_currentBatch * BatchSize + j) % BatchSize = j
      BY <3>1, PlaceOf
    <3> QED BY <3>2, <2>1 DEF first
  <2>3. handed[c] = 0 /\ handed' = [handed EXCEPT ![c] = @ + 1] /\ handed' \in [Chunk -> Nat]
    <3>1. c.partition_id = p /\ c.id = d[<<p, j>>]
      OBVIOUS
    <3>2. handed[c] = 0
      <4> HIDE DEF c
      <4> QED BY <3>1, <2>1, <2>2, <1>1 DEF Handed, targetIndex
    <3>3. handed' = [handed EXCEPT ![c] = @ + 1]
      BY DEF handOut
    <3> QED BY <3>2, <3>3, <2>1, <1>1 DEF TypeOK
  <2>4. SUFFICES ASSUME NEW k \in Chunk
                 PROVE  IF k.id < nextId[k.partition_id]
                        THEN handed'[k] = IF e[<<k.partition_id, k.id % BatchSize>>] = k.id THEN 0 ELSE 1
                        ELSE handed'[k] = 0
    BY <1>3, <2>3 DEF Handed, targetIndex
  <2>5. k.partition_id \in Producers /\ k.id \in ChunkIds /\ k.id \in Nat /\ k.id # NotSet
        /\ k.id % BatchSize \in 0 .. (BatchSize - 1)
    BY ChunkFields
  <2>6. <<k.partition_id, k.id % BatchSize>> \in Slots
    BY <2>5 DEF Slots
  <2>7. IF k.id < nextId[k.partition_id]
        THEN handed[k] = IF d[<<k.partition_id, k.id % BatchSize>>] = k.id THEN 0 ELSE 1
        ELSE handed[k] = 0
    BY <1>1 DEF Handed, targetIndex
  <2>8. CASE k = c
    BY <2>1, <2>2, <2>3, <2>5, <2>8, <1>2, <1>3
  <2>9. CASE k # c
    <3>1. handed'[k] = handed[k]
      BY <2>3, <2>9, <1>1 DEF TypeOK
    <3>2. CASE <<k.partition_id, k.id % BatchSize>> = <<p, j>>
      <4>1. k.partition_id = p /\ e[<<p, j>>] = NotSet
        BY <3>2, <1>2, <1>3
      <4>2. k.id # d[<<p, j>>]
        BY <2>9, <4>1 DEF Chunk
      <4> QED BY <3>1, <3>2, <4>1, <4>2, <2>5, <2>7
    <3>3. CASE <<k.partition_id, k.id % BatchSize>> # <<p, j>>
      <4>1. e[<<k.partition_id, k.id % BatchSize>>] = d[<<k.partition_id, k.id % BatchSize>>]
        BY <3>3, <2>6, <1>2, <1>3
      <4> QED BY <4>1, <3>1, <2>7
    <3> QED BY <3>2, <3>3
  <2> QED BY <2>8, <2>9
<1> QED BY <1>3, <1>5, <1>7, <1>8, <1>11, <1>12, <1>13

\* Push keeps the inductive invariant, whether it waits or fills a slot.
LEMMA PushStep ==
    ASSUME IInv, NEW p \in Producers, Push(p)
    PROVE  IInv'
<1> USE BatchAssumption
<1> DEFINE n == nextId[p]
           j == nextId[p] % BatchSize
<1>1. TypeOK /\ InWindow /\ InBatch /\ Counts /\ QueueMatches /\ Calls /\ Handed
  BY DEF IInv
<1>2. n \in Nat /\ n < MaxChunks /\ n \in ChunkIds /\ n # NotSet
  BY <1>1 DEF Push, CanPush, TypeOK, ChunkIds, NotSet
<1>3. m_producerActive[p] /\ first <= n /\ n <= first + BatchSize /\ n \div BatchSize <= m_currentBatch
      /\ m_currentBatch \in Nat
  BY <1>1 DEF Push, CanPush, InBatch, TypeOK
<1>4. n \div BatchSize = m_currentBatch /\ j = n - first
  <2>1. m_currentBatch * BatchSize <= n
    BY <1>3 DEF first
  <2> QED BY <1>2, <1>3, <2>1, InCurrentBatch DEF first
<1>5. j \in 0 .. (BatchSize - 1) /\ <<p, j>> \in Slots /\ first \in Nat
  <2>1. j \in 0 .. (BatchSize - 1)
    <3> HIDE DEF n
    <3>1. nextId[p] \in Nat BY <1>2 DEF n
    <3> QED BY <3>1, PlaceType
  <2> QED BY <2>1, <1>3 DEF Slots, first
<1>6. m_dataArray[<<p, j>>] = NotSet
  <2>1. m_dataArray[<<p, j>>] # NotSet => m_dataArray[<<p, j>>] = first + j /\ m_dataArray[<<p, j>>] < n
    BY <1>1, <1>5 DEF InWindow, isSet
  <2>2. first + j = n
    BY <1>2, <1>4, <1>5
  <2> QED BY <2>1, <2>2, <1>2
<1>7. /\ m_dataArray' = [m_dataArray EXCEPT ![<<p, j>>] = n]
      /\ m_queue' = Append(m_queue, [partition_id |-> p, id |-> n])
      /\ m_itemsToRead' = m_itemsToRead + 1
      /\ nextId' = [nextId EXCEPT ![p] = n + 1]
      /\ UNCHANGED <<m_producerActive, m_activeProducers, m_currentBatch, m_readInBatch,
                     busyWaiters, call, req, drain, handed, pass>>
      /\ dataWaiters' = [dataWaiters EXCEPT ![p] = {}]
      /\ emptyWaiters' \subseteq emptyWaiters
  BY DEF Push, targetIndex, notifyOneEmpty
<1>8. /\ Cardinality(filled(m_dataArray')) = Cardinality(filled(m_dataArray)) + 1
      /\ Cardinality(filledOf(m_dataArray', p)) = Cardinality(filledOf(m_dataArray, p)) + 1
      /\ \A q \in Producers \ {p} : filledOf(m_dataArray', q) = filledOf(m_dataArray, q)
  BY <1>1, <1>2, <1>5, <1>6, <1>7, FillSlot DEF TypeOK
<1>9. /\ \A q \in Producers : Cardinality(filledOf(m_dataArray, q)) \in Nat
      /\ Cardinality(filled(m_dataArray)) \in Nat
  BY FiniteSlots, FS_CardinalityType
<1>10. [partition_id |-> p, id |-> n] \in Chunk
  BY <1>2 DEF Chunk
<1> HIDE DEF n, j
<1>11. nextId' \in [Producers -> 0 .. MaxChunks] /\ nextId'[p] = n + 1
       /\ \A q \in Producers \ {p} : nextId'[q] = nextId[q]
  BY <1>1, <1>2, <1>7 DEF TypeOK
<1>12. TypeOK'
  <2>1. m_queue' \in Seq(Chunk) /\ m_itemsToRead' \in Nat
    BY <1>1, <1>7, <1>10 DEF TypeOK
  <2>2. m_dataArray' \in [Slots -> ChunkIds \cup {NotSet}]
    BY <1>1, <1>2, <1>5, <1>7 DEF TypeOK
  <2>3. dataWaiters' \in [Producers -> SUBSET Consumers] /\ emptyWaiters' \in SUBSET (Consumers \cup {Drainer})
    BY <1>1, <1>7 DEF TypeOK
  <2> QED BY <1>1, <1>7, <1>11, <2>1, <2>2, <2>3 DEF TypeOK
<1>13. InWindow'
  <2> SUFFICES ASSUME NEW s \in Slots, m_dataArray'[s] # NotSet
               PROVE  m_dataArray'[s] = first + s[2] /\ m_dataArray'[s] < nextId'[s[1]]
    BY <1>7 DEF InWindow, isSet, first
  <2>1. CASE s = <<p, j>>
    <3>1. m_dataArray'[s] = n /\ s[1] = p /\ s[2] = j
      BY <2>1, <1>1, <1>5, <1>7 DEF TypeOK
    <3> QED BY <3>1, <1>2, <1>4, <1>5, <1>11
  <2>2. CASE s # <<p, j>>
    <3>1. m_dataArray'[s] = m_dataArray[s] /\ s[1] \in Producers
      BY <2>2, <1>1, <1>5, <1>7 DEF TypeOK, Slots
    <3>2. m_dataArray[s] = first + s[2] /\ m_dataArray[s] < nextId[s[1]]
      BY <3>1, <1>1 DEF InWindow, isSet
    <3>3. m_dataArray[s] \in Nat /\ nextId[s[1]] \in Nat /\ nextId'[s[1]] \in Nat /\ nextId[s[1]] <= nextId'[s[1]]
      BY <3>1, <1>1, <1>2, <1>7, <1>11 DEF TypeOK, ChunkIds, n
    <3> QED BY <3>1, <3>2, <3>3
  <2> QED BY <2>1, <2>2
<1>14. InBatch'
  <2> SUFFICES ASSUME NEW q \in Producers
               PROVE  /\ nextId'[q] <= first + BatchSize
                      /\ m_readInBatch[q] + Cardinality(filledOf(m_dataArray', q)) <= BatchSize
                      /\ m_producerActive[q] =>
                            /\ first <= nextId'[q]
                            /\ m_readInBatch[q] + Cardinality(filledOf(m_dataArray', q)) = nextId'[q] - first
    BY <1>7 DEF InBatch, first
  <2>1. CASE q = p
    <3>1. m_readInBatch[p] + Cardinality(filledOf(m_dataArray, p)) = n - first /\ m_readInBatch[p] \in Nat
      BY <1>1, <1>3 DEF InBatch, TypeOK, n
    <3> QED BY <3>1, <2>1, <1>2, <1>3, <1>4, <1>5, <1>8, <1>9, <1>11
  <2>2. CASE q # p
    BY <2>2, <1>1, <1>8, <1>11 DEF InBatch
  <2> QED BY <2>1, <2>2
<1>15. Counts'
  <2>1. Len(m_queue') = Len(m_queue) + 1
    BY <1>1, <1>7, <1>10 DEF TypeOK
  <2> QED BY <2>1, <1>1, <1>7, <1>8 DEF Counts
<1>16. QueueMatches'
  <2> SUFFICES ASSUME pass = "first", drain = "off"
               PROVE  /\ \A i \in 1 .. Len(m_queue') :
                            m_dataArray'[<<m_queue'[i].partition_id, m_queue'[i].id % BatchSize>>] = m_queue'[i].id
                      /\ \A i, k \in 1 .. Len(m_queue') : m_queue'[i] = m_queue'[k] => i = k
    BY <1>7 DEF QueueMatches, targetIndex
  <2> DEFINE len == Len(m_queue)
             new == [partition_id |-> p, id |-> n]
  <2>1. len \in Nat /\ Len(m_queue') = len + 1 /\ m_queue'[len + 1] = new
        /\ \A i \in 1 .. len : m_queue'[i] = m_queue[i] /\ m_queue[i] \in Chunk
    BY <1>1, <1>7, <1>10 DEF TypeOK
  <2>2. \A i \in 1 .. len : m_dataArray[<<m_queue[i].partition_id, m_queue[i].id % BatchSize>>] = m_queue[i].id
    BY <1>1 DEF QueueMatches, targetIndex
  <2>3. \A i \in 1 .. len : m_queue[i].id \in ChunkIds /\ m_queue[i].id # NotSet
                            /\ <<m_queue[i].partition_id, m_queue[i].id % BatchSize>> \in Slots
    <3> TAKE i \in 1 .. len
    <3>1. m_queue[i].partition_id \in Producers /\ m_queue[i].id \in ChunkIds /\ m_queue[i].id \in Nat
      BY <2>1 DEF Chunk, ChunkIds
    <3>2. m_queue[i].id % BatchSize \in 0 .. (BatchSize - 1)
      BY <3>1, PlaceType
    <3> QED BY <3>1, <3>2 DEF Slots, NotSet
  <2>4. \A i \in 1 .. len : <<m_queue[i].partition_id, m_queue[i].id % BatchSize>> # <<p, j>>
    BY <2>2, <2>3, <1>6
  <2>5. \A i \in 1 .. len : m_dataArray'[<<m_queue[i].partition_id, m_queue[i].id % BatchSize>>] = m_queue[i].id
    BY <2>2, <2>3, <2>4, <1>1, <1>7 DEF TypeOK
  <2>6. new.partition_id = p /\ new.id = n /\ m_dataArray'[<<p, n % BatchSize>>] = n
    BY <1>1, <1>5, <1>7 DEF TypeOK, n, j
  <2>7. \A i \in 1 .. len : m_queue[i] # new
    BY <2>4, <2>6 DEF n, j
  <2>8. \A i, k \in 1 .. len : m_queue[i] = m_queue[k] => i = k
    BY <1>1 DEF QueueMatches
  <2> HIDE DEF len, new
  <2>9. \A i \in 1 .. Len(m_queue') : i \in 1 .. len \/ i = len + 1
    BY <2>1
  <2>10. \A i \in 1 .. Len(m_queue') :
            m_dataArray'[<<m_queue'[i].partition_id, m_queue'[i].id % BatchSize>>] = m_queue'[i].id
    <3> TAKE i \in 1 .. Len(m_queue')
    <3>1. CASE i \in 1 .. len
      BY <3>1, <2>1, <2>5
    <3>2. CASE i = len + 1
      BY <3>2, <2>1, <2>6
    <3> QED BY <3>1, <3>2, <2>9
  <2>11. \A i, k \in 1 .. Len(m_queue') : m_queue'[i] = m_queue'[k] => i = k
    BY <2>1, <2>7, <2>8, <2>9
  <2> QED BY <2>10, <2>11
<1>17. Calls'
  BY <1>1, <1>7 DEF Calls
<1>18. Handed'
  <2> SUFFICES ASSUME NEW k \in Chunk
               PROVE  IF k.id < nextId'[k.partition_id]
                      THEN handed[k] = IF m_dataArray'[<<k.partition_id, k.id % BatchSize>>] = k.id THEN 0 ELSE 1
                      ELSE handed[k] = 0
    BY <1>7 DEF Handed, targetIndex
  <2>1. k.partition_id \in Producers /\ k.id \in ChunkIds /\ k.id \in Nat /\ k.id # NotSet
        /\ k.id % BatchSize \in 0 .. (BatchSize - 1)
    BY ChunkFields
  <2>2. <<k.partition_id, k.id % BatchSize>> \in Slots
    BY <2>1 DEF Slots
  <2>3. IF k.id < nextId[k.partition_id]
        THEN handed[k] = IF m_dataArray[<<k.partition_id, k.id % BatchSize>>] = k.id THEN 0 ELSE 1
        ELSE handed[k] = 0
    BY <1>1 DEF Handed, targetIndex
  <2>4. CASE k.partition_id = p /\ k.id = n
    <3>1. m_dataArray'[<<k.partition_id, k.id % BatchSize>>] = n /\ handed[k] = 0
      BY <2>2, <2>3, <2>4, <1>1, <1>2, <1>7 DEF TypeOK, n, j
    <3> QED BY <3>1, <2>4, <1>2, <1>11
  <2>5. CASE k.partition_id = p /\ k.id # n
    <3>1. k.id < nextId'[p] <=> k.id < n
      BY <2>1, <2>5, <1>2, <1>11
    <3>2. m_dataArray'[<<p, k.id % BatchSize>>] = k.id <=> m_dataArray[<<p, k.id % BatchSize>>] = k.id
      BY <2>1, <2>2, <2>5, <1>1, <1>6, <1>7 DEF TypeOK
    <3> QED BY <3>1, <3>2, <2>3, <2>5 DEF n
  <2>6. CASE k.partition_id # p
    <3>1. m_dataArray'[<<k.partition_id, k.id % BatchSize>>] = m_dataArray[<<k.partition_id, k.id % BatchSize>>]
      BY <2>2, <2>6, <1>1, <1>7 DEF TypeOK
    <3> QED BY <3>1, <2>1, <2>3, <2>6, <1>11
  <2> QED BY <2>4, <2>5, <2>6
<1> QED BY <1>12, <1>13, <1>14, <1>15, <1>16, <1>17, <1>18 DEF IInv

\* DeleteProducer keeps it, with the reset of the batch it may end in.
LEMMA DeleteProducerStep ==
    ASSUME IInv, NEW p \in Producers, DeleteProducer(p)
    PROVE  IInv'
<1> USE BatchAssumption
<1>1. TypeOK /\ InWindow /\ InBatch /\ Counts /\ QueueMatches /\ Calls /\ Handed
  BY DEF IInv
<1>2. /\ m_producerActive[p]
      /\ m_producerActive' = [m_producerActive EXCEPT ![p] = FALSE]
      /\ m_activeProducers' = m_activeProducers - 1
      /\ resetIfFinished(m_producerActive', m_readInBatch, m_itemsToRead')
      /\ emptyWaiters' \in SUBSET (Consumers \cup {Drainer})
      /\ UNCHANGED <<m_queue, m_dataArray, m_itemsToRead, nextId, call, req, drain, handed, pass>>
  BY <1>1 DEF DeleteProducer, TypeOK
<1>3. m_producerActive' \in [Producers -> BOOLEAN] /\ \A q \in Producers : m_producerActive'[q] => m_producerActive[q]
  BY <1>1, <1>2 DEF TypeOK
<1>4. m_activeProducers' = Cardinality(activeSet(m_producerActive')) /\ m_activeProducers' \in Nat
  <2>1. activeSet(m_producerActive') = activeSet(m_producerActive) \ {p} /\ p \in activeSet(m_producerActive)
    BY <1>1, <1>2 DEF activeSet, TypeOK
  <2>2. Cardinality(activeSet(m_producerActive')) = Cardinality(activeSet(m_producerActive)) - 1
    BY <2>1, FS_RemoveElement, FiniteSlots
  <2>3. Cardinality(activeSet(m_producerActive')) \in Nat
    BY FS_CardinalityType, FiniteSlots
  <2> QED BY <2>2, <2>3, <1>1, <1>2 DEF Counts
<1>5. /\ InWindow' /\ InBatch'
      /\ m_currentBatch' \in Nat
      /\ m_readInBatch' \in [Producers -> 0 .. BatchSize]
      /\ busyWaiters' \in SUBSET Producers
      /\ dataWaiters' \in [Producers -> SUBSET Consumers]
  <2>1. /\ m_readInBatch \in [Producers -> 0 .. BatchSize] /\ m_itemsToRead' \in Nat
        /\ m_dataArray' \in [Slots -> ChunkIds \cup {NotSet}] /\ nextId' \in [Producers -> 0 .. MaxChunks]
        /\ m_itemsToRead' = Cardinality(filled(m_dataArray'))
    BY <1>1, <1>2 DEF TypeOK, Counts
  <2>2. \A s \in Slots : m_dataArray'[s] # NotSet =>
            m_dataArray'[s] = first + s[2] /\ m_dataArray'[s] < nextId'[s[1]]
    BY <1>1, <1>2 DEF InWindow, isSet
  <2>3. \A q \in Producers :
            /\ nextId'[q] <= first + BatchSize
            /\ m_readInBatch[q] + Cardinality(filledOf(m_dataArray', q)) <= BatchSize
            /\ m_producerActive'[q] =>
                  /\ first <= nextId'[q]
                  /\ m_readInBatch[q] + Cardinality(filledOf(m_dataArray', q)) = nextId'[q] - first
    BY <1>1, <1>2, <1>3 DEF InBatch
  <2> QED BY <1>1, <1>2, <2>1, <2>2, <2>3, ResetStep
<1>6. TypeOK'
  BY <1>1, <1>2, <1>3, <1>4, <1>5 DEF TypeOK
<1>7. Counts' /\ QueueMatches' /\ Calls' /\ Handed'
  BY <1>1, <1>2, <1>4 DEF Counts, QueueMatches, Calls, Handed, targetIndex
<1> QED BY <1>5, <1>6, <1>7 DEF IInv

\* Pop keeps it in all of its cases: wait, throw, take a chunk.
LEMMA PopStepIInv ==
    ASSUME IInv, NEW c \in Consumers, Pop(c)
    PROVE  IInv'
<1> USE BatchAssumption
<1>1. TypeOK /\ InWindow /\ InBatch /\ Counts /\ QueueMatches /\ Calls /\ Handed
  BY DEF IInv
<1> DEFINE res == Head(m_queue)
           p == res.partition_id
           j == res.id % BatchSize
<1>2. /\ call[c] = "pop" /\ pass = "first" /\ drain = "off"
      /\ m_queue \in Seq(Chunk) /\ Len(m_queue) # 0
  BY <1>1 DEF Pop, CanPop, Calls, Counts, TypeOK
<1>3. res \in Chunk /\ res = m_queue[1] /\ 1 \in 1 .. Len(m_queue)
  BY <1>2
<1>4. p \in Producers /\ res.id \in ChunkIds /\ res.id \in Nat
  BY <1>3 DEF Chunk, ChunkIds
<1>5. j \in 0 .. (BatchSize - 1) /\ res.id # NotSet
  BY <1>4, PlaceType DEF NotSet
<1>6. m_dataArray[<<p, j>>] = res.id
  BY <1>1, <1>2, <1>3 DEF QueueMatches, targetIndex
<1>7. res = [partition_id |-> p, id |-> m_dataArray[<<p, j>>]]
  BY <1>3, <1>6 DEF Chunk
<1>8. /\ isSet(<<p, j>>)
      /\ readValue(<<p, j>>)
      /\ m_queue' = Tail(m_queue)
      /\ handOut([partition_id |-> p, id |-> m_dataArray[<<p, j>>]])
      /\ UNCHANGED <<m_producerActive, m_activeProducers, emptyWaiters, nextId, req, drain, pass>>
      /\ call' = [call EXCEPT ![c] = "idle"]
  <2>1. handOut(res) /\ readValue(<<p, j>>)
    BY DEF Pop, targetIndex
  <2>2. handOut([partition_id |-> p, id |-> m_dataArray[<<p, j>>]])
    BY <2>1, <1>7
  <2> QED BY <2>1, <2>2, <1>5, <1>6 DEF Pop, isSet
<1>9. p \in Producers /\ j \in 0 .. (BatchSize - 1)
  BY <1>4, <1>5
<1> HIDE DEF res, p, j
<1>10. /\ InWindow' /\ InBatch' /\ Counts' /\ Handed'
       /\ m_queue' \in Seq(Chunk)
       /\ m_currentBatch' \in Nat
       /\ m_readInBatch' \in [Producers -> 0 .. BatchSize]
       /\ m_itemsToRead' \in Nat
       /\ m_dataArray' = [m_dataArray EXCEPT ![<<p, j>>] = NotSet]
       /\ m_dataArray' \in [Slots -> ChunkIds \cup {NotSet}]
       /\ busyWaiters' \in SUBSET Producers
       /\ dataWaiters' \in [Producers -> SUBSET Consumers]
       /\ handed' \in [Chunk -> Nat]
  BY <1>8, <1>9, ReadStep
<1>11. TypeOK'
  <2>1. /\ call' \in [Consumers -> {"idle", "pop", "get", "getting", "ended"}]
        /\ \A x \in Consumers : call'[x] \in {"get", "getting"} => call[x] = call'[x]
    BY <1>1, <1>8 DEF TypeOK
  <2> QED BY <2>1, <1>1, <1>8, <1>10 DEF TypeOK
<1>12. Calls'
  BY <1>1, <1>8 DEF Calls, TypeOK
<1>13. QueueMatches'
  <2>1. /\ Len(m_queue') = Len(m_queue) - 1
        /\ \A i \in 1 .. Len(m_queue') : m_queue'[i] = m_queue[i + 1] /\ i + 1 \in 1 .. Len(m_queue) /\ i + 1 # 1
    BY <1>2, <1>8
  <2>2. \A i \in 1 .. Len(m_queue') :
           m_dataArray'[targetIndex(m_queue'[i].partition_id, m_queue'[i].id)] = m_queue'[i].id
    <3> TAKE i \in 1 .. Len(m_queue')
    <3> DEFINE k == m_queue'[i]
               s == <<k.partition_id, k.id % BatchSize>>
    <3>1. k \in Chunk /\ k # m_queue[1] /\ m_dataArray[s] = k.id
      BY <2>1, <1>1, <1>2, <1>3 DEF QueueMatches, targetIndex
    <3>2. k.partition_id \in Producers /\ k.id \in ChunkIds /\ k.id \in Nat
      BY <3>1, ChunkFields
    <3>3. k.id % BatchSize \in 0 .. (BatchSize - 1)
      BY <3>1, ChunkFields
    <3>4. s \in Slots
      BY <3>2, <3>3 DEF Slots
    <3>5. s # <<p, j>>
      <4> SUFFICES ASSUME s = <<p, j>> PROVE FALSE
        OBVIOUS
      <4>1. k.partition_id = p /\ k.id = res.id
        BY <3>1, <1>6
      <4>2. k = res
        BY <4>1, <3>1, <1>3 DEF Chunk, p
      <4> QED BY <4>2, <3>1, <1>3
    <3>6. m_dataArray'[s] = m_dataArray[s]
      BY <3>4, <3>5, <1>1, <1>10 DEF TypeOK
    <3> QED BY <3>1, <3>6 DEF targetIndex
  <2>3. \A i, k \in 1 .. Len(m_queue') : m_queue'[i] = m_queue'[k] => i = k
    <3> TAKE i, k \in 1 .. Len(m_queue')
    <3> HAVE m_queue'[i] = m_queue'[k]
    <3>1. i + 1 = k + 1
      BY <2>1, <1>1, <1>2 DEF QueueMatches
    <3> QED BY <3>1
  <2> QED BY <2>2, <2>3 DEF QueueMatches
<1> QED BY <1>10, <1>11, <1>12, <1>13 DEF IInv

\* Get and the destructor take a chunk while m_queue is not used for its order.
LEMMA TakeStep ==
    ASSUME IInv, NEW p \in Producers, NEW j \in 0 .. (BatchSize - 1), isSet(<<p, j>>),
           readValue(<<p, j>>), m_queue' = Tail(m_queue),
           handOut([partition_id |-> p, id |-> m_dataArray[<<p, j>>]]),
           UNCHANGED <<m_producerActive, m_activeProducers, nextId, emptyWaiters, drain, pass>>,
           ~(pass = "first" /\ drain = "off"),
           call' \in [Consumers -> {"idle", "pop", "get", "getting", "ended"}],
           req' \in [Consumers -> Chunk \cup {NoRequest}],
           \A c \in Consumers : \/ call'[c] = call[c] /\ req'[c] = req[c]
                                \/ call'[c] \in {"idle", "ended"}
    PROVE  IInv'
<1>1. TypeOK /\ Calls
  BY DEF IInv
<1>2. /\ InWindow' /\ InBatch' /\ Counts' /\ Handed'
      /\ m_queue' \in Seq(Chunk)
      /\ m_currentBatch' \in Nat
      /\ m_readInBatch' \in [Producers -> 0 .. BatchSize]
      /\ m_itemsToRead' \in Nat
      /\ m_dataArray' \in [Slots -> ChunkIds \cup {NotSet}]
      /\ busyWaiters' \in SUBSET Producers
      /\ dataWaiters' \in [Producers -> SUBSET Consumers]
      /\ handed' \in [Chunk -> Nat]
  BY ReadStep
<1>3. \A c \in Consumers : call'[c] \in {"get", "getting"} => req'[c] \in Chunk
  BY <1>1 DEF TypeOK
<1>4. TypeOK'
  BY <1>1, <1>2, <1>3 DEF TypeOK
<1>5. Calls'
  BY <1>1 DEF Calls
<1>6. QueueMatches'
  BY DEF QueueMatches
<1> QED BY <1>2, <1>4, <1>5, <1>6 DEF IInv

\* Get keeps it in all of its cases: wait, throw, take a chunk.
LEMMA GetStepIInv ==
    ASSUME IInv, NEW c \in Consumers, Get(c)
    PROVE  IInv'
<1> USE BatchAssumption
<1>1. TypeOK /\ Calls
  BY DEF IInv
<1>2. call[c] \in {"get", "getting"} /\ req[c] \in Chunk /\ pass = "later" /\ drain = "off"
  BY <1>1 DEF Get, InGet, TypeOK, Calls
<1> DEFINE p == req[c].partition_id
           j == req[c].id % BatchSize
<1>3. p \in Producers /\ req[c].id \in Nat
  BY <1>2 DEF Chunk, ChunkIds
<1>4. j \in 0 .. (BatchSize - 1)
  BY <1>3, PlaceType
<1>5. /\ isSet(<<p, j>>) /\ readValue(<<p, j>>) /\ m_queue' = Tail(m_queue)
      /\ handOut([partition_id |-> p, id |-> m_dataArray[<<p, j>>]])
      /\ UNCHANGED <<m_producerActive, m_activeProducers, nextId, emptyWaiters, drain, pass>>
      /\ call' = [call EXCEPT ![c] = "idle"] /\ req' = [req EXCEPT ![c] = NoRequest]
  BY DEF Get, reqIndex, targetIndex, return
<1>6. /\ call' \in [Consumers -> {"idle", "pop", "get", "getting", "ended"}]
      /\ req' \in [Consumers -> Chunk \cup {NoRequest}]
      /\ \A x \in Consumers : \/ call'[x] = call[x] /\ req'[x] = req[x]
                              \/ call'[x] \in {"idle", "ended"}
  BY <1>1, <1>5 DEF TypeOK
<1> HIDE DEF p, j
<1> QED BY <1>2, <1>3, <1>4, <1>5, <1>6, TakeStep

\* Every iteration of the destructor's FreeBatchData keeps it.
LEMMA FreeOneStep ==
    ASSUME IInv, FreeOne
    PROVE  IInv'
<1>1. TypeOK
  BY DEF IInv
<1>2. PICK idx \in Slots :
         /\ isSet(idx) /\ readValue(idx)
         /\ handOut([partition_id |-> idx[1], id |-> m_dataArray[idx]])
  BY DEF FreeOne
<1>3. PICK p \in Producers, j \in 0 .. (BatchSize - 1) : idx = <<p, j>>
  BY DEF Slots
<1>4. isSet(<<p, j>>) /\ readValue(<<p, j>>) /\ handOut([partition_id |-> p, id |-> m_dataArray[<<p, j>>]])
  BY <1>2, <1>3
<1>5. /\ m_queue' = Tail(m_queue) /\ drain = "locked"
      /\ UNCHANGED <<m_producerActive, m_activeProducers, nextId, emptyWaiters, drain, pass, call, req>>
  BY DEF FreeOne
<1> QED BY <1>1, <1>4, <1>5, TakeStep DEF TypeOK

\* Every step of the queue keeps the inductive invariant.
LEMMA NextIInv == IInv /\ [Next]_vars => IInv'
<1> SUFFICES ASSUME IInv, [Next]_vars PROVE IInv'
  OBVIOUS
<1> USE BatchAssumption
<1>0. TypeOK /\ Calls
  BY DEF IInv
<1>1. CASE UNCHANGED vars
  <2> TypeOK' /\ Calls'
    BY <1>0, <1>1 DEF vars, queueVars, waiters, TypeOK, Calls
  <2> QED BY <1>1, QuietStep DEF vars, queueVars
<1>2. ASSUME NEW p \in Producers, PushWait(p) PROVE IInv'
  <2> TypeOK' /\ Calls'
    BY <1>0, <1>2 DEF PushWait, CanPush, queueVars, TypeOK, Calls
  <2> QED BY <1>2, QuietStep DEF PushWait, queueVars
<1>3. ASSUME NEW p \in Producers, Push(p) PROVE IInv'
  BY <1>3, PushStep
<1>4. ASSUME NEW p \in Producers, DeleteProducer(p) PROVE IInv'
  BY <1>4, DeleteProducerStep
<1>5. ASSUME NEW c \in Consumers, CallPop(c) PROVE IInv'
  <2> TypeOK' /\ Calls'
    BY <1>0, <1>5 DEF CallPop, queueVars, waiters, TypeOK, Calls
  <2> QED BY <1>5, QuietStep DEF CallPop, queueVars
<1>6. ASSUME NEW c \in Consumers, PopWait(c) PROVE IInv'
  <2> TypeOK' /\ Calls'
    BY <1>0, <1>6 DEF PopWait, queueVars, TypeOK, Calls
  <2> QED BY <1>6, QuietStep DEF PopWait, queueVars
<1>7. ASSUME NEW c \in Consumers, PopThrow(c) PROVE IInv'
  <2> TypeOK' /\ Calls'
    BY <1>0, <1>7 DEF PopThrow, queueVars, waiters, TypeOK, Calls
  <2> QED BY <1>7, QuietStep DEF PopThrow, queueVars
<1>8. ASSUME NEW c \in Consumers, Pop(c) PROVE IInv'
  BY <1>8, PopStepIInv
<1>9. ASSUME NEW c \in Consumers, NEW p \in Producers, NEW id \in ChunkIds, CallGet(c, p, id) PROVE IInv'
  <2>1. [partition_id |-> p, id |-> id] \in Chunk
    BY DEF Chunk
  <2> TypeOK' /\ Calls'
    BY <1>0, <1>9, <2>1 DEF CallGet, queueVars, waiters, TypeOK, Calls
  <2> QED BY <1>9, QuietStep DEF CallGet, queueVars
<1>10. ASSUME NEW c \in Consumers, GetEmpty(c) PROVE IInv'
  <2> TypeOK' /\ Calls'
    BY <1>0, <1>10 DEF GetEmpty, return, queueVars, waiters, TypeOK, Calls
  <2> QED BY <1>10, QuietStep DEF GetEmpty, queueVars
<1>11. ASSUME NEW c \in Consumers, GetWait(c) PROVE IInv'
  <2>1. req[c] \in Chunk /\ call[c] \in {"get", "getting"}
    BY <1>0, <1>11 DEF GetWait, InGet, TypeOK
  <2>2. req[c].partition_id \in Producers
    BY <2>1 DEF Chunk
  <2> TypeOK' /\ Calls'
    BY <1>0, <1>11, <2>1, <2>2 DEF GetWait, queueVars, TypeOK, Calls
  <2> QED BY <1>11, QuietStep DEF GetWait, queueVars
<1>12. ASSUME NEW c \in Consumers, GetThrow(c) PROVE IInv'
  <2> TypeOK' /\ Calls'
    BY <1>0, <1>12 DEF GetThrow, return, queueVars, waiters, TypeOK, Calls
  <2> QED BY <1>12, QuietStep DEF GetThrow, queueVars
<1>13. ASSUME NEW c \in Consumers, Get(c) PROVE IInv'
  BY <1>13, GetStepIInv
<1>14. CASE FreeBatchData
  <2> TypeOK' /\ Calls'
    BY <1>0, <1>14 DEF FreeBatchData, queueVars, waiters, TypeOK, Calls
  <2> QED BY <1>14, QuietStep DEF FreeBatchData, queueVars
<1>15. CASE FreeWake
  <2> TypeOK' /\ Calls'
    BY <1>0, <1>15 DEF FreeWake, queueVars, waiters, TypeOK, Calls
  <2> QED BY <1>15, QuietStep DEF FreeWake, queueVars
<1>16. CASE FreeWait
  <2> TypeOK' /\ Calls'
    BY <1>0, <1>16 DEF FreeWait, queueVars, TypeOK, Calls
  <2> QED BY <1>16, QuietStep DEF FreeWait, queueVars
<1>17. CASE FreeOne
  BY <1>17, FreeOneStep
<1>18. CASE FreeDone
  <2> TypeOK' /\ Calls'
    BY <1>0, <1>18 DEF FreeDone, queueVars, waiters, TypeOK, Calls
  <2> QED BY <1>18, QuietStep DEF FreeDone, queueVars
<1>19. CASE SpuriousWakeup
  <2>1. /\ emptyWaiters' \in SUBSET (Consumers \cup {Drainer})
        /\ busyWaiters' \in SUBSET Producers
        /\ dataWaiters' \in [Producers -> SUBSET Consumers]
    <3>1. CASE \E t \in emptyWaiters : emptyWaiters' = emptyWaiters \ {t}
               /\ UNCHANGED <<busyWaiters, dataWaiters>>
      BY <3>1, <1>0 DEF TypeOK
    <3>2. CASE \E p \in busyWaiters : busyWaiters' = busyWaiters \ {p}
               /\ UNCHANGED <<emptyWaiters, dataWaiters>>
      BY <3>2, <1>0 DEF TypeOK
    <3>3. CASE \E p \in Producers : \E c \in dataWaiters[p] :
                   dataWaiters' = [dataWaiters EXCEPT ![p] = @ \ {c}]
               /\ UNCHANGED <<emptyWaiters, busyWaiters>>
      BY <3>3, <1>0 DEF TypeOK
    <3> QED BY <1>19, <3>1, <3>2, <3>3 DEF SpuriousWakeup
  <2> TypeOK' /\ Calls'
    BY <1>0, <1>19, <2>1 DEF SpuriousWakeup, queueVars, TypeOK, Calls
  <2> QED BY <1>19, QuietStep DEF SpuriousWakeup, queueVars
<1> QED
  BY <1>1, <1>2, <1>3, <1>4, <1>5, <1>6, <1>7, <1>8, <1>9, <1>10, <1>11, <1>12, <1>13,
     <1>14, <1>15, <1>16, <1>17, <1>18, <1>19
  DEF Next, Producer, PopStep, GetStep, Destructor

\* The inductive invariant holds in every reachable state of the queue.
THEOREM Invariance == Spec => []IInv
  BY InitIInv, NextIInv, PTL DEF Spec

-----------------------------------------------------------------------------
(* What the invariant gives.                                               *)

\* The type of every variable holds in every state.
THEOREM TypeCorrect == Spec => []TypeOK
<1>1. IInv => TypeOK
  BY DEF IInv
<1> QED BY Invariance, <1>1, PTL

\* The assertion of Push never fails: no chunk is overwritten before it is read.
THEOREM NeverOverwrites == Spec => []NoOverwrite
<1>1. IInv => NoOverwrite
  <2> SUFFICES ASSUME IInv, NEW p \in Producers, CanPush(p), nextId[p] \div BatchSize <= m_currentBatch
               PROVE  ~isSet(targetIndex(p, nextId[p]))
    BY DEF NoOverwrite
  <2> DEFINE n == nextId[p]
             j == n % BatchSize
  <2>1. TypeOK /\ InWindow /\ InBatch
    BY DEF IInv
  <2>2. n \in Nat /\ first <= n /\ m_currentBatch \in Nat
    BY <2>1 DEF CanPush, TypeOK, InBatch
  <2>3. j = n - first
    <3>1. m_currentBatch * BatchSize <= n BY <2>2 DEF first
    <3> QED BY <2>2, <3>1, InCurrentBatch, BatchAssumption DEF first
  <2>4. j \in 0 .. (BatchSize - 1) /\ first \in Nat
    <3>1. j \in 0 .. (BatchSize - 1)
      <4> HIDE DEF n
      <4> QED BY <2>2, PlaceType, BatchAssumption
    <3> QED BY <3>1, <2>2, BatchAssumption DEF first
  <2>5. <<p, j>> \in Slots
    BY <2>4 DEF Slots
  <2> HIDE DEF j
  <2>6. isSet(<<p, j>>) => m_dataArray[<<p, j>>] = first + j /\ m_dataArray[<<p, j>>] < n
    BY <2>1, <2>5 DEF InWindow
  <2>7. first + j = n
    BY <2>2, <2>3, <2>4
  <2>8. ~isSet(<<p, j>>)
    BY <2>2, <2>6, <2>7
  <2> QED BY <2>8 DEF targetIndex, j
<1> QED BY Invariance, <1>1, PTL

\* The counters of the queue agree with its slots, its m_queue and its flags.
THEOREM CountersAgree == Spec => []CountsAgree
<1>1. IInv => CountsAgree
  <2> setSlots = filled(m_dataArray)
    BY DEF setSlots, filled, isSet
  <2> QED BY DEF IInv, Counts, CountsAgree, activeSet
<1> QED BY Invariance, <1>1, PTL

\* Every chunk that was pushed is in its slot or was handed out exactly once.
THEOREM ExactlyOnce == Spec => []HandedOnce
<1>1. IInv => HandedOnce
  <2> SUFFICES ASSUME IInv, NEW k \in Chunk
               PROVE  IF k.id < nextId[k.partition_id]
                      THEN handed[k] = IF m_dataArray[targetIndex(k.partition_id, k.id)] = k.id THEN 0 ELSE 1
                      ELSE handed[k] = 0 /\ m_dataArray[targetIndex(k.partition_id, k.id)] # k.id
    BY DEF HandedOnce
  <2>1. TypeOK /\ InWindow /\ Handed
    BY DEF IInv
  <2>2. k.partition_id \in Producers /\ k.id \in Nat /\ k.id # NotSet
    BY ChunkFields
  <2>3. k.id % BatchSize \in 0 .. (BatchSize - 1)
    BY ChunkFields
  <2> DEFINE s == <<k.partition_id, k.id % BatchSize>>
  <2>4. s \in Slots /\ s[1] = k.partition_id
    BY <2>2, <2>3 DEF Slots
  <2>5. m_dataArray[s] = k.id => k.id < nextId[k.partition_id]
    BY <2>1, <2>2, <2>4 DEF InWindow, isSet
  <2> QED BY <2>1, <2>5 DEF Handed, targetIndex
<1> QED BY Invariance, <1>1, PTL

\* No reader pushes a chunk of a later batch while one of this batch is unread.
THEOREM Barrier == Spec => []BatchBarrier
<1>1. IInv => BatchBarrier
  <2> SUFFICES ASSUME IInv, NEW p \in Producers, NEW q \in Producers, NEW k \in 0 .. (BatchSize - 1),
                      isSet(<<p, k>>), nextId[q] > 0
               PROVE  (nextId[q] - 1) \div BatchSize <= m_dataArray[<<p, k>>] \div BatchSize
    BY DEF BatchBarrier
  <2>1. TypeOK /\ InWindow /\ InBatch
    BY DEF IInv
  <2>2. <<p, k>> \in Slots /\ m_currentBatch \in Nat /\ nextId[q] - 1 \in Nat
    BY <2>1 DEF Slots, TypeOK
  <2>3. m_dataArray[<<p, k>>] = m_currentBatch * BatchSize + k
    BY <2>1, <2>2 DEF InWindow, first
  <2>4. m_dataArray[<<p, k>>] \div BatchSize = m_currentBatch
    BY <2>2, <2>3, PlaceOf, BatchAssumption
  <2>5. nextId[q] - 1 < m_currentBatch * BatchSize + BatchSize
    <3>1. nextId[q] <= first + BatchSize /\ first \in Nat /\ nextId[q] \in Nat
      BY <2>1, BatchAssumption DEF InBatch, TypeOK, first
    <3> QED BY <3>1, BatchAssumption DEF first
  <2>6. (nextId[q] - 1) \div BatchSize <= m_currentBatch
    BY <2>2, <2>5, BatchOfEarlier, BatchAssumption
  <2> QED BY <2>4, <2>6
<1> QED BY Invariance, <1>1, PTL

-----------------------------------------------------------------------------
(* The order of the first pass.                                            *)

\* The chunks of a reader that are in their slots are the last ones it pushed.
Ordered ==
    pass = "first" =>
        \A p \in Producers : \A j, l \in 0 .. (BatchSize - 1) :
            j < l /\ isSet(<<p, j>>) /\ first + l < nextId[p] => isSet(<<p, l>>)

\* While consumers pop, m_queue has every chunk that is in a slot, and those of a
\* reader in the order of their numbers.
QueueOrdered ==
    pass = "first" /\ drain = "off" =>
        /\ \A i, j \in 1 .. Len(m_queue) :
              i < j /\ m_queue[i].partition_id = m_queue[j].partition_id =>
                  m_queue[i].id < m_queue[j].id
        /\ \A p \in Producers : \A l \in 0 .. (BatchSize - 1) : isSet(<<p, l>>) =>
              \E i \in 1 .. Len(m_queue) :
                  m_queue[i].partition_id = p /\ m_queue[i].id = m_dataArray[<<p, l>>]

\* A step that empties no slot before a fuller one keeps the order: either the batch
\* goes on, or it is over and no slot is set.
LEMMA OrderAfterTake ==
    ASSUME IInv, IInv', Ordered, NEW p \in Producers, NEW j \in 0 .. (BatchSize - 1),
           readValue(<<p, j>>), nextId' = nextId, pass' = pass,
           pass = "first" => \A l \in 0 .. (BatchSize - 1) : isSet(<<p, l>>) => j <= l
    PROVE  Ordered'
<1> SUFFICES ASSUME pass = "first", NEW x \in Producers,
                    NEW a \in 0 .. (BatchSize - 1), NEW b \in 0 .. (BatchSize - 1),
                    a < b, isSet(<<x, a>>)', first' + b < nextId[x]
             PROVE  isSet(<<x, b>>)'
  BY DEF Ordered
<1>1. m_dataArray \in [Slots -> ChunkIds \cup {NotSet}] /\ <<p, j>> \in Slots
      /\ <<x, a>> \in Slots /\ <<x, b>> \in Slots
  BY DEF IInv, TypeOK, Slots
<1>2. m_dataArray' = [m_dataArray EXCEPT ![<<p, j>>] = NotSet]
  BY DEF readValue
<1>3. isSet(<<x, a>>) /\ <<x, a>> # <<p, j>>
  BY <1>1, <1>2 DEF isSet
<1>4. first' = first
  <2>1. m_itemsToRead' = m_itemsToRead - 1
    BY DEF readValue
  <2>2. filled(m_dataArray') # {}
    BY <1>1 DEF filled, isSet
  <2>3. m_itemsToRead' # 0
    BY <2>2, FiniteSlots, FS_EmptySet DEF IInv, Counts
  <2>4. m_currentBatch' = m_currentBatch
    BY <2>1, <2>3 DEF readValue, resetIfFinished, isBatchFinished
  <2> QED BY <2>4 DEF first
<1>5. isSet(<<x, b>>)
  BY <1>3, <1>4 DEF Ordered
<1>6. <<x, b>> # <<p, j>>
  <2> SUFFICES ASSUME x = p, b = j PROVE FALSE
    OBVIOUS
  <2>1. j <= a
    BY <1>3
  <2> QED BY <2>1, BatchAssumption
<1> QED BY <1>1, <1>2, <1>5, <1>6 DEF isSet

\* The chunk that Pop takes is the first of its reader that is in a slot.
LEMMA PopOrdered ==
    ASSUME IInv, IInv', Ordered, QueueOrdered, NEW c \in Consumers, Pop(c)
    PROVE  Ordered' /\ QueueOrdered'
<1> USE BatchAssumption
<1> DEFINE res == Head(m_queue)
           p == res.partition_id
           j == res.id % BatchSize
<1>1. /\ call[c] = "pop" /\ pass = "first" /\ drain = "off"
      /\ m_queue \in Seq(Chunk) /\ Len(m_queue) # 0
  BY DEF IInv, Pop, CanPop, Calls, Counts, TypeOK
<1>2. res \in Chunk /\ res = m_queue[1] /\ 1 \in 1 .. Len(m_queue) /\ m_queue' = Tail(m_queue)
  BY <1>1 DEF Pop
<1>3. p \in Producers /\ j \in 0 .. (BatchSize - 1) /\ res.id \in Nat /\ res.id # NotSet
  BY <1>2, ChunkFields
<1>4. m_dataArray[<<p, j>>] = res.id /\ isSet(<<p, j>>)
  BY <1>1, <1>2, <1>3 DEF IInv, QueueMatches, targetIndex, isSet
<1>5. readValue(<<p, j>>) /\ nextId' = nextId /\ pass' = pass /\ drain' = drain
  BY DEF Pop, targetIndex
<1> HIDE DEF res, p, j
<1>6. first \in Nat /\ \A x \in Producers : \A l \in 0 .. (BatchSize - 1) :
         isSet(<<x, l>>) => m_dataArray[<<x, l>>] = first + l
  BY DEF IInv, InWindow, Slots, TypeOK, first
<1>7. \A l \in 0 .. (BatchSize - 1) : isSet(<<p, l>>) => j <= l
  <2> SUFFICES ASSUME NEW l \in 0 .. (BatchSize - 1), isSet(<<p, l>>), l < j PROVE FALSE
    BY <1>3
  <2>1. PICK i \in 1 .. Len(m_queue) :
           m_queue[i].partition_id = p /\ m_queue[i].id = m_dataArray[<<p, l>>]
    BY <1>1, <1>3 DEF QueueOrdered
  <2>2. m_queue[i].id = first + l /\ m_queue[1].id = first + j /\ m_queue[1].partition_id = p
    BY <1>2, <1>3, <1>4, <1>6, <2>1 DEF p
  <2>3. first + l < first + j
    BY <1>3, <1>6
  <2>4. i # 1 /\ 1 < i
    <3>1. i # 1
      BY <1>3, <1>6, <2>2, <2>3
    <3> QED BY <1>1, <3>1
  <2>5. first + j < first + l
    BY <1>1, <1>2, <2>1, <2>2, <2>4 DEF QueueOrdered
  <2> QED BY <2>3, <2>5, <1>3, <1>6
<1>8. Ordered'
  BY <1>3, <1>5, <1>7, OrderAfterTake
<1>9. /\ Len(m_queue') = Len(m_queue) - 1 /\ Len(m_queue) \in Nat
      /\ \A i \in 1 .. Len(m_queue') : m_queue'[i] = m_queue[i + 1] /\ i + 1 \in 1 .. Len(m_queue)
  BY <1>1, <1>2
<1>10. \A a, b \in 1 .. Len(m_queue') :
          a < b /\ m_queue'[a].partition_id = m_queue'[b].partition_id =>
              m_queue'[a].id < m_queue'[b].id
  <2> TAKE a, b \in 1 .. Len(m_queue')
  <2>1. a < b => a + 1 < b + 1
    OBVIOUS
  <2> QED BY <1>1, <1>9, <2>1 DEF QueueOrdered
<1>11. ASSUME NEW x \in Producers, NEW l \in 0 .. (BatchSize - 1), isSet(<<x, l>>)'
       PROVE  \E i \in 1 .. Len(m_queue') :
                  m_queue'[i].partition_id = x /\ m_queue'[i].id = m_dataArray'[<<x, l>>]
  <2>1. /\ m_dataArray \in [Slots -> ChunkIds \cup {NotSet}] /\ <<p, j>> \in Slots
        /\ <<x, l>> \in Slots /\ m_dataArray' = [m_dataArray EXCEPT ![<<p, j>>] = NotSet]
    BY <1>3, <1>5 DEF IInv, TypeOK, Slots, readValue
  <2>2. isSet(<<x, l>>) /\ <<x, l>> # <<p, j>> /\ m_dataArray'[<<x, l>>] = m_dataArray[<<x, l>>]
    BY <1>11, <2>1 DEF isSet
  <2>3. PICK i \in 1 .. Len(m_queue) :
           m_queue[i].partition_id = x /\ m_queue[i].id = m_dataArray[<<x, l>>]
    BY <1>1, <2>2 DEF QueueOrdered
  <2>4. i # 1
    <3> SUFFICES ASSUME i = 1 PROVE FALSE
      OBVIOUS
    <3>1. x = p /\ first + l = first + j
      BY <1>2, <1>3, <1>4, <1>6, <2>2, <2>3 DEF p
    <3>2. l = j
      BY <1>3, <1>6, <3>1
    <3> QED BY <2>2, <3>1, <3>2
  <2>5. i - 1 \in 1 .. Len(m_queue') /\ (i - 1) + 1 = i
    BY <1>9, <2>4
  <2>6. m_queue'[i - 1] = m_queue[i]
    BY <1>9, <2>5
  <2> QED BY <2>2, <2>3, <2>5, <2>6
<1> QED BY <1>8, <1>10, <1>11 DEF QueueOrdered

\* Push fills the slot after those that its reader has filled in the batch.
LEMMA PushOrdered ==
    ASSUME IInv, Ordered, QueueOrdered, NEW p \in Producers, Push(p)
    PROVE  Ordered' /\ QueueOrdered'
<1> USE BatchAssumption
<1> DEFINE n == nextId[p]
           j == nextId[p] % BatchSize
           v == [partition_id |-> p, id |-> nextId[p]]
<1>1. n \in Nat /\ n \in ChunkIds /\ n # NotSet /\ first <= n /\ m_currentBatch \in Nat
      /\ n \div BatchSize <= m_currentBatch /\ first \in Nat
  <2>1. n \in Nat /\ n < MaxChunks /\ m_currentBatch \in Nat
    BY DEF IInv, Push, CanPush, TypeOK
  <2>2. n \div BatchSize <= m_currentBatch /\ first <= n
    BY DEF IInv, Push, CanPush, InBatch
  <2> QED BY <2>1, <2>2 DEF ChunkIds, NotSet, first
<1>2. j = n - first
  <2>1. m_currentBatch * BatchSize <= n
    BY <1>1 DEF first
  <2> QED BY <1>1, <2>1, InCurrentBatch DEF first
<1>3. j \in 0 .. (BatchSize - 1)
  <2> HIDE DEF n
  <2>1. nextId[p] \in Nat BY <1>1 DEF n
  <2> QED BY <2>1, PlaceType
<1>4. /\ m_dataArray' = [m_dataArray EXCEPT ![<<p, j>>] = n]
      /\ m_queue' = Append(m_queue, v)
      /\ nextId' = [nextId EXCEPT ![p] = n + 1]
      /\ pass' = pass /\ drain' = drain /\ first' = first
  BY DEF Push, targetIndex, first
<1>5. /\ m_dataArray \in [Slots -> ChunkIds \cup {NotSet}] /\ <<p, j>> \in Slots
      /\ nextId \in [Producers -> 0 .. MaxChunks] /\ m_queue \in Seq(Chunk) /\ Len(m_queue) \in Nat
  BY <1>3 DEF IInv, TypeOK, Slots
<1>6. v \in Chunk /\ v.partition_id = p /\ v.id = n
  BY <1>1 DEF Chunk
<1> HIDE DEF n, j, v
<1>7. n = first + j
  BY <1>1, <1>2, <1>3
<1>8. Ordered'
  <2> SUFFICES ASSUME pass = "first", NEW x \in Producers,
                      NEW a \in 0 .. (BatchSize - 1), NEW b \in 0 .. (BatchSize - 1),
                      a < b, isSet(<<x, a>>)', first + b < nextId'[x]
               PROVE  isSet(<<x, b>>)'
    BY <1>4 DEF Ordered
  <2>1. <<x, a>> \in Slots /\ <<x, b>> \in Slots
    BY DEF Slots
  <2>2. CASE x = p /\ b = j
    BY <1>1, <1>4, <1>5, <2>2 DEF isSet
  <2>3. CASE x # p \/ b # j
    <3>1. <<x, b>> # <<p, j>>
      BY <2>3
    <3>2. first + b < nextId[x] /\ <<x, a>> # <<p, j>>
      <4>1. CASE x # p
        BY <1>4, <1>5, <4>1
      <4>2. CASE x = p
        <5>1. first + b < first + j + 1
          BY <1>4, <1>5, <1>7, <4>2
        <5>2. b < j
          BY <1>1, <1>3, <2>3, <4>2, <5>1
        <5>3. nextId[x] = first + j
          BY <1>7, <4>2 DEF n
        <5> QED BY <1>1, <1>3, <5>2, <5>3
      <4> QED BY <4>1, <4>2
    <3>3. isSet(<<x, a>>)
      BY <1>4, <1>5, <2>1, <3>2 DEF isSet
    <3>4. isSet(<<x, b>>)
      BY <3>2, <3>3 DEF Ordered
    <3> QED BY <1>4, <1>5, <2>1, <3>1, <3>4 DEF isSet
  <2> QED BY <2>2, <2>3
<1>9. /\ Len(m_queue') = Len(m_queue) + 1 /\ m_queue'[Len(m_queue) + 1] = v
      /\ \A i \in 1 .. Len(m_queue) : m_queue'[i] = m_queue[i] /\ m_queue[i] \in Chunk
      /\ \A i \in 1 .. Len(m_queue') : i \in 1 .. Len(m_queue) \/ i = Len(m_queue) + 1
      /\ \A i \in 1 .. Len(m_queue) : i \in 1 .. Len(m_queue')
      /\ Len(m_queue) + 1 \in 1 .. Len(m_queue')
  BY <1>4, <1>5, <1>6
<1>10. QueueOrdered'
  <2> SUFFICES ASSUME pass = "first", drain = "off"
               PROVE  /\ \A a, b \in 1 .. Len(m_queue') :
                            a < b /\ m_queue'[a].partition_id = m_queue'[b].partition_id =>
                                m_queue'[a].id < m_queue'[b].id
                      /\ \A x \in Producers : \A l \in 0 .. (BatchSize - 1) : isSet(<<x, l>>)' =>
                            \E i \in 1 .. Len(m_queue') :
                                m_queue'[i].partition_id = x /\ m_queue'[i].id = m_dataArray'[<<x, l>>]
    BY <1>4 DEF QueueOrdered
  <2>1. ASSUME NEW i \in 1 .. Len(m_queue), m_queue[i].partition_id = p PROVE m_queue[i].id < n
    <3> DEFINE k == m_queue[i]
               y == k.id % BatchSize
    <3>1. k \in Chunk /\ m_dataArray[<<p, y>>] = k.id
      BY <1>9, <2>1 DEF IInv, QueueMatches, targetIndex
    <3>2. k.id \in Nat /\ k.id # NotSet /\ y \in 0 .. (BatchSize - 1)
      BY <3>1, ChunkFields
    <3> HIDE DEF k, y
    <3>3. <<p, y>> \in Slots /\ isSet(<<p, y>>) /\ <<p, y>>[1] = p
      BY <3>1, <3>2 DEF Slots, isSet
    <3>4. m_dataArray[<<p, y>>] < nextId[p]
      BY <3>3 DEF IInv, InWindow
    <3> QED BY <3>1, <3>4 DEF n, k
  <2>2. ASSUME NEW a \in 1 .. Len(m_queue'), NEW b \in 1 .. Len(m_queue'), a < b,
               m_queue'[a].partition_id = m_queue'[b].partition_id
        PROVE  m_queue'[a].id < m_queue'[b].id
    <3>1. a \in 1 .. Len(m_queue)
      BY <1>5, <1>9, <2>2
    <3>2. CASE b \in 1 .. Len(m_queue)
      BY <1>9, <2>2, <3>1, <3>2 DEF QueueOrdered
    <3>3. CASE b = Len(m_queue) + 1
      BY <1>6, <1>9, <2>1, <2>2, <3>1, <3>3
    <3> QED BY <1>9, <3>2, <3>3
  <2>3. ASSUME NEW x \in Producers, NEW l \in 0 .. (BatchSize - 1), isSet(<<x, l>>)'
        PROVE  \E i \in 1 .. Len(m_queue') :
                   m_queue'[i].partition_id = x /\ m_queue'[i].id = m_dataArray'[<<x, l>>]
    <3>1. <<x, l>> \in Slots
      BY DEF Slots
    <3>2. CASE <<x, l>> = <<p, j>>
      <4>1. m_dataArray'[<<x, l>>] = n /\ x = p
        BY <1>4, <1>5, <3>2
      <4> QED BY <1>6, <1>9, <4>1
    <3>3. CASE <<x, l>> # <<p, j>>
      <4>1. m_dataArray'[<<x, l>>] = m_dataArray[<<x, l>>] /\ isSet(<<x, l>>)
        BY <1>4, <1>5, <2>3, <3>1, <3>3 DEF isSet
      <4>2. PICK i \in 1 .. Len(m_queue) :
               m_queue[i].partition_id = x /\ m_queue[i].id = m_dataArray[<<x, l>>]
        BY <4>1 DEF QueueOrdered
      <4> QED BY <1>9, <4>1, <4>2
    <3> QED BY <3>2, <3>3
  <2> QED BY <2>2, <2>3
<1> QED BY <1>8, <1>10

\* A step that leaves the chunks, their order and the batch alone.
LEMMA QuietOrdered ==
    ASSUME Ordered, QueueOrdered,
           UNCHANGED <<m_queue, m_dataArray, m_currentBatch, nextId, pass>>,
           drain' = "off" => drain = "off"
    PROVE  Ordered' /\ QueueOrdered'
  BY DEF Ordered, QueueOrdered, isSet, first

\* Every step of the queue keeps the order of the first pass.
LEMMA NextOrdered ==
    ASSUME IInv, IInv', Ordered, QueueOrdered, [Next]_vars
    PROVE  Ordered' /\ QueueOrdered'
<1>1. CASE UNCHANGED vars
  BY <1>1, QuietOrdered DEF vars, queueVars
<1>2. ASSUME NEW p \in Producers, PushWait(p) PROVE Ordered' /\ QueueOrdered'
  BY <1>2, QuietOrdered DEF PushWait, queueVars
<1>3. ASSUME NEW p \in Producers, Push(p) PROVE Ordered' /\ QueueOrdered'
  BY <1>3, PushOrdered
<1>4. ASSUME NEW p \in Producers, DeleteProducer(p) PROVE Ordered' /\ QueueOrdered'
  <2>1. /\ UNCHANGED <<m_queue, m_dataArray, nextId, pass, drain, m_itemsToRead>>
        /\ m_currentBatch' = m_currentBatch \/ m_itemsToRead = 0
    BY <1>4 DEF DeleteProducer, resetIfFinished, isBatchFinished
  <2>2. CASE m_currentBatch' = m_currentBatch
    BY <2>1, <2>2, QuietOrdered
  <2>3. CASE m_itemsToRead = 0
    <3>1. filled(m_dataArray) = {}
      BY <2>3, FiniteSlots, FS_EmptySet DEF IInv, Counts
    <3>2. \A x \in Producers : \A l \in 0 .. (BatchSize - 1) : ~isSet(<<x, l>>)'
      BY <2>1, <3>1 DEF filled, isSet, Slots
    <3> QED BY <2>1, <3>2 DEF Ordered, QueueOrdered
  <2> QED BY <2>1, <2>2, <2>3
<1>5. ASSUME NEW c \in Consumers, CallPop(c) \/ PopWait(c) \/ PopThrow(c)
      PROVE  Ordered' /\ QueueOrdered'
  BY <1>5, QuietOrdered DEF CallPop, PopWait, PopThrow, queueVars
<1>6. ASSUME NEW c \in Consumers, Pop(c) PROVE Ordered' /\ QueueOrdered'
  BY <1>6, PopOrdered
<1>7. ASSUME NEW c \in Consumers, NEW p \in Producers, NEW id \in ChunkIds, CallGet(c, p, id)
      PROVE  Ordered' /\ QueueOrdered'
  BY <1>7, QuietOrdered DEF CallGet, queueVars
<1>8. ASSUME NEW c \in Consumers, GetEmpty(c) \/ GetWait(c) \/ GetThrow(c)
      PROVE  Ordered' /\ QueueOrdered'
  BY <1>8, QuietOrdered DEF GetEmpty, GetWait, GetThrow, queueVars
<1>9. ASSUME NEW c \in Consumers, Get(c) PROVE Ordered' /\ QueueOrdered'
  <2>1. pass = "later" /\ pass' = pass
    BY <1>9 DEF IInv, Calls, Get, InGet
  <2> QED BY <2>1 DEF Ordered, QueueOrdered
<1>10. CASE FreeBatchData \/ FreeWake \/ FreeWait \/ FreeDone
  BY <1>10, QuietOrdered DEF FreeBatchData, FreeWake, FreeWait, FreeDone, queueVars
<1>11. CASE FreeOne
  <2>1. PICK idx \in Slots : /\ readValue(idx)
                             /\ \A k \in 0 .. (idx[2] - 1) : ~isSet(<<idx[1], k>>)
    BY <1>11 DEF FreeOne
  <2>2. PICK p \in Producers, j \in 0 .. (BatchSize - 1) : idx = <<p, j>>
    BY DEF Slots
  <2>3. readValue(<<p, j>>) /\ \A k \in 0 .. (j - 1) : ~isSet(<<p, k>>)
    BY <2>1, <2>2
  <2>4. \A l \in 0 .. (BatchSize - 1) : isSet(<<p, l>>) => j <= l
    BY <2>3, BatchAssumption
  <2>5. drain = "locked" /\ drain' = drain /\ nextId' = nextId /\ pass' = pass
    BY <1>11 DEF FreeOne
  <2>6. Ordered'
    BY <2>3, <2>4, <2>5, OrderAfterTake
  <2> QED BY <2>5, <2>6 DEF QueueOrdered
<1>12. CASE SpuriousWakeup
  BY <1>12, QuietOrdered DEF SpuriousWakeup, queueVars
<1> QED
  BY <1>1, <1>2, <1>3, <1>4, <1>5, <1>6, <1>7, <1>8, <1>9, <1>10, <1>11, <1>12
  DEF Next, Producer, PopStep, GetStep, Destructor

\* What the two invariants say of the chunks handed out.
LEMMA OrderedGives ==
    ASSUME IInv, Ordered
    PROVE  PartitionOrder
<1> USE BatchAssumption
<1> SUFFICES ASSUME NEW k \in Chunk, pass = "first", handed[k] = 1, NEW i \in 0 .. k.id
             PROVE  handed[[partition_id |-> k.partition_id, id |-> i]] = 1
  BY DEF PartitionOrder
<1> DEFINE p == k.partition_id
           h == [partition_id |-> p, id |-> i]
<1>1. p \in Producers /\ k.id \in ChunkIds /\ k.id \in Nat
  BY ChunkFields
<1>2. h \in Chunk /\ h.partition_id = p /\ h.id = i /\ i \in Nat /\ i <= k.id
  BY <1>1 DEF Chunk, ChunkIds
<1>3. k.id < nextId[p] /\ m_dataArray[<<p, k.id % BatchSize>>] # k.id
  BY <1>1 DEF IInv, Handed, targetIndex
<1>4. i < nextId[p] /\ nextId[p] \in Nat /\ nextId[p] <= first + BatchSize /\ first \in Nat
  <2>1. nextId[p] \in Nat /\ nextId[p] <= first + BatchSize /\ first \in Nat
    BY <1>1 DEF IInv, TypeOK, InBatch, first
  <2> QED BY <1>1, <1>2, <1>3, <2>1
<1>5. m_dataArray[<<p, i % BatchSize>>] # i
  <2> SUFFICES ASSUME m_dataArray[<<p, i % BatchSize>>] = i PROVE FALSE
    OBVIOUS
  <2> DEFINE a == i % BatchSize
             b == k.id - first
  <2>1. a \in 0 .. (BatchSize - 1) /\ i # NotSet
    BY <1>2, PlaceType DEF NotSet
  <2> HIDE DEF a
  <2>2. m_dataArray[<<p, a>>] = i
    BY DEF a
  <2>3. isSet(<<p, a>>) /\ i = first + a
    BY <1>1, <2>1, <2>2 DEF IInv, InWindow, isSet, Slots
  <2>4. b \in 0 .. (BatchSize - 1) /\ k.id = first + b /\ a <= b
    BY <1>1, <1>2, <1>3, <1>4, <2>1, <2>3
  <2> HIDE DEF b
  <2>5. isSet(<<p, b>>)
    <3>1. CASE a = b
      BY <2>3, <3>1
    <3>2. CASE a # b
      <4>1. a < b
        BY <2>1, <2>4, <3>2
      <4> QED BY <1>1, <1>3, <2>1, <2>3, <2>4, <4>1 DEF Ordered
    <3> QED BY <3>1, <3>2
  <2>6. m_dataArray[<<p, b>>] = first + b
    BY <1>1, <2>4, <2>5 DEF IInv, InWindow, Slots
  <2>7. (first + b) % BatchSize = b
    <3>1. m_currentBatch \in Nat
      BY DEF IInv, TypeOK
    <3> QED BY <2>4, <3>1, PlaceOf DEF first
  <2> QED BY <1>3, <2>4, <2>6, <2>7
<1> HIDE DEF h
<1> QED BY <1>2, <1>4, <1>5 DEF IInv, Handed, targetIndex, h

\* In the first pass the chunks of a partition leave the queue in their order.
THEOREM OrderKept == Spec => []PartitionOrder
<1>1. Init => Ordered /\ QueueOrdered
  BY DEF Init, Ordered, QueueOrdered, isSet, Slots
<1>2. IInv /\ IInv' /\ Ordered /\ QueueOrdered /\ [Next]_vars => Ordered' /\ QueueOrdered'
  BY NextOrdered
<1>3. IInv /\ Ordered => PartitionOrder
  BY OrderedGives
<1> QED BY <1>1, <1>2, <1>3, Invariance, PTL DEF Spec

-----------------------------------------------------------------------------
(* What Get returns.                                                       *)

\* Get returns the chunk asked for; another one only when the reader has left and the
\* one asked for was never pushed or is handed out already.
LEMMA GetRequested ==
    ASSUME IInv, NEW c \in Consumers, Get(c)
    PROVE  \/ handed'[req[c]] = handed[req[c]] + 1
           \/ /\ ~m_producerActive[req[c].partition_id]
              /\ req[c].id >= nextId[req[c].partition_id] \/ handed[req[c]] > 0
<1> USE BatchAssumption
<1> DEFINE k == req[c]
           p == k.partition_id
           j == k.id % BatchSize
<1>1. k \in Chunk
  BY DEF IInv, TypeOK, Get, InGet
<1>2. p \in Producers /\ k.id \in Nat /\ j \in 0 .. (BatchSize - 1) /\ nextId[p] \in Nat
      /\ m_currentBatch \in Nat
  BY <1>1, ChunkFields DEF IInv, TypeOK
<1>3. /\ isSet(<<p, j>>)
      /\ handed' = [handed EXCEPT ![[partition_id |-> p, id |-> m_dataArray[<<p, j>>]]] = @ + 1]
      /\ k.id \div BatchSize # m_currentBatch => ~m_producerActive[p]
  BY DEF Get, GetMustWait, reqIndex, targetIndex, handOut
<1>4. m_dataArray[<<p, j>>] = m_currentBatch * BatchSize + j
  BY <1>2, <1>3 DEF IInv, InWindow, Slots, first
<1>5. CASE m_dataArray[<<p, j>>] = k.id
  <2>1. [partition_id |-> p, id |-> m_dataArray[<<p, j>>]] = k
    BY <1>1, <1>5 DEF Chunk
  <2> HIDE DEF k, p, j
  <2>2. handed'[k] = handed[k] + 1
    BY <1>1, <1>3, <2>1 DEF IInv, TypeOK
  <2> QED BY <2>2 DEF k
<1>6. CASE m_dataArray[<<p, j>>] # k.id
  <2>1. k.id \div BatchSize # m_currentBatch
    <3> SUFFICES ASSUME k.id \div BatchSize = m_currentBatch PROVE FALSE
      OBVIOUS
    <3> DEFINE n == k.id
    <3>1. n \in Nat BY <1>2
    <3>2. n = (n \div BatchSize) * BatchSize + (n % BatchSize)
      <4> HIDE DEF n
      <4> QED BY <3>1, SMT
    <3> QED BY <1>4, <1>6, <3>2
  <2>2. k.id < nextId[p] => handed[k] = 1
    BY <1>1, <1>6 DEF IInv, Handed, targetIndex
  <2>3. k.id < nextId[p] \/ k.id >= nextId[p]
    BY <1>2
  <2> QED BY <1>3, <2>1, <2>2, <2>3
<1> QED BY <1>5, <1>6

\* The chunk that Get returns is the one it was asked for, except as GetReturnsRequested
\* says.
THEOREM GetIsExact == Spec => GetReturnsRequested
<1> DEFINE A == \A c \in Consumers :
                   call[c] \in {"get", "getting"} /\ call'[c] = "idle" =>
                      \/ handed'[req[c]] = handed[req[c]] + 1
                      \/ /\ ~m_producerActive[req[c].partition_id]
                         /\ req[c].id >= nextId[req[c].partition_id] \/ handed[req[c]] > 0
<1>1. IInv /\ [Next]_vars => A
  <2> SUFFICES ASSUME IInv, [Next]_vars, NEW c \in Consumers, call[c] \in {"get", "getting"},
                      call'[c] = "idle"
               PROVE  \/ handed'[req[c]] = handed[req[c]] + 1
                      \/ /\ ~m_producerActive[req[c].partition_id]
                         /\ req[c].id >= nextId[req[c].partition_id] \/ handed[req[c]] > 0
    OBVIOUS
  <2>1. call \in [Consumers -> {"idle", "pop", "get", "getting", "ended"}]
    BY DEF IInv, TypeOK
  <2>2. \A x \in Consumers : ~CallPop(x) /\ ~PopWait(x) /\ ~PopThrow(x) /\ ~Pop(x)
    BY <2>1 DEF CallPop, PopWait, PopThrow, Pop, CanPop
  <2>3. \A x \in Consumers : \A p \in Producers, id \in ChunkIds : ~CallGet(x, p, id)
    BY <2>1 DEF CallGet
  <2>4. \A x \in Consumers : ~GetEmpty(x) /\ ~GetWait(x) /\ ~GetThrow(x)
    BY <2>1 DEF GetEmpty, GetWait, GetThrow, return
  <2>5. \A x \in Consumers : Get(x) => x = c
    BY <2>1 DEF Get, return
  <2>6. \A p \in Producers : ~Producer(p)
    BY DEF Producer, PushWait, Push, DeleteProducer
  <2>7. ~FreeBatchData /\ ~Destructor /\ ~SpuriousWakeup /\ ~UNCHANGED vars
    BY DEF FreeBatchData, Destructor, FreeWake, FreeWait, FreeOne, FreeDone, SpuriousWakeup, vars
  <2>8. Get(c)
    BY <2>2, <2>3, <2>4, <2>5, <2>6, <2>7 DEF Next, PopStep, GetStep
  <2> QED BY <2>8, GetRequested
<1>2. IInv /\ [Next]_vars => [A]_vars
  BY <1>1
<1>3. [][A]_vars => GetReturnsRequested
  BY DEF GetReturnsRequested
<1> HIDE DEF A
<1> QED BY <1>2, <1>3, Invariance, PTL DEF Spec

-----------------------------------------------------------------------------
(* The queue implements its interface.  The argument rests on the inductive *)
(* invariant above.                                                        *)

\* The refinement mapping of BatchQueue!Abstract.
pendingSet == {[partition_id |-> idx[1], id |-> m_dataArray[idx]] : idx \in setSlots}
endedSet == IF pass = "later" THEN {} ELSE {c \in Consumers : call[c] = "ended"}

\* Filling the empty slot of a chunk adds the chunk to the pending ones.
LEMMA PendingGrows ==
    ASSUME m_dataArray \in [Slots -> ChunkIds \cup {NotSet}], NEW p \in Producers,
           NEW j \in 0 .. (BatchSize - 1), NEW n \in ChunkIds, m_dataArray[<<p, j>>] = NotSet,
           m_dataArray' = [m_dataArray EXCEPT ![<<p, j>>] = n]
    PROVE  pendingSet' = pendingSet \cup {[partition_id |-> p, id |-> n]}
<1>1. <<p, j>> \in Slots /\ n # NotSet
  BY DEF Slots, ChunkIds, NotSet
<1>2. setSlots' = setSlots \cup {<<p, j>>} /\ <<p, j>> \notin setSlots
  BY <1>1 DEF setSlots, isSet
<1>3. m_dataArray'[<<p, j>>] = n /\ \A s \in setSlots : m_dataArray'[s] = m_dataArray[s]
  BY <1>1, <1>2 DEF setSlots
<1>4. ASSUME NEW x \in pendingSet' PROVE x \in pendingSet \cup {[partition_id |-> p, id |-> n]}
  <2>1. PICK s \in setSlots' : x = [partition_id |-> s[1], id |-> m_dataArray'[s]]
    BY <1>4 DEF pendingSet
  <2>2. CASE s = <<p, j>>
    BY <2>1, <2>2, <1>3
  <2>3. CASE s \in setSlots
    BY <2>1, <2>3, <1>3 DEF pendingSet
  <2> QED BY <2>2, <2>3, <1>2
<1>5. pendingSet \subseteq pendingSet'
  <2> SUFFICES ASSUME NEW s \in setSlots
               PROVE  [partition_id |-> s[1], id |-> m_dataArray[s]] \in pendingSet'
    BY DEF pendingSet
  <2>1. s \in setSlots' /\ m_dataArray'[s] = m_dataArray[s]
    BY <1>2, <1>3
  <2>2. [partition_id |-> s[1], id |-> m_dataArray'[s]] \in pendingSet'
    BY <2>1 DEF pendingSet
  <2> QED BY <2>1, <2>2
<1>6. [partition_id |-> p, id |-> n] \in pendingSet'
  <2>1. <<p, j>> \in setSlots' /\ <<p, j>>[1] = p
    BY <1>2
  <2>2. [partition_id |-> <<p, j>>[1], id |-> m_dataArray'[<<p, j>>]] \in pendingSet'
    BY <2>1 DEF pendingSet
  <2> QED BY <2>1, <2>2, <1>3
<1> QED BY <1>4, <1>5, <1>6

\* Emptying a slot removes its chunk: no other slot holds the same one.
LEMMA PendingShrinks ==
    ASSUME IInv, NEW p \in Producers, NEW j \in 0 .. (BatchSize - 1), isSet(<<p, j>>),
           m_dataArray' = [m_dataArray EXCEPT ![<<p, j>>] = NotSet]
    PROVE  /\ [partition_id |-> p, id |-> m_dataArray[<<p, j>>]] \in pendingSet
           /\ pendingSet' = pendingSet \ {[partition_id |-> p, id |-> m_dataArray[<<p, j>>]]}
<1> DEFINE k == [partition_id |-> p, id |-> m_dataArray[<<p, j>>]]
<1>0. m_dataArray \in [Slots -> ChunkIds \cup {NotSet}] /\ InWindow /\ first \in Nat
  BY BatchAssumption DEF IInv, TypeOK, first
<1>1. <<p, j>> \in Slots /\ <<p, j>> \in setSlots /\ <<p, j>>[1] = p
  BY DEF Slots, setSlots
<1>2. setSlots' = setSlots \ {<<p, j>>}
  BY <1>0, <1>1 DEF setSlots, isSet
<1>3. \A s \in setSlots \ {<<p, j>>} : m_dataArray'[s] = m_dataArray[s]
  BY <1>0, <1>1 DEF setSlots
<1>4. k \in pendingSet
  <2>1. [partition_id |-> <<p, j>>[1], id |-> m_dataArray[<<p, j>>]] \in pendingSet
    BY <1>1 DEF pendingSet
  <2> QED BY <2>1, <1>1
<1>5. \A s \in setSlots \ {<<p, j>>} : [partition_id |-> s[1], id |-> m_dataArray[s]] # k
  <2> SUFFICES ASSUME NEW s \in setSlots, s # <<p, j>>,
                      [partition_id |-> s[1], id |-> m_dataArray[s]] = k
               PROVE  FALSE
    OBVIOUS
  <2>1. PICK q \in Producers, i \in 0 .. (BatchSize - 1) : s = <<q, i>>
    BY DEF setSlots, Slots
  <2>2. m_dataArray[s] = first + i /\ m_dataArray[<<p, j>>] = first + j
    BY <1>0, <1>1, <2>1 DEF InWindow, setSlots
  <2>3. q = p /\ m_dataArray[s] = m_dataArray[<<p, j>>]
    BY <2>1
  <2>4. i = j
    BY <2>2, <2>3, <1>0
  <2> QED BY <2>1, <2>3, <2>4
<1>6. ASSUME NEW x \in pendingSet' PROVE x \in pendingSet \ {k}
  <2>1. PICK s \in setSlots' : x = [partition_id |-> s[1], id |-> m_dataArray'[s]]
    BY <1>6 DEF pendingSet
  <2>2. s \in setSlots \ {<<p, j>>} /\ x = [partition_id |-> s[1], id |-> m_dataArray[s]]
    BY <2>1, <1>2, <1>3
  <2>3. x \in pendingSet
    BY <2>2 DEF pendingSet
  <2> QED BY <2>2, <2>3, <1>5
<1>7. ASSUME NEW x \in pendingSet \ {k} PROVE x \in pendingSet'
  <2>1. PICK s \in setSlots : x = [partition_id |-> s[1], id |-> m_dataArray[s]]
    BY <1>7 DEF pendingSet
  <2>2. s # <<p, j>>
    BY <2>1, <1>1, <1>7
  <2>3. s \in setSlots' /\ x = [partition_id |-> s[1], id |-> m_dataArray'[s]]
    BY <2>1, <2>2, <1>2, <1>3
  <2> QED BY <2>3 DEF pendingSet
<1> QED BY <1>4, <1>6, <1>7

\* A step that takes a chunk out of its slot is Take.
LEMMA TakeImplements ==
    ASSUME IInv, NEW p \in Producers, NEW j \in 0 .. (BatchSize - 1), isSet(<<p, j>>),
           readValue(<<p, j>>), UNCHANGED <<m_producerActive, nextId>>, endedSet' = endedSet
    PROVE  Abstract!Next
<1>1. PICK k : k = [partition_id |-> p, id |-> m_dataArray[<<p, j>>]]
  OBVIOUS
<1>2. k \in pendingSet /\ pendingSet' = pendingSet \ {k}
  BY <1>1, PendingShrinks DEF readValue
<1>3. Abstract!Take(k)
  BY <1>2 DEF Abstract!Take, pendingSet, endedSet
<1> QED BY <1>2, <1>3 DEF Abstract!Next, pendingSet

\* A step that leaves the four mapped values alone is a stuttering step.
LEMMA StutterImplements ==
    ASSUME UNCHANGED <<m_dataArray, m_producerActive, nextId>>, endedSet' = endedSet
    PROVE  UNCHANGED Abstract!absVars
  BY DEF Abstract!absVars, endedSet, setSlots, isSet

\* Every step of the queue implements a step of the interface.
LEMMA StepImplements == IInv /\ [Next]_vars => [Abstract!Next]_(Abstract!absVars)
<1> SUFFICES ASSUME IInv, [Next]_vars PROVE [Abstract!Next]_(Abstract!absVars)
  OBVIOUS
<1> USE BatchAssumption
<1>0. TypeOK /\ InWindow /\ InBatch /\ Counts /\ QueueMatches /\ Calls
  BY DEF IInv
<1>a. \A c \in Consumers : \A v \in {"idle", "pop", "get", "getting"} :
         call[c] # "ended" /\ call' = [call EXCEPT ![c] = v] /\ pass' = pass => endedSet' = endedSet
  BY <1>0 DEF endedSet, TypeOK
<1>b. call' = call /\ pass' = pass => endedSet' = endedSet
  BY DEF endedSet
<1>1. CASE UNCHANGED vars
  BY <1>1, <1>b, StutterImplements DEF vars, queueVars
<1>2. ASSUME NEW p \in Producers, PushWait(p) PROVE UNCHANGED Abstract!absVars
  BY <1>2, <1>b, StutterImplements DEF PushWait, queueVars
<1>3. ASSUME NEW p \in Producers, Push(p) PROVE Abstract!Next
  <2> DEFINE n == nextId[p]
             j == nextId[p] % BatchSize
  <2>1. n \in ChunkIds /\ n \in Nat /\ m_producerActive[p] /\ endedSet' = endedSet
        /\ first <= n /\ m_currentBatch \in Nat /\ n \div BatchSize <= m_currentBatch
    BY <1>0, <1>3, <1>b DEF Push, CanPush, TypeOK, ChunkIds, InBatch
  <2>2. j \in 0 .. (BatchSize - 1)
    <3> HIDE DEF n
    <3>1. nextId[p] \in Nat BY <2>1 DEF n
    <3> QED BY <3>1, PlaceType
  <2>3. m_dataArray[<<p, j>>] = NotSet
    <3>1. j = n - first /\ first \in Nat
      <4>1. m_currentBatch * BatchSize <= n BY <2>1 DEF first
      <4>2. j = n - m_currentBatch * BatchSize BY <4>1, <2>1, InCurrentBatch
      <4>3. first \in Nat BY <2>1 DEF first
      <4> QED BY <4>2, <4>3 DEF first
    <3>2. <<p, j>> \in Slots
      BY <2>2 DEF Slots
    <3>3. m_dataArray[<<p, j>>] # NotSet => m_dataArray[<<p, j>>] = first + j /\ m_dataArray[<<p, j>>] < n
      BY <1>0, <3>2 DEF InWindow, isSet
    <3>4. first + j = n
      <4> HIDE DEF j, n
      <4> QED BY <3>1, <2>1
    <3> QED BY <3>3, <3>4, <2>1
  <2>4. pendingSet' = pendingSet \cup {[partition_id |-> p, id |-> n]}
    <3>1. m_dataArray' = [m_dataArray EXCEPT ![<<p, j>>] = n]
      BY <1>3 DEF Push, targetIndex
    <3> HIDE DEF n, j
    <3> QED BY <3>1, <2>1, <2>2, <2>3, <1>0, PendingGrows DEF TypeOK
  <2>5. Abstract!Push(p)
    BY <1>3, <2>1, <2>4 DEF Abstract!Push, Abstract!chunkOf, Push, pendingSet, endedSet
  <2> QED BY <2>5 DEF Abstract!Next
<1>4. ASSUME NEW p \in Producers, DeleteProducer(p) PROVE Abstract!Next
  <2>1. Abstract!DeleteProducer(p)
    <3>1. /\ m_producerActive[p] /\ m_producerActive' = [m_producerActive EXCEPT ![p] = FALSE]
          /\ endedSet' = endedSet /\ UNCHANGED <<nextId, m_dataArray>>
      BY <1>4, <1>b DEF DeleteProducer
    <3>2. pendingSet' = pendingSet
      BY <3>1 DEF pendingSet, setSlots, isSet
    <3>3. activeSet(m_producerActive)' = activeSet(m_producerActive) \ {p} /\ p \in activeSet(m_producerActive)
      BY <3>1, <1>0 DEF activeSet, TypeOK
    <3> QED BY <3>1, <3>2, <3>3 DEF Abstract!DeleteProducer, pendingSet, endedSet, activeSet
  <2> QED BY <2>1 DEF Abstract!Next
<1>5. ASSUME NEW c \in Consumers, CallPop(c) PROVE UNCHANGED Abstract!absVars
  BY <1>5, <1>a, StutterImplements DEF CallPop, queueVars
<1>6. ASSUME NEW c \in Consumers, PopWait(c) PROVE UNCHANGED Abstract!absVars
  BY <1>6, <1>b, StutterImplements DEF PopWait, queueVars
<1>7. ASSUME NEW c \in Consumers, PopThrow(c) PROVE Abstract!Next
  <2>1. /\ call[c] = "pop" /\ pass = "first" /\ m_itemsToRead = 0 /\ m_activeProducers = 0
        /\ call' = [call EXCEPT ![c] = "ended"]
        /\ UNCHANGED <<pass, nextId, m_dataArray, m_producerActive>>
    BY <1>7, <1>0 DEF PopThrow, CanPop, Calls, queueVars
  <2>2. activeSet(m_producerActive) = {} /\ filled(m_dataArray) = {}
    BY <2>1, <1>0, FiniteSlots, FS_EmptySet DEF Counts
  <2>3. pendingSet = {}
    BY <2>2 DEF pendingSet, setSlots, isSet, filled
  <2>4. endedSet' = endedSet \cup {c}
    BY <2>1, <1>0 DEF endedSet, TypeOK
  <2>5. Abstract!End(c)
    <3>1. pendingSet' = pendingSet /\ activeSet(m_producerActive)' = activeSet(m_producerActive)
      BY <2>1 DEF pendingSet, setSlots, isSet, activeSet
    <3> QED BY <3>1, <2>1, <2>2, <2>3, <2>4 DEF Abstract!End, pendingSet, endedSet, activeSet
  <2> QED BY <2>5 DEF Abstract!Next
<1>8. ASSUME NEW c \in Consumers, Pop(c) PROVE Abstract!Next
  <2> DEFINE res == Head(m_queue)
             p == res.partition_id
             j == res.id % BatchSize
  <2>1. /\ call[c] = "pop" /\ pass = "first" /\ drain = "off"
        /\ m_queue \in Seq(Chunk) /\ Len(m_queue) # 0
    BY <1>0, <1>8 DEF Pop, CanPop, Calls, Counts, TypeOK
  <2>2. res \in Chunk /\ res = m_queue[1] /\ 1 \in 1 .. Len(m_queue)
    BY <2>1
  <2>3. p \in Producers /\ res.id \in ChunkIds /\ res.id \in Nat
    BY <2>2 DEF Chunk, ChunkIds
  <2>4. j \in 0 .. (BatchSize - 1) /\ res.id # NotSet
    <3>1. j \in 0 .. (BatchSize - 1) BY <2>3, PlaceType
    <3> QED BY <3>1, <2>3 DEF NotSet
  <2>5. isSet(<<p, j>>)
    BY <1>0, <2>1, <2>2, <2>4 DEF QueueMatches, targetIndex, isSet
  <2>6. readValue(<<p, j>>) /\ UNCHANGED <<m_producerActive, nextId>> /\ endedSet' = endedSet
    BY <1>8, <1>a, <2>1 DEF Pop, targetIndex
  <2> HIDE DEF res, p, j
  <2> QED BY <2>3, <2>4, <2>5, <2>6, TakeImplements
<1>9. ASSUME NEW c \in Consumers, NEW p \in Producers, NEW id \in ChunkIds, CallGet(c, p, id)
      PROVE  UNCHANGED Abstract!absVars
  BY <1>9, <1>a, StutterImplements DEF CallGet, queueVars
<1>c. ASSUME NEW c \in Consumers, call[c] \in {"get", "getting"}, pass' = pass PROVE endedSet' = endedSet
  BY <1>c, <1>0 DEF Calls, endedSet
<1>10. ASSUME NEW c \in Consumers, GetEmpty(c) PROVE UNCHANGED Abstract!absVars
  BY <1>10, <1>c, StutterImplements DEF GetEmpty, queueVars
<1>11. ASSUME NEW c \in Consumers, GetWait(c) PROVE UNCHANGED Abstract!absVars
  BY <1>11, <1>c, StutterImplements DEF GetWait, InGet, queueVars
<1>12. ASSUME NEW c \in Consumers, GetThrow(c) PROVE UNCHANGED Abstract!absVars
  BY <1>12, <1>c, StutterImplements DEF GetThrow, InGet, queueVars
<1>13. ASSUME NEW c \in Consumers, Get(c) PROVE Abstract!Next
  <2> DEFINE p == req[c].partition_id
             j == req[c].id % BatchSize
  <2>1. call[c] \in {"get", "getting"} /\ req[c] \in Chunk
    BY <1>0, <1>13 DEF Get, InGet, TypeOK
  <2>2. p \in Producers /\ req[c].id \in Nat
    BY <2>1 DEF Chunk, ChunkIds
  <2>3. j \in 0 .. (BatchSize - 1)
    BY <2>2, PlaceType
  <2>4. /\ isSet(<<p, j>>) /\ readValue(<<p, j>>)
        /\ UNCHANGED <<m_producerActive, nextId>> /\ endedSet' = endedSet
    BY <1>13, <2>1, <1>c DEF Get, reqIndex, targetIndex
  <2> HIDE DEF p, j
  <2> QED BY <2>2, <2>3, <2>4, TakeImplements
<1>14. CASE FreeBatchData
  BY <1>14, <1>b, StutterImplements DEF FreeBatchData, queueVars
<1>15. CASE FreeWake \/ FreeWait \/ FreeDone
  BY <1>15, <1>b, StutterImplements DEF FreeWake, FreeWait, FreeDone, queueVars
<1>16. CASE FreeOne
  <2>1. PICK idx \in Slots : isSet(idx) /\ readValue(idx)
    BY <1>16 DEF FreeOne
  <2>2. PICK p \in Producers, j \in 0 .. (BatchSize - 1) : idx = <<p, j>>
    BY DEF Slots
  <2>3. isSet(<<p, j>>) /\ readValue(<<p, j>>)
    BY <2>1, <2>2
  <2> QED BY <2>3, <1>16, <1>b, TakeImplements DEF FreeOne
<1>17. CASE SpuriousWakeup
  BY <1>17, <1>b, StutterImplements DEF SpuriousWakeup, queueVars
<1> QED
  BY <1>1, <1>2, <1>3, <1>4, <1>5, <1>6, <1>7, <1>8, <1>9, <1>10, <1>11, <1>12, <1>13,
     <1>14, <1>15, <1>16, <1>17
  DEF Next, Producer, PopStep, GetStep, Destructor

\* ThreadSafeBatchQueue implements the interface: chunks are taken only after
\* they were pushed and at most once, and Pop reports the end of the queue only
\* when every reader has left and every chunk was taken.
THEOREM Refinement == Spec => Implements
<1>1. Init => Abstract!Init
  <2> SUFFICES ASSUME Init PROVE Abstract!Init
    OBVIOUS
  <2>1. nextId = [p \in Producers |-> 0]
    BY DEF Init
  <2>2. pendingSet = {}
    BY DEF Init, pendingSet, setSlots, isSet
  <2>3. activeSet(m_producerActive) = Producers
    BY DEF Init, activeSet
  <2>4. endedSet = {}
    BY DEF Init, endedSet
  <2> QED BY <2>1, <2>2, <2>3, <2>4 DEF Abstract!Init, pendingSet, activeSet, endedSet
<1> QED BY <1>1, Invariance, StepImplements, PTL DEF Spec, Implements, Abstract!Spec

-----------------------------------------------------------------------------
(* The read.  Its inductive invariant, next to that of the queue.          *)

Ended == {"delete", "done"}

MTyped ==
    /\ total \in [Producers -> 0 .. MaxChunks]
    /\ failures \in Nat
    /\ pc \in [Producers -> {"start", "loop", "push"} \cup Ended]
    /\ m_error \in [Producers -> BOOLEAN]
    /\ m_stop_reading \in [Producers -> BOOLEAN]
    /\ closing \in BOOLEAN
    /\ order \in [Consumers -> Seq(Chunk)]
    /\ pos \in [Consumers -> Nat]
    /\ told \in [Consumers -> {"nothing", "chunk", "error", "end"}]

\* A reader is a producer of the queue until it has called DeleteProducer, it pushes
\* only chunks of its partition, and it ends because of an error, the destructor or
\* the end of its data.
Ran ==
    \A p \in Producers :
        /\ m_producerActive[p] <=> pc[p] # "done"
        /\ nextId[p] <= total[p]
        /\ pc[p] = "push" => nextId[p] < total[p]
        /\ pc[p] \in Ended => m_error[p] \/ m_stop_reading[p] \/ nextId[p] = total[p]
        /\ m_stop_reading[p] => closing

\* The destructor runs when no CAS thread is inside a call.
Closed ==
    /\ drain # "off" => closing
    /\ \A c \in Consumers : call[c] \in {"pop", "get", "getting"} => ~closing

Finished ==
    /\ m_itemsToRead = 0
    /\ \A p \in Producers : ~m_producerActive[p] /\ nextId[p] = total[p]

\* A CAS thread is told of the end of the first pass only when all is read.
Told == pass = "first" /\ (\E c \in Consumers : told[c] = "end") => Finished

\* What the CAS threads remember of the first pass: chunks that exist, each once.
Remembered ==
    /\ \A c \in Consumers : \A i \in 1 .. Len(order[c]) :
          /\ order[c][i].id < total[order[c][i].partition_id]
          /\ pass = "first" => handed[order[c][i]] = 1
    /\ \A c, d \in Consumers : \A i \in 1 .. Len(order[c]) : \A j \in 1 .. Len(order[d]) :
          order[c][i] = order[d][j] => c = d /\ i = j
    /\ pass = "first" => \A c \in Consumers : pos[c] = 0

NoErrors == \A p \in Producers : ~m_error[p]

\* Where a CAS thread is in the replay: the chunk it asks for is the next of its list
\* and, unless a reader has failed, neither that one nor those after it were handed
\* to anyone.
Replayed ==
    pass = "later" /\ ~closing =>
        /\ \A c \in Consumers : told[c] # "end"
        /\ \A c \in Consumers : call[c] \in {"get", "getting"} =>
              pos[c] < Len(order[c]) /\ req[c] = order[c][pos[c] + 1]
        /\ NoErrors => \A c \in Consumers : \A i \in 1 .. Len(order[c]) :
              i > pos[c] => handed[order[c][i]] = 0

MInv == IInv /\ MTyped /\ Ran /\ Closed /\ Told /\ Remembered /\ Replayed

-----------------------------------------------------------------------------
(* The first states.                                                       *)

USE DEF readerVars, casVars

\* The invariant holds when ParallelReadGetQueue returns the first queue.
LEMMA MInitInv == MInit => MInv
<1> SUFFICES ASSUME MInit PROVE MInv
  OBVIOUS
<1>1. IInv
  BY InitIInv DEF MInit
<1>2. MTyped
  <2>1. order \in [Consumers -> Seq(Chunk)]
    <3>1. <<>> \in Seq(Chunk)
      OBVIOUS
    <3> QED BY <3>1 DEF MInit
  <2>2. m_error \in [Producers -> BOOLEAN] /\ m_stop_reading \in [Producers -> BOOLEAN]
    BY DEF MInit
  <2> QED BY <2>1, <2>2, MultiPassAssumption DEF MInit, MTyped
<1>3. Ran
  BY <1>2, BatchAssumption DEF MInit, Init, Ran, MTyped, Ended
<1>4. Closed /\ Told /\ Remembered /\ Replayed
  BY DEF MInit, Init, Closed, Told, Remembered, Replayed
<1> QED BY <1>1, <1>2, <1>3, <1>4 DEF MInv

-----------------------------------------------------------------------------
(* Steps that hand out no chunk.                                           *)

\* A step that changes neither the chunks nor what the CAS threads know of them.
LEMMA NothingHanded ==
    ASSUME MInv, IInv', MTyped', Ran', Closed',
           UNCHANGED <<m_itemsToRead, nextId, handed, pass, total, order, pos, told>>,
           \A p \in Producers : m_producerActive'[p] => m_producerActive[p],
           \A c \in Consumers : call'[c] \in {"get", "getting"} =>
               call[c] \in {"get", "getting"} /\ req'[c] = req[c],
           \A p \in Producers : m_error[p] => m_error'[p],
           ~closing' => ~closing
    PROVE  MInv'
<1>1. Told'
  BY DEF MInv, Told, Finished
<1>2. Remembered'
  BY DEF MInv, Remembered
<1>3. Replayed'
  BY DEF MInv, Replayed, NoErrors
<1> QED BY <1>1, <1>2, <1>3 DEF MInv

\* A step of a reader outside the queue.
LEMMA ReaderStep ==
    ASSUME MInv, NEW p \in Producers, PrepareRead(p) \/ FillChunk(p) \/ EndLoop(p)
    PROVE  MInv'
<1>1. UNCHANGED <<vars, total, m_stop_reading, closing, casVars>>
  BY DEF PrepareRead, FillChunk, EndLoop
<1>2. UNCHANGED <<queueVars, waiters, nextId, call, req, drain, handed, pass>>
  BY <1>1 DEF vars
<1>3. IInv'
  BY <1>1, NextIInv DEF MInv
<1>4. /\ pc[p] \in {"start", "loop"} /\ pc' = [pc EXCEPT ![p] = pc'[p]]
      /\ pc'[p] \in {"loop", "push", "delete"}
  BY DEF MInv, MTyped, PrepareRead, FillChunk, EndLoop, goto
<1>5. m_error' = m_error \/ m_error' = [m_error EXCEPT ![p] = TRUE]
  BY DEF PrepareRead, FillChunk, EndLoop
<1>6. /\ pc'[p] = "push" => nextId[p] < total[p]
      /\ pc'[p] = "delete" => m_error'[p] \/ m_stop_reading[p] \/ nextId[p] = total[p]
  BY DEF MInv, MTyped, PrepareRead, FillChunk, EndLoop, goto
<1>7. MTyped'
  <2>1. pc' \in [Producers -> {"start", "loop", "push"} \cup Ended]
    BY <1>4 DEF MInv, MTyped, Ended
  <2>2. m_error' \in [Producers -> BOOLEAN]
    BY <1>5 DEF MInv, MTyped
  <2>3. failures' \in Nat
    BY DEF MInv, MTyped, PrepareRead, FillChunk, EndLoop, fail
  <2> QED BY <1>1, <2>1, <2>2, <2>3 DEF MInv, MTyped
<1>8. \A x \in Producers : m_error[x] => m_error'[x]
  BY <1>5 DEF MInv, MTyped
<1>9. Ran'
  <2>1. \A x \in Producers : x # p => pc'[x] = pc[x]
    BY <1>4 DEF MInv, MTyped
  <2>2. m_producerActive' = m_producerActive /\ nextId' = nextId
    BY <1>2 DEF queueVars
  <2> QED BY <1>1, <1>4, <1>6, <1>8, <2>1, <2>2 DEF MInv, Ran, Ended
<1>10. Closed'
  BY <1>1, <1>2 DEF MInv, Closed
<1> QED BY <1>1, <1>2, <1>3, <1>7, <1>8, <1>9, <1>10, NothingHanded DEF queueVars

\* A reader waits for the next batch.
LEMMA PushWaitStep ==
    ASSUME MInv, NEW p \in Producers, ReaderPush(p), PushWait(p), UNCHANGED pc
    PROVE  MInv'
<1>1. UNCHANGED <<queueVars, nextId, call, req, drain, handed, pass>>
  BY DEF PushWait
<1>2. UNCHANGED <<total, failures, m_error, m_stop_reading, closing, casVars, pc>>
  BY DEF ReaderPush
<1>3. IInv'
  BY NextIInv DEF MInv, Next, Producer
<1>4. MTyped' /\ Ran' /\ Closed'
  BY <1>1, <1>2 DEF MInv, MTyped, Ran, Closed, queueVars
<1> QED BY <1>1, <1>2, <1>3, <1>4, NothingHanded DEF queueVars

\* A reader ends.
LEMMA ReaderEndStep ==
    ASSUME MInv, NEW p \in Producers, ReaderEnd(p)
    PROVE  MInv'
<1>1. /\ UNCHANGED <<m_itemsToRead, nextId, call, req, drain, handed, pass>>
      /\ m_producerActive' = [m_producerActive EXCEPT ![p] = FALSE]
  BY DEF ReaderEnd, DeleteProducer
<1>2. /\ UNCHANGED <<total, failures, m_error, m_stop_reading, closing, casVars>>
      /\ pc[p] = "delete" /\ pc' = [pc EXCEPT ![p] = "done"]
  BY DEF ReaderEnd, goto
<1>3. IInv'
  <2>1. DeleteProducer(p)
    BY DEF ReaderEnd
  <2> QED BY <2>1, NextIInv DEF MInv, Next, Producer
<1>4. MTyped' /\ Closed'
  BY <1>1, <1>2 DEF MInv, MTyped, Closed, Ended
<1>5. /\ ~m_producerActive'[p] /\ pc'[p] = "done"
      /\ \A x \in Producers : x # p => m_producerActive'[x] = m_producerActive[x] /\ pc'[x] = pc[x]
  BY <1>1, <1>2 DEF MInv, IInv, TypeOK, MTyped
<1>6. Ran'
  BY <1>1, <1>2, <1>5 DEF MInv, Ran, Ended
<1> QED BY <1>1, <1>2, <1>3, <1>4, <1>5, <1>6, NothingHanded

\* A CAS thread calls GetNextChunk, or waits in it.
LEMMA PopCallStep ==
    ASSUME MInv, NEW c \in Consumers, (CallPop(c) /\ ~closing) \/ PopWait(c),
           UNCHANGED <<total, failures, readerVars, closing, casVars>>
    PROVE  MInv'
<1>1. UNCHANGED <<queueVars, nextId, req, drain, handed, pass>>
  BY DEF CallPop, PopWait
<1>2. /\ call[c] \in {"idle", "pop"} /\ call' = [call EXCEPT ![c] = "pop"]
  BY DEF CallPop, PopWait, CanPop, MInv, IInv, TypeOK
<1>3. IInv'
  BY NextIInv DEF MInv, Next, PopStep
<1>4. /\ call'[c] = "pop" /\ \A x \in Consumers : x # c => call'[x] = call[x]
  BY <1>2 DEF MInv, IInv, TypeOK
<1>5. ~closing
  BY DEF MInv, Closed, CallPop, PopWait, CanPop
<1>6. MTyped' /\ Ran'
  BY <1>1 DEF MInv, MTyped, Ran, queueVars
<1>7. Closed'
  BY <1>1, <1>4, <1>5 DEF MInv, Closed
<1> QED BY <1>1, <1>3, <1>4, <1>6, <1>7, NothingHanded DEF queueVars

\* A CAS thread waits in GetChunkMulti.
LEMMA GetWaitStep ==
    ASSUME MInv, NEW c \in Consumers, GetWait(c),
           UNCHANGED <<total, failures, readerVars, closing, casVars>>
    PROVE  MInv'
<1>1. UNCHANGED <<queueVars, nextId, req, drain, handed, pass>>
  BY DEF GetWait
<1>2. call[c] \in {"get", "getting"} /\ call' = [call EXCEPT ![c] = "getting"]
  BY DEF GetWait, InGet
<1>3. IInv'
  BY NextIInv DEF MInv, Next, GetStep
<1>4. /\ call'[c] = "getting" /\ \A x \in Consumers : x # c => call'[x] = call[x]
  BY <1>2 DEF MInv, IInv, TypeOK
<1>5. MTyped' /\ Ran'
  BY <1>1 DEF MInv, MTyped, Ran, queueVars
<1>6. Closed'
  BY <1>1, <1>2, <1>4 DEF MInv, Closed
<1> QED BY <1>1, <1>2, <1>3, <1>4, <1>5, <1>6, NothingHanded DEF queueVars

\* The destructor is called.
LEMMA FreeStep ==
    ASSUME MInv, ChunkQueueFree
    PROVE  MInv'
<1>1. UNCHANGED <<vars, total, failures, readerVars, casVars>> /\ closing'
      /\ \A c \in Consumers : call[c] \in {"idle", "ended"}
  BY DEF ChunkQueueFree
<1>2. UNCHANGED <<queueVars, waiters, nextId, call, req, drain, handed, pass>>
  BY <1>1 DEF vars
<1>3. IInv'
  BY <1>1, NextIInv DEF MInv
<1>4. MTyped'
  BY <1>1 DEF MInv, MTyped, ChunkQueueFree
<1>5. Ran' /\ Closed'
  BY <1>1, <1>2 DEF MInv, Ran, Closed, queueVars
<1> QED BY <1>1, <1>2, <1>3, <1>4, <1>5, NothingHanded DEF queueVars

\* A reader is told to stop.
LEMMA StopStep ==
    ASSUME MInv, NEW p \in Producers, StopReader(p)
    PROVE  MInv'
<1>1. UNCHANGED <<vars, total, failures, pc, m_error, closing, casVars>> /\ closing
      /\ m_stop_reading' = [m_stop_reading EXCEPT ![p] = TRUE]
  BY DEF StopReader
<1>2. UNCHANGED <<queueVars, waiters, nextId, call, req, drain, handed, pass>>
  BY <1>1 DEF vars
<1>3. IInv'
  BY <1>1, NextIInv DEF MInv
<1>4. MTyped'
  BY <1>1 DEF MInv, MTyped
<1>5. Closed'
  BY <1>1, <1>2 DEF MInv, Closed
<1>6. \A x \in Producers : m_stop_reading[x] => m_stop_reading'[x]
  BY <1>1 DEF MInv, MTyped
<1>7. Ran'
  BY <1>1, <1>2, <1>6 DEF MInv, Ran, queueVars
<1> QED BY <1>1, <1>2, <1>3, <1>4, <1>5, <1>7, NothingHanded DEF queueVars

\* The destructor waits or ends, a thread wakes up for no reason, or nothing happens.
LEMMA WaitStep ==
    ASSUME MInv, [Next]_vars, UNCHANGED <<total, failures, readerVars, closing, casVars>>,
           UNCHANGED <<queueVars, nextId, call, req, handed, pass>>,
           drain' # "off" => closing
    PROVE  MInv'
<1>1. IInv'
  BY NextIInv DEF MInv
<1>2. MTyped' /\ Ran' /\ Closed'
  BY DEF MInv, MTyped, Ran, Closed, queueVars
<1> QED BY <1>1, <1>2, NothingHanded DEF queueVars

-----------------------------------------------------------------------------
(* Steps on the chunks.                                                    *)

\* A reader pushes a chunk.
LEMMA PushedStep ==
    ASSUME MInv, NEW p \in Producers, ReaderPush(p), Push(p), goto(p, "loop")
    PROVE  MInv'
<1>1. /\ UNCHANGED <<total, failures, m_error, m_stop_reading, closing, casVars>>
      /\ pc[p] = "push" /\ pc' = [pc EXCEPT ![p] = "loop"]
  BY DEF ReaderPush, goto
<1>2. /\ UNCHANGED <<m_producerActive, call, req, drain, handed, pass>>
      /\ nextId' = [nextId EXCEPT ![p] = @ + 1] /\ m_producerActive[p]
  BY DEF Push, CanPush
<1>3. IInv'
  BY NextIInv DEF MInv, Next, Producer
<1>4. MTyped' /\ Closed'
  BY <1>1, <1>2 DEF MInv, MTyped, Closed
<1>5. nextId[p] \in Nat /\ total[p] \in Nat /\ nextId[p] < total[p]
  BY <1>1, BatchAssumption DEF MInv, IInv, TypeOK, MTyped, Ran
<1>6. /\ pc'[p] = "loop" /\ nextId'[p] = nextId[p] + 1
      /\ \A x \in Producers : x # p => nextId'[x] = nextId[x] /\ pc'[x] = pc[x]
  BY <1>1, <1>2 DEF MInv, IInv, TypeOK, MTyped
<1>7. Ran'
  <2>1. nextId'[p] <= total[p]
    BY <1>5, <1>6
  <2> QED BY <1>1, <1>2, <1>6, <2>1 DEF MInv, Ran, Ended
<1>8. Told'
  BY <1>1, <1>2 DEF MInv, Told, Finished
<1>9. Remembered'
  BY <1>1, <1>2 DEF MInv, Remembered
<1>10. Replayed'
  BY <1>1, <1>2 DEF MInv, Replayed, NoErrors
<1> QED BY <1>3, <1>4, <1>7, <1>8, <1>9, <1>10 DEF MInv

\* What has been handed out stays so, and no chunk is handed out again.
LEMMA HandedStays ==
    ASSUME IInv, IInv', NEW k \in Chunk, handOut(k)
    PROVE  /\ handed[k] = 0 /\ handed'[k] = 1
           /\ \A x \in Chunk : x # k => handed'[x] = handed[x]
<1>1. handed \in [Chunk -> Nat] /\ handed'[k] = handed[k] + 1
      /\ \A x \in Chunk : x # k => handed'[x] = handed[x]
  BY DEF IInv, TypeOK, handOut
<1>2. handed'[k] = 0 \/ handed'[k] = 1
  <2>1. Handed'
    BY DEF IInv
  <2> QED BY <2>1 DEF Handed
<1> QED BY <1>1, <1>2

\* In the first pass a CAS thread gets a chunk, which nobody has.
LEMMA PoppedStep ==
    ASSUME MInv, NEW c \in Consumers, Pop(c),
           order' = [order EXCEPT ![c] = Append(@, Head(m_queue))],
           told' = [told EXCEPT ![c] = "chunk"],
           UNCHANGED <<total, failures, readerVars, closing, pos>>
    PROVE  MInv'
<1> DEFINE k == Head(m_queue)
           u == order[c]
           w == order'[c]
<1>1. pass = "first" /\ drain = "off" /\ m_queue \in Seq(Chunk) /\ m_queue # <<>> /\ ~closing
  <2>1. call[c] = "pop" /\ m_itemsToRead # 0
    BY DEF Pop, CanPop
  <2> QED BY <2>1 DEF MInv, IInv, Calls, Counts, TypeOK, Closed
<1>2. k \in Chunk /\ handOut(k)
  BY <1>1 DEF Pop
<1>3. IInv'
  BY NextIInv DEF MInv, Next, PopStep
<1>4. /\ UNCHANGED <<m_producerActive, nextId, req, drain, pass>>
      /\ call' = [call EXCEPT ![c] = "idle"] /\ m_itemsToRead # 0
  BY DEF Pop
<1>5. /\ handed[k] = 0 /\ handed'[k] = 1
      /\ \A x \in Chunk : x # k => handed'[x] = handed[x]
  BY <1>2, <1>3, HandedStays DEF MInv
<1>6. /\ call'[c] = "idle" /\ told'[c] = "chunk"
      /\ \A d \in Consumers : d # c => call'[d] = call[d] /\ told'[d] = told[d] /\ order'[d] = order[d]
  BY <1>4 DEF MInv, MTyped, IInv, TypeOK
<1>7. k.id < nextId[k.partition_id] /\ k.partition_id \in Producers
  <2>1. k.partition_id \in Producers
    BY <1>2, ChunkFields
  <2>2. Handed'
    BY <1>3 DEF IInv
  <2>3. nextId' = nextId
    BY <1>4
  <2> HIDE DEF k
  <2> QED BY <1>2, <1>5, <2>1, <2>2, <2>3 DEF Handed
<1>8. u \in Seq(Chunk) /\ Len(u) \in Nat /\ w = Append(u, k)
  BY DEF MInv, MTyped
<1> HIDE DEF k, u, w
<1>9. /\ Len(w) = Len(u) + 1 /\ w[Len(u) + 1] = k
      /\ \A i \in 1 .. Len(u) : w[i] = u[i] /\ u[i] \in Chunk
      /\ \A i \in 1 .. Len(w) : i \in 1 .. Len(u) \/ i = Len(u) + 1
  BY <1>2, <1>8
<1>10. MTyped'
  <2>1. order' \in [Consumers -> Seq(Chunk)]
    <3>1. Append(order[c], k) \in Seq(Chunk)
      BY <1>2, <1>8 DEF u
    <3> QED BY <3>1 DEF MInv, MTyped, k
  <2> QED BY <2>1 DEF MInv, MTyped
<1>11. Ran' /\ Closed'
  BY <1>4, <1>6 DEF MInv, Ran, Closed
<1>12. Told'
  BY <1>4, <1>6 DEF MInv, Told, Finished
<1>13. k.id < total[k.partition_id]
  <2>1. nextId[k.partition_id] <= total[k.partition_id]
    BY <1>7 DEF MInv, Ran
  <2>2. k.id \in Nat /\ nextId[k.partition_id] \in Nat /\ total[k.partition_id] \in Nat
    BY <1>2, <1>7, ChunkFields, BatchAssumption DEF MInv, IInv, TypeOK, MTyped
  <2> QED BY <1>7, <2>1, <2>2
<1>14. \A d \in Consumers : \A i \in 1 .. Len(order[d]) :
          order[d][i] \in Chunk /\ handed[order[d][i]] = 1 /\ order[d][i] # k
  <2> TAKE d \in Consumers
  <2>1. order[d] \in Seq(Chunk)
    BY DEF MInv, MTyped
  <2> TAKE i \in 1 .. Len(order[d])
  <2>2. order[d][i] \in Chunk
    BY <2>1
  <2>3. handed[order[d][i]] = 1
    BY <1>1 DEF MInv, Remembered
  <2> QED BY <1>5, <2>2, <2>3
<1>15. Remembered'
  <2>1. \A d \in Consumers : \A i \in 1 .. Len(order'[d]) :
            /\ \/ d = c /\ i = Len(u) + 1 /\ order'[d][i] = k
               \/ i \in 1 .. Len(order[d]) /\ order'[d][i] = order[d][i]
    BY <1>6, <1>9 DEF u, w
  <2>2. \A d \in Consumers : \A i \in 1 .. Len(order'[d]) :
            /\ order'[d][i].id < total[order'[d][i].partition_id]
            /\ handed'[order'[d][i]] = 1
    BY <1>5, <1>13, <1>14, <2>1 DEF MInv, Remembered
  <2>3. \A d, e \in Consumers : \A i \in 1 .. Len(order'[d]) : \A j \in 1 .. Len(order'[e]) :
            order'[d][i] = order'[e][j] => d = e /\ i = j
    <3> TAKE d, e \in Consumers
    <3> TAKE i \in 1 .. Len(order'[d])
    <3> TAKE j \in 1 .. Len(order'[e])
    <3>1. CASE d = c /\ i = Len(u) + 1 /\ order'[d][i] = k
      BY <1>14, <2>1, <3>1
    <3>2. CASE i \in 1 .. Len(order[d]) /\ order'[d][i] = order[d][i]
      <4>1. CASE e = c /\ j = Len(u) + 1 /\ order'[e][j] = k
        BY <1>14, <3>2, <4>1
      <4>2. CASE j \in 1 .. Len(order[e]) /\ order'[e][j] = order[e][j]
        BY <3>2, <4>2 DEF MInv, Remembered
      <4> QED BY <2>1, <4>1, <4>2
    <3> QED BY <2>1, <3>1, <3>2
  <2> QED BY <1>4, <2>2, <2>3 DEF MInv, Remembered
<1>16. Replayed'
  BY <1>1, <1>4 DEF Replayed
<1> QED BY <1>3, <1>10, <1>11, <1>12, <1>15, <1>16 DEF MInv

\* In the first pass Pop throws when nothing is left: without an error, and as nobody
\* was told to stop, every reader has pushed all it had.
LEMMA PopThrownStep ==
    ASSUME MInv, NEW c \in Consumers, PopThrow(c),
           told' = [told EXCEPT ![c] = outcome], UNCHANGED order,
           UNCHANGED <<total, failures, readerVars, closing, pos>>
    PROVE  MInv'
<1>1. /\ UNCHANGED <<queueVars, nextId, req, drain, handed, pass>>
      /\ call[c] = "pop" /\ call' = [call EXCEPT ![c] = "ended"]
      /\ m_itemsToRead = 0 /\ m_activeProducers = 0
  BY DEF PopThrow, CanPop
<1>2. IInv'
  BY NextIInv DEF MInv, Next, PopStep
<1>3. pass = "first" /\ ~closing
  BY <1>1 DEF MInv, IInv, Calls, Closed
<1>4. /\ call'[c] = "ended" /\ \A d \in Consumers : d # c => call'[d] = call[d] /\ told'[d] = told[d]
      /\ told'[c] \in {"error", "end"} /\ (told'[c] = "end" => NoErrors)
  BY <1>1 DEF MInv, MTyped, IInv, TypeOK, outcome, NoErrors
<1>5. MTyped'
  <2>1. told' \in [Consumers -> {"nothing", "chunk", "error", "end"}]
    BY <1>4 DEF MInv, MTyped
  <2> QED BY <2>1 DEF MInv, MTyped
<1>6. Ran' /\ Closed'
  BY <1>1, <1>4 DEF MInv, Ran, Closed, queueVars
<1>7. told'[c] = "end" => Finished
  <2> SUFFICES ASSUME NoErrors PROVE Finished
    BY <1>4
  <2>1. activeSet(m_producerActive) = {}
    BY <1>1, FiniteSlots, FS_EmptySet DEF MInv, IInv, Counts
  <2>2. \A p \in Producers : ~m_producerActive[p] /\ ~m_stop_reading[p] /\ ~m_error[p]
    BY <1>3, <2>1 DEF activeSet, MInv, Ran, NoErrors
  <2>3. \A p \in Producers : pc[p] \in Ended
    BY <2>2 DEF MInv, Ran, Ended
  <2>4. \A p \in Producers : nextId[p] = total[p]
    BY <2>2, <2>3 DEF MInv, Ran
  <2> QED BY <1>1, <2>2, <2>4 DEF Finished
<1>8. Told'
  <2>1. Finished => Finished'
    BY <1>1 DEF Finished, queueVars
  <2>2. (\E d \in Consumers : told'[d] = "end") => told'[c] = "end" \/ \E d \in Consumers : told[d] = "end"
    BY <1>4
  <2> QED BY <1>1, <1>7, <2>1, <2>2 DEF MInv, Told
<1>9. Remembered'
  <2>1. order' = order /\ handed' = handed /\ pass' = pass /\ total' = total /\ pos' = pos
    BY <1>1
  <2>2. Remembered
    BY DEF MInv
  <2> QED BY <2>1, <2>2 DEF Remembered
<1>10. Replayed'
  BY <1>1, <1>3 DEF Replayed
<1> QED BY <1>2, <1>5, <1>6, <1>8, <1>9, <1>10 DEF MInv

\* A CAS thread asks for the next chunk of its list.
LEMMA AskedStep ==
    ASSUME MInv, NEW c \in Consumers, GetChunkMulti(c)
    PROVE  MInv'
<1> DEFINE k == order[c][pos[c] + 1]
<1>1. /\ UNCHANGED <<total, failures, readerVars, closing, casVars>> /\ ~closing
      /\ pos[c] < Len(order[c]) /\ CallGet(c, k.partition_id, k.id)
  BY DEF GetChunkMulti
<1>2. k \in Chunk
  <2>1. order[c] \in Seq(Chunk) /\ pos[c] \in Nat
    BY DEF MInv, MTyped
  <2>2. pos[c] + 1 \in 1 .. Len(order[c])
    BY <1>1, <2>1
  <2> QED BY <2>1, <2>2
<1>3. k.partition_id \in Producers /\ k.id \in ChunkIds /\ k = [partition_id |-> k.partition_id, id |-> k.id]
  BY <1>2 DEF Chunk
<1> HIDE DEF k
<1>4. /\ UNCHANGED <<queueVars, nextId, drain, handed, pass>>
      /\ call' = [call EXCEPT ![c] = "get"] /\ req' = [req EXCEPT ![c] = k]
  BY <1>1, <1>3 DEF CallGet
<1>5. IInv'
  BY <1>1, <1>3, NextIInv DEF MInv, Next
<1>6. /\ call'[c] = "get" /\ req'[c] = k
      /\ \A d \in Consumers : d # c => call'[d] = call[d] /\ req'[d] = req[d]
  BY <1>4 DEF MInv, IInv, TypeOK
<1>7. MTyped' /\ Ran' /\ Closed'
  BY <1>1, <1>4, <1>6 DEF MInv, MTyped, Ran, Closed, queueVars
<1>8. Told' /\ Remembered'
  BY <1>1, <1>4 DEF MInv, Told, Finished, Remembered, queueVars
<1>9. Replayed'
  <2> SUFFICES ASSUME pass = "later" PROVE Replayed'
    BY <1>4 DEF Replayed
  <2>1. \A d \in Consumers : call'[d] \in {"get", "getting"} =>
           pos[d] < Len(order[d]) /\ req'[d] = order[d][pos[d] + 1]
    BY <1>1, <1>6 DEF MInv, Replayed, k
  <2> QED BY <1>1, <1>4, <2>1 DEF MInv, Replayed, NoErrors
<1> QED BY <1>5, <1>7, <1>8, <1>9 DEF MInv

\* A chunk of the list that was not handed out yet, if no reader has failed and none
\* was told to stop, is on its way.
LEMMA StillComes ==
    ASSUME MInv, NEW c \in Consumers, call[c] \in {"get", "getting"}, NoErrors
    PROVE  /\ pass = "later" /\ ~closing /\ req[c] \in Chunk
           /\ pos[c] \in Nat /\ pos[c] + 1 \in 1 .. Len(order[c]) /\ req[c] = order[c][pos[c] + 1]
           /\ handed[req[c]] = 0
           /\ \A p \in Producers : ~m_producerActive[p] => nextId[p] = total[p]
           /\ req[c].id < total[req[c].partition_id]
           /\ req[c].partition_id \in Producers
<1>1. pass = "later" /\ ~closing /\ req[c] \in Chunk
  BY DEF MInv, IInv, Calls, TypeOK, Closed
<1>2. pos[c] < Len(order[c]) /\ req[c] = order[c][pos[c] + 1]
  BY <1>1 DEF MInv, Replayed
<1>3. pos[c] \in Nat /\ order[c] \in Seq(Chunk)
  BY DEF MInv, MTyped
<1>4. pos[c] + 1 \in 1 .. Len(order[c]) /\ pos[c] + 1 > pos[c]
  BY <1>2, <1>3
<1>5. handed[req[c]] = 0
  BY <1>1, <1>2, <1>4 DEF MInv, Replayed
<1>6. \A p \in Producers : ~m_producerActive[p] => nextId[p] = total[p]
  BY <1>1 DEF MInv, Ran, Ended, NoErrors
<1>7. req[c].id < total[req[c].partition_id]
  BY <1>2, <1>4 DEF MInv, Remembered
<1>8. req[c].partition_id \in Producers
  BY <1>1, ChunkFields
<1> QED BY <1>1, <1>2, <1>3, <1>4, <1>5, <1>6, <1>7, <1>8

\* Get throws only after a failure: otherwise its chunk was not handed out, and it is
\* in its slot or its reader is active.
LEMMA GetThrownStep ==
    ASSUME MInv, NEW c \in Consumers, GetEmpty(c) \/ GetThrow(c),
           told' = [told EXCEPT ![c] = outcome], UNCHANGED pos,
           UNCHANGED <<total, failures, readerVars, closing, order>>
    PROVE  MInv'
<1>1. /\ UNCHANGED <<queueVars, nextId, drain, handed, pass>>
      /\ call[c] \in {"get", "getting"} /\ call' = [call EXCEPT ![c] = "ended"]
      /\ req' = [req EXCEPT ![c] = NoRequest]
  BY DEF GetEmpty, GetThrow, InGet, return
<1>2. IInv'
  BY NextIInv DEF MInv, Next, GetStep
<1>3. /\ call'[c] = "ended"
      /\ \A d \in Consumers : d # c => call'[d] = call[d] /\ told'[d] = told[d] /\ req'[d] = req[d]
      /\ told'[c] \in {"error", "end"} /\ (told'[c] = "end" => NoErrors)
  BY <1>1 DEF MInv, MTyped, IInv, TypeOK, outcome, NoErrors
<1>4. pass = "later" /\ ~closing
  BY <1>1 DEF MInv, IInv, Calls, Closed
<1>5. ~NoErrors
  <2> SUFFICES ASSUME NoErrors PROVE FALSE
    OBVIOUS
  <2> DEFINE k == req[c]
             p == k.partition_id
             s == targetIndex(p, k.id)
  <2>1. /\ k \in Chunk /\ p \in Producers /\ k.id < total[p] /\ handed[k] = 0
        /\ ~m_producerActive[p] => nextId[p] = total[p]
    BY <1>1, StillComes
  <2>2. ~m_producerActive[p] /\ ~isSet(s)
    <3>1. CASE GetEmpty(c)
      <4>1. activeSet(m_producerActive) = {} /\ filled(m_dataArray) = {}
        BY <3>1, FiniteSlots, FS_EmptySet DEF GetEmpty, MInv, IInv, Counts
      <4>2. s \in Slots
        BY <2>1, ChunkFields DEF targetIndex, Slots
      <4> HIDE DEF s
      <4> QED BY <2>1, <4>1, <4>2 DEF activeSet, filled, isSet
    <3>2. CASE GetThrow(c)
      BY <3>2 DEF GetThrow, GetMustWait, reqIndex
    <3> QED BY <3>1, <3>2
  <2>3. k.id < nextId[p] /\ k.id # NotSet
    BY <2>1, <2>2, ChunkFields
  <2>4. handed[k] = 1
    BY <2>1, <2>2, <2>3 DEF MInv, IInv, Handed, isSet
  <2> QED BY <2>1, <2>4
<1>6. told'[c] # "end"
  BY <1>3, <1>5
<1>7. MTyped'
  <2>1. told' \in [Consumers -> {"nothing", "chunk", "error", "end"}]
    BY <1>3 DEF MInv, MTyped
  <2> QED BY <2>1 DEF MInv, MTyped
<1>8. Ran' /\ Closed'
  BY <1>1, <1>3 DEF MInv, Ran, Closed, queueVars
<1>9. Told' /\ Remembered'
  BY <1>1, <1>4 DEF MInv, Told, Remembered
<1>10. Replayed'
  BY <1>1, <1>3, <1>4, <1>6 DEF MInv, Replayed, NoErrors
<1> QED BY <1>2, <1>7, <1>8, <1>9, <1>10 DEF MInv

\* Get returns the next chunk of the list.
LEMMA GotStep ==
    ASSUME MInv, NEW c \in Consumers, Get(c),
           pos' = [pos EXCEPT ![c] = @ + 1], told' = [told EXCEPT ![c] = "chunk"],
           UNCHANGED <<total, failures, readerVars, closing, order>>
    PROVE  MInv'
<1> DEFINE s == reqIndex(c)
           g == [partition_id |-> req[c].partition_id, id |-> m_dataArray[s]]
<1>1. /\ UNCHANGED <<m_producerActive, nextId, drain, pass>>
      /\ call[c] \in {"get", "getting"} /\ call' = [call EXCEPT ![c] = "idle"]
      /\ req' = [req EXCEPT ![c] = NoRequest] /\ handOut(g) /\ isSet(s)
  BY DEF Get, InGet, return
<1>2. IInv'
  BY NextIInv DEF MInv, Next, GetStep
<1>3. pass = "later" /\ ~closing /\ req[c] \in Chunk
  BY <1>1 DEF MInv, IInv, Calls, Closed, TypeOK
<1>4. g \in Chunk
  <2>1. s \in Slots /\ req[c].partition_id \in Producers
    BY <1>3, ChunkFields DEF reqIndex, targetIndex, Slots
  <2>2. m_dataArray[s] \in ChunkIds
    BY <1>1, <2>1 DEF MInv, IInv, TypeOK, isSet
  <2> HIDE DEF s
  <2> QED BY <2>1, <2>2 DEF Chunk
<1>5. handed[g] = 0 /\ handed'[g] = 1 /\ \A x \in Chunk : x # g => handed'[x] = handed[x]
  <2> HIDE DEF g
  <2> QED BY <1>1, <1>2, <1>4, HandedStays DEF MInv
<1>6. NoErrors => g = req[c]
  <2> SUFFICES ASSUME NoErrors PROVE g = req[c]
    OBVIOUS
  <2> HIDE DEF g
  <2>1. /\ handed[req[c]] = 0 /\ req[c].partition_id \in Producers
        /\ req[c].id < total[req[c].partition_id]
        /\ ~m_producerActive[req[c].partition_id] =>
              nextId[req[c].partition_id] = total[req[c].partition_id]
    BY <1>1, StillComes
  <2>2. \/ handed'[req[c]] = handed[req[c]] + 1
        \/ /\ ~m_producerActive[req[c].partition_id]
           /\ req[c].id >= nextId[req[c].partition_id] \/ handed[req[c]] > 0
    BY GetRequested DEF MInv
  <2>3. req[c].id \in Nat /\ total[req[c].partition_id] \in Nat
    BY <1>3, <2>1, ChunkFields DEF MInv, MTyped
  <2>4. handed'[req[c]] = 1
    BY <2>1, <2>2, <2>3
  <2> QED BY <1>3, <1>5, <2>1, <2>4
<1> HIDE DEF g, s
<1>7. /\ call'[c] = "idle" /\ told'[c] = "chunk" /\ pos'[c] = pos[c] + 1 /\ pos[c] \in Nat
      /\ \A d \in Consumers : d # c => call'[d] = call[d] /\ told'[d] = told[d]
                                       /\ req'[d] = req[d] /\ pos'[d] = pos[d]
  BY <1>1 DEF MInv, MTyped, IInv, TypeOK
<1>8. MTyped'
  <2>1. pos' \in [Consumers -> Nat] /\ told' \in [Consumers -> {"nothing", "chunk", "error", "end"}]
    BY <1>7 DEF MInv, MTyped
  <2> QED BY <2>1 DEF MInv, MTyped
<1>9. Ran' /\ Closed'
  BY <1>1, <1>7 DEF MInv, Ran, Closed
<1>10. Told' /\ Remembered'
  BY <1>1, <1>3 DEF MInv, Told, Remembered
<1>11. Replayed'
  <2>1. \A d \in Consumers : told'[d] # "end"
    BY <1>3, <1>7 DEF MInv, Replayed
  <2>2. \A d \in Consumers : call'[d] \in {"get", "getting"} =>
           pos'[d] < Len(order[d]) /\ req'[d] = order[d][pos'[d] + 1]
    BY <1>3, <1>7 DEF MInv, Replayed
  <2>3. ASSUME NoErrors, NEW d \in Consumers, NEW i \in 1 .. Len(order[d]), i > pos'[d]
        PROVE  handed'[order[d][i]] = 0
    <3>1. order[d] \in Seq(Chunk) /\ pos[d] \in Nat
      BY DEF MInv, MTyped
    <3>2. order[d][i] \in Chunk /\ i > pos[d]
      BY <1>7, <2>3, <3>1
    <3>3. handed[order[d][i]] = 0
      BY <1>3, <2>3, <3>2 DEF MInv, Replayed
    <3>4. order[d][i] # g
      <4> SUFFICES ASSUME order[d][i] = g PROVE FALSE
        OBVIOUS
      <4>1. pos[c] + 1 \in 1 .. Len(order[c]) /\ g = order[c][pos[c] + 1]
        BY <1>1, <1>6, <2>3, StillComes
      <4>2. d = c /\ i = pos[c] + 1
        BY <4>1 DEF MInv, Remembered
      <4> QED BY <1>7, <2>3, <4>2
    <3> QED BY <1>5, <3>2, <3>3, <3>4
  <2> QED BY <2>1, <2>2, <2>3 DEF Replayed, NoErrors
<1> QED BY <1>2, <1>8, <1>9, <1>10, <1>11 DEF MInv

\* The destructor frees a chunk.
LEMMA FreedStep ==
    ASSUME MInv, FreeOne, UNCHANGED <<total, failures, readerVars, closing, casVars>>, closing
    PROVE  MInv'
<1>1. UNCHANGED <<m_producerActive, nextId, call, req, drain, pass>> /\ m_itemsToRead # 0
  BY DEF FreeOne
<1>2. IInv'
  BY NextIInv DEF MInv, Next, Destructor
<1>3. MTyped' /\ Ran' /\ Closed' /\ Told'
  BY <1>1 DEF MInv, MTyped, Ran, Closed, Told, Finished
<1>4. PICK idx \in Slots : isSet(idx) /\ handOut([partition_id |-> idx[1], id |-> m_dataArray[idx]])
  BY DEF FreeOne
<1>5. PICK k : k = [partition_id |-> idx[1], id |-> m_dataArray[idx]]
  OBVIOUS
<1>6. k \in Chunk
  <2>1. idx[1] \in Producers /\ m_dataArray[idx] \in ChunkIds
    BY <1>4 DEF Slots, MInv, IInv, TypeOK, isSet
  <2> QED BY <1>5, <2>1 DEF Chunk
<1>7. handed'[k] = 1 /\ \A x \in Chunk : x # k => handed'[x] = handed[x]
  BY <1>2, <1>4, <1>5, <1>6, HandedStays DEF MInv
<1>8. Remembered'
  <2>1. \A c \in Consumers : \A i \in 1 .. Len(order[c]) : order[c][i] \in Chunk
    BY DEF MInv, MTyped
  <2> QED BY <1>1, <1>7, <2>1 DEF MInv, Remembered
<1>9. Replayed'
  BY DEF Replayed
<1> QED BY <1>2, <1>3, <1>8, <1>9 DEF MInv

\* A new queue is created for the next pass.
LEMMA NextPassStep ==
    ASSUME MInv, NextPass
    PROVE  MInv'
<1>1. IInv'
  <2>1. Cardinality(Producers) \in Nat /\ Cardinality({}) = 0
    BY BatchAssumption, FS_CardinalityType, FS_EmptySet
  <2>2. filled(m_dataArray') = {} /\ \A p \in Producers : filledOf(m_dataArray', p) = {}
    BY DEF NextPass, filled, filledOf, Slots
  <2>3. TypeOK'
    <3>1. m_dataArray' \in [Slots -> ChunkIds \cup {NotSet}] /\ m_queue' \in Seq(Chunk)
      BY DEF NextPass
    <3>2. m_producerActive' \in [Producers -> BOOLEAN]
      BY DEF NextPass
    <3>3. /\ m_activeProducers' \in Nat /\ m_readInBatch' \in [Producers -> 0 .. BatchSize]
          /\ nextId' \in [Producers -> 0 .. MaxChunks] /\ handed' \in [Chunk -> Nat]
      BY <2>1, BatchAssumption DEF NextPass
    <3>4. req' \in [Consumers -> Chunk \cup {NoRequest}]
      BY DEF NextPass, MInv, IInv, TypeOK
    <3> QED BY <3>1, <3>2, <3>3, <3>4 DEF NextPass, TypeOK
  <2>4. InWindow'
    BY DEF NextPass, InWindow, isSet
  <2>5. InBatch'
    <3>1. first' = 0
      BY BatchAssumption DEF NextPass, first
    <3> SUFFICES ASSUME NEW p \in Producers
                 PROVE  /\ nextId'[p] <= first' + BatchSize
                        /\ m_readInBatch'[p] + Cardinality(filledOf(m_dataArray', p)) <= BatchSize
                        /\ first' <= nextId'[p]
                        /\ m_readInBatch'[p] + Cardinality(filledOf(m_dataArray', p)) = nextId'[p] - first'
      BY DEF InBatch
    <3>2. Cardinality(filledOf(m_dataArray', p)) = 0 /\ nextId'[p] = 0 /\ m_readInBatch'[p] = 0
      BY <2>1, <2>2 DEF NextPass
    <3> QED BY <3>1, <3>2, BatchAssumption
  <2>6. Counts'
    <3>1. activeSet(m_producerActive') = Producers
      BY DEF NextPass, activeSet
    <3>2. Len(m_queue') = 0
      BY DEF NextPass
    <3> QED BY <2>1, <2>2, <3>1, <3>2 DEF NextPass, Counts
  <2>7. QueueMatches' /\ Calls'
    BY DEF NextPass, QueueMatches, Calls
  <2>8. Handed'
    BY DEF NextPass, Handed, Chunk, ChunkIds
  <2> QED BY <2>3, <2>4, <2>5, <2>6, <2>7, <2>8 DEF IInv
<1>2. MTyped'
  <2>1. m_error' \in [Producers -> BOOLEAN] /\ m_stop_reading' \in [Producers -> BOOLEAN]
    BY DEF NextPass
  <2> QED BY <2>1 DEF NextPass, MInv, MTyped
<1>3. Ran'
  BY BatchAssumption DEF NextPass, MInv, MTyped, Ran, Ended
<1>4. Closed' /\ Told'
  BY DEF NextPass, Closed, Told
<1>5. Remembered'
  BY DEF NextPass, MInv, Remembered
<1>6. Replayed'
  <2>1. \A c \in Consumers : \A i \in 1 .. Len(order[c]) : handed'[order[c][i]] = 0
    <3>1. \A c \in Consumers : \A i \in 1 .. Len(order[c]) : order[c][i] \in Chunk
      BY DEF MInv, MTyped
    <3> QED BY <3>1 DEF NextPass
  <2> QED BY <2>1 DEF NextPass, Replayed
<1> QED BY <1>1, <1>2, <1>3, <1>4, <1>5, <1>6 DEF MInv

-----------------------------------------------------------------------------
(* The theorems.                                                           *)

\* Every step keeps the invariant.
LEMMA MNextInv == MInv /\ [MNext]_mvars => MInv'
<1> SUFFICES ASSUME MInv, [MNext]_mvars PROVE MInv'
  OBVIOUS
<1>1. CASE UNCHANGED mvars
  <2>1. UNCHANGED vars /\ UNCHANGED <<total, failures, readerVars, closing, casVars>>
    BY <1>1 DEF mvars
  <2>2. UNCHANGED <<queueVars, nextId, call, req, handed, pass>> /\ (drain' # "off" => closing)
    BY <2>1 DEF vars, MInv, Closed
  <2> QED BY <2>1, <2>2, WaitStep
<1>2. ASSUME NEW p \in Producers, Read(p) \/ StopReader(p) PROVE MInv'
  <2>1. CASE ReaderPush(p)
    <3>1. (PushWait(p) /\ UNCHANGED pc) \/ (Push(p) /\ goto(p, "loop"))
      BY <2>1 DEF ReaderPush
    <3> QED BY <2>1, <3>1, PushWaitStep, PushedStep
  <2> QED BY <1>2, <2>1, ReaderStep, ReaderEndStep, StopStep DEF Read
<1>3. ASSUME NEW c \in Consumers, GetNextChunk(c) PROVE MInv'
  BY <1>3, PopCallStep DEF GetNextChunk
<1>4. ASSUME NEW c \in Consumers, ChunkQueueGet(c) PROVE MInv'
  <2>1. UNCHANGED <<total, failures, readerVars, closing, pos>>
    BY <1>4 DEF ChunkQueueGet
  <2>2. CASE PopWait(c) /\ UNCHANGED <<order, told>>
    BY <2>1, <2>2, PopCallStep
  <2>3. CASE PopThrow(c) /\ told' = [told EXCEPT ![c] = outcome] /\ UNCHANGED order
    BY <2>1, <2>3, PopThrownStep
  <2>4. CASE /\ Pop(c) /\ order' = [order EXCEPT ![c] = Append(@, Head(m_queue))]
             /\ told' = [told EXCEPT ![c] = "chunk"]
    BY <2>1, <2>4, PoppedStep
  <2> QED BY <1>4, <2>2, <2>3, <2>4 DEF ChunkQueueGet
<1>5. ASSUME NEW c \in Consumers, GetChunkMulti(c) PROVE MInv'
  BY <1>5, AskedStep
<1>6. ASSUME NEW c \in Consumers, GetById(c) PROVE MInv'
  <2>1. UNCHANGED <<total, failures, readerVars, closing, order>>
    BY <1>6 DEF GetById
  <2>2. CASE GetWait(c) /\ UNCHANGED <<pos, told>>
    BY <2>1, <2>2, GetWaitStep
  <2>3. CASE (GetEmpty(c) \/ GetThrow(c)) /\ told' = [told EXCEPT ![c] = outcome] /\ UNCHANGED pos
    BY <2>1, <2>3, GetThrownStep
  <2>4. CASE Get(c) /\ pos' = [pos EXCEPT ![c] = @ + 1] /\ told' = [told EXCEPT ![c] = "chunk"]
    BY <2>1, <2>4, GotStep
  <2> QED BY <1>6, <2>2, <2>3, <2>4 DEF GetById
<1>7. CASE ChunkQueueFree
  BY <1>7, FreeStep
<1>8. CASE Destroy
  <2>1. UNCHANGED <<total, failures, readerVars, closing, casVars>> /\ closing
        /\ (FreeBatchData \/ Destructor)
    BY <1>8 DEF Destroy
  <2>2. CASE FreeOne
    BY <2>1, <2>2, FreedStep
  <2>3. CASE FreeBatchData \/ FreeWake \/ FreeWait \/ FreeDone
    <3>1. UNCHANGED <<queueVars, nextId, call, req, handed, pass>>
      BY <2>3 DEF FreeBatchData, FreeWake, FreeWait, FreeDone
    <3> QED BY <2>1, <2>3, <3>1, WaitStep DEF Next, Destructor
  <2> QED BY <2>1, <2>2, <2>3 DEF Destructor
<1>9. CASE NextPass
  BY <1>9, NextPassStep
<1>10. CASE SpuriousWake
  <2>1. /\ SpuriousWakeup /\ UNCHANGED <<total, failures, readerVars, closing, casVars>>
        /\ UNCHANGED <<queueVars, nextId, call, req, drain, handed, pass>>
    BY <1>10 DEF SpuriousWake, SpuriousWakeup
  <2>2. drain' # "off" => closing
    BY <2>1 DEF MInv, Closed
  <2> QED BY <2>1, <2>2, WaitStep DEF Next
<1> QED BY <1>1, <1>2, <1>3, <1>4, <1>5, <1>6, <1>7, <1>8, <1>9, <1>10 DEF MNext

\* A multi-pass read always satisfies its inductive invariant.
THEOREM MInvariance == MSpec => []MInv
  BY MInitInv, MNextInv, PTL DEF MSpec

\* GetNextChunk returns false without an error in the first pass only when every chunk
\* of the partitions of the queue was handed out.
THEOREM FirstPassComplete == MSpec => []EndMeansComplete
<1>1. MInv => EndMeansComplete
  <2> SUFFICES ASSUME MInv, NEW c \in Consumers, pass = "first", told[c] = "end", NEW p \in Producers
               PROVE  /\ nextId[p] = total[p]
                      /\ \A i \in 0 .. (total[p] - 1) : handed[[partition_id |-> p, id |-> i]] = 1
    BY DEF EndMeansComplete
  <2>1. m_itemsToRead = 0 /\ nextId[p] = total[p]
    BY DEF MInv, Told, Finished
  <2>2. filled(m_dataArray) = {}
    BY <2>1, FiniteSlots, FS_EmptySet DEF MInv, IInv, Counts
  <2>3. ASSUME NEW i \in 0 .. (total[p] - 1) PROVE handed[[partition_id |-> p, id |-> i]] = 1
    <3>1. PICK k : k = [partition_id |-> p, id |-> i]
      OBVIOUS
    <3>2. i \in ChunkIds /\ i < nextId[p]
      BY <2>1, BatchAssumption DEF ChunkIds, MInv, MTyped
    <3>3. k \in Chunk /\ k.partition_id = p /\ k.id = i
      BY <3>1, <3>2 DEF Chunk
    <3>4. k.id # NotSet /\ targetIndex(p, i) \in Slots
      BY <3>3, ChunkFields DEF targetIndex, Slots
    <3>5. m_dataArray[targetIndex(p, i)] # i
      BY <2>2, <3>3, <3>4 DEF filled
    <3>6. handed[k] = 1
      BY <3>2, <3>3, <3>5 DEF MInv, IInv, Handed
    <3> QED BY <3>1, <3>6
  <2> QED BY <2>1, <2>3
<1> QED BY <1>1, MInvariance, PTL

\* A CAS thread that asks with GetChunkMulti for the chunks of its first pass is never
\* told that one does not exist, unless a reader failed.
THEOREM ReplayComplete == MSpec => []ReplayFindsEveryChunk
<1>1. MInv => ReplayFindsEveryChunk
  BY DEF MInv, Replayed, ReplayFindsEveryChunk
<1> QED BY <1>1, MInvariance, PTL
=============================================================================
