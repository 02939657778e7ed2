------------------------- MODULE SimpleQueueProofs --------------------------
(***************************************************************************)
(* Proofs about SimpleQueue for any finite sets of readers and consumers   *)
(* and any capacity: the queue never holds more than Capacity chunks,      *)
(* waking one thread per Push and per Pop never leaves a thread asleep     *)
(* that has something to do, and the queue implements its interface.       *)
(***************************************************************************)
EXTENDS SimpleQueue, FiniteSetTheorems, TLAPS

-----------------------------------------------------------------------------
(* The inductive invariant.                                                *)

popping == {c \in Consumers : call[c] = "pop"}
pushing == {p \in Producers : reader[p] = "push"}
present == {p \in Producers : reader[p] # "gone"}

\* Only a thread that is inside Pop or Push is blocked in it.
Waiting == q.m_emptyCV \subseteq popping /\ q.m_fullCV \subseteq pushing

\* A reader that is inside Push has a chunk to push.
Pushable == \A p \in Producers : reader[p] = "push" => nextId[p] < MaxChunks

IInv == TypeOK /\ Waiting /\ Pushable /\ Bounded /\ NoLostWakeup

Queue == [m_queue : Seq(Chunk), m_producers : Nat,
          m_emptyCV : SUBSET Consumers, m_fullCV : SUBSET Producers]

-----------------------------------------------------------------------------
(* Lemmas.                                                                 *)

\* All the sets of threads are finite.
LEMMA FiniteThreads ==
    /\ IsFiniteSet(popping) /\ IsFiniteSet(pushing) /\ IsFiniteSet(present)
    /\ IsFiniteSet(awakeConsumers) /\ IsFiniteSet(awakeProducers)
    /\ Cardinality(awakeConsumers) \in Nat /\ Cardinality(awakeProducers) \in Nat
    /\ Cardinality(present) \in Nat
<1>1. popping \subseteq Consumers /\ awakeConsumers \subseteq Consumers
  BY DEF popping, awakeConsumers
<1>2. pushing \subseteq Producers /\ awakeProducers \subseteq Producers /\ present \subseteq Producers
  BY DEF pushing, awakeProducers, present
<1> QED BY <1>1, <1>2, FS_Subset, FS_CardinalityType, SimpleAssumption

\* The number of elements of a finite set that gains or loses one element.
LEMMA AddOne ==
    ASSUME NEW S, IsFiniteSet(S), NEW x, x \notin S
    PROVE  Cardinality(S \cup {x}) = Cardinality(S) + 1
  BY FS_AddElement

\* The same for an element that leaves.
LEMMA RemoveOne ==
    ASSUME NEW S, IsFiniteSet(S), NEW x \in S
    PROVE  Cardinality(S \ {x}) = Cardinality(S) - 1
  BY FS_RemoveElement

\* What each operation of the queue does to its fields.
LEMMA PushedFields ==
    ASSUME q \in Queue, NEW v \in Chunk, q' \in pushed(q, v)
    PROVE  /\ q' \in Queue
           /\ q'.m_queue = Append(q.m_queue, v)
           /\ q'.m_producers = q.m_producers /\ q'.m_fullCV = q.m_fullCV
           /\ \/ q.m_emptyCV = {} /\ q'.m_emptyCV = {}
              \/ \E t \in q.m_emptyCV : q'.m_emptyCV = q.m_emptyCV \ {t}
<1>1. PICK awake \in notifyOne(q.m_emptyCV) :
         q' = [q EXCEPT !.m_queue = Append(@, v), !.m_emptyCV = awake]
  BY DEF pushed
<1>2. \/ q.m_emptyCV = {} /\ awake = {}
      \/ \E t \in q.m_emptyCV : awake = q.m_emptyCV \ {t}
  BY <1>1 DEF notifyOne
<1>3. awake \in SUBSET Consumers
  BY <1>2 DEF Queue
<1>4. Append(q.m_queue, v) \in Seq(Chunk)
  BY DEF Queue
<1>5. /\ q'.m_queue = Append(q.m_queue, v) /\ q'.m_emptyCV = awake
      /\ q'.m_producers = q.m_producers /\ q'.m_fullCV = q.m_fullCV
  BY <1>1 DEF Queue
<1>6. q' \in Queue
  BY <1>1, <1>3, <1>4 DEF Queue
<1> QED BY <1>2, <1>5, <1>6

\* Pop takes the first element and may wake one producer.
LEMMA PoppedFields ==
    ASSUME q \in Queue, q.m_queue # <<>>, q' \in popped(q)
    PROVE  /\ q' \in Queue
           /\ q'.m_queue = Tail(q.m_queue)
           /\ q'.m_producers = q.m_producers /\ q'.m_emptyCV = q.m_emptyCV
           /\ \/ q.m_fullCV = {} /\ q'.m_fullCV = {}
              \/ \E t \in q.m_fullCV : q'.m_fullCV = q.m_fullCV \ {t}
<1>1. PICK awake \in notifyOne(q.m_fullCV) :
         q' = [q EXCEPT !.m_queue = Tail(@), !.m_fullCV = awake]
  BY DEF popped
<1>2. \/ q.m_fullCV = {} /\ awake = {}
      \/ \E t \in q.m_fullCV : awake = q.m_fullCV \ {t}
  BY <1>1 DEF notifyOne
<1>3. awake \in SUBSET Producers
  BY <1>2 DEF Queue
<1>4. Tail(q.m_queue) \in Seq(Chunk)
  BY DEF Queue
<1>5. /\ q'.m_queue = Tail(q.m_queue) /\ q'.m_fullCV = awake
      /\ q'.m_producers = q.m_producers /\ q'.m_emptyCV = q.m_emptyCV
  BY <1>1 DEF Queue
<1>6. q' \in Queue
  BY <1>1, <1>3, <1>4 DEF Queue
<1> QED BY <1>2, <1>5, <1>6

\* A spurious wake-up only takes threads out of the condition variables.
LEMMA SpuriousFields ==
    ASSUME q \in Queue, q' \in spurious(q)
    PROVE  /\ q' \in Queue
           /\ q'.m_queue = q.m_queue /\ q'.m_producers = q.m_producers
           /\ \/ /\ q'.m_fullCV = q.m_fullCV
                 /\ \E t \in q.m_emptyCV : q'.m_emptyCV = q.m_emptyCV \ {t}
              \/ /\ q'.m_emptyCV = q.m_emptyCV
                 /\ \E t \in q.m_fullCV : q'.m_fullCV = q.m_fullCV \ {t}
<1>1. CASE \E t \in q.m_emptyCV : q' = [q EXCEPT !.m_emptyCV = @ \ {t}]
  BY <1>1 DEF Queue
<1>2. CASE \E t \in q.m_fullCV : q' = [q EXCEPT !.m_fullCV = @ \ {t}]
  BY <1>2 DEF Queue
<1> QED BY <1>1, <1>2 DEF spurious

\* A thread that leaves a condition variable becomes awake.
LEMMA ConsumerWakes ==
    ASSUME Waiting, NEW t \in q.m_emptyCV, q'.m_emptyCV = q.m_emptyCV \ {t}, popping' = popping
    PROVE  Cardinality(awakeConsumers') = Cardinality(awakeConsumers) + 1
<1>1. awakeConsumers' = awakeConsumers \cup {t} /\ t \notin awakeConsumers
  BY DEF awakeConsumers, popping, Waiting
<1> QED BY <1>1, AddOne, FiniteThreads

\* The same for a producer.
LEMMA ProducerWakes ==
    ASSUME Waiting, NEW t \in q.m_fullCV, q'.m_fullCV = q.m_fullCV \ {t}, pushing' = pushing
    PROVE  Cardinality(awakeProducers') = Cardinality(awakeProducers) + 1
<1>1. awakeProducers' = awakeProducers \cup {t} /\ t \notin awakeProducers
  BY DEF awakeProducers, pushing, Waiting
<1> QED BY <1>1, AddOne, FiniteThreads

-----------------------------------------------------------------------------
(* The invariant is inductive.                                             *)

\* A queue that was just constructed satisfies the inductive invariant.
LEMMA InitIInv == Init => IInv
<1> SUFFICES ASSUME Init PROVE IInv
  OBVIOUS
<1>1. q.m_queue = <<>> /\ q.m_producers = Cardinality(Producers) /\ q.m_emptyCV = {} /\ q.m_fullCV = {}
  BY DEF Init, newQueue
<1>2. Cardinality(Producers) \in Nat
  BY SimpleAssumption, FS_CardinalityType
<1>3. TypeOK
  BY <1>2, SimpleAssumption DEF Init, newQueue, TypeOK
<1>4. Bounded
  <2>1. {p \in Producers : reader[p] # "gone"} = Producers BY DEF Init
  <2>2. Len(q.m_queue) = 0 BY <1>1
  <2>3. Len(q.m_queue) <= Capacity BY <2>2, SimpleAssumption
  <2> QED BY <1>1, <2>1, <2>3 DEF Bounded
<1>5. Pushable
  BY DEF Init, Pushable
<1> QED BY <1>1, <1>3, <1>4, <1>5 DEF IInv, Waiting, NoLostWakeup

\* Every step of the queue keeps the inductive invariant.
LEMMA NextIInv == IInv /\ [Next]_vars => IInv'
<1> SUFFICES ASSUME IInv, [Next]_vars PROVE IInv'
  OBVIOUS
<1> USE SimpleAssumption
<1>0. TypeOK /\ Waiting /\ Pushable /\ Bounded /\ NoLostWakeup /\ q \in Queue
  BY DEF IInv, TypeOK, Queue
<1>a. /\ Cardinality(awakeConsumers) \in Nat /\ Cardinality(awakeProducers) \in Nat
      /\ IsFiniteSet(awakeConsumers) /\ IsFiniteSet(awakeProducers)
      /\ Capacity \in Nat \ {0} /\ Len(q.m_queue) \in Nat /\ q.m_producers \in Nat
      /\ q.m_producers = Cardinality(present) /\ Len(q.m_queue) <= Capacity
  BY FiniteThreads, <1>0 DEF Queue, Bounded, present
<1>b. /\ Cardinality(awakeConsumers') \in Nat /\ Cardinality(awakeProducers') \in Nat
      /\ Cardinality(present') \in Nat
  <2>1. popping' \subseteq Consumers /\ awakeConsumers' \subseteq Consumers
    BY DEF popping, awakeConsumers
  <2>2. awakeProducers' \subseteq Producers /\ present' \subseteq Producers
    BY DEF awakeProducers, present
  <2> QED BY <2>1, <2>2, FS_Subset, FS_CardinalityType
<1>1. CASE UNCHANGED vars
  BY <1>0, <1>1 DEF vars, IInv, TypeOK, Waiting, Pushable, popping, pushing, Bounded, NoLostWakeup,
     awakeConsumers, awakeProducers
<1>2. ASSUME NEW p \in Producers, CallPush(p) PROVE IInv'
  <2>1. /\ reader[p] = "running" /\ reader' = [reader EXCEPT ![p] = "push"]
        /\ UNCHANGED <<q, nextId, call>>
    BY <1>2 DEF CallPush
  <2>2. TypeOK'
    BY <2>1, <1>0 DEF TypeOK
  <2>3. pushing' = pushing \cup {p} /\ p \notin pushing /\ popping' = popping /\ present' = present
    BY <2>1, <1>0 DEF pushing, popping, present, TypeOK
  <2>4. Waiting'
    BY <2>1, <2>3, <1>0 DEF Waiting
  <2>5. Bounded'
    BY <2>1, <2>3, <1>0 DEF Bounded, present
  <2>6. awakeProducers' = awakeProducers \cup {p} /\ p \notin awakeProducers /\ awakeConsumers' = awakeConsumers
    BY <2>1, <2>3, <1>0 DEF awakeProducers, awakeConsumers, pushing, popping, Waiting
  <2>7. Cardinality(awakeProducers') = Cardinality(awakeProducers) + 1
    BY <2>6, <1>a, AddOne
  <2>8. NoLostWakeup'
    BY <2>1, <2>6, <2>7, <1>0, <1>a DEF NoLostWakeup
  <2>p. Pushable'
    BY <2>1, <1>2, <1>0 DEF CallPush, Pushable, TypeOK
  <2> QED BY <2>p, <2>2, <2>4, <2>5, <2>8 DEF IInv
<1>3. ASSUME NEW p \in Producers, PushWait(p) PROVE IInv'
  <2>1. /\ reader[p] = "push" /\ Len(q.m_queue) >= Capacity
        /\ q' = [q EXCEPT !.m_fullCV = @ \cup {p}] /\ UNCHANGED <<reader, nextId, call>>
    BY <1>3 DEF PushWait, CanPush, pushBlocks, pushWait
  <2>2. /\ q' \in Queue /\ q'.m_queue = q.m_queue /\ q'.m_producers = q.m_producers
        /\ q'.m_emptyCV = q.m_emptyCV /\ q'.m_fullCV = q.m_fullCV \cup {p}
    BY <2>1, <1>0 DEF Queue
  <2>3. TypeOK'
    BY <2>1, <2>2, <1>0 DEF TypeOK, Queue
  <2>4. Waiting'
    BY <2>1, <2>2, <1>0 DEF Waiting, popping, pushing
  <2>5. Bounded'
    BY <2>1, <2>2, <1>0 DEF Bounded
  <2>6. awakeConsumers' = awakeConsumers
    BY <2>1, <2>2 DEF awakeConsumers
  <2>7. NoLostWakeup'
    BY <2>1, <2>2, <2>6, <1>0, <1>a, <1>b DEF NoLostWakeup
  <2>p. Pushable'
    BY <2>1, <1>0 DEF Pushable, TypeOK
  <2> QED BY <2>p, <2>3, <2>4, <2>5, <2>7 DEF IInv
<1>4. ASSUME NEW p \in Producers, Push(p) PROVE IInv'
  <2>1. /\ reader[p] = "push" /\ p \notin q.m_fullCV /\ Len(q.m_queue) < Capacity
        /\ q' \in pushed(q, [partition_id |-> p, id |-> nextId[p]])
        /\ nextId' = [nextId EXCEPT ![p] = @ + 1]
        /\ reader' = [reader EXCEPT ![p] = "running"] /\ call' = call
    BY <1>4, <1>a DEF Push, CanPush, pushBlocks
  <2>2. [partition_id |-> p, id |-> nextId[p]] \in Chunk /\ nextId[p] + 1 \in 0 .. MaxChunks
    <3>1. nextId[p] \in Nat /\ nextId[p] < MaxChunks
      BY <2>1, <1>0 DEF TypeOK, Pushable
    <3> QED BY <3>1 DEF Chunk
  <2>3. /\ q' \in Queue /\ Len(q'.m_queue) = Len(q.m_queue) + 1
        /\ q'.m_producers = q.m_producers /\ q'.m_fullCV = q.m_fullCV
        /\ \/ q.m_emptyCV = {} /\ q'.m_emptyCV = {}
           \/ \E t \in q.m_emptyCV : q'.m_emptyCV = q.m_emptyCV \ {t}
    <3>1. /\ q' \in Queue /\ q'.m_queue = Append(q.m_queue, [partition_id |-> p, id |-> nextId[p]])
          /\ q'.m_producers = q.m_producers /\ q'.m_fullCV = q.m_fullCV
          /\ \/ q.m_emptyCV = {} /\ q'.m_emptyCV = {}
             \/ \E t \in q.m_emptyCV : q'.m_emptyCV = q.m_emptyCV \ {t}
      BY <2>1, <2>2, <1>0, PushedFields
    <3>2. Len(Append(q.m_queue, [partition_id |-> p, id |-> nextId[p]])) = Len(q.m_queue) + 1
      BY <2>2, <1>0 DEF Queue
    <3> QED BY <3>1, <3>2
  <2>4. TypeOK'
    BY <2>1, <2>2, <2>3, <1>0 DEF TypeOK, Queue
  <2>5. pushing' = pushing \ {p} /\ p \in pushing /\ popping' = popping /\ present' = present
    BY <2>1, <1>0 DEF pushing, popping, present, TypeOK
  <2>6. Waiting'
    BY <2>1, <2>3, <2>5, <1>0 DEF Waiting
  <2>7. Bounded'
    <3>1. Len(q'.m_queue) <= Capacity BY <2>1, <2>3, <1>a
    <3>2. q'.m_producers = Cardinality(present') BY <2>3, <2>5, <1>a
    <3> QED BY <3>1, <3>2 DEF Bounded, present
  <2>8. awakeProducers' = awakeProducers \ {p} /\ p \in awakeProducers
    BY <2>1, <2>3, <2>5 DEF awakeProducers, pushing
  <2>9. Cardinality(awakeProducers') = Cardinality(awakeProducers) - 1
    BY <2>8, <1>a, RemoveOne
  <2>10. q'.m_emptyCV # {} => q.m_emptyCV # {} /\ Cardinality(awakeConsumers') = Cardinality(awakeConsumers) + 1
    BY <2>3, <2>5, <1>0, ConsumerWakes
  <2>11. NoLostWakeup'
    BY <2>3, <2>9, <2>10, <1>0, <1>a DEF NoLostWakeup
  <2>p. Pushable'
    BY <2>1, <1>0 DEF Pushable, TypeOK
  <2> QED BY <2>p, <2>4, <2>6, <2>7, <2>11 DEF IInv
<1>5. ASSUME NEW p \in Producers, DeleteProducer(p) PROVE IInv'
  <2>1. /\ reader[p] = "running" /\ reader' = [reader EXCEPT ![p] = "gone"]
        /\ q' = producerDeleted(q) /\ UNCHANGED <<nextId, call>>
    BY <1>5 DEF DeleteProducer
  <2>2. /\ present' = present \ {p} /\ p \in present /\ pushing' = pushing /\ popping' = popping
    BY <2>1, <1>0 DEF present, pushing, popping, TypeOK
  <2>3. Cardinality(present') = q.m_producers - 1
    BY <2>2, <1>a, RemoveOne, FiniteThreads
  <2>4. q.m_producers - 1 \in Nat
    BY <2>3, <1>b
  <2>5. /\ q' \in Queue /\ q'.m_queue = q.m_queue /\ q'.m_producers = q.m_producers - 1
        /\ q'.m_fullCV = q.m_fullCV
        /\ q'.m_emptyCV = IF q.m_producers = 1 THEN {} ELSE q.m_emptyCV
    BY <2>1, <2>4, <1>0 DEF producerDeleted, Queue
  <2>6. TypeOK'
    BY <2>1, <2>5, <1>0 DEF TypeOK, Queue
  <2>7. Waiting'
    BY <2>2, <2>5, <1>0 DEF Waiting
  <2>8. Bounded'
    BY <2>3, <2>5, <1>0 DEF Bounded, present
  <2>9. awakeProducers' = awakeProducers /\ (q'.m_emptyCV # {} => awakeConsumers' = awakeConsumers)
    BY <2>2, <2>5 DEF awakeProducers, awakeConsumers, pushing, popping
  <2>10. NoLostWakeup'
    BY <2>5, <2>9, <1>0, <1>a DEF NoLostWakeup
  <2>p. Pushable'
    BY <2>1, <1>0 DEF Pushable, TypeOK
  <2> QED BY <2>p, <2>6, <2>7, <2>8, <2>10 DEF IInv
<1>6. ASSUME NEW c \in Consumers, CallPop(c) PROVE IInv'
  <2>1. /\ call[c] = "idle" /\ call' = [call EXCEPT ![c] = "pop"]
        /\ UNCHANGED <<q, reader, nextId>>
    BY <1>6 DEF CallPop
  <2>2. TypeOK'
    BY <2>1, <1>0 DEF TypeOK
  <2>3. popping' = popping \cup {c} /\ c \notin popping /\ pushing' = pushing
    BY <2>1, <1>0 DEF pushing, popping, TypeOK
  <2>4. Waiting' /\ Bounded'
    BY <2>1, <2>3, <1>0 DEF Waiting, Bounded
  <2>5. awakeConsumers' = awakeConsumers \cup {c} /\ c \notin awakeConsumers /\ awakeProducers' = awakeProducers
    BY <2>1, <2>3, <1>0 DEF awakeProducers, awakeConsumers, pushing, popping, Waiting
  <2>6. Cardinality(awakeConsumers') = Cardinality(awakeConsumers) + 1
    BY <2>5, <1>a, AddOne
  <2>7. NoLostWakeup'
    BY <2>1, <2>5, <2>6, <1>0, <1>a DEF NoLostWakeup
  <2>p. Pushable'
    BY <2>1, <1>0 DEF Pushable, TypeOK
  <2> QED BY <2>p, <2>2, <2>4, <2>7 DEF IInv
<1>7. ASSUME NEW c \in Consumers, PopWait(c) PROVE IInv'
  <2>1. /\ call[c] = "pop" /\ q.m_queue = <<>> /\ q.m_producers # 0
        /\ q' = [q EXCEPT !.m_emptyCV = @ \cup {c}] /\ UNCHANGED <<reader, nextId, call>>
    BY <1>7 DEF PopWait, CanPop, popBlocks, popWait
  <2>2. /\ q' \in Queue /\ q'.m_queue = q.m_queue /\ q'.m_producers = q.m_producers
        /\ q'.m_fullCV = q.m_fullCV /\ q'.m_emptyCV = q.m_emptyCV \cup {c}
    BY <2>1, <1>0 DEF Queue
  <2>3. TypeOK'
    BY <2>1, <2>2, <1>0 DEF TypeOK, Queue
  <2>4. Waiting'
    BY <2>1, <2>2, <1>0 DEF Waiting, popping, pushing
  <2>5. Bounded'
    BY <2>1, <2>2, <1>0 DEF Bounded
  <2>6. awakeProducers' = awakeProducers /\ Len(q'.m_queue) = 0
    BY <2>1, <2>2 DEF awakeProducers
  <2>7. NoLostWakeup'
    BY <2>1, <2>2, <2>6, <1>0, <1>a, <1>b DEF NoLostWakeup
  <2>p. Pushable'
    BY <2>1, <1>0 DEF Pushable, TypeOK
  <2> QED BY <2>p, <2>3, <2>4, <2>5, <2>7 DEF IInv
<1>8. ASSUME NEW c \in Consumers, PopThrow(c) PROVE IInv'
  <2>1. /\ call[c] = "pop" /\ q.m_producers = 0 /\ call' = [call EXCEPT ![c] = "ended"]
        /\ UNCHANGED <<q, reader, nextId>>
    BY <1>8 DEF PopThrow, CanPop, popThrows
  <2>2. q.m_emptyCV = {}
    BY <2>1, <1>0 DEF NoLostWakeup
  <2>3. TypeOK'
    BY <2>1, <1>0 DEF TypeOK
  <2>4. Waiting' /\ Bounded'
    BY <2>1, <2>2, <1>0 DEF Waiting, Bounded, pushing
  <2>5. NoLostWakeup'
    BY <2>1, <2>2, <1>0 DEF NoLostWakeup, awakeProducers
  <2>p. Pushable'
    BY <2>1, <1>0 DEF Pushable, TypeOK
  <2> QED BY <2>p, <2>3, <2>4, <2>5 DEF IInv
<1>9. ASSUME NEW c \in Consumers, Pop(c) PROVE IInv'
  <2>1. /\ call[c] = "pop" /\ c \notin q.m_emptyCV /\ q.m_queue # <<>> /\ q' \in popped(q)
        /\ call' = [call EXCEPT ![c] = "idle"] /\ UNCHANGED <<reader, nextId>>
    BY <1>9 DEF Pop, CanPop
  <2>2. /\ q' \in Queue /\ q'.m_queue = Tail(q.m_queue)
        /\ q'.m_producers = q.m_producers /\ q'.m_emptyCV = q.m_emptyCV
        /\ \/ q.m_fullCV = {} /\ q'.m_fullCV = {}
           \/ \E t \in q.m_fullCV : q'.m_fullCV = q.m_fullCV \ {t}
    BY <2>1, <1>0, PoppedFields
  <2>3. Len(q'.m_queue) = Len(q.m_queue) - 1
    BY <2>1, <2>2, <1>0 DEF Queue
  <2>4. TypeOK'
    BY <2>1, <2>2, <1>0 DEF TypeOK, Queue
  <2>5. popping' = popping \ {c} /\ c \in popping /\ pushing' = pushing /\ present' = present
    BY <2>1, <1>0 DEF pushing, popping, present, TypeOK
  <2>6. Waiting'
    BY <2>1, <2>2, <2>5, <1>0 DEF Waiting
  <2>7. Bounded'
    <3>1. Len(q'.m_queue) <= Capacity BY <2>2, <2>3, <1>a
    <3>2. q'.m_producers = Cardinality(present') BY <2>2, <2>5, <1>a
    <3> QED BY <3>1, <3>2 DEF Bounded, present
  <2>8. awakeConsumers' = awakeConsumers \ {c} /\ c \in awakeConsumers
    BY <2>1, <2>2, <2>5 DEF awakeConsumers, popping
  <2>9. Cardinality(awakeConsumers') = Cardinality(awakeConsumers) - 1
    BY <2>8, <1>a, RemoveOne
  <2>10. q'.m_fullCV # {} => q.m_fullCV # {} /\ Cardinality(awakeProducers') = Cardinality(awakeProducers) + 1
    BY <2>2, <2>5, <1>0, ProducerWakes
  <2>11. NoLostWakeup'
    BY <2>2, <2>3, <2>9, <2>10, <1>0, <1>a DEF NoLostWakeup
  <2>p. Pushable'
    BY <2>1, <1>0 DEF Pushable, TypeOK
  <2> QED BY <2>p, <2>4, <2>6, <2>7, <2>11 DEF IInv
<1>10. CASE SpuriousWakeup
  <2>1. q' \in spurious(q) /\ UNCHANGED <<reader, nextId, call>>
    BY <1>10 DEF SpuriousWakeup
  <2>2. /\ q' \in Queue /\ q'.m_queue = q.m_queue /\ q'.m_producers = q.m_producers
        /\ \/ /\ q'.m_fullCV = q.m_fullCV
              /\ \E t \in q.m_emptyCV : q'.m_emptyCV = q.m_emptyCV \ {t}
           \/ /\ q'.m_emptyCV = q.m_emptyCV
              /\ \E t \in q.m_fullCV : q'.m_fullCV = q.m_fullCV \ {t}
    BY <2>1, <1>0, SpuriousFields
  <2>3. popping' = popping /\ pushing' = pushing
    BY <2>1 DEF popping, pushing
  <2>4. TypeOK'
    BY <2>1, <2>2, <1>0 DEF TypeOK, Queue
  <2>5. Waiting'
    BY <2>2, <2>3, <1>0 DEF Waiting
  <2>6. Bounded'
    BY <2>1, <2>2, <1>0 DEF Bounded
  <2>7. NoLostWakeup'
    <3>1. CASE q'.m_fullCV = q.m_fullCV /\ \E t \in q.m_emptyCV : q'.m_emptyCV = q.m_emptyCV \ {t}
      <4>1. Cardinality(awakeConsumers') = Cardinality(awakeConsumers) + 1
        BY <3>1, <2>3, <1>0, ConsumerWakes
      <4>2. awakeProducers' = awakeProducers /\ q.m_emptyCV # {}
        BY <3>1, <2>1 DEF awakeProducers
      <4> QED BY <4>1, <4>2, <3>1, <2>2, <1>0, <1>a DEF NoLostWakeup
    <3>2. CASE q'.m_emptyCV = q.m_emptyCV /\ \E t \in q.m_fullCV : q'.m_fullCV = q.m_fullCV \ {t}
      <4>1. Cardinality(awakeProducers') = Cardinality(awakeProducers) + 1
        BY <3>2, <2>3, <1>0, ProducerWakes
      <4>2. awakeConsumers' = awakeConsumers /\ q.m_fullCV # {}
        BY <3>2, <2>1 DEF awakeConsumers
      <4> QED BY <4>1, <4>2, <3>2, <2>2, <1>0, <1>a DEF NoLostWakeup
    <3> QED BY <3>1, <3>2, <2>2
  <2>p. Pushable'
    BY <2>1, <1>0 DEF Pushable, TypeOK
  <2> QED BY <2>p, <2>4, <2>5, <2>6, <2>7 DEF IInv
<1> QED
  BY <1>1, <1>2, <1>3, <1>4, <1>5, <1>6, <1>7, <1>8, <1>9, <1>10 DEF Next, PushStep, PopStep

\* IInv holds in every reachable state.
THEOREM Invariance == Spec => []IInv
  BY InitIInv, NextIInv, PTL DEF Spec

-----------------------------------------------------------------------------
(* What the invariant gives.                                               *)

\* The type of every variable holds in every state.
THEOREM TypeCorrect == Spec => []TypeOK
<1>1. IInv => TypeOK
  BY DEF IInv
<1> QED BY Invariance, <1>1, PTL

\* The queue never holds more than m_capacity chunks, and m_producers is the
\* number of the readers that have not called DeleteProducer.
THEOREM CapacityKept == Spec => []Bounded
<1>1. IInv => Bounded
  BY DEF IInv
<1> QED BY Invariance, <1>1, PTL

\* notify_one after Push and Pop, and notify_all after the last DeleteProducer,
\* are enough: no thread sleeps while there is work that no awake thread covers.
THEOREM WakeupsSuffice == Spec => []NoLostWakeup
<1>1. IInv => NoLostWakeup
  BY DEF IInv
<1> QED BY Invariance, <1>1, PTL

-----------------------------------------------------------------------------
(* The queue implements its interface.                                     *)

\* The chunks in the queue have been pushed by their readers, each once.
Distinct ==
    /\ \A i \in 1 .. Len(q.m_queue) : q.m_queue[i].id < nextId[q.m_queue[i].partition_id]
    /\ \A i, j \in 1 .. Len(q.m_queue) : q.m_queue[i] = q.m_queue[j] => i = j

\* The refinement mapping of SimpleQueue!Abstract.
pendingSet == {q.m_queue[i] : i \in 1 .. Len(q.m_queue)}
endedSet == {c \in Consumers : call[c] = "ended"}

\* Push adds a chunk that was never in the queue.
LEMMA PushDistinct ==
    ASSUME IInv, Distinct, NEW p \in Producers, Push(p)
    PROVE  /\ Distinct'
           /\ pendingSet' = pendingSet \cup {[partition_id |-> p, id |-> nextId[p]]}
<1> DEFINE v == [partition_id |-> p, id |-> nextId[p]]
           u == q.m_queue
           w == q'.m_queue
<1>1. /\ q \in Queue /\ nextId[p] \in Nat /\ nextId \in [Producers -> 0 .. MaxChunks]
      /\ nextId[p] < MaxChunks /\ v \in Chunk
  <2>1. q \in Queue /\ nextId[p] \in Nat /\ nextId \in [Producers -> 0 .. MaxChunks]
    BY SimpleAssumption DEF IInv, TypeOK, Queue
  <2>2. nextId[p] < MaxChunks
    BY DEF IInv, Pushable, Push, CanPush
  <2> QED BY <2>1, <2>2, SimpleAssumption DEF Chunk
<1>2. w = Append(u, v) /\ nextId' = [nextId EXCEPT ![p] = @ + 1]
  BY <1>1, PushedFields DEF Push
<1>3. v.partition_id = p /\ v.id = nextId[p]
  OBVIOUS
<1>4. u \in Seq(Chunk) /\ Len(u) \in Nat
  BY <1>1 DEF Queue
<1>5. \A i \in 1 .. Len(u) : u[i] \in Chunk /\ u[i].partition_id \in Producers /\ u[i].id \in Nat
                             /\ u[i].id < nextId[u[i].partition_id]
  <2>1. \A i \in 1 .. Len(u) : u[i] \in Chunk BY <1>4
  <2> QED BY <2>1, SimpleAssumption DEF Chunk, Distinct
<1>6. \A i, j \in 1 .. Len(u) : u[i] = u[j] => i = j
  BY DEF Distinct
<1> HIDE DEF u, v, w
<1>7. \A i \in 1 .. Len(u) : u[i] # v
  BY <1>1, <1>3, <1>5
<1>8. /\ Len(w) = Len(u) + 1 /\ w[Len(u) + 1] = v
      /\ \A i \in 1 .. Len(u) : w[i] = u[i]
      /\ \A i \in 1 .. Len(w) : i \in 1 .. Len(u) \/ i = Len(u) + 1
      /\ \A i \in 1 .. Len(u) : i \in 1 .. Len(w)
      /\ Len(u) + 1 \in 1 .. Len(w)
  BY <1>1, <1>2, <1>4
<1>9. \A x \in Producers : nextId'[x] \in Nat /\ nextId'[x] >= nextId[x] /\ nextId[x] \in Nat
  BY <1>1, <1>2, SimpleAssumption
<1>10. nextId'[p] > nextId[p]
  BY <1>1, <1>2
<1>11. \A i \in 1 .. Len(w) : w[i].id < nextId'[w[i].partition_id]
  BY <1>3, <1>5, <1>8, <1>9, <1>10
<1>12. \A i, j \in 1 .. Len(w) : w[i] = w[j] => i = j
  BY <1>6, <1>7, <1>8
<1>13. Distinct'
  BY <1>11, <1>12 DEF Distinct, w
<1>14. {w[i] : i \in 1 .. Len(w)} = {u[i] : i \in 1 .. Len(u)} \cup {v}
  BY <1>8
<1> QED BY <1>13, <1>14 DEF pendingSet, u, v, w

\* Pop removes one chunk and no other.
LEMMA PopDistinct ==
    ASSUME IInv, Distinct, NEW c \in Consumers, Pop(c)
    PROVE  /\ Distinct'
           /\ \E k \in pendingSet : pendingSet' = pendingSet \ {k}
<1> DEFINE u == q.m_queue
           w == q'.m_queue
<1>1. q \in Queue /\ u # <<>> /\ q' \in popped(q) /\ nextId' = nextId
  BY DEF IInv, TypeOK, Queue, Pop
<1>2. w = Tail(u) /\ u \in Seq(Chunk) /\ Len(u) \in Nat /\ Len(u) # 0
  BY <1>1, PoppedFields DEF Queue
<1>3. /\ \A i \in 1 .. Len(u) : u[i].id < nextId[u[i].partition_id]
      /\ \A i, j \in 1 .. Len(u) : u[i] = u[j] => i = j
  BY DEF Distinct
<1> HIDE DEF u, w
<1>4. /\ Len(w) = Len(u) - 1
      /\ \A i \in 1 .. Len(w) : w[i] = u[i + 1] /\ i + 1 \in 1 .. Len(u) /\ i + 1 # 1
      /\ 1 \in 1 .. Len(u)
  BY <1>1, <1>2
<1>5. \A i \in 1 .. Len(w) : w[i].id < nextId[w[i].partition_id]
  BY <1>3, <1>4
<1>6. \A i, j \in 1 .. Len(w) : w[i] = w[j] => i = j
  <2> TAKE i, j \in 1 .. Len(w)
  <2>1. w[i] = w[j] => i + 1 = j + 1
    BY <1>3, <1>4
  <2> QED BY <2>1
<1>7. {w[i] : i \in 1 .. Len(w)} = {u[i] : i \in 1 .. Len(u)} \ {u[1]}
  <2>1. \A i \in 1 .. Len(w) : w[i] # u[1] /\ w[i] \in {u[j] : j \in 1 .. Len(u)}
    BY <1>3, <1>4
  <2>2. ASSUME NEW i \in 1 .. Len(u), u[i] # u[1]
        PROVE  u[i] \in {w[j] : j \in 1 .. Len(w)}
    <3>1. i # 1
      BY <2>2
    <3>2. i - 1 \in 1 .. Len(w) /\ (i - 1) + 1 = i
      BY <1>2, <1>4, <3>1
    <3> QED BY <1>4, <3>2
  <2> QED BY <2>1, <2>2
<1>8. u[1] \in {u[i] : i \in 1 .. Len(u)}
  BY <1>4
<1>9. Distinct'
  BY <1>1, <1>5, <1>6 DEF Distinct, w
<1> QED BY <1>7, <1>8, <1>9 DEF pendingSet, u, w

\* A step that changes neither the contents of the queue nor the readers' numbers,
\* who is gone nor who was told of the end, is a stuttering step of the interface.
LEMMA StutterImplements ==
    ASSUME Distinct, q'.m_queue = q.m_queue, nextId' = nextId, present' = present,
           endedSet' = endedSet
    PROVE  Distinct' /\ UNCHANGED Abstract!absVars
<1>1. Distinct'
  BY DEF Distinct
<1>2. pendingSet' = pendingSet
  BY DEF pendingSet
<1> QED BY <1>1, <1>2 DEF Abstract!absVars, pendingSet, present, endedSet

\* Every step of the queue implements a step of the interface.
LEMMA StepImplements ==
    IInv /\ Distinct /\ [Next]_vars => Distinct' /\ [Abstract!Next]_(Abstract!absVars)
<1> SUFFICES ASSUME IInv, Distinct, [Next]_vars
             PROVE  Distinct' /\ [Abstract!Next]_(Abstract!absVars)
  OBVIOUS
<1>0. TypeOK /\ q \in Queue
  BY DEF IInv, TypeOK, Queue
<1>1. CASE UNCHANGED vars
  BY <1>1, StutterImplements DEF vars, present, endedSet
<1>2. ASSUME NEW p \in Producers, CallPush(p) PROVE Distinct' /\ UNCHANGED Abstract!absVars
  <2>1. present' = present
    BY <1>0, <1>2 DEF CallPush, present, TypeOK
  <2> QED BY <1>2, <2>1, StutterImplements DEF CallPush, endedSet
<1>3. ASSUME NEW p \in Producers, PushWait(p) PROVE Distinct' /\ UNCHANGED Abstract!absVars
  <2>1. q'.m_queue = q.m_queue
    BY <1>0, <1>3 DEF PushWait, pushWait, Queue
  <2> QED BY <1>3, <2>1, StutterImplements DEF PushWait, present, endedSet
<1>4. ASSUME NEW p \in Producers, Push(p) PROVE Distinct' /\ Abstract!Next
  <2>1. Distinct' /\ pendingSet' = pendingSet \cup {[partition_id |-> p, id |-> nextId[p]]}
    BY <1>4, PushDistinct
  <2>2. present' = present /\ p \in present /\ endedSet' = endedSet
    BY <1>0, <1>4 DEF Push, CanPush, present, endedSet, TypeOK
  <2>3. Abstract!Push(p)
    BY <1>4, <2>1, <2>2 DEF Push, Abstract!Push, Abstract!chunkOf, pendingSet, present, endedSet
  <2> QED BY <2>1, <2>3 DEF Abstract!Next
<1>5. ASSUME NEW p \in Producers, DeleteProducer(p) PROVE Distinct' /\ Abstract!Next
  <2>1. q'.m_queue = q.m_queue
    BY <1>0, <1>5 DEF DeleteProducer, producerDeleted, Queue
  <2>2. present' = present \ {p} /\ p \in present /\ endedSet' = endedSet
    BY <1>0, <1>5 DEF DeleteProducer, present, endedSet, TypeOK
  <2>3. pendingSet' = pendingSet /\ Distinct' /\ nextId' = nextId
    BY <1>5, <2>1 DEF DeleteProducer, pendingSet, Distinct
  <2>4. Abstract!DeleteProducer(p)
    BY <2>2, <2>3 DEF Abstract!DeleteProducer, pendingSet, present, endedSet
  <2> QED BY <2>3, <2>4 DEF Abstract!Next
<1>6. ASSUME NEW c \in Consumers, CallPop(c) PROVE Distinct' /\ UNCHANGED Abstract!absVars
  <2>1. endedSet' = endedSet
    BY <1>0, <1>6 DEF CallPop, endedSet, TypeOK
  <2> QED BY <1>6, <2>1, StutterImplements DEF CallPop, present
<1>7. ASSUME NEW c \in Consumers, PopWait(c) PROVE Distinct' /\ UNCHANGED Abstract!absVars
  <2>1. q'.m_queue = q.m_queue
    BY <1>0, <1>7 DEF PopWait, popWait, Queue
  <2> QED BY <1>7, <2>1, StutterImplements DEF PopWait, present, endedSet
<1>8. ASSUME NEW c \in Consumers, PopThrow(c) PROVE Distinct' /\ Abstract!Next
  <2>1. q.m_queue = <<>> /\ q.m_producers = 0 /\ q' = q /\ nextId' = nextId /\ reader' = reader
    BY <1>8 DEF PopThrow, popThrows
  <2>2. present = {} /\ present' = present
    BY <2>1, FiniteThreads, FS_EmptySet DEF IInv, Bounded, present
  <2>3. pendingSet = {} /\ pendingSet' = pendingSet /\ Distinct'
    BY <2>1 DEF pendingSet, Distinct
  <2>4. endedSet' = endedSet \cup {c}
    BY <1>0, <1>8 DEF PopThrow, endedSet, TypeOK
  <2>5. Abstract!End(c)
    BY <2>1, <2>2, <2>3, <2>4 DEF Abstract!End, pendingSet, present, endedSet
  <2> QED BY <2>3, <2>5 DEF Abstract!Next
<1>9. ASSUME NEW c \in Consumers, Pop(c) PROVE Distinct' /\ Abstract!Next
  <2>1. Distinct' /\ \E k \in pendingSet : pendingSet' = pendingSet \ {k}
    BY <1>9, PopDistinct
  <2>2. PICK k \in pendingSet : pendingSet' = pendingSet \ {k}
    BY <2>1
  <2>3. present' = present /\ endedSet' = endedSet /\ nextId' = nextId
    BY <1>0, <1>9 DEF Pop, CanPop, present, endedSet, TypeOK
  <2>4. Abstract!Take(k)
    BY <2>2, <2>3 DEF Abstract!Take, pendingSet, present, endedSet
  <2> QED BY <2>1, <2>2, <2>4 DEF Abstract!Next, pendingSet
<1>10. CASE SpuriousWakeup
  <2>1. q'.m_queue = q.m_queue
    BY <1>0, <1>10, SpuriousFields DEF SpuriousWakeup
  <2> QED BY <1>10, <2>1, StutterImplements DEF SpuriousWakeup, present, endedSet
<1> QED
  BY <1>1, <1>2, <1>3, <1>4, <1>5, <1>6, <1>7, <1>8, <1>9, <1>10 DEF Next, PushStep, PopStep

\* ThreadSafeSimpleQueue implements the interface: no chunk is lost or handed out
\* twice, and Pop throws only when every reader has left and every chunk was taken.
THEOREM Refinement == Spec => Implements
<1>1. Init => Abstract!Init /\ Distinct
  <2> SUFFICES ASSUME Init PROVE Abstract!Init /\ Distinct
    OBVIOUS
  <2>1. q.m_queue = <<>>
    BY DEF Init, newQueue
  <2>2. pendingSet = {} /\ Distinct
    BY <2>1 DEF pendingSet, Distinct
  <2>3. present = Producers /\ endedSet = {} /\ nextId = [p \in Producers |-> 0]
    BY DEF Init, present, endedSet
  <2> QED BY <2>2, <2>3 DEF Abstract!Init, pendingSet, present, endedSet
<1> QED BY <1>1, Invariance, StepImplements, PTL DEF Spec, Implements, Abstract!Spec
=============================================================================
