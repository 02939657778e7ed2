----------------------------- MODULE SimpleQueue -----------------------------
(***************************************************************************)
(* One ThreadSafeSimpleQueue shared by any number of readers (producers)   *)
(* and consumer threads: the queue of a single-pass read.                  *)
(***************************************************************************)
EXTENDS SimpleQueueOps, FiniteSets

CONSTANTS Producers, Consumers,
          MaxChunks   \* bound: chunks a reader pushes

ASSUME SimpleAssumption ==
    /\ IsFiniteSet(Producers)
    /\ IsFiniteSet(Consumers)
    /\ Capacity \in Nat \ {0}
    /\ MaxChunks \in Nat

VARIABLES q,       \* the queue object
          reader,  \* "running", in "push", or "gone" after DeleteProducer
          nextId,  \* number of the next chunk of each reader
          call     \* "idle", in "pop", or "ended" after Pop threw

vars == <<q, reader, nextId, call>>

Chunk == [partition_id : Producers, id : 0 .. (MaxChunks - 1)]

Init ==
    /\ q = newQueue(Cardinality(Producers))
    /\ reader = [p \in Producers |-> "running"]
    /\ nextId = [p \in Producers |-> 0]
    /\ call = [c \in Consumers |-> "idle"]

-----------------------------------------------------------------------------
(* Readers.                                                                *)

CallPush(p) ==
    /\ reader[p] = "running"
    /\ nextId[p] < MaxChunks
    /\ reader' = [reader EXCEPT ![p] = "push"]
    /\ UNCHANGED <<q, nextId, call>>

CanPush(p) == reader[p] = "push" /\ p \notin q.m_fullCV

PushWait(p) ==
    /\ CanPush(p)
    /\ pushBlocks(q)
    /\ q' = pushWait(q, p)
    /\ UNCHANGED <<reader, nextId, call>>

Push(p) ==
    /\ CanPush(p)
    /\ ~pushBlocks(q)
    /\ q' \in pushed(q, [partition_id |-> p, id |-> nextId[p]])
    /\ nextId' = [nextId EXCEPT ![p] = @ + 1]
    /\ reader' = [reader EXCEPT ![p] = "running"]
    /\ UNCHANGED call

DeleteProducer(p) ==
    /\ reader[p] = "running"
    /\ q' = producerDeleted(q)
    /\ reader' = [reader EXCEPT ![p] = "gone"]
    /\ UNCHANGED <<nextId, call>>

-----------------------------------------------------------------------------
(* Consumers.                                                              *)

CallPop(c) ==
    /\ call[c] = "idle"
    /\ call' = [call EXCEPT ![c] = "pop"]
    /\ UNCHANGED <<q, reader, nextId>>

CanPop(c) == call[c] = "pop" /\ c \notin q.m_emptyCV

PopWait(c) ==
    /\ CanPop(c)
    /\ popBlocks(q)
    /\ q' = popWait(q, c)
    /\ UNCHANGED <<reader, nextId, call>>

PopThrow(c) ==
    /\ CanPop(c)
    /\ popThrows(q)
    /\ call' = [call EXCEPT ![c] = "ended"]
    /\ UNCHANGED <<q, reader, nextId>>

Pop(c) ==
    /\ CanPop(c)
    /\ q.m_queue # <<>>
    /\ q' \in popped(q)
    /\ call' = [call EXCEPT ![c] = "idle"]
    /\ UNCHANGED <<reader, nextId>>

SpuriousWakeup ==
    /\ q' \in spurious(q)
    /\ UNCHANGED <<reader, nextId, call>>

-----------------------------------------------------------------------------

PushStep(p) == PushWait(p) \/ Push(p)

PopStep(c) == PopWait(c) \/ PopThrow(c) \/ Pop(c)

Next ==
    \/ \E p \in Producers : CallPush(p) \/ PushStep(p) \/ DeleteProducer(p)
    \/ \E c \in Consumers : CallPop(c) \/ PopStep(c)
    \/ SpuriousWakeup

Spec == Init /\ [][Next]_vars

\* A thread that can take a step takes one: a reader pushes or ends, a consumer
\* calls Pop until it throws.  Nothing is assumed of spurious wake-ups.
Fairness ==
    /\ \A p \in Producers : /\ WF_vars(PushStep(p))
                            /\ WF_vars(CallPush(p) \/ DeleteProducer(p))
    /\ \A c \in Consumers : WF_vars(PopStep(c)) /\ WF_vars(CallPop(c))

FairSpec == Spec /\ Fairness

-----------------------------------------------------------------------------
(* Properties.                                                             *)

\* The type of every variable.
TypeOK ==
    /\ q \in [m_queue : Seq(Chunk), m_producers : Nat,
              m_emptyCV : SUBSET Consumers, m_fullCV : SUBSET Producers]
    /\ reader \in [Producers -> {"running", "push", "gone"}]
    /\ nextId \in [Producers -> 0 .. MaxChunks]
    /\ call \in [Consumers -> {"idle", "pop", "ended"}]

\* "maximum number of chunks that can be present in a worker's ChunkQueue"
\* (s2_client_extern.h), and the count of producers on which the end of the
\* queue depends is that of the readers that have not called DeleteProducer.
Bounded ==
    /\ Len(q.m_queue) <= Capacity
    /\ q.m_producers = Cardinality({p \in Producers : reader[p] # "gone"})

awakeConsumers == {c \in Consumers : call[c] = "pop"} \ q.m_emptyCV
awakeProducers == {p \in Producers : reader[p] = "push"} \ q.m_fullCV

\* Waking one thread per Push and per Pop is enough: while a consumer is blocked
\* on the empty queue there is an awake consumer for every chunk in it, while a
\* reader is blocked on the full queue there is an awake reader for every free
\* place, and no consumer is blocked once the last reader has gone.
NoLostWakeup ==
    /\ q.m_emptyCV # {} => /\ Cardinality(awakeConsumers) >= Len(q.m_queue)
                           /\ q.m_producers # 0
    /\ q.m_fullCV # {} => Cardinality(awakeProducers) >= Capacity - Len(q.m_queue)

\* Every call of Pop returns and, as consumers call it until it throws, every
\* reader gets its chunks through and every consumer sees the end.
Progress ==
    /\ \A p \in Producers : <>(reader[p] = "gone")
    /\ \A c \in Consumers : <>(call[c] = "ended")

\* The queue seen through its interface.
Abstract == INSTANCE ThreadSafeQueue WITH
    sent    <- nextId,
    pending <- {q.m_queue[i] : i \in 1 .. Len(q.m_queue)},
    open    <- {p \in Producers : reader[p] # "gone"},
    ended   <- {c \in Consumers : call[c] = "ended"}

\* Every operation of the queue is one step of the interface's specification,
\* or none of it: no chunk is lost or handed out twice, and a consumer is told
\* of the end only when nothing can come any more.
Implements == Abstract!Spec
=============================================================================
