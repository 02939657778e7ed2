--------------------------- MODULE SimpleQueueOps ---------------------------
(***************************************************************************)
(* The object ThreadSafeSimpleQueue (queue/thread_safe_simple_queue.hpp)   *)
(* as a record, and its critical sections as operators on it.  Where       *)
(* notify_one may wake any of several threads the operator is the set of   *)
(* the possible results.  A condition variable is the set of the threads   *)
(* blocked in it.                                                          *)
(***************************************************************************)
EXTENDS Integers, Sequences

CONSTANT Capacity  \* m_capacity

\* Mutant: one producer too few.
newQueueShort(producers) ==
    [m_queue |-> <<>>, m_producers |-> producers - 1, m_emptyCV |-> {}, m_fullCV |-> {}]

\* CreateChunkQueue passes the number of the readers that push to the queue.
newQueue(producers) ==
    [m_queue |-> <<>>, m_producers |-> producers, m_emptyCV |-> {}, m_fullCV |-> {}]

notifyOne(waiting) ==
    IF waiting = {} THEN {{}} ELSE {waiting \ {t} : t \in waiting}

-----------------------------------------------------------------------------
(* Push.                                                                   *)

\* Mutant: blocks one chunk too late.
pushBlocksLate(q) == Len(q.m_queue) > Capacity

pushBlocks(q) == Len(q.m_queue) >= Capacity

pushWait(q, t) == [q EXCEPT !.m_fullCV = @ \cup {t}]

pushed(q, value) ==
    {[q EXCEPT !.m_queue = Append(@, value), !.m_emptyCV = awake] :
        awake \in notifyOne(q.m_emptyCV)}

-----------------------------------------------------------------------------
(* Pop.                                                                    *)

popBlocks(q) == q.m_queue = <<>> /\ q.m_producers # 0

\* Mutant: the end is reported while there are producers.
popThrowsEarly(q) == q.m_queue = <<>>

popThrows(q) == q.m_queue = <<>> /\ q.m_producers = 0

popWait(q, t) == [q EXCEPT !.m_emptyCV = @ \cup {t}]

\* Mutant: no producer is notified of the free place.
poppedSilently(q) == {[q EXCEPT !.m_queue = Tail(@)]}

popped(q) ==
    {[q EXCEPT !.m_queue = Tail(@), !.m_fullCV = awake] :
        awake \in notifyOne(q.m_fullCV)}

-----------------------------------------------------------------------------
(* DeleteProducer.                                                         *)

\* Mutant: the last producer to leave notifies nobody.
deletedSilently(q) == [q EXCEPT !.m_producers = @ - 1]

producerDeleted(q) ==
    [q EXCEPT !.m_producers = @ - 1,
              !.m_emptyCV = IF q.m_producers = 1 THEN {} ELSE @]

-----------------------------------------------------------------------------
(* A wait on a std::condition_variable may end without a notification.     *)

spurious(q) ==
    {[q EXCEPT !.m_emptyCV = @ \ {t}] : t \in q.m_emptyCV} \cup
    {[q EXCEPT !.m_fullCV = @ \ {t}] : t \in q.m_fullCV}
=============================================================================
