----------------------------- MODULE BatchQueue -----------------------------
(***************************************************************************)
(* ThreadSafeBatchQueue (queue/thread_safe_batch_queue.hpp): the queue of  *)
(* a multi-pass read.  The reader of every partition may put at most       *)
(* BatchSize chunks in the queue, one in each of its slots, before all     *)
(* readers and consumers are done with the batch; then the next batch      *)
(* opens.  In the first pass consumers call Pop, in every later pass they  *)
(* ask for a chunk by partition and number with Get.                       *)
(*                                                                         *)
(* One action is one critical section of m_mutex: from the lock, or from   *)
(* the wake-up of a wait, to the next wait or to the return.  A condition  *)
(* variable is the set of the threads blocked in it; notify_one removes    *)
(* one of them, notify_all all of them, and a wait may end spuriously.     *)
(***************************************************************************)
EXTENDS Integers, Sequences, FiniteSets

CONSTANTS Producers,  \* partition ids of the readers of this queue
          Consumers,  \* threads that take chunks from it
          Drainer,    \* the thread that runs the destructor of the queue
          BatchSize,  \* m_batchSize
          MaxChunks,  \* bound: chunks a reader may push
          Passes      \* the passes considered, "first" (Pop) or "later" (Get)

ASSUME BatchAssumption ==
    /\ IsFiniteSet(Producers)
    /\ Drainer \notin Consumers
    /\ BatchSize \in Nat \ {0}
    /\ MaxChunks \in Nat
    /\ Passes \subseteq {"first", "later"}

VARIABLES m_queue,           \* std::queue of the pushed chunks
          m_producerActive,  \* m_producerActiveArray
          m_activeProducers,
          m_dataArray,       \* slot -> number of the chunk in it, or NotSet
          m_currentBatch,
          m_readInBatch,
          m_itemsToRead,
          emptyWaiters,      \* threads blocked in m_emptyCV
          busyWaiters,       \* producers blocked in m_busyCV
          dataWaiters,       \* consumers blocked in m_dataNotReadyCV[p]
          nextId,            \* number of the next chunk each reader pushes
          call,              \* what each consumer is doing
          req,               \* the chunk each consumer asks for
          drain,             \* what the destructor is doing
          pass,              \* which pass the queue serves
          handed             \* how often each chunk was handed out or freed

queueVars == <<m_queue, m_producerActive, m_activeProducers, m_dataArray,
               m_currentBatch, m_readInBatch, m_itemsToRead>>
waiters == <<emptyWaiters, busyWaiters, dataWaiters>>
vars == <<queueVars, waiters, nextId, call, req, drain, handed, pass>>

-----------------------------------------------------------------------------
(* Data.                                                                   *)

ChunkIds == 0 .. (MaxChunks - 1)
Chunk == [partition_id : Producers, id : ChunkIds]

\* The slot array, indexed by reader and place instead of by their position.
Slots == Producers \X (0 .. (BatchSize - 1))
NotSet == -1

\* The arguments of a consumer that is not in Get.
NoRequest == <<>>

targetIndex(p, id) == <<p, id % BatchSize>>
isSet(idx) == m_dataArray[idx] # NotSet

-----------------------------------------------------------------------------
(* The private helpers, as used inside an operation.                       *)

\* Mutant: does not wait for the readers that have more of the batch to push.
finishedWhenEmpty(active, read, items) == items = 0

isBatchFinished(active, read, items) ==
    /\ \A p \in Producers : active[p] => read[p] = BatchSize
    /\ items = 0

\* resetBatch wakes every blocked producer and every consumer blocked in Get.
resetBatch ==
    /\ m_readInBatch' = [p \in Producers |-> 0]
    /\ m_currentBatch' = m_currentBatch + 1
    /\ busyWaiters' = {}
    /\ dataWaiters' = [p \in Producers |-> {}]

\* The tail of every operation that may end a batch.
resetIfFinished(active, read, items) ==
    IF isBatchFinished(active, read, items)
    THEN resetBatch
    ELSE m_readInBatch' = read /\ UNCHANGED <<m_currentBatch, busyWaiters, dataWaiters>>

\* Mutant: the slot is still marked as set.
readKeepsSlot(idx) ==
    /\ m_itemsToRead' = m_itemsToRead - 1
    /\ resetIfFinished(m_producerActive,
                       [m_readInBatch EXCEPT ![idx[1]] = @ + 1],
                       m_itemsToRead - 1)
    /\ UNCHANGED m_dataArray

\* Mutant: the caller counts the chunk as read as well.
readCountedTwice(idx) ==
    /\ m_dataArray' = [m_dataArray EXCEPT ![idx] = NotSet]
    /\ m_itemsToRead' = m_itemsToRead - 2
    /\ resetIfFinished(m_producerActive,
                       [m_readInBatch EXCEPT ![idx[1]] = @ + 1],
                       m_itemsToRead - 2)

\* readValue(idx) followed by the check of the batch's end.
readValue(idx) ==
    /\ m_dataArray' = [m_dataArray EXCEPT ![idx] = NotSet]
    /\ m_itemsToRead' = m_itemsToRead - 1
    /\ resetIfFinished(m_producerActive,
                       [m_readInBatch EXCEPT ![idx[1]] = @ + 1],
                       m_itemsToRead - 1)

notifyOneEmpty ==
    \/ emptyWaiters = {} /\ emptyWaiters' = {}
    \/ \E t \in emptyWaiters : emptyWaiters' = emptyWaiters \ {t}

\* FreeBatchData keeps the lock between two of its waits.
unlocked == drain # "locked"

handOut(c) == handed' = [handed EXCEPT ![c] = @ + 1]

-----------------------------------------------------------------------------
(* Producers.                                                              *)

CanPush(p) == /\ m_producerActive[p]
              /\ nextId[p] < MaxChunks
              /\ p \notin busyWaiters
              /\ unlocked

PushWait(p) ==
    /\ CanPush(p)
    /\ nextId[p] \div BatchSize > m_currentBatch
    /\ busyWaiters' = busyWaiters \cup {p}
    /\ UNCHANGED <<queueVars, emptyWaiters, dataWaiters, nextId, call, req, drain, handed, pass>>

\* Mutant: a reader may be one batch ahead.
PushAhead(p) ==
    /\ CanPush(p)
    /\ nextId[p] \div BatchSize <= m_currentBatch + 1
    /\ m_dataArray' = [m_dataArray EXCEPT ![targetIndex(p, nextId[p])] = nextId[p]]
    /\ m_queue' = Append(m_queue, [partition_id |-> p, id |-> nextId[p]])
    /\ m_itemsToRead' = m_itemsToRead + 1
    /\ nextId' = [nextId EXCEPT ![p] = @ + 1]
    /\ notifyOneEmpty
    /\ dataWaiters' = [dataWaiters EXCEPT ![p] = {}]
    /\ UNCHANGED <<m_producerActive, m_activeProducers, m_currentBatch, m_readInBatch,
                   busyWaiters, call, req, drain, handed, pass>>

\* Mutant: the threads that wait in Get are not notified.
PushSilently(p) ==
    /\ CanPush(p)
    /\ nextId[p] \div BatchSize <= m_currentBatch
    /\ m_dataArray' = [m_dataArray EXCEPT ![targetIndex(p, nextId[p])] = nextId[p]]
    /\ m_queue' = Append(m_queue, [partition_id |-> p, id |-> nextId[p]])
    /\ m_itemsToRead' = m_itemsToRead + 1
    /\ nextId' = [nextId EXCEPT ![p] = @ + 1]
    /\ notifyOneEmpty
    /\ UNCHANGED <<m_producerActive, m_activeProducers, m_currentBatch, m_readInBatch,
                   busyWaiters, dataWaiters, call, req, drain, handed, pass>>

Push(p) ==
    /\ CanPush(p)
    /\ nextId[p] \div BatchSize <= m_currentBatch
    /\ m_dataArray' = [m_dataArray EXCEPT ![targetIndex(p, nextId[p])] = nextId[p]]
    /\ m_queue' = Append(m_queue, [partition_id |-> p, id |-> nextId[p]])
    /\ m_itemsToRead' = m_itemsToRead + 1
    /\ nextId' = [nextId EXCEPT ![p] = @ + 1]
    /\ notifyOneEmpty
    /\ dataWaiters' = [dataWaiters EXCEPT ![p] = {}]
    /\ UNCHANGED <<m_producerActive, m_activeProducers, m_currentBatch, m_readInBatch,
                   busyWaiters, call, req, drain, handed, pass>>

\* Mutant: the last reader to leave does not notify the threads that wait in Pop.
DeleteSilently(p) ==
    /\ m_producerActive[p]
    /\ p \notin busyWaiters
    /\ unlocked
    /\ m_producerActive' = [m_producerActive EXCEPT ![p] = FALSE]
    /\ m_activeProducers' = m_activeProducers - 1
    /\ resetIfFinished([m_producerActive EXCEPT ![p] = FALSE], m_readInBatch, m_itemsToRead)
    /\ UNCHANGED <<emptyWaiters, m_queue, m_dataArray, m_itemsToRead, nextId, call, req, drain,
                   handed, pass>>

\* A reader ends (its partition is read, it was stopped or it failed) between
\* two calls of Push, never inside one.
DeleteProducer(p) ==
    /\ m_producerActive[p]
    /\ p \notin busyWaiters
    /\ unlocked
    /\ m_producerActive' = [m_producerActive EXCEPT ![p] = FALSE]
    /\ m_activeProducers' = m_activeProducers - 1
    /\ resetIfFinished([m_producerActive EXCEPT ![p] = FALSE], m_readInBatch, m_itemsToRead)
    /\ emptyWaiters' = IF m_activeProducers = 1 THEN {} ELSE emptyWaiters
    /\ UNCHANGED <<m_queue, m_dataArray, m_itemsToRead, nextId, call, req, drain, handed, pass>>

-----------------------------------------------------------------------------
(* Consumers of the first pass.                                            *)

CallPop(c) ==
    /\ pass = "first"
    /\ call[c] = "idle"
    /\ drain = "off"
    /\ call' = [call EXCEPT ![c] = "pop"]
    /\ UNCHANGED <<queueVars, waiters, nextId, req, drain, handed, pass>>

CanPop(c) == call[c] = "pop" /\ c \notin emptyWaiters

PopWait(c) ==
    /\ CanPop(c)
    /\ m_itemsToRead = 0
    /\ m_activeProducers # 0
    /\ emptyWaiters' = emptyWaiters \cup {c}
    /\ UNCHANGED <<queueVars, busyWaiters, dataWaiters, nextId, call, req, drain, handed, pass>>

\* Mutant: the end is reported while readers are active.
PopThrowEarly(c) ==
    /\ CanPop(c)
    /\ m_itemsToRead = 0
    /\ call' = [call EXCEPT ![c] = "ended"]
    /\ UNCHANGED <<queueVars, waiters, nextId, req, drain, handed, pass>>

PopThrow(c) ==
    /\ CanPop(c)
    /\ m_itemsToRead = 0
    /\ m_activeProducers = 0
    /\ call' = [call EXCEPT ![c] = "ended"]
    /\ UNCHANGED <<queueVars, waiters, nextId, req, drain, handed, pass>>

\* The chunk returned is the front of m_queue, the slot freed is that chunk's.
Pop(c) ==
    /\ CanPop(c)
    /\ m_itemsToRead # 0
    /\ LET res == Head(m_queue)
       IN  /\ readValue(targetIndex(res.partition_id, res.id))
           /\ handOut(res)
    /\ m_queue' = Tail(m_queue)
    /\ call' = [call EXCEPT ![c] = "idle"]
    /\ UNCHANGED <<m_producerActive, m_activeProducers, emptyWaiters, nextId, req, drain, pass>>

-----------------------------------------------------------------------------
(* Consumers of a later pass.                                              *)

CallGet(c, p, id) ==
    /\ pass = "later"
    /\ call[c] = "idle"
    /\ drain = "off"
    /\ call' = [call EXCEPT ![c] = "get"]
    /\ req' = [req EXCEPT ![c] = [partition_id |-> p, id |-> id]]
    /\ UNCHANGED <<queueVars, waiters, nextId, drain, handed, pass>>

return(c, to) ==
    /\ call' = [call EXCEPT ![c] = to]
    /\ req' = [req EXCEPT ![c] = NoRequest]

\* The check at the entry of Get, which is not repeated after a wait.
GetEmpty(c) ==
    /\ call[c] = "get"
    /\ m_itemsToRead = 0
    /\ m_activeProducers = 0
    /\ return(c, "ended")
    /\ UNCHANGED <<queueVars, waiters, nextId, drain, handed, pass>>

\* c is past that check and holds the lock, or enters and passes it.
InGet(c) ==
    \/ call[c] = "get" /\ ~(m_itemsToRead = 0 /\ m_activeProducers = 0)
    \/ call[c] = "getting" /\ c \notin dataWaiters[req[c].partition_id]

reqIndex(c) == targetIndex(req[c].partition_id, req[c].id)

\* Mutant: waits for the batch only, not for the chunk to be pushed.
GetWaitsForBatch(c) ==
    /\ req[c].id \div BatchSize # m_currentBatch
    /\ m_producerActive[req[c].partition_id]

\* Mutant: waits for a chunk in the slot, of whatever batch.
GetWaitsForSlot(c) ==
    /\ ~isSet(reqIndex(c))
    /\ m_producerActive[req[c].partition_id]

GetMustWait(c) ==
    /\ \/ ~isSet(reqIndex(c))
       \/ req[c].id \div BatchSize # m_currentBatch
    /\ m_producerActive[req[c].partition_id]

GetWait(c) ==
    /\ InGet(c)
    /\ GetMustWait(c)
    /\ dataWaiters' = [dataWaiters EXCEPT ![req[c].partition_id] = @ \cup {c}]
    /\ call' = [call EXCEPT ![c] = "getting"]
    /\ UNCHANGED <<queueVars, emptyWaiters, busyWaiters, nextId, req, drain, handed, pass>>

GetThrow(c) ==
    /\ InGet(c)
    /\ ~GetMustWait(c)
    /\ ~isSet(reqIndex(c))
    /\ return(c, "ended")
    /\ UNCHANGED <<queueVars, waiters, nextId, drain, handed, pass>>

\* Mutant: m_queue keeps its front.
GetKeepsQueue(c) ==
    /\ InGet(c)
    /\ ~GetMustWait(c)
    /\ isSet(reqIndex(c))
    /\ readValue(reqIndex(c))
    /\ handOut([partition_id |-> req[c].partition_id, id |-> m_dataArray[reqIndex(c)]])
    /\ return(c, "idle")
    /\ UNCHANGED <<m_queue, m_producerActive, m_activeProducers, emptyWaiters, nextId, drain, pass>>

\* The chunk returned is the one in the slot; m_queue only loses its front.
Get(c) ==
    /\ InGet(c)
    /\ ~GetMustWait(c)
    /\ isSet(reqIndex(c))
    /\ readValue(reqIndex(c))
    /\ handOut([partition_id |-> req[c].partition_id, id |-> m_dataArray[reqIndex(c)]])
    /\ m_queue' = Tail(m_queue)
    /\ return(c, "idle")
    /\ UNCHANGED <<m_producerActive, m_activeProducers, emptyWaiters, nextId, drain, pass>>

-----------------------------------------------------------------------------
(* FreeBatchData, called by the destructor of MultiPassQueue once no       *)
(* consumer is inside a call.  It owns the lock while drain = "locked".    *)

FreeBatchData ==
    /\ drain = "off"
    /\ \A c \in Consumers : call[c] \in {"idle", "ended"}
    /\ drain' = "locked"
    /\ UNCHANGED <<queueVars, waiters, nextId, call, req, handed, pass>>

FreeWake ==
    /\ drain = "waiting"
    /\ Drainer \notin emptyWaiters
    /\ drain' = "locked"
    /\ UNCHANGED <<queueVars, waiters, nextId, call, req, handed, pass>>

FreeWait ==
    /\ drain = "locked"
    /\ m_itemsToRead = 0
    /\ m_activeProducers # 0
    /\ emptyWaiters' = emptyWaiters \cup {Drainer}
    /\ drain' = "waiting"
    /\ UNCHANGED <<queueVars, busyWaiters, dataWaiters, nextId, call, req, handed, pass>>

\* Mutant: frees the chunks of a reader in any order.
FreeAny ==
    /\ drain = "locked"
    /\ m_itemsToRead # 0
    /\ \E idx \in Slots :
         /\ isSet(idx)
         /\ readValue(idx)
         /\ handOut([partition_id |-> idx[1], id |-> m_dataArray[idx]])
    /\ m_queue' = Tail(m_queue)
    /\ UNCHANGED <<m_producerActive, m_activeProducers, emptyWaiters, nextId, call, req, drain, pass>>

\* Frees one chunk.  The code takes the first set slot, by the position of the
\* reader and then by the chunk's place; here the reader may be any.
FreeOne ==
    /\ drain = "locked"
    /\ m_itemsToRead # 0
    /\ \E idx \in Slots :
         /\ isSet(idx)
         /\ \A k \in 0 .. (idx[2] - 1) : ~isSet(<<idx[1], k>>)
         /\ readValue(idx)
         /\ handOut([partition_id |-> idx[1], id |-> m_dataArray[idx]])
    /\ m_queue' = Tail(m_queue)
    /\ UNCHANGED <<m_producerActive, m_activeProducers, emptyWaiters, nextId, call, req, drain, pass>>

FreeDone ==
    /\ drain = "locked"
    /\ m_itemsToRead = 0
    /\ m_activeProducers = 0
    /\ drain' = "done"
    /\ UNCHANGED <<queueVars, waiters, nextId, call, req, handed, pass>>

-----------------------------------------------------------------------------
(* A wait on a std::condition_variable may return without a notification.  *)

SpuriousWakeup ==
    /\ \/ /\ \E t \in emptyWaiters : emptyWaiters' = emptyWaiters \ {t}
          /\ UNCHANGED <<busyWaiters, dataWaiters>>
       \/ /\ \E p \in busyWaiters : busyWaiters' = busyWaiters \ {p}
          /\ UNCHANGED <<emptyWaiters, dataWaiters>>
       \/ /\ \E p \in Producers : \E c \in dataWaiters[p] :
                 dataWaiters' = [dataWaiters EXCEPT ![p] = @ \ {c}]
          /\ UNCHANGED <<emptyWaiters, busyWaiters>>
    /\ UNCHANGED <<queueVars, nextId, call, req, drain, handed, pass>>

-----------------------------------------------------------------------------

Init ==
    /\ m_queue = <<>>
    /\ m_producerActive = [p \in Producers |-> TRUE]
    /\ m_activeProducers = Cardinality(Producers)
    /\ m_dataArray = [idx \in Slots |-> NotSet]
    /\ m_currentBatch = 0
    /\ m_readInBatch = [p \in Producers |-> 0]
    /\ m_itemsToRead = 0
    /\ emptyWaiters = {}
    /\ busyWaiters = {}
    /\ dataWaiters = [p \in Producers |-> {}]
    /\ nextId = [p \in Producers |-> 0]
    /\ call = [c \in Consumers |-> "idle"]
    /\ req = [c \in Consumers |-> NoRequest]
    /\ drain = "off"
    /\ pass \in Passes
    /\ handed = [k \in Chunk |-> 0]

Producer(p) == PushWait(p) \/ Push(p) \/ DeleteProducer(p)

PopStep(c) == PopWait(c) \/ PopThrow(c) \/ Pop(c)

GetStep(c) == GetEmpty(c) \/ GetWait(c) \/ GetThrow(c) \/ Get(c)

Destructor == FreeWake \/ FreeWait \/ FreeOne \/ FreeDone

Next ==
    \/ \E p \in Producers : Producer(p)
    \/ \E c \in Consumers :
         \/ CallPop(c)
         \/ PopStep(c)
         \/ \E p \in Producers, id \in ChunkIds : CallGet(c, p, id)
         \/ GetStep(c)
    \/ FreeBatchData
    \/ Destructor
    \/ SpuriousWakeup

Spec == Init /\ [][Next]_vars

-----------------------------------------------------------------------------
(* Properties.                                                             *)

\* The type of every variable.
TypeOK ==
    /\ m_queue \in Seq(Chunk)
    /\ m_producerActive \in [Producers -> BOOLEAN]
    /\ m_activeProducers \in Nat
    /\ m_dataArray \in [Slots -> ChunkIds \cup {NotSet}]
    /\ m_currentBatch \in Nat
    /\ m_readInBatch \in [Producers -> 0 .. BatchSize]
    /\ m_itemsToRead \in Nat
    /\ emptyWaiters \in SUBSET (Consumers \cup {Drainer})
    /\ busyWaiters \in SUBSET Producers
    /\ dataWaiters \in [Producers -> SUBSET Consumers]
    /\ nextId \in [Producers -> 0 .. MaxChunks]
    /\ call \in [Consumers -> {"idle", "pop", "get", "getting", "ended"}]
    /\ req \in [Consumers -> Chunk \cup {NoRequest}]
    /\ \A c \in Consumers : call[c] \in {"get", "getting"} => req[c] \in Chunk
    /\ drain \in {"off", "locked", "waiting", "done"}
    /\ pass \in {"first", "later"}
    /\ handed \in [Chunk -> Nat]

setSlots == {idx \in Slots : isSet(idx)}

\* The assertion "pushing to non-empty place" of Push: the slot of the chunk a
\* reader is about to write holds no chunk that nobody has read yet.
NoOverwrite ==
    \A p \in Producers :
        CanPush(p) /\ nextId[p] \div BatchSize <= m_currentBatch
            => ~isSet(targetIndex(p, nextId[p]))

\* m_itemsToRead, the slots and m_queue agree, so that front() and pop() are
\* never called on an empty m_queue, and the count of active producers, on
\* which Pop decides that the queue has ended, is the number of active flags.
CountsAgree ==
    /\ m_itemsToRead = Cardinality(setSlots)
    /\ Len(m_queue) = m_itemsToRead
    /\ m_activeProducers = Cardinality({p \in Producers : m_producerActive[p]})

\* Every chunk that was pushed is either in its slot or was handed out (or
\* freed) once; no chunk is lost, handed out twice or made up.
HandedOnce ==
    \A k \in Chunk :
        LET idx == targetIndex(k.partition_id, k.id)
        IN  IF k.id < nextId[k.partition_id]
            THEN handed[k] = IF m_dataArray[idx] = k.id THEN 0 ELSE 1
            ELSE handed[k] = 0 /\ m_dataArray[idx] # k.id

\* The batches are a barrier: while a chunk of a batch is in the queue, no
\* reader has pushed a chunk of a later batch.
BatchBarrier ==
    \A p, q \in Producers : \A k \in 0 .. (BatchSize - 1) :
        isSet(<<p, k>>) /\ nextId[q] > 0 =>
            (nextId[q] - 1) \div BatchSize <= m_dataArray[<<p, k>>] \div BatchSize

\* In the first pass, and in the destructor after it, the chunks of a partition
\* leave the queue in the order in which its reader filled them.
PartitionOrder ==
    \A k \in Chunk : pass = "first" /\ handed[k] = 1 =>
        \A i \in 0 .. k.id : handed[[partition_id |-> k.partition_id, id |-> i]] = 1

\* Get returns the chunk it was asked for.  Only when its reader has left is it
\* another one of this reader, the one that is in the same slot, and only if the
\* chunk asked for was never pushed or is already handed out.
GetReturnsRequested ==
    [][\A c \in Consumers :
          call[c] \in {"get", "getting"} /\ call'[c] = "idle" =>
              \/ handed'[req[c]] = handed[req[c]] + 1
              \/ /\ ~m_producerActive[req[c].partition_id]
                 /\ req[c].id >= nextId[req[c].partition_id] \/ handed[req[c]] > 0]_vars

\* The queue implements what ThreadSafeQueue promises.
Abstract == INSTANCE ThreadSafeQueue WITH
    sent    <- nextId,
    pending <- {[partition_id |-> idx[1], id |-> m_dataArray[idx]] : idx \in setSlots},
    open    <- {p \in Producers : m_producerActive[p]},
    ended   <- IF pass = "later" THEN {} ELSE {c \in Consumers : call[c] = "ended"}

\* Every operation of the queue is one step of the interface's specification,
\* or none of it.
Implements == Abstract!Spec
=============================================================================
