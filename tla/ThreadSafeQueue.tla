--------------------------- MODULE ThreadSafeQueue ---------------------------
(***************************************************************************)
(* The promise of the interface ThreadSafeQueue (queue/                    *)
(* thread_safe_queue.hpp) to a reader and to a consumer, whatever class    *)
(* implements it: every chunk a producer pushes is taken at most once, and *)
(* a consumer is told that the queue has ended only when no producer is    *)
(* left and every chunk has been taken.                                    *)
(***************************************************************************)
EXTENDS Naturals

CONSTANTS Producers, Consumers

VARIABLES sent,     \* number of chunks each producer has pushed
          pending,  \* chunks pushed and not yet taken
          open,     \* producers that have not called DeleteProducer
          ended     \* consumers that were told that the queue has ended

absVars == <<sent, pending, open, ended>>

chunkOf(p, n) == [partition_id |-> p, id |-> n]

Init ==
    /\ sent = [p \in Producers |-> 0]
    /\ pending = {}
    /\ open = Producers
    /\ ended = {}

Push(p) ==
    /\ p \in open
    /\ pending' = pending \cup {chunkOf(p, sent[p])}
    /\ sent' = [sent EXCEPT ![p] = @ + 1]
    /\ UNCHANGED <<open, ended>>

\* Pop or Get returns k to a consumer, or the destructor frees it.
Take(k) ==
    /\ k \in pending
    /\ pending' = pending \ {k}
    /\ UNCHANGED <<sent, open, ended>>

DeleteProducer(p) ==
    /\ p \in open
    /\ open' = open \ {p}
    /\ UNCHANGED <<sent, pending, ended>>

\* Pop throws out_of_range.
End(c) ==
    /\ open = {}
    /\ pending = {}
    /\ ended' = ended \cup {c}
    /\ UNCHANGED <<sent, pending, open>>

Next ==
    \/ \E p \in Producers : Push(p) \/ DeleteProducer(p)
    \/ \E k \in pending : Take(k)
    \/ \E c \in Consumers : End(c)

Spec == Init /\ [][Next]_absVars
=============================================================================
