------------------------------ MODULE KvsStore ------------------------------
(***************************************************************************)
(* What the KVS promises of the transactions of a namespace, in the        *)
(* abstract.  Transactions that are ready form a queue.  They take effect  *)
(* in the order of the queue, each of them entirely or not at all, and     *)
(* each has one outcome, announced by one event; adjacent transactions may *)
(* share an event and a version of the root.                               *)
(***************************************************************************)
EXTENDS Naturals, Sequences

CONSTANTS
    Txns          \* names of transactions

VARIABLES
    ready,        \* the queue of transactions
    events,       \* the outcomes: the names, and whether they were applied
    removed       \* the namespace is marked for removal

svars == <<ready, events, removed>>

StoreInit == ready = <<>> /\ events = <<>> /\ removed = FALSE

Named ==
    {ready[i] : i \in DOMAIN ready}
    \cup UNION {{events[i].names[k] : k \in DOMAIN events[i].names} :
                 i \in DOMAIN events}

\* A transaction becomes ready.
add(t) ==
    /\ t \notin Named /\ ~removed
    /\ ready' = Append(ready, t)
    /\ UNCHANGED <<events, removed>>

\* The first k transactions of the queue have an outcome.
outcome(k, ok) ==
    /\ events' = Append(events, [names |-> SubSeq(ready, 1, k), ok |-> ok])
    /\ ready' = SubSeq(ready, k + 1, Len(ready))
    /\ UNCHANGED removed

commit(k) == ~removed /\ outcome(k, TRUE)

\* Transactions fail one by one, unless the namespace is going away.
fail(k) == (k = 1 \/ removed) /\ outcome(k, FALSE)

remove == removed' = TRUE /\ UNCHANGED <<ready, events>>

StoreNext ==
    \/ \E t \in Txns : add(t)
    \/ \E k \in 1..Len(ready) : commit(k) \/ fail(k)
    \/ remove

StoreSpec == StoreInit /\ [][StoreNext]_svars
=============================================================================
