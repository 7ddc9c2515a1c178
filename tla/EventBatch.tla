----------------------------- MODULE EventBatch -----------------------------
(***************************************************************************)
(* Batches of the job-manager (event.c).  Job events, the state changes    *)
(* and annotations to publish, and responses that wait for the events, go  *)
(* into the current batch.  When its timer fires the batch is committed to *)
(* the KVS; when the commit has completed, the batch is destroyed, which   *)
(* publishes and responds.  An unload flushes all batches, a crash loses   *)
(* those that were not committed.                                          *)
(***************************************************************************)
EXTENDS Naturals, Sequences, FiniteSets, SequencesExt, Lists

CONSTANTS
    Events,       \* events posted to jobs
    Transitions,  \* those that change a job's state
    Notes,        \* annotations to publish
    Requests      \* requests whose response is handed to a batch

ASSUME EventBatchAssumption ==
    /\ IsFiniteSet(Events) /\ IsFiniteSet(Notes) /\ IsFiniteSet(Requests)
    /\ Transitions \subseteq Events

VARIABLES
    batch,     \* the current batch, or NoBatch
    pending,   \* batches whose commit was sent, in order
    module,    \* "run", "stop" (the reactor has stopped), "flush"
               \* (event_ctx_destroy), "down" or "crashed"
    posted,    \* events, in the order posted
    kvs,       \* events in the KVS, in the order applied
    published, \* published state changes, in order
    noted,     \* published annotations
    handed,    \* for each request: the events posted when its response was
               \* handed over, and whether its batch had some of them
    answered,  \* requests whose response was sent
    failed     \* history: a commit has failed

vars == <<batch, pending, module, posted, kvs, published, noted, handed,
          answered, failed>>

EventList == Seq(Events)

\* The commit of a batch: f is "none" before, then "sent", then "ok" or "error".
Batch == [txn : EventList, trans : EventList, notes : SUBSET Notes,
          responses : SUBSET Requests, f : {"none", "sent", "ok", "error"}]

\* There is no batch (event_batch_create makes one when something goes in).
NoBatch == [txn |-> <<>>, trans |-> <<>>, notes |-> {}, responses |-> {},
            f |-> "none"]

Init ==
    /\ batch = NoBatch /\ pending = <<>> /\ module = "run"
    /\ posted = <<>> /\ kvs = <<>> /\ published = <<>> /\ noted = {}
    /\ handed = [r \in Requests |-> [n |-> 0, with |-> FALSE]]
    /\ answered = {} /\ failed = FALSE

-----------------------------------------------------------------------------
(* Filling the current batch *)

\* event_job_post_pack: the event goes into the transaction, and the change of
\* state, if any, into the publication.
event_batch_commit_event(e) ==
    /\ module = "run" /\ e \notin Entries(posted)
    /\ posted' = Append(posted, e)
    /\ batch' = [batch EXCEPT
                   !.txn = Append(@, e),
                   !.trans = IF e \in Transitions THEN Append(@, e) ELSE @]
    /\ UNCHANGED <<pending, module, kvs, published, noted, handed, answered,
                   failed>>

Handed(r) ==
    \/ r \in answered \union batch.responses
    \/ \E i \in 1..Len(pending) : r \in pending[i].responses

event_batch_pub_annotations(n) ==
    /\ module = "run"
    /\ batch' = [batch EXCEPT !.notes = @ \union {n}]
    /\ UNCHANGED <<pending, module, posted, kvs, published, noted, handed,
                   answered, failed>>

event_batch_respond(r) ==
    /\ module = "run" /\ ~Handed(r)
    /\ batch' = [batch EXCEPT !.responses = @ \union {r}]
    /\ handed' = [handed EXCEPT ![r] = [n |-> Len(posted),
                                     with |-> batch.txn # <<>>]]
    /\ UNCHANGED <<pending, module, posted, kvs, published, noted, answered,
                   failed>>

-----------------------------------------------------------------------------
(* Committing and destroying batches *)

\* Publishes the changes of state and annotations of b and sends its responses.
event_batch_destroy(b) ==
    /\ published' = published \o b.trans
    /\ noted' = noted \union b.notes
    /\ answered' = answered \union b.responses

\* mutant: the batch is destroyed when its commit is sent
event_batch_commit_early ==
    IF batch.txn # <<>>
      THEN /\ batch' = NoBatch
           /\ pending' = Append(pending, [NoBatch EXCEPT
                                            !.txn = batch.txn, !.f = "sent"])
           /\ event_batch_destroy(batch)
    ELSE IF batch # NoBatch
      THEN batch' = NoBatch /\ event_batch_destroy(batch) /\ UNCHANGED pending
    ELSE UNCHANGED <<batch, pending, published, noted, answered>>

\* mutant: the batch stays open
event_batch_commit_reuse ==
    /\ pending' = IF batch.txn # <<>>
                    THEN Append(pending, [batch EXCEPT !.f = "sent"]) ELSE pending
    /\ UNCHANGED <<batch, published, noted, answered>>

\* mutant: a batch without events is dropped
event_batch_commit_drop ==
    IF batch.txn # <<>>
      THEN /\ batch' = NoBatch
           /\ pending' = Append(pending, [batch EXCEPT !.f = "sent"])
           /\ UNCHANGED <<published, noted, answered>>
      ELSE batch' = NoBatch /\ UNCHANGED <<pending, published, noted, answered>>

\* Closes the current batch and sends its commit.  A batch without events is
\* destroyed at once.
event_batch_commit ==
    IF batch.txn # <<>>
      THEN /\ batch' = NoBatch
           /\ pending' = Append(pending, [batch EXCEPT !.f = "sent"])
           /\ UNCHANGED <<published, noted, answered>>
    ELSE IF batch # NoBatch
      THEN batch' = NoBatch /\ event_batch_destroy(batch) /\ UNCHANGED pending
    ELSE UNCHANGED <<batch, pending, published, noted, answered>>

timer_cb ==
    /\ module = "run" /\ batch # NoBatch
    /\ event_batch_commit
    /\ UNCHANGED <<module, posted, kvs, handed, failed>>

\* The KVS applies the commits of one sender in order.  It does so even if the
\* sender is gone.
Sent == {i \in 1..Len(pending) : pending[i].f = "sent"}

kvs_commit(f) ==
    /\ Sent # {}
    /\ LET i == CHOOSE i \in Sent : \A k \in Sent : i <= k
       IN  /\ pending' = [pending EXCEPT ![i].f = f]
           /\ kvs' = IF f = "ok" THEN kvs \o pending[i].txn ELSE kvs
    /\ failed' = (failed \/ f = "error")
    /\ UNCHANGED <<batch, module, posted, published, noted, handed, answered>>

Completed == pending # <<>> /\ Head(pending).f # "sent"

\* mutant: the batch stays in the list
commit_continuation_keep ==
    /\ module = "run" /\ Completed
    /\ event_batch_destroy(Head(pending))
    /\ UNCHANGED <<batch, pending, module, posted, kvs, handed, failed>>

\* A failed commit stops the reactor; then mod_main calls event_ctx_destroy.
\* The batch is destroyed all the same.
commit_continuation ==
    /\ module = "run" /\ Completed
    /\ pending' = Tail(pending)
    /\ event_batch_destroy(Head(pending))
    /\ module' = IF Head(pending).f = "error" THEN "stop" ELSE module
    /\ UNCHANGED <<batch, posted, kvs, handed, failed>>

\* The module is unloaded, or its reactor has stopped: the current batch is
\* committed, then the commits are awaited in order.
event_ctx_destroy ==
    /\ module \in {"run", "stop"}
    /\ module' = "flush"
    /\ event_batch_commit
    /\ UNCHANGED <<posted, kvs, handed, failed>>

flush ==
    /\ module = "flush" /\ Completed
    /\ pending' = Tail(pending)
    /\ event_batch_destroy(Head(pending))
    /\ UNCHANGED <<batch, module, posted, kvs, handed, failed>>

flushed ==
    /\ module = "flush" /\ pending = <<>>
    /\ module' = "down"
    /\ UNCHANGED <<batch, pending, posted, kvs, published, noted, handed,
                   answered, failed>>

crash ==
    /\ module \in {"run", "stop", "flush"}
    /\ module' = "crashed"
    /\ batch' = NoBatch
    /\ UNCHANGED <<pending, posted, kvs, published, noted, handed, answered,
                   failed>>

Next ==
    \/ \E e \in Events : event_batch_commit_event(e)
    \/ \E n \in Notes : event_batch_pub_annotations(n)
    \/ \E r \in Requests : event_batch_respond(r)
    \/ timer_cb
    \/ \E f \in {"ok", "error"} : kvs_commit(f)
    \/ commit_continuation
    \/ event_ctx_destroy
    \/ flush
    \/ flushed
    \/ crash

Spec == Init /\ [][Next]_vars

\* The timer, the KVS and the reactor make progress; nothing has to be posted,
\* and nothing has to be unloaded unless the reactor has stopped.
Fairness ==
    /\ WF_vars(timer_cb)
    /\ WF_vars(\E f \in {"ok", "error"} : kvs_commit(f))
    /\ WF_vars(commit_continuation)
    /\ WF_vars(module = "stop" /\ event_ctx_destroy)
    /\ WF_vars(flush)
    /\ WF_vars(flushed)

FairSpec == Spec /\ Fairness
-----------------------------------------------------------------------------
(* Properties *)

\* The commit of a batch is sent when the batch is closed, and only then.
TypeOK ==
    /\ batch \in Batch /\ batch.f = "none"
    /\ pending \in Seq(Batch)
    /\ \A i \in 1..Len(pending) : pending[i].f # "none"
    /\ module \in {"run", "stop", "flush", "down", "crashed"}
    /\ posted \in EventList /\ kvs \in EventList /\ published \in EventList
    /\ noted \subseteq Notes /\ answered \subseteq Requests
    /\ handed \in [Requests -> [n : Nat, with : BOOLEAN]]
    /\ failed \in BOOLEAN

\* The state changes among the events s, in their order.
StateChanges(s) == Without(s, Events \ Transitions)

\* Until a commit fails, the KVS holds the first events posted, in their order,
\* with none left out: a restart replays a log that event_job_update has
\* accepted before.
LogPrefix == ~failed => IsPrefix(kvs, posted)

\* Changes of state are published once each, in the order they happened.
PublishedInOrder == IsPrefix(published, StateChanges(posted))

\* Until a commit fails, what is published is in the KVS, and a response handed
\* over together with events (as by drain_check after the last clean event) is
\* sent when these and all earlier events are (event_batch_destroy runs after
\* the commit).
DurableFirst ==
    ~failed =>
      /\ Entries(published) \subseteq Entries(kvs)
      /\ \A r \in answered : handed[r].with => handed[r].n <= Len(kvs)

\* After an unload everything posted is published, is in the KVS if no commit
\* has failed, and nothing is left to send (event_ctx_destroy).
UnloadFlushes ==
    module = "down" =>
      /\ ~failed => kvs = posted
      /\ published = StateChanges(posted)
      /\ batch = NoBatch /\ pending = <<>>

\* Why: the current batch and those whose commit was sent cut the events posted
\* into consecutive pieces.  L[i]: the events up to the i-th batch, L[0] those
\* of the batches already destroyed; the first m commits have completed.
Cut(L, m) ==
    /\ \A i, k \in 0..Len(pending) : i <= k => IsPrefix(L[i], L[k])
    /\ \A i \in 0..Len(pending) :
          IsPrefix(StateChanges(L[i]), StateChanges(posted))
    /\ \A i \in 1..Len(pending) :
          /\ L[i] = L[i - 1] \o pending[i].txn
          /\ StateChanges(L[i]) = StateChanges(L[i - 1]) \o pending[i].trans
          /\ pending[i].f = "sent" <=> i > m
          /\ \A r \in pending[i].responses :
                handed[r].with => handed[r].n <= Len(L[i])
    /\ published = StateChanges(L[0])
    /\ \A r \in answered : handed[r].with => handed[r].n <= Len(L[0])
    /\ ~failed => kvs = L[m]
    /\ module # "crashed" =>
          /\ posted = L[Len(pending)] \o batch.txn
          /\ StateChanges(posted) =
               StateChanges(L[Len(pending)]) \o batch.trans

BatchInv ==
    /\ TypeOK
    /\ \E L \in [0..Len(pending) -> Prefixes(posted)], m \in 0..Len(pending) :
          Cut(L, m)
    /\ \A r \in batch.responses :
          /\ handed[r].n <= Len(posted)
          /\ batch.txn = <<>> => ~handed[r].with
    /\ module \in {"flush", "down", "crashed"} => batch = NoBatch
    /\ module = "down" => pending = <<>>

\* Every change of state is published, every response sent, unless the module
\* crashes.
EverythingDelivered ==
    /\ \A e \in Transitions :
          e \in Entries(posted) ~> e \in Entries(published) \/ module = "crashed"
    /\ \A r \in Requests :
          Handed(r) ~> r \in answered \/ module = "crashed"

=============================================================================
