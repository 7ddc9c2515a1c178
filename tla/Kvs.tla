-------------------------------- MODULE Kvs ---------------------------------
(***************************************************************************)
(* A namespace of the KVS on all ranks (kvs.c, treq.c, kvssync.c,          *)
(* kvsroot.c), with the events that keep the ranks in step (broker.c,      *)
(* publisher.c).  Rank 0 applies transactions; here it does what KvsStore  *)
(* promises, which KvsTxn shows of its details.  The other ranks learn the *)
(* root from their parent when they first need it, and from then on from   *)
(* setroot events.  Commits and fences are relayed to rank 0 and answered  *)
(* where they were made, by the event that tells their outcome.            *)
(***************************************************************************)
EXTENDS Naturals, Sequences, FiniteSets, SequencesExt, FiniteSetsExt, TLC

CONSTANTS
    Ranks,        \* ranks of the instance, 0 among them
    Parent,       \* the parent of each rank but 0 in the overlay
    Requests,     \* requests of clients
    request,      \* for each of them its rank and kind; of commits and fences
                  \* the name and nprocs, of a sync the version
    Txns,         \* names of transactions
    Workloads,    \* sets of requests, one of which clients make
    Removals,     \* how often the namespace may be removed
    Ageings       \* how often it may time out on a follower

ASSUME KvsAssumption ==
    /\ 0 \in Ranks /\ IsFiniteSet(Ranks) /\ IsFiniteSet(Requests)
    /\ Parent \in [Ranks \ {0} -> Ranks]
    /\ \A q \in Requests :
         /\ request[q].rank \in Ranks
         /\ request[q].kind \in {"commit", "fence", "sync"}
         /\ request[q].kind # "sync" => request[q].name \in Txns
    /\ Workloads \subseteq SUBSET Requests
    /\ Removals \in Nat /\ Ageings \in Nat

VARIABLES
    root,         \* struct kvsroot of each rank
    ready,        \* rank 0: transactions that are ready
    log,          \* rank 0: their outcomes
    inbox,        \* messages for the module of each rank
    down,         \* messages on the link from the parent of each rank
    up,           \* messages on the way up from each rank
    sent,         \* requests that clients have made
    answer,       \* the responses to each request
    bound         \* the workload, and what is left of Removals and Ageings

vars == <<root, ready, log, inbox, down, up, sent, answer, bound>>

-----------------------------------------------------------------------------
(* State *)

\* A root that was created: treqs are transaction requests by name, sync is
\* the synclist.
kvsroot_mgr_create_root ==
    [st |-> "up", seq |-> 0, treqs |-> <<>>, sync |-> {}]

NoRoot == [kvsroot_mgr_create_root EXCEPT !.st = "none"]

Init ==
    /\ root = [r \in Ranks |-> IF r = 0 THEN kvsroot_mgr_create_root
                               ELSE NoRoot]
    /\ ready = <<>>
    /\ log = <<>>
    /\ inbox = [r \in Ranks |-> <<>>]
    /\ down = [r \in Ranks |-> <<>>]
    /\ up = [r \in Ranks |-> <<>>]
    /\ sent = {}
    /\ answer = [q \in Requests |-> <<>>]
    /\ \E W \in Workloads :
          bound = [clients |-> W, remove |-> Removals, age |-> Ageings]

Store == INSTANCE KvsStore WITH events <- log, removed <- root[0].st # "up"

\* kvsroot_mgr_lookup_root_safe
IsUp(r) == root[r].st = "up"

Children(r) == {c \in Ranks \ {0} : Parent[c] = r}

\* Messages: the request of a client, getroot and its response, relays, events.
Request(q) == [t |-> "request", q |-> q]
Getroot(r, m) == [t |-> "getroot", from |-> r, for |-> m]
RootIs(seq, m) == [t |-> "root", seq |-> seq, for |-> m]
NotSup(m) == [t |-> "notsup", for |-> m]
Relay(q) == [t |-> "relay", q |-> q]
Setroot(names, seq) == [t |-> "setroot", names |-> names, seq |-> seq]
Failed(names) == [t |-> "error", names |-> names]
Removed == [t |-> "removed"]
Events == {"setroot", "error", "removed"}

ok(seq) == [ok |-> TRUE, seq |-> seq]
error == [ok |-> FALSE, seq |-> 0]

Respond(ans, Q, a) ==
    [q \in Requests |-> IF q \in Q THEN Append(ans[q], a) ELSE ans[q]]

\* The module of rank r takes the next message.
Took(r) == [inbox EXCEPT ![r] = Tail(@)]

\* An event sent by rank 0: down the links to its children, and to the module
\* itself (publisher_send, handle_event).
Publish(boxes, m) ==
    /\ down' = [r \in Ranks |-> IF r \in Children(0) THEN Append(down[r], m)
                                ELSE down[r]]
    /\ inbox' = [boxes EXCEPT ![0] = Append(@, m)]

-----------------------------------------------------------------------------
(* Roots and transaction requests *)

\* A mutant of setroot.
SetrootLate(rt, seq) ==
    IF seq = 0 \/ seq > rt.seq + 1
    THEN [rt EXCEPT !.seq = seq, !.sync = {q \in @ : request[q].seq > seq}]
    ELSE rt

\* setroot, and the sync requests that it answers (kvssync_process).
setroot(rt, seq) ==
    IF seq = 0 \/ seq > rt.seq
    THEN [rt EXCEPT !.seq = seq, !.sync = {q \in @ : request[q].seq > seq}]
    ELSE rt

Synced(rt, seq) == rt.sync \ setroot(rt, seq).sync

treq_create(q) ==
    [nprocs |-> request[q].nprocs, count |-> 0, requests |-> {},
     processed |-> FALSE]

\* The transaction request of a name, created if there is none.
TreqOf(rt, q) ==
    IF request[q].name \in DOMAIN rt.treqs THEN rt.treqs[request[q].name]
    ELSE treq_create(q)

SetTreq(rt, q, tr) == [rt EXCEPT !.treqs = (request[q].name :> tr) @@ @]

\* treq_add_request_ops on rank 0; the last one makes it ready.
treq_add_request_ops(tr) ==
    [tr EXCEPT !.count = @ + 1, !.processed = tr.count + 1 = tr.nprocs]

\* finalize_transaction_bynames
TreqRequests(rt, names) ==
    UNION {rt.treqs[n].requests : n \in names \cap DOMAIN rt.treqs}

\* A mutant of finalize_transaction_bynames: the requests stay in the hash.
FinalizeKeeps(rt, names) == rt

finalize_transaction_bynames(rt, names) ==
    [rt EXCEPT !.treqs = [n \in DOMAIN @ \ names |-> @[n]]]

\* start_root_remove: all sync requests run again, and transaction requests
\* that are not ready fail (root_remove_process_transactions).
Unprocessed(rt) == {n \in DOMAIN rt.treqs : ~rt.treqs[n].processed}

start_root_remove(rt) ==
    [finalize_transaction_bynames(rt, Unprocessed(rt))
       EXCEPT !.st = "remove", !.sync = {}]

-----------------------------------------------------------------------------
(* Requests *)

\* getroot without a root: an error on rank 0, otherwise the message waits for
\* the root, which the parent is asked for.
getroot(r, q) ==
    /\ ~IsUp(r)
    /\ IF r = 0 THEN /\ answer' = Respond(answer, {q}, error)
                     /\ UNCHANGED up
       ELSE /\ up' = [up EXCEPT ![r] = Append(@, Getroot(r, Request(q)))]
            /\ UNCHANGED answer
    /\ UNCHANGED <<root, ready>>

commit_request_cb(r, q) ==
    LET tr == [treq_create(q) EXCEPT !.requests = {q}, !.processed = r = 0]
    IN /\ IsUp(r) /\ request[q].kind = "commit"
       /\ root' = [root EXCEPT ![r] = SetTreq(@, q, tr)]
       /\ ready' = IF r = 0 THEN Append(ready, request[q].name) ELSE ready
       /\ up' = IF r = 0 THEN up ELSE [up EXCEPT ![r] = Append(@, Relay(q))]
       /\ UNCHANGED answer

\* On rank 0 a fence is counted, on others it is relayed.
fence_request_cb(r, q) ==
    LET tr == [TreqOf(root[r], q) EXCEPT !.requests = @ \cup {q}]
        counted == treq_add_request_ops(tr)
        mismatch == tr.nprocs # request[q].nprocs
        overflow == r = 0 /\ tr.count = tr.nprocs
    IN /\ IsUp(r) /\ request[q].kind = "fence"
       /\ IF mismatch THEN UNCHANGED <<root, ready, up>>
          ELSE IF r # 0 \/ overflow
          THEN /\ root' = [root EXCEPT ![r] = SetTreq(@, q, tr)]
               /\ up' = IF r = 0 THEN up
                        ELSE [up EXCEPT ![r] = Append(@, Relay(q))]
               /\ UNCHANGED ready
          ELSE /\ root' = [root EXCEPT ![r] = SetTreq(@, q, counted)]
               /\ ready' = IF counted.processed
                           THEN Append(ready, request[q].name) ELSE ready
               /\ UNCHANGED up
       /\ answer' = IF mismatch \/ overflow THEN Respond(answer, {q}, error)
                    ELSE answer

sync_request_cb(r, q) ==
    /\ IsUp(r) /\ request[q].kind = "sync"
    /\ IF root[r].seq < request[q].seq
       THEN /\ root' = [root EXCEPT ![r].sync = @ \cup {q}]
            /\ UNCHANGED answer
       ELSE /\ answer' = Respond(answer, {q}, ok(root[r].seq))
            /\ UNCHANGED root
    /\ UNCHANGED <<ready, up>>

Handle(r, q) ==
    \/ getroot(r, q)
    \/ commit_request_cb(r, q)
    \/ fence_request_cb(r, q)
    \/ sync_request_cb(r, q)

\* A client makes a request.
ClientRequest(q) ==
    /\ q \in bound.clients \ sent
    /\ sent' = sent \cup {q}
    /\ Handle(request[q].rank, q)
    /\ UNCHANGED <<log, inbox, down, bound>>

\* A request that waited for the root is handled again.
Requeued(r) ==
    /\ inbox[r] # <<>> /\ Head(inbox[r]).t = "request"
    /\ Handle(r, Head(inbox[r]).q)
    /\ inbox' = Took(r)
    /\ UNCHANGED <<log, down, sent, bound>>

\* disconnect_request_cb: the client of a sync request has gone.
disconnect_request_cb(q) ==
    LET r == request[q].rank
    IN /\ q \in root[r].sync
       /\ root' = [root EXCEPT ![r].sync = @ \ {q}]
       /\ answer' = Respond(answer, {q}, error)
       /\ UNCHANGED <<ready, log, inbox, down, up, sent, bound>>

-----------------------------------------------------------------------------
(* Rank 0 *)

\* relaycommit_request_cb
relaycommit_request_cb ==
    LET m == Head(inbox[0])
        name == request[m.q].name
    IN /\ inbox[0] # <<>> /\ m.t = "relay" /\ request[m.q].kind = "commit"
       /\ IF IsUp(0)
          THEN /\ ready' = Append(ready, name)
               /\ inbox' = Took(0)
               /\ UNCHANGED down
          ELSE /\ Publish(Took(0), Failed({name}))
               /\ UNCHANGED ready
       /\ UNCHANGED <<root, log, up, sent, answer, bound>>

\* A mutant of relayfence_request_cb: no event tells that the namespace is gone.
RelayFenceSilent ==
    LET m == Head(inbox[0])
        name == request[m.q].name
        tr == TreqOf(root[0], m.q)
        counted == treq_add_request_ops(tr)
    IN /\ inbox[0] # <<>> /\ m.t = "relay" /\ request[m.q].kind = "fence"
       /\ inbox' = Took(0)
       /\ IF IsUp(0) /\ tr.nprocs = request[m.q].nprocs /\ tr.count < tr.nprocs
          THEN /\ root' = [root EXCEPT ![0] = SetTreq(@, m.q, counted)]
               /\ ready' = IF counted.processed THEN Append(ready, name)
                           ELSE ready
          ELSE UNCHANGED <<root, ready>>
       /\ UNCHANGED <<log, down, up, sent, answer, bound>>

\* relayfence_request_cb
relayfence_request_cb ==
    LET m == Head(inbox[0])
        name == request[m.q].name
        tr == TreqOf(root[0], m.q)
        counted == treq_add_request_ops(tr)
    IN /\ inbox[0] # <<>> /\ m.t = "relay" /\ request[m.q].kind = "fence"
       /\ IF /\ IsUp(0) /\ tr.nprocs = request[m.q].nprocs
             /\ tr.count < tr.nprocs
          THEN /\ root' = [root EXCEPT ![0] = SetTreq(@, m.q, counted)]
               /\ ready' = IF counted.processed THEN Append(ready, name)
                           ELSE ready
               /\ inbox' = Took(0)
               /\ UNCHANGED down
          ELSE /\ Publish(Took(0), Failed({name}))
               /\ UNCHANGED <<root, ready>>
       /\ UNCHANGED <<log, up, sent, answer, bound>>

\* kvstxn_apply: the first k transactions were applied.
kvstxn_commit(k) ==
    LET seq == root[0].seq + 1
    IN /\ root' = [root EXCEPT ![0] = setroot(@, seq)]
       /\ answer' = Respond(answer, Synced(root[0], seq), ok(seq))
       /\ Publish(inbox, Setroot(Range(SubSeq(ready, 1, k)), seq))
       /\ Store!commit(k)
       /\ UNCHANGED <<up, sent, bound>>

\* kvstxn_apply: they failed.
kvstxn_fail(k) ==
    /\ Publish(inbox, Failed(Range(SubSeq(ready, 1, k))))
    /\ UNCHANGED <<root, up, sent, answer, bound>>
    /\ Store!fail(k)

\* namespace_remove: the event, and start_root_remove.
namespace_remove ==
    /\ IsUp(0) /\ bound.remove > 0
    /\ Publish(inbox, Removed)
    /\ root' = [root EXCEPT ![0] = start_root_remove(@)]
    /\ answer' = Respond(answer, root[0].sync
                           \cup TreqRequests(root[0], Unprocessed(root[0])),
                         error)
    /\ bound' = [bound EXCEPT !.remove = @ - 1]
    /\ UNCHANGED <<ready, log, up, sent>>

-----------------------------------------------------------------------------
(* The overlay: broker.c *)

\* A message from the parent: an event goes on to the children, and to the
\* module if it has subscribed (handle_event), which it has while it has a
\* root.  A response goes to the module.
parent_cb(r) ==
    LET m == Head(down[r])
        taken == [down EXCEPT ![r] = Tail(@)]
    IN /\ down[r] # <<>>
       /\ down' = [c \in Ranks |-> IF m.t \in Events /\ c \in Children(r)
                                   THEN Append(taken[c], m) ELSE taken[c]]
       /\ inbox' = IF m.t \in Events /\ root[r].st = "none" THEN inbox
                   ELSE [inbox EXCEPT ![r] = Append(@, m)]
       /\ UNCHANGED <<root, ready, log, up, sent, answer, bound>>

\* A message on its way up: relays to rank 0, getroot to the parent.
child_cb(r) ==
    LET m == Head(up[r])
        to == IF m.t = "relay" THEN 0 ELSE Parent[r]
    IN /\ up[r] # <<>>
       /\ up' = [up EXCEPT ![r] = Tail(@)]
       /\ inbox' = [inbox EXCEPT ![to] = Append(@, m)]
       /\ UNCHANGED <<root, ready, log, down, sent, answer, bound>>

-----------------------------------------------------------------------------
(* Every rank *)

\* A child asks for the root.
getroot_request_cb(r) ==
    LET m == Head(inbox[r])
        Reply(resp) == [down EXCEPT ![m.from] = Append(@, resp)]
    IN /\ inbox[r] # <<>> /\ m.t = "getroot"
       /\ \/ /\ IsUp(r)
             /\ down' = Reply(RootIs(root[r].seq, m.for))
             /\ UNCHANGED up
          \/ /\ ~IsUp(r) /\ r = 0
             /\ down' = Reply(NotSup(m.for))
             /\ UNCHANGED up
          \/ /\ ~IsUp(r) /\ r # 0
             /\ up' = [up EXCEPT ![r] = Append(@, Getroot(r, m))]
             /\ UNCHANGED down
       /\ inbox' = Took(r)
       /\ UNCHANGED <<root, ready, log, sent, answer, bound>>

\* The root, or an error, from the parent.  The root is created if there is
\* none, and the message that waited is put back at the head of the queue.
getroot_completion(r) ==
    LET m == Head(inbox[r])
        rt == IF root[r].st = "none" THEN kvsroot_mgr_create_root ELSE root[r]
    IN /\ inbox[r] # <<>>
       /\ \/ /\ m.t = "root"
             /\ IF rt.st = "up"
                THEN /\ root' = [root EXCEPT ![r] = setroot(rt, m.seq)]
                     /\ answer' = Respond(answer, Synced(rt, m.seq), ok(m.seq))
                ELSE UNCHANGED <<root, answer>>
             /\ inbox' = [inbox EXCEPT ![r] = <<m.for>> \o Tail(@)]
             /\ UNCHANGED down
          \/ /\ m.t = "notsup" /\ m.for.t = "request"
             /\ answer' = Respond(answer, {m.for.q}, error)
             /\ inbox' = Took(r)
             /\ UNCHANGED <<root, down>>
          \/ /\ m.t = "notsup" /\ m.for.t = "getroot"
             /\ down' = [down EXCEPT ![m.for.from] =
                                        Append(@, NotSup(m.for.for))]
             /\ inbox' = Took(r)
             /\ UNCHANGED <<root, answer>>
       /\ UNCHANGED <<ready, log, up, sent, bound>>

\* setroot_event_cb: the requests are answered, and then the root is set.
setroot_event_cb(r) ==
    LET m == Head(inbox[r])
        rt == finalize_transaction_bynames(root[r], m.names)
        Q == TreqRequests(root[r], m.names)
    IN /\ inbox[r] # <<>> /\ m.t = "setroot"
       /\ IF root[r].st = "up"
          THEN /\ root' = [root EXCEPT ![r] = setroot(rt, m.seq)]
               /\ answer' = Respond(Respond(answer, Q, ok(root[r].seq)),
                                    Synced(rt, m.seq), ok(m.seq))
          ELSE IF root[r].st = "remove"
          THEN /\ root' = [root EXCEPT ![r] = rt]
               /\ answer' = Respond(answer, Q, error)
          ELSE UNCHANGED <<root, answer>>
       /\ inbox' = Took(r)
       /\ UNCHANGED <<ready, log, down, up, sent, bound>>

\* error_event_cb
error_event_cb(r) ==
    LET m == Head(inbox[r])
    IN /\ inbox[r] # <<>> /\ m.t = "error"
       /\ root' = [root EXCEPT ![r] = finalize_transaction_bynames(@, m.names)]
       /\ answer' = Respond(answer, TreqRequests(root[r], m.names), error)
       /\ inbox' = Took(r)
       /\ UNCHANGED <<ready, log, down, up, sent, bound>>

\* namespace_removed_event_cb: on a follower the sync requests ask for the
\* root once more.
namespace_removed_event_cb(r) ==
    /\ inbox[r] # <<>> /\ Head(inbox[r]).t = "removed"
    /\ IF IsUp(r)
       THEN /\ root' = [root EXCEPT ![r] = start_root_remove(@)]
            /\ answer' = Respond(answer,
                                 TreqRequests(root[r], Unprocessed(root[r])),
                                 error)
            /\ up' = FoldSet(LAMBDA q, u :
                               [u EXCEPT ![r] =
                                  Append(@, Getroot(r, Request(q)))],
                             up, root[r].sync)
       ELSE UNCHANGED <<root, answer, up>>
    /\ inbox' = Took(r)
    /\ UNCHANGED <<ready, log, down, sent, bound>>

\* heartbeat_root_cb: a root that was removed is dropped when nothing refers
\* to it; a follower drops one that was not updated for long.
heartbeat_root_cb(r) ==
    /\ root[r].sync = {} /\ root[r].treqs = <<>>
    /\ r = 0 => ready = <<>>
    /\ \/ /\ root[r].st = "remove"
          /\ root' = [root EXCEPT ![r] = NoRoot]
          /\ UNCHANGED bound
       \/ /\ r # 0 /\ root[r].st = "up" /\ bound.age > 0
          /\ root' = [root EXCEPT ![r] = start_root_remove(@)]
          /\ bound' = [bound EXCEPT !.age = @ - 1]
    /\ UNCHANGED <<ready, log, inbox, down, up, sent, answer>>

-----------------------------------------------------------------------------
Deliver(r) == parent_cb(r) \/ child_cb(r)

Module(r) ==
    \/ Requeued(r)
    \/ getroot_request_cb(r)
    \/ getroot_completion(r)
    \/ setroot_event_cb(r)
    \/ error_event_cb(r)
    \/ namespace_removed_event_cb(r)

Leader ==
    \/ relaycommit_request_cb
    \/ relayfence_request_cb

Apply == \E k \in 1..Len(ready) : kvstxn_commit(k) \/ kvstxn_fail(k)

Next ==
    \/ \E q \in Requests : ClientRequest(q) \/ disconnect_request_cb(q)
    \/ \E r \in Ranks : Deliver(r) \/ Module(r) \/ heartbeat_root_cb(r)
    \/ Leader
    \/ Apply
    \/ namespace_remove

Spec == Init /\ [][Next]_vars

\* Links deliver, modules handle the messages they get, ready transactions are
\* applied or fail, and heartbeats go on.
Fairness ==
    /\ \A r \in Ranks : /\ WF_vars(Deliver(r)) /\ WF_vars(Module(r))
                        /\ WF_vars(heartbeat_root_cb(r))
    /\ WF_vars(Leader)
    /\ WF_vars(Apply)

FairSpec == Spec /\ Fairness

-----------------------------------------------------------------------------
(* Properties *)

IsTxn(q) == request[q].kind # "sync"

\* The version that a transaction made, 0 if it was not applied.
VersionOf(name) ==
    LET at == {i \in DOMAIN log : log[i].ok /\ name \in Range(log[i].names)}
    IN IF at = {} THEN 0
       ELSE Cardinality({i \in 1..Max(at) : log[i].ok})

\* A commit or fence is answered once.  It is told success only if its
\* transaction was applied, and failure only if it was not: "A return of 0
\* indicates success and the entire transaction was committed. A return of -1
\* indicates failure, none of the transaction was committed"
\* (flux_kvs_commit(3)).  A namespace that was removed is an exception, see
\* setroot_event_process.
AnswersTrue ==
    \A q \in Requests :
        IsTxn(q) /\ answer[q] # <<>>
            => /\ Len(answer[q]) = 1
               /\ answer[q][1].ok => VersionOf(request[q].name) > 0
               /\ ~answer[q][1].ok
                    => VersionOf(request[q].name) = 0 \/ ~IsUp(0)

\* Read your writes: where a commit or fence was answered, the root has its
\* version.
ReadYourWrites ==
    \A q \in Requests :
        LET r == request[q].rank
        IN IsTxn(q) /\ answer[q] # <<>> /\ answer[q][1].ok /\ IsUp(r)
             => root[r].seq >= VersionOf(request[q].name)

\* A sync request is answered with the version it asked for, or a later one.
SyncHonoured ==
    \A q \in Requests :
        ~IsTxn(q) /\ answer[q] # <<>> /\ answer[q][1].ok
            => answer[q][1].seq >= request[q].seq

\* The message inside of getroot messages that wait for each other.
RECURSIVE Innermost(_)
Innermost(m) ==
    IF m.t \in {"getroot", "root", "notsup"} THEN Innermost(m.for) ELSE m

InFlight == UNION {Range(inbox[r]) \cup Range(down[r]) \cup Range(up[r]) :
                     r \in Ranks}

\* A request that is not answered is held somewhere: by a message that is on
\* its way, by a transaction request, or on the synclist of its rank.
NoRequestLost ==
    \A q \in sent :
        LET rt == root[request[q].rank]
        IN answer[q] = <<>>
             => \/ Request(q) \in {Innermost(m) : m \in InFlight}
                \/ q \in rt.sync
                \/ /\ IsTxn(q) /\ request[q].name \in DOMAIN rt.treqs
                   /\ q \in rt.treqs[request[q].name].requests

\* A commit, and a fence that all have entered, is answered, whatever happens
\* to the namespace.
TxnsAnswered ==
    \A q \in Requests :
        IsTxn(q) => ({p \in Requests : IsTxn(p) /\ request[p].name
                                          = request[q].name} \subseteq sent
                       ~> answer[q] # <<>>)
=============================================================================
