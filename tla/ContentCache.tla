---------------------------- MODULE ContentCache ----------------------------
(***************************************************************************)
(* The content cache of the brokers (content-cache.c) and the module that  *)
(* provides the backing store of rank 0 (content-sqlite.c).  Blobs are     *)
(* named by the hash of their content, so a blob stands for its name and   *)
(* its content.  A rank passes loads that it cannot answer, and all        *)
(* stores, to its parent; rank 0 answers stores at once and writes the     *)
(* blobs back to the backing store, a batch at a time.                     *)
(***************************************************************************)
EXTENDS Naturals, Sequences, FiniteSets

CONSTANTS
    Ranks,        \* ranks of the instance, 0 among them
    Parent,       \* the parent of each rank but 0 in the overlay
    Blobs,
    Requests,     \* requests of clients
    request,      \* for each of them its rank and kind; the blob of a load or store
    BatchLimit,   \* flush_batch_limit
    Faults,       \* how often the backing store may fail
    Loads,        \* how often its module may be loaded
    Drops,        \* how often entries may be dropped
    Disjoint      \* clients do not load and store a blob at the same time

ASSUME ContentAssumption ==
    /\ 0 \in Ranks /\ Ranks \subseteq Nat
    /\ Parent \in [Ranks \ {0} -> Ranks]
    /\ \A r \in Ranks \ {0} : Parent[r] < r
    /\ \A q \in Requests : /\ request[q].rank \in Ranks
                           /\ request[q].kind \in {"load", "store", "flush"}
                           /\ request[q].kind # "flush"
                                => request[q].blob \in Blobs
    /\ IsFiniteSet(Blobs)
    /\ BatchLimit \in Nat \ {0}
    /\ Faults \in Nat /\ Loads \in Nat /\ Drops \in Nat
    /\ Disjoint \in BOOLEAN

VARIABLES
    cache,        \* struct content_cache of each rank
    up,           \* requests from each rank to its parent, of 0 to the backing store
    down,         \* responses on the way back
    mod,          \* the module of the backing store
    db,           \* its blobs
    sent,         \* requests that clients have made
    answer,       \* the responses to each of them
    dangling,     \* an entry was freed that a list or a future still needed,
                  \* from when on the behaviour is undefined
    bound         \* what is left of Faults, Loads and Drops

vars == <<cache, up, down, mod, db, sent, answer, dangling, bound>>

-----------------------------------------------------------------------------
(* State *)

\* struct cache_entry, "none" if the blob is not in the hash: load and store
\* are the pending flags, loads and stores the requests that wait.
NoEntry == [st |-> "none", dirty |-> FALSE, load |-> FALSE, store |-> FALSE,
            loads |-> {}, stores |-> {}]

\* dirty and batch are acct_dirty and flush_batch_count.
content_cache_create ==
    [entries |-> [b \in Blobs |-> NoEntry], backing |-> FALSE, dirty |-> 0,
     batch |-> 0, flush |-> {}]

Init ==
    /\ cache = [r \in Ranks |-> content_cache_create]
    /\ up = [r \in Ranks |-> <<>>]
    /\ down = [r \in Ranks |-> <<>>]
    /\ mod = "none"
    /\ db = {}
    /\ sent = {}
    /\ answer = [q \in Requests |-> <<>>]
    /\ dangling = FALSE
    /\ bound = [faults |-> Faults, loads |-> Loads, drops |-> Drops]

\* Who waits for an answer: a client, or the cache of a child.
Client(q) == <<"client", q>>
Child(r) == <<"child", r>>

Message(t, b) == [t |-> t, b |-> b]
Response(t, b, ok) == [t |-> t, b |-> b, ok |-> ok]

\* request_list_respond_raw and request_list_respond_error
Respond(ans, Q, ok) ==
    [q \in Requests |-> IF Client(q) \in Q THEN Append(ans[q], ok) ELSE ans[q]]

\* The responses to children: L waited for a load of b, S for a store.
\* (A mutant of DownLoads tells only of blobs that were found.)
DownLoadsFound(d, L, b, ok) ==
    [r \in Ranks |-> IF Child(r) \in L /\ ok
                     THEN Append(d[r], Response("load", b, ok)) ELSE d[r]]

DownLoads(d, L, b, ok) ==
    [r \in Ranks |-> IF Child(r) \in L THEN Append(d[r], Response("load", b, ok))
                     ELSE d[r]]

DownStores(d, S, b, ok) ==
    [r \in Ranks |-> IF Child(r) \in S THEN Append(d[r], Response("store", b, ok))
                     ELSE d[r]]

Dirty(c) == {b \in Blobs : c.entries[b].dirty}
Storing(c) == {b \in Blobs : c.entries[b].store}

\* The entries that dropcache and purge may remove.
Droppable(c) ==
    {b \in Blobs : c.entries[b].st = "valid" /\ ~c.entries[b].dirty}

-----------------------------------------------------------------------------
(* Requests, of clients and of children *)

\* content_load_request, cache_load
content_load_request(r, who, b, u, d) ==
    LET c == cache[r]
        e == c.entries[b]
    IN \/ /\ e.st = "valid"
          /\ answer' = Respond(answer, {who}, TRUE)
          /\ down' = DownLoads(d, {who}, b, TRUE)
          /\ up' = u
          /\ UNCHANGED cache
       \/ /\ e.st = "none" /\ r = 0 /\ ~c.backing
          /\ answer' = Respond(answer, {who}, FALSE)
          /\ down' = DownLoads(d, {who}, b, FALSE)
          /\ up' = u
          /\ UNCHANGED cache
       \/ /\ e.st # "valid" /\ ~(e.st = "none" /\ r = 0 /\ ~c.backing)
          /\ cache' = [cache EXCEPT ![r].entries[b] =
                         [e EXCEPT !.st = "invalid", !.load = TRUE,
                                   !.loads = @ \cup {who}]]
          /\ up' = IF e.load THEN u
                   ELSE [u EXCEPT ![r] = Append(@, Message("load", b))]
          /\ down' = d
          /\ UNCHANGED answer

\* content_store_request, cache_store.  An entry that is not valid becomes so,
\* which answers the loads.  Stores are passed on, those of rank 0 only while
\* the batch is not full; only other ranks wait for the response.
content_store_request(r, who, b, u, d) ==
    LET c == cache[r]
        e == c.entries[b]
        fill == e.st # "valid"
        dirty == fill \/ e.dirty
        store == /\ dirty /\ (r # 0 \/ c.backing) /\ ~e.store
                 /\ r = 0 => c.batch < BatchLimit
        wait == dirty /\ r # 0
        redirty == ~dirty /\ r = 0 /\ ~c.backing
        loads == IF fill THEN e.loads ELSE {}
        stored == IF wait THEN {} ELSE {who}
        e1 == [e EXCEPT !.st = "valid", !.dirty = dirty \/ redirty,
                        !.store = @ \/ store,
                        !.loads = @ \ loads,
                        !.stores = IF wait THEN @ \cup {who} ELSE @]
    IN /\ cache' = [cache EXCEPT ![r] =
                      [c EXCEPT !.entries[b] = e1,
                                !.dirty = IF e1.dirty /\ ~e.dirty THEN @ + 1
                                          ELSE @,
                                !.batch = IF store THEN @ + 1 ELSE @]]
       /\ up' = IF store THEN [u EXCEPT ![r] = Append(@, Message("store", b))]
                ELSE u
       /\ answer' = Respond(answer, loads \cup stored, TRUE)
       /\ down' = DownStores(DownLoads(d, loads, b, TRUE), stored, b, TRUE)

Handle(r, who, t, b, u, d) ==
    \/ t = "load" /\ content_load_request(r, who, b, u, d)
    \/ t = "store" /\ content_store_request(r, who, b, u, d)

\* Requests for the same blob of the other kind that are not answered.
Opposed(q) ==
    {p \in sent : /\ answer[p] = <<>>
                  /\ request[p].kind # "flush"
                  /\ request[p].blob = request[q].blob
                  /\ request[p].kind # request[q].kind}

ClientRequest(q) ==
    /\ q \notin sent /\ request[q].kind # "flush"
    /\ Disjoint => Opposed(q) = {}
    /\ sent' = sent \cup {q}
    /\ Handle(request[q].rank, Client(q), request[q].kind, request[q].blob,
              up, down)
    /\ UNCHANGED <<mod, db, dangling, bound>>

\* The request of rank c reaches its parent.
ChildRequest(c) ==
    /\ c # 0 /\ up[c] # <<>>
    /\ Handle(Parent[c], Child(c), Head(up[c]).t, Head(up[c]).b,
              [up EXCEPT ![c] = Tail(@)], down)
    /\ UNCHANGED <<mod, db, sent, dangling, bound>>

-----------------------------------------------------------------------------
(* Flush *)

\* A mutant of cache_flush: the last place of a batch is not used.
FlushOffByOne(c) ==
    LET todo == Dirty(c) \ Storing(c)
        room == BatchLimit - 1 - c.batch
        n == IF Cardinality(todo) < room THEN Cardinality(todo) ELSE room
    IN IF c.dirty = c.batch \/ c.batch >= BatchLimit - 1 THEN {<<>>}
       ELSE {s \in [1..n -> todo] : \A i, k \in 1..n : s[i] = s[k] => i = k}

\* The stores that cache_flush may send, in the order of the hash: dirty
\* entries that are not pending, until the batch is full.
cache_flush(c) ==
    LET todo == Dirty(c) \ Storing(c)
        room == BatchLimit - c.batch
        n == IF Cardinality(todo) < room THEN Cardinality(todo) ELSE room
    IN IF c.dirty = c.batch \/ c.batch >= BatchLimit THEN {<<>>}
       ELSE {s \in [1..n -> todo] : \A i, k \in 1..n : s[i] = s[k] => i = k}

\* A mutant of Flushed: the batch is not counted.
FlushedUncounted(c, s) ==
    [c EXCEPT !.entries = [b \in Blobs |->
                             IF \E i \in DOMAIN s : s[i] = b
                             THEN [c.entries[b] EXCEPT !.store = TRUE]
                             ELSE c.entries[b]]]

\* The cache when the stores s have been sent, and their messages.
Flushed(c, s) ==
    [c EXCEPT !.entries = [b \in Blobs |->
                             IF \E i \in DOMAIN s : s[i] = b
                             THEN [c.entries[b] EXCEPT !.store = TRUE]
                             ELSE c.entries[b]],
              !.batch = @ + Len(s)]

Stores(s) == [i \in DOMAIN s |-> Message("store", s[i])]

\* A mutant of content_flush_request: it does not wait for stores under way.
FlushUnderWay(q) ==
    LET r == request[q].rank
        c == cache[r]
    IN /\ q \notin sent /\ request[q].kind = "flush"
       /\ sent' = sent \cup {q}
       /\ \/ /\ c.dirty = c.batch
             /\ answer' = Respond(answer, {Client(q)}, TRUE)
             /\ UNCHANGED <<cache, up>>
          \/ /\ c.dirty # c.batch
             /\ \E s \in cache_flush(c) :
                  /\ cache' = [cache EXCEPT ![r] =
                                 [Flushed(c, s) EXCEPT
                                    !.flush = @ \cup {Client(q)}]]
                  /\ up' = [up EXCEPT ![r] = @ \o Stores(s)]
             /\ UNCHANGED answer
       /\ UNCHANGED <<down, mod, db, dangling, bound>>

\* content_flush_request: it waits while there are dirty entries.
content_flush_request(q) ==
    LET r == request[q].rank
        c == cache[r]
    IN /\ q \notin sent /\ request[q].kind = "flush"
       /\ sent' = sent \cup {q}
       /\ \/ /\ c.dirty = 0
             /\ answer' = Respond(answer, {Client(q)}, TRUE)
             /\ UNCHANGED <<cache, up>>
          \/ /\ c.dirty # 0
             /\ \E s \in cache_flush(c) :
                  /\ cache' = [cache EXCEPT ![r] =
                                 [Flushed(c, s) EXCEPT
                                    !.flush = @ \cup {Client(q)}]]
                  /\ up' = [up EXCEPT ![r] = @ \o Stores(s)]
             /\ UNCHANGED answer
       /\ UNCHANGED <<down, mod, db, dangling, bound>>

-----------------------------------------------------------------------------
(* Responses *)

\* remove_entry of the entries S; it asserts that no request waits.
remove_entry(c, S) ==
    [c EXCEPT !.entries = [b \in Blobs |-> IF b \in S THEN NoEntry
                                           ELSE c.entries[b]],
              !.dirty = @ - Cardinality(S \cap Dirty(c))]

\* They are still needed by a request that waits, or by the future of an RPC.
Needed(c, S) ==
    \E b \in S : \/ c.entries[b].loads # {} \/ c.entries[b].stores # {}
                 \/ c.entries[b].load \/ c.entries[b].store

cache_load_continuation(r) ==
    LET m == Head(down[r])
        c == cache[r]
        e == [c.entries[m.b] EXCEPT !.load = FALSE, !.loads = {}]
        d == [down EXCEPT ![r] = Tail(@)]
        loads == c.entries[m.b].loads
        done == [c EXCEPT !.entries[m.b] = e]
    IN /\ down[r] # <<>> /\ m.t = "load"
       /\ answer' = Respond(answer, loads, m.ok)
       /\ down' = DownLoads(d, loads, m.b, m.ok)
       /\ \/ /\ m.ok
             /\ cache' = [cache EXCEPT ![r].entries[m.b] =
                                            [e EXCEPT !.st = "valid"]]
             /\ UNCHANGED dangling
          \/ /\ ~m.ok
             /\ cache' = [cache EXCEPT ![r] = remove_entry(done, {m.b})]
             /\ dangling' = (dangling \/ Needed(done, {m.b}))
       /\ UNCHANGED <<up, mod, db, sent, bound>>

\* cache_store_continuation, and cache_resume_flush: flush requests are
\* answered when nothing is dirty, or there is no backing store; otherwise
\* the next batch is sent when half of the last one is done.
cache_store_continuation(r) ==
    LET m == Head(down[r])
        e == cache[r].entries[m.b]
        d == [down EXCEPT ![r] = Tail(@)]
        c == [cache[r] EXCEPT
                !.entries[m.b] = [e EXCEPT !.store = FALSE, !.stores = {},
                                           !.dirty = @ /\ ~m.ok],
                !.batch = @ - 1,
                !.dirty = IF m.ok /\ e.dirty THEN @ - 1 ELSE @]
        over == c.dirty = 0 \/ (r = 0 /\ ~c.backing)
        resume == ~over /\ c.dirty # c.batch /\ c.batch <= BatchLimit \div 2
        stored == Respond(answer, e.stores, m.ok)
    IN /\ down[r] # <<>> /\ m.t = "store"
       /\ down' = DownStores(d, e.stores, m.b, m.ok)
       /\ \/ /\ over
             /\ cache' = [cache EXCEPT ![r] = [c EXCEPT !.flush = {}]]
             /\ answer' = Respond(stored, c.flush, c.dirty = 0)
             /\ UNCHANGED up
          \/ /\ ~over
             /\ \E s \in IF resume THEN cache_flush(c) ELSE {<<>>} :
                  /\ cache' = [cache EXCEPT ![r] = Flushed(c, s)]
                  /\ up' = [up EXCEPT ![r] = @ \o Stores(s)]
             /\ answer' = stored
       /\ UNCHANGED <<mod, db, sent, dangling, bound>>

\* content_dropcache_request drops what it can, cache_purge some of it.
drop(r, S) ==
    /\ bound.drops > 0
    /\ bound' = [bound EXCEPT !.drops = @ - 1]
    /\ cache' = [cache EXCEPT ![r] = remove_entry(@, S)]
    /\ dangling' = (dangling \/ Needed(cache[r], S))
    /\ UNCHANGED <<up, down, mod, db, sent, answer>>

content_dropcache_request(r) ==
    Droppable(cache[r]) # {} /\ drop(r, Droppable(cache[r]))

cache_purge(r) ==
    \E S \in SUBSET Droppable(cache[r]) :
        S \notin {{}, Droppable(cache[r])} /\ drop(r, S)

-----------------------------------------------------------------------------
(* The module of the backing store: content-sqlite.c *)

\* mod_main: the backing store is registered with the cache, which flushes
\* (content_register_backing_request) ...
content_register_backing_store ==
    /\ mod = "none" /\ bound.loads > 0
    /\ bound' = [bound EXCEPT !.loads = @ - 1]
    /\ mod' = "registered"
    /\ LET c == [cache[0] EXCEPT !.backing = TRUE]
       IN \E s \in cache_flush(c) :
            /\ cache' = [cache EXCEPT ![0] = Flushed(c, s)]
            /\ up' = [up EXCEPT ![0] = @ \o Stores(s)]
    /\ UNCHANGED <<down, db, sent, answer, dangling>>

\* ... and then its service is registered.  Requests before that have got an
\* error from the broker.
content_register_service ==
    /\ mod = "registered" /\ up[0] = <<>>
    /\ mod' = "serving"
    /\ UNCHANGED <<cache, up, down, db, sent, answer, dangling, bound>>

\* The reactor of the module stops.
stop ==
    /\ mod = "serving"
    /\ mod' = "stopped"
    /\ UNCHANGED <<cache, up, down, db, sent, answer, dangling, bound>>

\* content_unregister_backing_request
content_unregister_backing_store ==
    /\ mod = "stopped"
    /\ mod' = "leaving"
    /\ cache' = [cache EXCEPT ![0].backing = FALSE]
    /\ UNCHANGED <<up, down, db, sent, answer, dangling, bound>>

\* module_thread has answered the requests that were left.
exited ==
    /\ mod = "leaving" /\ up[0] = <<>>
    /\ mod' = "none"
    /\ UNCHANGED <<cache, up, down, db, sent, answer, dangling, bound>>

Answered(m, ok) ==
    /\ up' = [up EXCEPT ![0] = Tail(@)]
    /\ down' = [down EXCEPT ![0] = Append(@, Response(m.t, m.b, ok))]
    /\ UNCHANGED <<cache, mod, sent, answer, dangling>>

\* content_sqlite_load, content_sqlite_store
load_cb ==
    LET m == Head(up[0])
    IN /\ mod = "serving" /\ up[0] # <<>> /\ m.t = "load"
       /\ Answered(m, m.b \in db)
       /\ UNCHANGED <<db, bound>>

\* (A mutant of store_cb responds before the blob is in the table.)
StoreCbEarly ==
    LET m == Head(up[0])
    IN /\ mod = "serving" /\ up[0] # <<>> /\ m.t = "store"
       /\ Answered(m, TRUE)
       /\ UNCHANGED <<db, bound>>

store_cb ==
    LET m == Head(up[0])
    IN /\ mod = "serving" /\ up[0] # <<>> /\ m.t = "store"
       /\ Answered(m, TRUE)
       /\ db' = db \cup {m.b}
       /\ UNCHANGED bound

\* Either fails.
fault ==
    /\ mod = "serving" /\ up[0] # <<>> /\ bound.faults > 0
    /\ Answered(Head(up[0]), FALSE)
    /\ bound' = [bound EXCEPT !.faults = @ - 1]
    /\ UNCHANGED db

\* There is no module, or it is leaving: ENOSYS.
enosys ==
    /\ mod \notin {"serving", "stopped"} /\ up[0] # <<>>
    /\ Answered(Head(up[0]), FALSE)
    /\ UNCHANGED <<db, bound>>

-----------------------------------------------------------------------------
Continuation(r) == cache_load_continuation(r) \/ cache_store_continuation(r)

Backing == load_cb \/ store_cb \/ fault \/ enosys

ModuleMain ==
    \/ content_register_service
    \/ content_unregister_backing_store
    \/ exited

Next ==
    \/ \E q \in Requests : ClientRequest(q) \/ content_flush_request(q)
    \/ \E r \in Ranks : \/ ChildRequest(r)
                        \/ Continuation(r)
                        \/ content_dropcache_request(r)
                        \/ cache_purge(r)
    \/ Backing
    \/ ModuleMain
    \/ content_register_backing_store
    \/ stop

Spec == Init /\ [][Next]_vars

\* Messages are handled, and a module that starts or ends goes on to do so.
\* That is strong fairness: until the service is registered, the broker
\* answers each store with an error, and the cache sends it again.
FairSpec ==
    /\ Spec
    /\ \A r \in Ranks : WF_vars(ChildRequest(r)) /\ WF_vars(Continuation(r))
    /\ WF_vars(Backing)
    /\ SF_vars(ModuleMain)

-----------------------------------------------------------------------------
(* Properties *)

\* The counters agree with the entries.  cache_resume_flush and cache_flush
\* rely on it: acct_dirty - flush_batch_count is unsigned.
CountsAgree ==
    ~dangling =>
        \A r \in Ranks :
            /\ cache[r].dirty = Cardinality(Dirty(cache[r]))
            /\ cache[r].batch = Cardinality(Storing(cache[r]))
            /\ Storing(cache[r]) \subseteq Dirty(cache[r])

\* remove_entry frees no entry that a request waits for, as it asserts, nor
\* one that the future of a load or store still refers to.
NothingDangling == ~dangling

\* The blobs whose store was answered.
StoredBlobs ==
    {request[q].blob : q \in {p \in Requests : /\ request[p].kind = "store"
                                               /\ answer[p] = <<TRUE>>}}

\* The invariant that the comment on the store operation states: "after a
\* store RPC returns, the entry may be loaded from any rank".  Rank 0 has the
\* blob in its cache, dirty if need be, or the backing store has it.
StoredLoadable ==
    \A b \in StoredBlobs :
        LET e == cache[0].entries[b]
        IN b \in db \/ (e.st = "valid" /\ e.dirty)

\* What rank 0 may drop is in the backing store: "drop all entries from the
\* cache that can be dropped without data loss" (content_dropcache_request).
CleanIsDurable ==
    \A b \in Blobs :
        LET e == cache[0].entries[b]
        IN e.st = "valid" /\ ~e.dirty => b \in db

\* A flush of rank 0 that succeeds has brought all stored blobs to the backing
\* store.
FlushDurable ==
    [][\A q \in Requests :
         /\ request[q].kind = "flush" /\ request[q].rank = 0
         /\ answer[q] = <<>> /\ answer'[q] = <<TRUE>>
         => StoredBlobs' \subseteq db']_vars

\* Work that is left is never forgotten: a flush request that waits, and with
\* a backing store a dirty entry that was not sent, has a store under way whose
\* response goes on with it (cache_resume_flush).
FlushGoesOn ==
    \A r \in Ranks :
        LET c == cache[r]
        IN \/ dangling \/ c.batch > 0
           \/ c.flush = {} /\ (r # 0 \/ c.backing => Dirty(c) = {})

\* Every request is answered, once.
AllAnswered ==
    \A q \in Requests : q \in sent ~> Len(answer[q]) = 1
=============================================================================
