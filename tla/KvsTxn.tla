------------------------------- MODULE KvsTxn -------------------------------
(***************************************************************************)
(* Transactions and lookups of the KVS on rank 0 (kvs.c, kvstxn.c,         *)
(* cache.c, waitqueue.c, lookup.c).  Ready transactions of a namespace are *)
(* merged, applied to a copy of the root directory, taken apart into dirty *)
(* cache entries, flushed to the content store, and published as a new     *)
(* root.  A transaction or lookup that meets a blob which is not in the    *)
(* cache waits on the cache entry and is run again by the response of the  *)
(* content store.  Entries expire in between, and loads and stores fail.   *)
(* All namespaces share the cache.                                         *)
(***************************************************************************)
EXTENDS KvsTree

CONSTANTS
    Namespaces,
    Txns,         \* names of transactions
    txn,          \* for each of them its namespace, operations and no_merge
    root0,        \* for each namespace the blob of its first root
    Lookups,      \* lookup requests
    lookup,       \* for each of them its namespace and path
    Merge,        \* transaction_merge
    Faults,       \* how many loads and stores fail, and entries expire
    Removals      \* namespaces that may be removed

ASSUME KvsTxnAssumption ==
    /\ IsFiniteSet(Namespaces) /\ IsFiniteSet(Txns) /\ IsFiniteSet(Lookups)
    /\ \A t \in Txns : txn[t].ns \in Namespaces
    /\ \A l \in Lookups : lookup[l].ns \in Namespaces
    /\ Removals \subseteq Namespaces

VARIABLES
    kv,           \* the state of the module, a record
    content,      \* the content store (external): stored blobs, and what is
                  \* left of the bound on faults
    submitted     \* transactions that became ready

vars == <<kv, content, submitted>>

-----------------------------------------------------------------------------
(* State *)

\* A transaction (struct kvstxn).  state is that of kvstxn_process, aux the
\* error of a load or store, rootdir the blob that rootcpy was copied from,
\* dirty the list of entries that were not flushed yet.  merged marks a
\* merger of transactions, component one that is a member of it.
kvstxn_create(names, ops, no_merge) ==
    [names |-> names, ops |-> ops, no_merge |-> no_merge, state |-> "INIT",
     aux |-> "none", blocked |-> FALSE, merged |-> FALSE, component |-> FALSE,
     rootcpy |-> null, rootdir |-> null, newroot |-> null, dirty |-> {}]

\* A cache entry: waitlist_valid, waitlist_notdirty and the references held.
cache_entry_create ==
    [valid |-> FALSE, dirty |-> FALSE, wait_valid |-> <<>>,
     wait_notdirty |-> <<>>, refcount |-> 0]

\* Who waits: the transaction at the head of a namespace, or a lookup.
TxnWait(n) == <<"txn", n>>
LookupWait(l) == <<"lookup", l>>
Waiters == {TxnWait(n) : n \in Namespaces} \cup {LookupWait(l) : l \in Lookups}

\* All blobs below a root that is in one piece with what it refers to.
RECURSIVE Blobs(_)
Blobs(dr) ==
    {dr} \cup UNION {LET e == dr.e[n]
                     IN CASE e.t = "dirref" -> Blobs(e.r)
                          [] e.t = "valref" -> Range(e.r)
                          [] OTHER -> {} : n \in DOMAIN dr.e}

\* A lookup starts at a dirent.
At(dirent, path) ==
    [dirent |-> dirent, in |-> null, path |-> path, st |-> "walk"]

Init ==
    /\ kv = [cache |-> <<>>, loads |-> {}, stores |-> {},
             root |-> [n \in Namespaces |->
                         [ref |-> root0[n], seq |-> 0, remove |-> FALSE]],
             ready |-> [n \in Namespaces |-> <<>>],
             events |-> [n \in Namespaces |-> <<>>],
             lookups |-> [l \in Lookups |->
                           [st |-> "none", root |-> null, aux |-> "none",
                            at |-> At(null, <<>>), val |-> null]],
             use |-> [w \in Waiters |-> 0],
             iter |-> {}, abort |-> FALSE]
    /\ content = [stored |-> UNION {Blobs(root0[n]) : n \in Namespaces},
                  faults |-> Faults]
    /\ submitted = {}

Valid(s) == {b \in DOMAIN s.cache : s.cache[b].valid}

SetEntry(s, b, entry) == [s EXCEPT !.cache = (b :> entry) @@ @]

RemoveEntry(s, b) ==
    [s EXCEPT !.cache = [c \in DOMAIN s.cache \ {b} |-> s.cache[c]]]

Refer(s, b, by) ==
    IF b \in DOMAIN s.cache THEN [s EXCEPT !.cache[b].refcount = @ + by] ELSE s

HeadOf(s, n) == Head(s.ready[n])

-----------------------------------------------------------------------------
(* cache.c, waitqueue.c *)

RECURSIVE kvstxn_apply(_, _), lookup_common(_, _)

\* wait_runone: the callback runs when the last entry waited for has called.
wait_runone(s, w) ==
    LET s1 == [s EXCEPT !.use[w] = @ - 1]
    IN IF s1.use[w] > 0 THEN s1
       ELSE IF w[1] = "txn" THEN kvstxn_apply(s1, w[2])
       ELSE lookup_common(s1, w[2])

wait_runqueue(s, q) == FoldLeft(wait_runone, s, q)

\* mutant: only the one who creates the entry waits for it
LoadCreatorWaits(s, b, w) ==
    IF b \in DOMAIN s.cache THEN s
    ELSE [SetEntry(s, b, [cache_entry_create EXCEPT !.wait_valid = <<w>>])
            EXCEPT !.loads = @ \cup {b}, !.use[w] = @ + 1]

\* load: the caller waits on the entry, which is created, and loaded, if there
\* is none.
load(s, b, w) ==
    LET s1 == IF b \in DOMAIN s.cache THEN s
              ELSE [SetEntry(s, b, cache_entry_create)
                      EXCEPT !.loads = @ \cup {b}]
    IN [s1 EXCEPT !.cache[b].wait_valid = Append(@, w), !.use[w] = @ + 1]

loadAll(s, blobs, w) == FoldLeft(LAMBDA acc, b : load(acc, b, w), s, blobs)

\* cache_entry_set_raw: the entry is valid, those who wait for it run.
cache_entry_set_raw(s, b) ==
    LET q == s.cache[b].wait_valid
    IN IF s.cache[b].valid THEN s
       ELSE wait_runqueue([s EXCEPT !.cache[b].valid = TRUE,
                                    !.cache[b].wait_valid = <<>>], q)

\* store_cache: nothing to do if the entry is valid, otherwise it becomes
\* valid and dirty and goes on the list of the transaction.
store_cache(s, n, b) ==
    IF b \in Valid(s) THEN s
    ELSE LET s1 == IF b \in DOMAIN s.cache THEN s
                   ELSE SetEntry(s, b, cache_entry_create)
             s2 == cache_entry_set_raw(s1, b)
         IN [s2 EXCEPT !.cache[b].dirty = TRUE,
                       !.ready[n][1].dirty = @ \cup {b}]

storeAll(s, n, blobs) ==
    FoldLeft(LAMBDA acc, b : store_cache(acc, n, b), s, blobs)

\* cache_remove_entry
cache_remove_entry(s, b) ==
    IF /\ b \in DOMAIN s.cache /\ ~s.cache[b].dirty
       /\ s.cache[b].wait_valid = <<>> /\ s.cache[b].wait_notdirty = <<>>
    THEN RemoveEntry(s, b) ELSE s

\* cache_expire_entries: what may be dropped.
Expirable(s) ==
    {b \in DOMAIN s.cache : /\ s.cache[b].valid /\ ~s.cache[b].dirty
                            /\ s.cache[b].refcount = 0}

\* The error callbacks of all who wait (kvstxn_wait_error_cb,
\* lookup_wait_error_cb).
SetErrors(s, q) ==
    FoldLeft(LAMBDA acc, w :
                IF w[1] = "txn" THEN [acc EXCEPT !.ready[w[2]][1].aux = "EIO"]
                ELSE [acc EXCEPT !.lookups[w[2]].aux = "EIO"], s, q)

-----------------------------------------------------------------------------
(* kvstxn.c *)

\* mutant: one component stays behind when its merger is removed
RemoveLeavesOne(queue, fallback) ==
    LET rest == Tail(queue)
        n == CHOOSE i \in 0..Len(rest) :
               /\ \A k \in 1..i : rest[k].component
               /\ i < Len(rest) => ~rest[i + 1].component
    IN IF ~Head(queue).merged THEN rest
       ELSE IF fallback
       THEN [i \in DOMAIN rest |->
               IF i <= n
               THEN [rest[i] EXCEPT !.component = FALSE, !.no_merge = TRUE]
               ELSE rest[i]]
       ELSE SubSeq(rest, n, Len(rest))

\* kvstxn_mgr_remove_transaction: the components of a merger go with it, or
\* are left to be applied one by one.
kvstxn_mgr_remove_transaction(queue, fallback) ==
    LET rest == Tail(queue)
        n == CHOOSE i \in 0..Len(rest) :
               /\ \A k \in 1..i : rest[k].component
               /\ i < Len(rest) => ~rest[i + 1].component
    IN IF ~Head(queue).merged THEN rest
       ELSE IF fallback
       THEN [i \in DOMAIN rest |->
               IF i <= n
               THEN [rest[i] EXCEPT !.component = FALSE, !.no_merge = TRUE]
               ELSE rest[i]]
       ELSE SubSeq(rest, n + 1, Len(rest))

\* kvstxn_mgr_merge_ready_transactions: a new transaction with the operations
\* of those at the head of the queue that may be merged.
kvstxn_mgr_merge_ready_transactions(queue) ==
    LET first == queue[1]
        n == CHOOSE i \in 1..Len(queue) :
               /\ \A k \in 1..i : ~queue[k].no_merge
               /\ i < Len(queue) => queue[i + 1].no_merge
        All(F(_)) == FoldLeft(LAMBDA acc, kt : acc \o F(kt), <<>>,
                              SubSeq(queue, 1, n))
        new == [kvstxn_create(All(LAMBDA kt : kt.names),
                              All(LAMBDA kt : kt.ops), FALSE)
                  EXCEPT !.merged = TRUE]
    IN IF \/ Len(queue) < 2 \/ first.aux # "none" \/ first.no_merge
          \/ first.merged \/ queue[2].no_merge
          \/ first.state \notin {"INIT", "LOAD_ROOT", "APPLY_OPS"}
       THEN queue
       ELSE <<new>> \o [i \in DOMAIN queue |->
                          IF i <= n THEN [queue[i] EXCEPT !.component = TRUE]
                          ELSE queue[i]]

\* A transaction is complete: the new root and its event, or an error event,
\* unless a merger falls back to its components.  setroot_event_send aborts if
\* the root is not in the cache.
kvstxn_done(s, n, err) ==
    LET kt == HeadOf(s, n)
        fallback == kt.merged /\ err \notin {"none", "ENOTSUP"}
        s1 == IF err = "none"
              THEN [s EXCEPT !.root[n].ref = kt.newroot,
                             !.root[n].seq = @ + 1,
                             !.events[n] = Append(@, [names |-> kt.names,
                                                      ok |-> TRUE]),
                             !.abort = kt.newroot \notin Valid(s)]
              ELSE IF fallback THEN s
              ELSE [s EXCEPT !.events[n] = Append(@, [names |-> kt.names,
                                                      ok |-> FALSE])]
    IN [Refer(s1, kt.rootdir, -1)
          EXCEPT !.ready[n] = kvstxn_mgr_remove_transaction(@, fallback)]

\* PRE_FINISHED: dirty entries are flushed, and the transaction waits for all
\* of them (kvstxn_cache_cb); without any it is finished.
kvstxn_finish(s, n) ==
    LET dirty == HeadOf(s, n).dirty
        Flush(b, acc) ==
            [acc EXCEPT !.stores = @ \cup {b}, !.use[TxnWait(n)] = @ + 1,
                        !.cache[b].wait_notdirty = Append(@, TxnWait(n))]
    IN IF dirty = {} THEN kvstxn_done(s, n, "none")
       ELSE FoldSet(Flush, [s EXCEPT !.ready[n][1].dirty = {},
                                     !.ready[n][1].blocked = TRUE], dirty)

\* STORE: the copy is taken apart into cache entries.
kvstxn_store(s, n) ==
    LET u == kvstxn_unroll(HeadOf(s, n).rootcpy)
        s1 == storeAll(s, n, Append(u.put, u.dir))
    IN kvstxn_finish([s1 EXCEPT !.ready[n][1].newroot = u.dir,
                                !.ready[n][1].rootcpy = null,
                                !.ready[n][1].state = "PRE_FINISHED"], n)

\* mutant: a transaction that stalls keeps what it has appended
LinkedKeepsAppends(s, n, l) ==
    LET s1 == [storeAll(s, n, l.put) EXCEPT !.ready[n][1].rootcpy = l.dir]
    IN IF l.err # "none" THEN kvstxn_done(s1, n, l.err)
       ELSE IF l.miss # <<>>
       THEN loadAll([s1 EXCEPT !.ready[n][1].blocked = TRUE],
                    Reverse(l.miss), TxnWait(n))
       ELSE kvstxn_store(s1, n)

\* The rest of APPLY_OPS, with l what linking has given.  Directories that are
\* missing are loaded, and the operations are then applied again, to a fresh
\* copy if data was appended.
kvstxn_linked(s, n, l) ==
    LET s1 == storeAll(s, n, l.put)
    IN IF l.err # "none" THEN kvstxn_done(s1, n, l.err)
       ELSE IF l.miss # <<>>
       THEN loadAll([s1 EXCEPT !.ready[n][1].blocked = TRUE,
                               !.ready[n][1].rootcpy =
                                   IF l.append THEN HeadOf(s, n).rootdir
                                   ELSE l.dir],
                    Reverse(l.miss), TxnWait(n))
       ELSE kvstxn_store([s1 EXCEPT !.ready[n][1].rootcpy = l.dir], n)

\* APPLY_OPS: the operations are linked into the copy.
kvstxn_apply_ops(s, n) ==
    kvstxn_linked(s, n, apply_ops(Valid(s), HeadOf(s, n).rootcpy,
                                  HeadOf(s, n).ops))

\* kvstxn_process, from the state the transaction is in.
kvstxn_process(s, n) ==
    LET kt == HeadOf(s, n)
        ref == s.root[n].ref
        copied == [s EXCEPT !.ready[n][1].rootdir = ref,
                            !.ready[n][1].rootcpy = ref,
                            !.ready[n][1].state = "APPLY_OPS"]
    IN CASE kt.state \in {"INIT", "LOAD_ROOT"} ->
              IF ref \in Valid(s) THEN kvstxn_apply_ops(Refer(copied, ref, 1), n)
              ELSE load([s EXCEPT !.ready[n][1].state = "LOAD_ROOT",
                                  !.ready[n][1].blocked = TRUE],
                        ref, TxnWait(n))
         [] kt.state = "APPLY_OPS" -> kvstxn_apply_ops(s, n)
         [] kt.state = "PRE_FINISHED" -> kvstxn_finish(s, n)

\* kvstxn_apply
kvstxn_apply(s, n) ==
    IF s.root[n].remove THEN kvstxn_done(s, n, "ENOTSUP")
    ELSE IF HeadOf(s, n).aux # "none" THEN kvstxn_done(s, n, HeadOf(s, n).aux)
    ELSE kvstxn_process(s, n)

\* kvstxn_check_root_cb
kvstxn_check_root_cb(s, n) ==
    IF s.ready[n] = <<>> \/ (s.ready[n] # <<>> /\ HeadOf(s, n).blocked) THEN s
    ELSE kvstxn_apply(IF Merge
                      THEN [s EXCEPT !.ready[n] =
                              kvstxn_mgr_merge_ready_transactions(@)]
                      ELSE s, n)

-----------------------------------------------------------------------------
(* lookup.c *)

\* The lookup is answered; it lets go of the entry it stopped in.
lookup_answer(s, l, st, v) ==
    Refer([s EXCEPT !.lookups[l].st = st, !.lookups[l].val = v],
          s.lookups[l].at.in, -1)

\* The lookup waits at a position for blobs to be loaded.
lookup_stall(s, l, at, blobs) ==
    LET held == Refer(Refer(s, s.lookups[l].at.in, -1), at.in, 1)
    IN loadAll([held EXCEPT !.lookups[l].at = [at EXCEPT !.st = "walk"]],
               blobs, LookupWait(l))

\* LOOKUP_STATE_VALUE: the answer, or the blobs of it that are missing.
lookup_value(s, l, at) ==
    LET d == at.dirent
        missing == SelectSeq(d.r, LAMBDA b : b \notin Valid(s))
    IN CASE d.t = "dirref" -> lookup_answer(s, l, "error", null)
         [] d.t = "val" -> lookup_answer(s, l, "done", d)
         [] d.t = "valref" ->
              IF missing # <<>> THEN lookup_stall(s, l, at, missing)
              ELSE lookup_answer(s, l, "done",
                                 val(FoldLeft(LAMBDA acc, b : acc \o b.d,
                                              <<>>, d.r)))

\* mutant: a lookup that is run again starts over, on the current root
LookupCurrentRoot(s, l) ==
    LET lh == s.lookups[l]
        ref == s.root[lookup[l].ns].ref
        at == walk(Valid(s), ref, At(dirref(ref), lookup[l].path))
    IN IF lh.aux # "none" \/ s.root[lookup[l].ns].remove
       THEN lookup_answer(s, l, "error", null)
       ELSE CASE at.st = "noent" -> lookup_answer(s, l, "done", null)
              [] at.st = "missing" -> lookup_stall(s, l, at, <<at.dirent.r>>)
              [] at.st = "found" -> lookup_value(s, l, at)

\* lookup_common: the walk goes on from where it stopped, on the root that was
\* current when the request came.
lookup_common(s, l) ==
    LET lh == s.lookups[l]
        at == walk(Valid(s), lh.root, lh.at)
    IN IF lh.aux # "none" \/ s.root[lookup[l].ns].remove
       THEN lookup_answer(s, l, "error", null)
       ELSE CASE at.st = "noent" -> lookup_answer(s, l, "done", null)
              [] at.st = "missing" -> lookup_stall(s, l, at, <<at.dirent.r>>)
              [] at.st = "found" -> lookup_value(s, l, at)

-----------------------------------------------------------------------------
(* Actions *)

\* A request or fence is complete and its transaction is ready.
kvstxn_mgr_add_transaction ==
    \E t \in Txns \ submitted :
        /\ ~kv.root[txn[t].ns].remove
        /\ kv' = [kv EXCEPT !.ready[txn[t].ns] =
                    Append(@, kvstxn_create(<<t>>, txn[t].ops, txn[t].no_merge))]
        /\ submitted' = submitted \cup {t}
        /\ UNCHANGED content

\* The check watcher runs while some transaction is ready.  It goes through the
\* namespaces in the order of a hash; nothing else runs in between.
transaction_check_cb ==
    LET todo == IF kv.iter = {} THEN Namespaces ELSE kv.iter
    IN /\ \/ kv.iter # {}
          \/ \E n \in Namespaces : kv.ready[n] # <<>> /\ ~HeadOf(kv, n).blocked
       /\ \E n \in todo :
            kv' = [kvstxn_check_root_cb(kv, n) EXCEPT !.iter = todo \ {n}]
       /\ UNCHANGED <<content, submitted>>

\* content_load_completion: the blob, or an error for all who wait.
content_load_completion ==
    \E b \in kv.loads :
        LET s == [kv EXCEPT !.loads = @ \ {b}]
            q == s.cache[b].wait_valid
            failed == wait_runqueue([SetErrors(s, q)
                                       EXCEPT !.cache[b].wait_valid = <<>>], q)
        IN \/ /\ b \in content.stored
              /\ kv' = IF b \in DOMAIN s.cache
                       THEN cache_entry_set_raw(s, b) ELSE s
              /\ UNCHANGED <<content, submitted>>
           \/ /\ b \notin content.stored \/ content.faults > 0
              /\ kv' = IF b \in DOMAIN s.cache
                       THEN cache_remove_entry(failed, b) ELSE s
              /\ content' = IF b \in content.stored
                            THEN [content EXCEPT !.faults = @ - 1]
                            ELSE content
              /\ UNCHANGED submitted

\* content_store_completion: the entry is clean, or those who wait get the
\* error and the entry is removed.
content_store_completion ==
    \E b \in kv.stores :
        LET s == [kv EXCEPT !.stores = @ \ {b}]
            q == s.cache[b].wait_notdirty
            clean == [s EXCEPT !.cache[b].dirty = FALSE,
                               !.cache[b].wait_notdirty = <<>>]
            failed == wait_runqueue([SetErrors(s, q)
                                      EXCEPT !.cache[b].wait_notdirty = <<>>], q)
        IN \/ /\ kv' = wait_runqueue(clean, q)
              /\ content' = [content EXCEPT !.stored = @ \cup {b}]
              /\ UNCHANGED submitted
           \/ /\ content.faults > 0
              /\ kv' = cache_remove_entry([failed EXCEPT !.cache[b].dirty = FALSE],
                                          b)
              /\ content' = [content EXCEPT !.faults = @ - 1]
              /\ UNCHANGED submitted

\* A heartbeat expires an entry that was not used for a while; roots are used
\* at each heartbeat.
heartbeat_cb ==
    /\ content.faults > 0
    /\ \E b \in Expirable(kv) \ {kv.root[n].ref : n \in Namespaces} :
           kv' = RemoveEntry(kv, b)
    /\ content' = [content EXCEPT !.faults = @ - 1]
    /\ UNCHANGED submitted

\* dropcache expires all entries that may be.
dropcache_request_cb ==
    /\ content.faults > 0 /\ Expirable(kv) # {}
    /\ kv' = [kv EXCEPT !.cache =
                [b \in DOMAIN kv.cache \ Expirable(kv) |-> kv.cache[b]]]
    /\ content' = [content EXCEPT !.faults = @ - 1]
    /\ UNCHANGED submitted

\* namespace_remove; the transactions that are ready fail when they are run.
start_root_remove ==
    \E n \in Removals :
        /\ ~kv.root[n].remove
        /\ kv' = [kv EXCEPT !.root[n].remove = TRUE]
        /\ UNCHANGED <<content, submitted>>

\* lookup_request_cb on the current root.
lookup_request_cb ==
    \E l \in Lookups :
        LET n == lookup[l].ns
            ref == kv.root[n].ref
        IN /\ kv.lookups[l].st = "none" /\ ~kv.root[n].remove
           /\ kv' = lookup_common(
                      [kv EXCEPT !.lookups[l] =
                        [@ EXCEPT !.st = "wait", !.root = ref,
                                  !.at = At(dirref(ref), lookup[l].path)]], l)
           /\ UNCHANGED <<content, submitted>>

\* disconnect_request_cb: a lookup that waits is dropped.
disconnect_request_cb ==
    \E l \in Lookups :
        LET Others(q) == SelectSeq(q, LAMBDA w : w # LookupWait(l))
        IN /\ kv.lookups[l].st = "wait"
           /\ kv' = [kv EXCEPT !.lookups[l].st = "gone",
                               !.use[LookupWait(l)] = 0,
                               !.cache = [b \in DOMAIN @ |->
                                  [@[b] EXCEPT !.wait_valid = Others(@)]]]
           /\ UNCHANGED <<content, submitted>>

Next ==
    /\ ~kv.abort
    /\ \/ transaction_check_cb
       \/ /\ kv.iter = {}
          /\ \/ kvstxn_mgr_add_transaction
             \/ content_load_completion
             \/ content_store_completion
             \/ heartbeat_cb
             \/ dropcache_request_cb
             \/ start_root_remove
             \/ lookup_request_cb
             \/ disconnect_request_cb

Spec == Init /\ [][Next]_vars

-----------------------------------------------------------------------------
(* Properties *)

Outcomes(n) == Range(kv.events[n])
Answered(t) == \E e \in Outcomes(txn[t].ns) : t \in Range(e.names)

\* The operations of the transactions that were applied, in order.
Committed(n) ==
    FoldLeft(LAMBDA acc, e : IF e.ok THEN acc \o e.names ELSE acc, <<>>,
             kv.events[n])
CommittedOps(n) ==
    FoldLeft(LAMBDA acc, t : acc \o txn[t].ops, <<>>, Committed(n))

\* The root of a namespace is what the transactions announced as applied make
\* of the first root, one operation after the other.
RootIsLog ==
    \A n \in Namespaces :
        [tree |-> Full(kv.root[n].ref), err |-> "none"]
            = MeaningOf(Full(root0[n]), CommittedOps(n))

\* A lookup is answered from the root that was current when it came, whatever
\* was committed, loaded or dropped from the cache since.
LookupSnapshot ==
    \A l \in Lookups :
        kv.lookups[l].st = "done"
            => kv.lookups[l].val
                 = ReadMeaning(Full(kv.lookups[l].root), lookup[l].path)

Places(w) ==
    FoldSet(LAMBDA b, acc :
                acc + Len(SelectSeq(kv.cache[b].wait_valid
                                        \o kv.cache[b].wait_notdirty,
                                    LAMBDA x : x = w)),
            0, DOMAIN kv.cache)

\* Who waits is woken up: the use count is the number of queues waited in,
\* a queue has its response under way, and a transaction that is blocked, or a
\* lookup that is not answered, is in a queue.
NoLostWakeup ==
    /\ \A w \in Waiters : kv.use[w] = Places(w)
    /\ \A b \in DOMAIN kv.cache :
         /\ kv.cache[b].wait_valid # <<>> => b \in kv.loads
         /\ kv.cache[b].wait_notdirty # <<>> => b \in kv.stores
    /\ \A n \in Namespaces :
         kv.ready[n] # <<>> /\ HeadOf(kv, n).blocked => kv.use[TxnWait(n)] > 0
    /\ \A l \in Lookups :
         kv.lookups[l].st = "wait" => kv.use[LookupWait(l)] > 0

\* The transactions that are ready, without the mergers made of them.
ReadyNames(n) ==
    FoldLeft(LAMBDA acc, kt : IF kt.merged THEN acc ELSE acc \o kt.names, <<>>,
             kv.ready[n])

Store(n) == INSTANCE KvsStore WITH
    ready <- ReadyNames(n), events <- kv.events[n],
    removed <- kv.root[n].remove

\* Transactions take effect in the order they became ready, entirely or not at
\* all, each with one outcome: merging, stalling and falling back implement the
\* abstract store.
StoreImplemented ==
    /\ \A n \in Namespaces : Store(n)!StoreInit
    /\ [][\A n \in Namespaces :
            Store(n)!StoreNext \/ UNCHANGED Store(n)!svars]_vars

\* Every blob below a root that was published is in the content store: "we
\* don't proceed until they are completed" (kvstxn.c, of the flushes).
StoredBeforePublished ==
    \A n \in Namespaces : Blobs(kv.root[n].ref) \subseteq content.stored
=============================================================================
