------------------------- MODULE ContentCacheProofs -------------------------
(***************************************************************************)
(* The counters of the content cache are right, its flush never stalls,    *)
(* and what rank 0 may drop is in the backing store, for any tree of       *)
(* ranks, any blobs, requests and batch limit.  A flush of rank 0 that     *)
(* succeeds is durable as long as stored blobs can be loaded at all.       *)
(***************************************************************************)
EXTENDS ContentCacheLemmas

-----------------------------------------------------------------------------
(* Responses *)

\* The message that rank r takes from its queue.
LEMMA TakeDown ==
    ASSUME TypeInv, NEW r \in Ranks, down[r] # <<>>
    PROVE  LET m == Head(down[r])
               d == [down EXCEPT ![r] = Tail(@)]
           IN /\ m \in DownMsg /\ d \in [Ranks -> Seq(DownMsg)]
              /\ MsgInv(cache, up, down) =>
                   /\ \A x \in Ranks : Once(d[x])
                   /\ \A x \in Ranks, y \in Blobs :
                        Has(d[x], y) => Has(down[x], y)
                   /\ m.t = "store" => Has(down[r], m.b) /\ ~Has(d[r], m.b)
<1> DEFINE m == Head(down[r])
           d == [down EXCEPT ![r] = Tail(@)]
<1>1. down \in [Ranks -> Seq(DownMsg)] /\ down[r] \in Seq(DownMsg)
  BY DEF TypeInv
<1>2. m \in DownMsg /\ Tail(down[r]) \in Seq(DownMsg)
  BY <1>1
<1>3. d \in [Ranks -> Seq(DownMsg)]
  BY <1>1, <1>2
<1>4. ASSUME MsgInv(cache, up, down)
      PROVE  /\ \A x \in Ranks : Once(d[x])
             /\ \A x \in Ranks, y \in Blobs : Has(d[x], y) => Has(down[x], y)
             /\ m.t = "store" => Has(down[r], m.b) /\ ~Has(d[r], m.b)
  <2>1. \A x \in Ranks : Once(down[x])
    BY <1>4 DEF MsgInv
  <2>2. d[r] = Tail(down[r]) /\ \A x \in Ranks : x # r => d[x] = down[x]
    BY <1>1
  <2> HIDE DEF d
  <2>3. /\ Once(d[r])
        /\ m.t = "store" => Has(down[r], m.b) /\ ~Has(d[r], m.b)
        /\ \A y : Has(d[r], y) => Has(down[r], y)
    BY <1>1, <2>1, <2>2, TakeHead
  <2>4. QED
    BY <2>1, <2>2, <2>3
<1>5. QED
  BY <1>2, <1>3, <1>4

\* remove_entry of the entries S, when nothing needs them.
LEMMA RemoveEntry ==
    ASSUME NEW c \in Cache, NEW S \in SUBSET Blobs
    PROVE  LET c1 == remove_entry(c, S)
           IN /\ c1 \in Cache
              /\ \A b \in Blobs : c1.entries[b] = IF b \in S THEN NoEntry
                                                    ELSE c.entries[b]
              /\ ~Needed(c, S) =>
                   /\ \A b \in Blobs :
                        /\ c1.entries[b].store <=> c.entries[b].store
                        /\ c1.entries[b].stores \subseteq c.entries[b].stores
                   /\ Counted(c) => Counted(c1)
                   /\ \A r : GoesOn(r, c) => GoesOn(r, c1)
<1> DEFINE c1 == remove_entry(c, S)
           E == [b \in Blobs |-> IF b \in S THEN NoEntry ELSE c.entries[b]]
           n == c.dirty - Cardinality(S \cap Dirty(c))
<1>1. Dirty(c) \in SUBSET Blobs /\ S \cap Dirty(c) \in SUBSET Dirty(c)
  BY DEF Dirty
<1>2. Cardinality(S \cap Dirty(c)) \in Nat
  BY <1>1, BlobSets
<1>3. E \in [Blobs -> Entry] /\ n \in Int
  BY <1>2, NoEntryType DEF Cache
<1>4. c1 = [c EXCEPT !.entries = E, !.dirty = n]
  BY DEF remove_entry, Cache
<1> HIDE DEF E, n, c1
<1>5. /\ c1 \in Cache /\ c1.entries = E /\ c1.dirty = n /\ c1.batch = c.batch
      /\ c1.backing = c.backing /\ c1.flush = c.flush
  BY <1>3, <1>4, Zenon DEF Cache
<1>6. \A b \in Blobs : c1.entries[b] = IF b \in S THEN NoEntry
                                         ELSE c.entries[b]
  BY <1>5 DEF E
<1>7. ASSUME ~Needed(c, S)
      PROVE  /\ \A b \in Blobs :
                  /\ c1.entries[b].store <=> c.entries[b].store
                  /\ c1.entries[b].stores \subseteq c.entries[b].stores
             /\ Counted(c) => Counted(c1)
             /\ \A r : GoesOn(r, c) => GoesOn(r, c1)
  <2>1. \A b \in S : ~c.entries[b].store
    BY <1>7 DEF Needed
  <2>2. ~NoEntry.dirty /\ ~NoEntry.store /\ NoEntry.stores = {}
    BY DEF NoEntry
  <2>3. \A b \in Blobs :
          /\ c1.entries[b].store <=> c.entries[b].store
          /\ c1.entries[b].stores \subseteq c.entries[b].stores
    BY <1>6, <2>1, <2>2
  <2>4. Dirty(c1) = Dirty(c) \ (S \cap Dirty(c))
    BY <1>6, <2>2 DEF Dirty
  <2>5. Storing(c1) = Storing(c)
    BY <2>3 DEF Storing
  <2>6. Cardinality(Dirty(c1)) = Cardinality(Dirty(c))
                                  - Cardinality(S \cap Dirty(c))
    BY <1>1, <2>4, BlobSubsets
  <2>7. Storing(c) \subseteq Dirty(c) => Storing(c1) \subseteq Dirty(c1)
    BY <2>1, <2>4, <2>5 DEF Storing
  <2>8. Counted(c) => Counted(c1)
    BY <1>5, <2>5, <2>6, <2>7 DEF Counted, n
  <2>9. \A r : GoesOn(r, c) => GoesOn(r, c1)
    BY <1>5, <2>4 DEF GoesOn
  <2>10. QED
    BY <2>3, <2>8, <2>9
<1>8. QED
  BY <1>5, <1>6, <1>7 DEF c1

\* Dropping droppable entries (dropcache and purge) keeps the invariant.
LEMMA DropStep ==
    ASSUME ContentInv, NEW r \in Ranks, NEW S \in SUBSET Blobs, drop(r, S)
    PROVE  ContentInv'
<1> DEFINE c1 == remove_entry(cache[r], S)
<1>1. TypeInv /\ cache[r] \in Cache
  BY DEF ContentInv, TypeInv
<1>2. /\ cache' = [cache EXCEPT ![r] = c1]
      /\ dangling' = (dangling \/ Needed(cache[r], S))
      /\ UNCHANGED <<up, down, db>>
  BY DEF drop
<1>3. /\ c1 \in Cache
      /\ ~Needed(cache[r], S) =>
           /\ \A b \in Blobs :
                /\ c1.entries[b].store <=> cache[r].entries[b].store
                /\ c1.entries[b].stores \subseteq cache[r].entries[b].stores
           /\ Counted(cache[r]) => Counted(c1)
           /\ GoesOn(r, cache[r]) => GoesOn(r, c1)
  BY <1>1, RemoveEntry
<1> HIDE DEF c1
<1>4. TypeInv'
  BY <1>1, <1>2, <1>3 DEF TypeInv
<1>5. ASSUME ~dangling'
      PROVE  CacheInv(cache') /\ MsgInv(cache', up', down')
  <2>1. ~Needed(cache[r], S) /\ CacheInv(cache) /\ MsgInv(cache, up, down)
    BY <1>2, <1>5, Zenon DEF ContentInv
  <2>2. CacheInv(cache')
    BY <1>1, <1>2, <1>3, <2>1 DEF CacheInv, TypeInv
  <2>3. NoMore(cache, up, down, cache', up', down')
    BY <1>1, <1>2, <1>3, <2>1 DEF NoMore, TypeInv, MsgInv
  <2>4. QED
    BY <2>1, <2>2, <2>3, MsgSame
<1>6. QED
  BY <1>4, <1>5 DEF ContentInv

\* cache_load_continuation, successful or not, keeps the invariant.
LEMMA LoadContinuationStep ==
    ASSUME ContentInv, NEW r \in Ranks, cache_load_continuation(r)
    PROVE  ContentInv'
<1> DEFINE m == Head(down[r])
           c == cache[r]
           e0 == c.entries[m.b]
           e == [e0 EXCEPT !.load = FALSE, !.loads = {}]
           ev == [e EXCEPT !.st = "valid"]
           d == [down EXCEPT ![r] = Tail(@)]
           done == [c EXCEPT !.entries[m.b] = e]
           cv == [c EXCEPT !.entries[m.b] = ev]
<1>1. TypeInv /\ down[r] # <<>> /\ m.t = "load"
  BY Zenon DEF ContentInv, cache_load_continuation
<1>2. /\ m \in DownMsg /\ d \in [Ranks -> Seq(DownMsg)]
      /\ MsgInv(cache, up, down) =>
           /\ \A x \in Ranks : Once(d[x])
           /\ \A x \in Ranks, y \in Blobs : Has(d[x], y) => Has(down[x], y)
  BY <1>1, TakeDown
<1>3. m.b \in Blobs /\ m.ok \in BOOLEAN /\ c \in Cache /\ e0 \in Entry
  BY <1>1, <1>2 DEF DownMsg, TypeInv, Cache
<1>4. /\ down' = DownLoads(d, e0.loads, m.b, m.ok)
      /\ UNCHANGED <<up, db>>
      /\ \/ m.ok /\ cache' = [cache EXCEPT ![r].entries[m.b] = ev]
           /\ UNCHANGED dangling
         \/ /\ ~m.ok /\ cache' = [cache EXCEPT ![r] = remove_entry(done, {m.b})]
            /\ dangling' = (dangling \/ Needed(done, {m.b}))
  BY Zenon DEF cache_load_continuation
<1> HIDE DEF m, d, c
<1>5. /\ e \in Entry /\ ev \in Entry
      /\ e.dirty = e0.dirty /\ e.store = e0.store /\ e.stores = e0.stores
      /\ ev.dirty = e0.dirty /\ ev.store = e0.store /\ ev.stores = e0.stores
  <2> HIDE DEF e0
  <2>1. /\ e \in Entry
        /\ e.dirty = e0.dirty /\ e.store = e0.store /\ e.stores = e0.stores
    <3>1. e \in Entry
      BY <1>3, EntryTypes, Zenon
    <3>2. QED
      BY <1>3, <3>1 DEF Entry
  <2> HIDE DEF e
  <2>2. /\ ev \in Entry
        /\ ev.dirty = e.dirty /\ ev.store = e.store /\ ev.stores = e.stores
    <3>1. ev \in Entry
      BY <2>1, EntryTypes, Zenon
    <3>2. QED
      BY <2>1, <3>1 DEF Entry
  <2>3. QED
    BY <2>1, <2>2
<1>6. ASSUME NEW e1 \in Entry, NEW c1, c1 = [c EXCEPT !.entries[m.b] = e1],
             e1.dirty = e0.dirty, e1.store = e0.store, e1.stores = e0.stores
      PROVE  /\ c1 \in Cache /\ SameStores(c, c1)
             /\ \A b \in Blobs :
                  /\ c1.entries[b].store <=> c.entries[b].store
                  /\ c1.entries[b].stores = c.entries[b].stores
  <2>1. /\ c1 \in Cache /\ c1.entries = [c.entries EXCEPT ![m.b] = e1]
        /\ c1.dirty = c.dirty /\ c1.batch = c.batch
        /\ c1.backing = c.backing /\ c1.flush = c.flush
    BY <1>3, <1>6 DEF Cache
  <2>2. c.entries \in [Blobs -> Entry]
    BY <1>3 DEF Cache
  <2>3. \A b \in Blobs :
          /\ c1.entries[b].dirty = c.entries[b].dirty
          /\ c1.entries[b].store = c.entries[b].store
          /\ c1.entries[b].stores = c.entries[b].stores
    BY <1>3, <1>6, <2>1, <2>2
  <2>4. QED
    BY <2>1, <2>3 DEF SameStores
<1>7. ASSUME NEW c1 \in Cache, cache' = [cache EXCEPT ![r] = c1],
             ~dangling' =>
               /\ ~dangling
               /\ \A b \in Blobs :
                    /\ c1.entries[b].store <=> c.entries[b].store
                    /\ c1.entries[b].stores \subseteq c.entries[b].stores
               /\ Counted(c) /\ GoesOn(r, c) => Counted(c1) /\ GoesOn(r, c1),
             dangling' \in BOOLEAN
      PROVE  ContentInv'
  <2>1. down' \in [Ranks -> Seq(DownMsg)]
    BY <1>2, <1>3, <1>4, DownTypes, Zenon
  <2>2. TypeInv'
    BY <1>1, <1>4, <1>7, <2>1 DEF TypeInv
  <2>3. ASSUME ~dangling'
        PROVE  CacheInv(cache') /\ MsgInv(cache', up', down')
    <3>1. CacheInv(cache) /\ MsgInv(cache, up, down)
      BY <1>7, <2>3 DEF ContentInv
    <3>2. CacheInv(cache')
      BY <1>1, <1>7, <2>3, <3>1 DEF CacheInv, TypeInv, c
    <3>3. \A x \in Ranks : Once(up[x]) /\ Once(d[x])
      BY <1>2, <3>1 DEF MsgInv
    <3>4. \A x \in Ranks : /\ Once(down'[x])
                           /\ \A y : Has(down'[x], y) <=> Has(d[x], y)
      BY <1>2, <1>3, <1>4, <3>3, DownLoadsStores, Zenon
    <3>5. \A x \in Ranks, y \in Blobs :
            /\ cache'[x].entries[y].store <=> cache[x].entries[y].store
            /\ cache'[x].entries[y].stores \subseteq cache[x].entries[y].stores
      BY <1>1, <1>7, <2>3 DEF TypeInv, c
    <3>6. NoMore(cache, up, down, cache', up', down')
      BY <1>2, <1>4, <3>1, <3>3, <3>4, <3>5 DEF NoMore
    <3>7. QED
      BY <3>1, <3>2, <3>6, MsgSame
  <2>4. QED
    BY <2>2, <2>3 DEF ContentInv
<1>8. CASE m.ok /\ cache' = [cache EXCEPT ![r].entries[m.b] = ev]
           /\ UNCHANGED dangling
  <2>1. cache' = [cache EXCEPT ![r] = cv]
    BY <1>8 DEF c
  <2>2. /\ cv \in Cache /\ SameStores(c, cv)
        /\ \A b \in Blobs : /\ cv.entries[b].store <=> c.entries[b].store
                            /\ cv.entries[b].stores = c.entries[b].stores
    BY <1>5, <1>6, Zenon
  <2> HIDE DEF cv
  <2>3. Counted(c) /\ GoesOn(r, c) => Counted(cv) /\ GoesOn(r, cv)
    BY <2>2, SameStoresKept
  <2>4. dangling' \in BOOLEAN
    BY <1>1, <1>8 DEF TypeInv
  <2>5. QED
    BY <1>7, <1>8, <2>1, <2>2, <2>3, <2>4, Zenon
<1>9. CASE /\ cache' = [cache EXCEPT ![r] = remove_entry(done, {m.b})]
           /\ dangling' = (dangling \/ Needed(done, {m.b}))
  <2>1. /\ done \in Cache /\ SameStores(c, done)
        /\ \A b \in Blobs : /\ done.entries[b].store <=> c.entries[b].store
                            /\ done.entries[b].stores = c.entries[b].stores
    BY <1>5, <1>6, Zenon
  <2>2. Counted(c) /\ GoesOn(r, c) => Counted(done) /\ GoesOn(r, done)
    BY <2>1, SameStoresKept
  <2> DEFINE c1 == remove_entry(done, {m.b})
  <2> HIDE DEF done
  <2>3. /\ c1 \in Cache
        /\ ~Needed(done, {m.b}) =>
             /\ \A b \in Blobs :
                  /\ c1.entries[b].store <=> done.entries[b].store
                  /\ c1.entries[b].stores \subseteq done.entries[b].stores
             /\ Counted(done) => Counted(c1)
             /\ GoesOn(r, done) => GoesOn(r, c1)
    <3>1. {m.b} \in SUBSET Blobs
      BY <1>3
    <3>2. QED
      BY <2>1, <3>1, RemoveEntry
  <2> HIDE DEF c1
  <2>4. /\ dangling' \in BOOLEAN
        /\ ~dangling' => ~dangling /\ ~Needed(done, {m.b})
    BY <1>9, Zenon
  <2>5. cache' = [cache EXCEPT ![r] = c1]
    BY <1>9 DEF c1
  <2>6. QED
    BY <1>7, <2>1, <2>2, <2>3, <2>4, <2>5, Zenon
<1>10. QED
  BY <1>4, <1>8, <1>9

\* What cache_store_continuation does before it goes on with the flush: the
\* entry is not pending, and those that waited are answered.
DoneEntry(e, m) == [e EXCEPT !.store = FALSE, !.stores = {},
                             !.dirty = e.dirty /\ ~m.ok]
DoneCache(c, m) ==
    [c EXCEPT !.entries[m.b] = DoneEntry(c.entries[m.b], m), !.batch = @ - 1,
              !.dirty = IF m.ok /\ c.entries[m.b].dirty THEN @ - 1 ELSE @]

\* What the cache of rank r looks like once the store that m answers is done.
LEMMA StoreDoneTypes ==
    ASSUME TypeInv, NEW r \in Ranks, NEW m \in DownMsg
    PROVE  LET e == cache[r].entries[m.b]
               e1 == DoneEntry(e, m)
               c1 == DoneCache(cache[r], m)
           IN /\ m.b \in Blobs /\ m.ok \in BOOLEAN
              /\ cache[r] \in Cache /\ e \in Entry /\ c1 \in Cache
              /\ ~e1.store /\ e1.stores = {} /\ e1.dirty = (e.dirty /\ ~m.ok)
              /\ e1.st = e.st
              /\ c1.entries = [cache[r].entries EXCEPT ![m.b] = e1]
              /\ c1.entries[m.b] = e1
              /\ c1.batch = cache[r].batch - 1
              /\ c1.dirty = IF m.ok /\ e.dirty THEN cache[r].dirty - 1
                            ELSE cache[r].dirty
              /\ c1.backing = cache[r].backing /\ c1.flush = cache[r].flush
<1> DEFINE e == cache[r].entries[m.b]
           e1 == DoneEntry(e, m)
           c1 == DoneCache(cache[r], m)
<1>1. m.b \in Blobs /\ m.ok \in BOOLEAN
  BY DEF DownMsg
<1>2. cache[r] \in Cache
  BY DEF TypeInv
<1>3. e \in Entry
  BY <1>1, <1>2 DEF Cache
<1>4. (e.dirty /\ ~m.ok) \in BOOLEAN
  OBVIOUS
<1> HIDE DEF e
<1>5. e1 \in Entry
  BY <1>3, <1>4, EntryTypes, Zenon DEF DoneEntry
<1>6. ~e1.store /\ e1.stores = {} /\ e1.dirty = (e.dirty /\ ~m.ok) /\ e1.st = e.st
  BY <1>3 DEF Entry, DoneEntry
<1> HIDE DEF e1
<1>7. /\ [cache[r].entries EXCEPT ![m.b] = e1] \in [Blobs -> Entry]
      /\ cache[r].batch - 1 \in Int
      /\ (IF m.ok /\ e.dirty THEN cache[r].dirty - 1 ELSE cache[r].dirty) \in Int
  BY <1>1, <1>2, <1>5 DEF Cache
<1>8. c1 = [cache[r] EXCEPT
              !.entries = [cache[r].entries EXCEPT ![m.b] = e1],
              !.batch = cache[r].batch - 1,
              !.dirty = IF m.ok /\ e.dirty THEN cache[r].dirty - 1
                        ELSE cache[r].dirty]
  BY <1>2 DEF Cache, DoneCache, e, e1
<1> HIDE DEF c1
<1>9. /\ c1 \in Cache
      /\ c1.entries = [cache[r].entries EXCEPT ![m.b] = e1]
      /\ c1.batch = cache[r].batch - 1
      /\ c1.dirty = IF m.ok /\ e.dirty THEN cache[r].dirty - 1
                    ELSE cache[r].dirty
      /\ c1.backing = cache[r].backing /\ c1.flush = cache[r].flush
  BY ONLY <1>2, <1>7, <1>8, Zenon DEF Cache
<1>10. c1.entries[m.b] = e1
  BY <1>1, <1>2, <1>9 DEF Cache
<1>11. QED
  BY <1>1, <1>2, <1>3, <1>6, <1>9, <1>10 DEF e, e1, c1

\* The queues d are down without the message m of rank r.
Taken(r, m, d) ==
    /\ d \in [Ranks -> Seq(DownMsg)]
    /\ \A x \in Ranks : Once(d[x])
    /\ \A x \in Ranks, y \in Blobs : Has(d[x], y) => Has(down[x], y)
    /\ Has(down[r], m.b) /\ ~Has(d[r], m.b)

\* All children in S are told of their store of b.
Silent(d, S, b) ==
    \A x \in Ranks : Once(d[x]) /\ (Child(x) \in S => ~Has(d[x], b))
Responded(d, S, b, d1) ==
    \A x \in Ranks :
        /\ Once(d1[x])
        /\ \A y : Has(d1[x], y) <=> Has(d[x], y) \/ (Child(x) \in S /\ y = b)

\* Responding to the stores of a blob adds exactly one response for each of them.
LEMMA RespondStores ==
    ASSUME NEW d \in [Ranks -> Seq(DownMsg)], NEW S, NEW b \in Blobs,
           NEW ok \in BOOLEAN, Silent(d, S, b)
    PROVE  Responded(d, S, b, DownStores(d, S, b, ok))
<1> DEFINE d1 == DownStores(d, S, b, ok)
<1>1. ASSUME NEW x \in Ranks
      PROVE  /\ Once(d1[x])
             /\ \A y : Has(d1[x], y)
                         <=> Has(d[x], y) \/ (Child(x) \in S /\ y = b)
  <2>1. Once(d[x])
    BY DEF Silent
  <2>2. Child(x) \in S => ~Has(d[x], b)
    BY DEF Silent
  <2>3. Once(d1[x])
    BY <2>1, <2>2, DownStoresStores, Zenon
  <2>4. CASE Child(x) \in S
    <3> DEFINE m == Response("store", b, ok)
    <3>1. m \in DownMsg /\ m.t = "store" /\ m.b = b
      BY DEF Response, DownMsg
    <3>2. d1[x] = Append(d[x], m) /\ d[x] \in Seq(DownMsg)
      BY <2>4 DEF DownStores
    <3> HIDE DEF m, d1
    <3>3. \A y : Has(Append(d[x], m), y) <=> Has(d[x], y) \/ y = m.b
      BY <2>1, <2>2, <2>4, <3>1, <3>2, AppendStore
    <3>4. QED
      BY <2>3, <2>4, <3>1, <3>2, <3>3
  <2>5. CASE Child(x) \notin S
    <3>1. d1[x] = d[x]
      BY <2>5 DEF DownStores
    <3> HIDE DEF d1
    <3>2. QED
      BY <2>3, <2>5, <3>1
  <2>6. QED
    BY <2>4, <2>5
<1>2. QED
  BY <1>1 DEF Responded

\* Taking a store response and answering those who waited for it keeps the
\* counters right but for the flush, which is what is left to restart.
LEMMA StoreDone ==
    ASSUME TypeInv, CacheInv(cache), MsgInv(cache, up, down),
           NEW r \in Ranks, NEW m \in DownMsg, NEW d, Taken(r, m, d),
           NEW e, e = cache[r].entries[m.b],
           NEW c1, c1 = DoneCache(cache[r], m)
    PROVE  /\ Counted(c1)
           /\ MsgInv([cache EXCEPT ![r] = c1], up,
                     DownStores(d, e.stores, m.b, m.ok))
<1> DEFINE e1 == DoneEntry(e, m)
           ca1 == [cache EXCEPT ![r] = c1]
           d1 == DownStores(d, e.stores, m.b, m.ok)
<1>1. /\ d \in [Ranks -> Seq(DownMsg)]
      /\ \A x \in Ranks : Once(d[x])
      /\ \A x \in Ranks, y \in Blobs : Has(d[x], y) => Has(down[x], y)
      /\ Has(down[r], m.b) /\ ~Has(d[r], m.b)
  BY DEF Taken
<1>2. /\ m.b \in Blobs /\ m.ok \in BOOLEAN
      /\ cache[r] \in Cache /\ e \in Entry /\ c1 \in Cache
      /\ ~e1.store /\ e1.stores = {} /\ e1.dirty = (e.dirty /\ ~m.ok)
      /\ c1.entries = [cache[r].entries EXCEPT ![m.b] = e1]
      /\ c1.entries[m.b] = e1
      /\ c1.batch = cache[r].batch - 1
      /\ c1.dirty = IF m.ok /\ e.dirty THEN cache[r].dirty - 1
                    ELSE cache[r].dirty
  BY StoreDoneTypes
<1> HIDE DEF e1
<1>3. e.store /\ ~Waits(cache, r, m.b) /\ ~Has(up[r], m.b)
  BY <1>1, <1>2 DEF MsgInv
<1>4. Counted(cache[r])
  BY DEF CacheInv
<1>5. e.dirty
  <2>1. m.b \in Storing(cache[r])
    BY <1>2, <1>3 DEF Storing
  <2>2. QED
    BY <1>4, <2>1 DEF Counted, Dirty
<1>6. Counted(c1)
  <2>1. c1.entries = [cache[r].entries EXCEPT ![m.b] = c1.entries[m.b]]
    BY <1>2
  <2>2. cache[r].dirty \in Int /\ cache[r].batch \in Int
    BY <1>2 DEF Cache
  <2>3. c1.dirty = cache[r].dirty
                     + (IF c1.entries[m.b].dirty THEN 1 ELSE 0)
                     - (IF cache[r].entries[m.b].dirty THEN 1 ELSE 0)
    <3>1. CASE m.ok
      <4>1. ~c1.entries[m.b].dirty /\ cache[r].entries[m.b].dirty
        BY <1>2, <1>5, <3>1, Zenon
      <4>2. c1.dirty = cache[r].dirty - 1
        BY <1>2, <1>5, <3>1
      <4>3. QED
        BY ONLY <2>2, <4>1, <4>2
    <3>2. CASE ~m.ok
      <4>1. c1.entries[m.b].dirty /\ cache[r].entries[m.b].dirty
        BY <1>2, <1>5, <3>2, Zenon
      <4>2. c1.dirty = cache[r].dirty
        BY <1>2, <1>5, <3>2
      <4>3. QED
        BY ONLY <2>2, <4>1, <4>2
    <3>3. QED
      BY <3>1, <3>2
  <2>4. c1.batch = cache[r].batch
                     + (IF c1.entries[m.b].store THEN 1 ELSE 0)
                     - (IF cache[r].entries[m.b].store THEN 1 ELSE 0)
    <3>1. ~c1.entries[m.b].store /\ cache[r].entries[m.b].store
      BY <1>2, <1>3
    <3>2. c1.batch = cache[r].batch - 1
      BY <1>2
    <3>3. QED
      BY ONLY <2>2, <3>1, <3>2
  <2>5. ~c1.entries[m.b].store
    BY <1>2
  <2>6. cache[r] \in Cache /\ c1 \in Cache /\ m.b \in Blobs
    BY <1>2
  <2>7. QED
    BY ONLY <1>4, <2>1, <2>3, <2>4, <2>5, <2>6, ChangeEntry
<1>8. \A x \in Ranks, y \in Blobs :
        ca1[x].entries[y] = IF x = r /\ y = m.b THEN e1 ELSE cache[x].entries[y]
  <2>1. \A x \in Ranks : ca1[x] = IF x = r THEN c1 ELSE cache[x]
    BY DEF TypeInv
  <2>2. \A y \in Blobs : c1.entries[y] = IF y = m.b THEN e1
                                           ELSE cache[r].entries[y]
    <3>1. cache[r].entries \in [Blobs -> Entry]
      BY <1>2 DEF Cache
    <3>2. c1.entries = [cache[r].entries EXCEPT ![m.b] = e1]
      BY <1>2
    <3>3. QED
      BY ONLY <3>1, <3>2
  <2> HIDE DEF ca1
  <2>3. QED
    BY ONLY <2>1, <2>2
<1> HIDE DEF ca1
<1>9. \A x \in Ranks : Child(x) \in e.stores => x # 0 /\ Parent[x] = r
  BY <1>2 DEF MsgInv
<1>10. \A x \in Ranks : Child(x) \in e.stores => Waits(cache, x, m.b)
  BY <1>9 DEF Waits
<1>11. \A x \in Ranks, y \in Blobs :
        Waits(ca1, x, y)
          <=> Waits(cache, x, y) /\ ~(y = m.b /\ Child(x) \in e.stores)
  <2> SUFFICES ASSUME NEW x \in Ranks, NEW y \in Blobs
               PROVE  Waits(ca1, x, y) <=>
                        Waits(cache, x, y) /\ ~(y = m.b /\ Child(x) \in e.stores)
    OBVIOUS
  <2>1. CASE x = 0
    BY <2>1 DEF Waits
  <2>2. CASE x # 0
    <3>1. Parent[x] \in Ranks
      BY <2>2, ContentAssumption, Zenon
    <3>2. ca1[Parent[x]].entries[y] = IF Parent[x] = r /\ y = m.b THEN e1
                                      ELSE cache[Parent[x]].entries[y]
      BY <1>8, <3>1
    <3>3. CASE Parent[x] = r /\ y = m.b
      <4>1. ca1[Parent[x]].entries[y].stores = {}
        BY <1>2, <3>2, <3>3
      <4>2. cache[Parent[x]].entries[y].stores = e.stores
        BY <3>3
      <4>3. QED
        BY ONLY <2>2, <3>3, <4>1, <4>2 DEF Waits
    <3>4. CASE ~(Parent[x] = r /\ y = m.b)
      <4>1. ~(y = m.b /\ Child(x) \in e.stores)
        BY <1>9, <3>4
      <4>2. ca1[Parent[x]].entries[y] = cache[Parent[x]].entries[y]
        BY <3>2, <3>4
      <4>3. QED
        BY ONLY <4>1, <4>2 DEF Waits
    <3>5. QED
      BY <3>3, <3>4
  <2>3. QED
    BY <2>1, <2>2
<1>12. \A x \in Ranks :
         /\ Once(d1[x])
         /\ \A y : Has(d1[x], y)
                     <=> Has(d[x], y) \/ (Child(x) \in e.stores /\ y = m.b)
  <2>1. Silent(d, e.stores, m.b)
    BY <1>1, <1>2, <1>10 DEF MsgInv, Silent
  <2>2. Responded(d, e.stores, m.b, d1)
    BY <1>1, <1>2, <2>1, RespondStores
  <2>3. QED
    BY <2>2 DEF Responded
<1> HIDE DEF d1
<1>13. ASSUME NEW x \in Ranks, NEW y \in Blobs
       PROVE  /\ Has(up[x], y) => /\ ca1[x].entries[y].store
                                  /\ ~Has(d1[x], y) /\ ~Waits(ca1, x, y)
              /\ Has(d1[x], y) => ca1[x].entries[y].store /\ ~Waits(ca1, x, y)
              /\ Waits(ca1, x, y) => ca1[x].entries[y].store
  <2>1. /\ Has(up[x], y) => /\ cache[x].entries[y].store
                            /\ ~Has(down[x], y) /\ ~Waits(cache, x, y)
        /\ Has(down[x], y) => cache[x].entries[y].store /\ ~Waits(cache, x, y)
        /\ Waits(cache, x, y) => cache[x].entries[y].store
    BY DEF MsgInv
  <2>2. Has(d1[x], y) <=> Has(d[x], y) \/ (Child(x) \in e.stores /\ y = m.b)
    BY <1>12
  <2>3. Has(d[x], y) => Has(down[x], y)
    BY <1>1
  <2>4. Waits(ca1, x, y) <=> Waits(cache, x, y)
                               /\ ~(y = m.b /\ Child(x) \in e.stores)
    BY <1>11
  <2>5. Child(x) \in e.stores => Waits(cache, x, m.b)
    BY <1>10
  <2>6. ca1[x].entries[y] = IF x = r /\ y = m.b THEN e1 ELSE cache[x].entries[y]
    BY <1>8
  <2>7. CASE x = r /\ y = m.b
    BY <1>1, <1>3, <2>2, <2>4, <2>5, <2>7
  <2>8. CASE ~(x = r /\ y = m.b)
    <3>1. ca1[x].entries[y] = cache[x].entries[y]
      BY <2>6, <2>8
    <3>2. QED
      BY ONLY <2>1, <2>2, <2>3, <2>4, <2>5, <3>1
  <2>9. QED
    BY <2>7, <2>8
<1>14. ASSUME NEW p \in Ranks, NEW x \in Ranks, NEW y \in Blobs,
              Child(x) \in ca1[p].entries[y].stores
       PROVE  x # 0 /\ Parent[x] = p
  <2>1. Child(x) \in cache[p].entries[y].stores
    <3>1. ca1[p].entries[y] = IF p = r /\ y = m.b THEN e1 ELSE cache[p].entries[y]
      BY <1>8
    <3>2. e1.stores = {}
      BY <1>2
    <3>3. QED
      BY ONLY <1>14, <3>1, <3>2
  <2>2. QED
    BY <2>1 DEF MsgInv
<1>15. MsgInv(ca1, up, d1)
  <2>1. \A x \in Ranks : Once(up[x]) /\ Once(d1[x])
    BY <1>12 DEF MsgInv
  <2>2. QED
    BY <1>13, <1>14, <2>1 DEF MsgInv
<1>16. QED
  BY <1>6, <1>15 DEF ca1, d1

\* cache_store_continuation, with the flush it resumes, keeps the invariant.
LEMMA StoreContinuationStep ==
    ASSUME ContentInv, NEW r \in Ranks, cache_store_continuation(r)
    PROVE  ContentInv'
<1> DEFINE m == Head(down[r])
           e == cache[r].entries[m.b]
           d == [down EXCEPT ![r] = Tail(@)]
           c == DoneCache(cache[r], m)
           over == c.dirty = 0 \/ (r = 0 /\ ~c.backing)
           resume == ~over /\ c.dirty # c.batch /\ c.batch <= BatchLimit \div 2
<1>1. TypeInv /\ down[r] # <<>> /\ m.t = "store"
  BY Zenon DEF ContentInv, cache_store_continuation
<1>2. /\ down' = DownStores(d, e.stores, m.b, m.ok)
      /\ \/ over /\ cache' = [cache EXCEPT ![r] = [c EXCEPT !.flush = {}]]
           /\ UNCHANGED up
         \/ /\ ~over
            /\ \E s \in IF resume THEN cache_flush(c) ELSE {<<>>} :
                 /\ cache' = [cache EXCEPT ![r] = Flushed(c, s)]
                 /\ up' = [up EXCEPT ![r] = @ \o Stores(s)]
      /\ UNCHANGED <<db, dangling>>
  BY Zenon DEF cache_store_continuation, DoneCache, DoneEntry
<1>3. /\ m \in DownMsg /\ d \in [Ranks -> Seq(DownMsg)]
      /\ MsgInv(cache, up, down) => Taken(r, m, d)
  BY <1>1, TakeDown DEF Taken
<1> HIDE DEF m, d
<1>4. c \in Cache /\ m.b \in Blobs /\ m.ok \in BOOLEAN
  BY <1>1, <1>3, StoreDoneTypes, Zenon
<1>5. CacheInv(cache) /\ MsgInv(cache, up, down)
        => Counted(c) /\ MsgInv([cache EXCEPT ![r] = c], up, down')
  BY <1>1, <1>2, <1>3, StoreDone
<1>6. down' \in [Ranks -> Seq(DownMsg)]
  BY <1>2, <1>3, <1>4, DownTypes, Zenon
<1>7. cache \in [Ranks -> Cache] /\ up \in [Ranks -> Seq(UpMsg)]
      /\ up[r] \in Seq(UpMsg)
  BY <1>1 DEF TypeInv
<1> HIDE DEF c
<1>8. CASE over /\ cache' = [cache EXCEPT ![r] = [c EXCEPT !.flush = {}]]
           /\ UNCHANGED up
  <2> DEFINE c1 == [c EXCEPT !.flush = {}]
  <2>1. /\ c1 \in Cache /\ c1.entries = c.entries /\ c1.dirty = c.dirty
        /\ c1.batch = c.batch /\ c1.backing = c.backing /\ c1.flush = {}
    BY <1>4 DEF Cache
  <2>2. cache' = [cache EXCEPT ![r] = c1]
    BY <1>8
  <2> HIDE DEF c1
  <2>3. TypeInv'
    BY <1>1, <1>2, <1>6, <1>7, <1>8, <2>1, <2>2, Zenon DEF TypeInv
  <2>4. ASSUME CacheInv(cache), MsgInv(cache, up, down)
        PROVE  CacheInv(cache') /\ MsgInv(cache', up', down')
    <3>1. Counted(c) /\ MsgInv([cache EXCEPT ![r] = c], up, down')
      BY <1>5, <2>4
    <3>2. Dirty(c1) = Dirty(c) /\ Storing(c1) = Storing(c)
      BY <2>1 DEF Dirty, Storing
    <3>3. Counted(c1)
      BY <2>1, <3>1, <3>2 DEF Counted
    <3>4. GoesOn(r, c1)
      <4>1. c.dirty = 0 => Dirty(c) = {}
        BY <1>4, <3>1, CountedTodo
      <4>2. QED
        BY <1>8, <2>1, <3>2, <4>1 DEF GoesOn
    <3>5. CacheInv(cache')
      BY <1>7, <2>2, <2>4, <3>3, <3>4 DEF CacheInv
    <3>6. \A x \in Ranks : Once(up'[x]) /\ Once(down'[x])
      BY <1>8, <3>1 DEF MsgInv
    <3>7. NoMore([cache EXCEPT ![r] = c], up, down', cache', up', down')
      BY <1>7, <1>8, <2>1, <2>2, <3>6 DEF NoMore
    <3>8. QED
      BY <3>1, <3>5, <3>7, MsgSame
  <2>5. QED
    BY <1>2, <2>3, <2>4 DEF ContentInv
<1>9. CASE /\ ~over
           /\ \E s \in IF resume THEN cache_flush(c) ELSE {<<>>} :
                /\ cache' = [cache EXCEPT ![r] = Flushed(c, s)]
                /\ up' = [up EXCEPT ![r] = @ \o Stores(s)]
  <2>1. PICK s \in IF resume THEN cache_flush(c) ELSE {<<>>} :
                /\ cache' = [cache EXCEPT ![r] = Flushed(c, s)]
                /\ up' = [up EXCEPT ![r] = up[r] \o Stores(s)]
    BY <1>9, Zenon
  <2>2. /\ resume => s \in cache_flush(c)
        /\ ~resume => s = <<>>
    BY <2>1
  <2> DEFINE f == Flushed(c, s)
  <2>3. f \in Cache /\ up[r] \o Stores(s) \in Seq(UpMsg)
    BY <1>4, <1>7, <2>2, FlushTypes
  <2>4. TypeInv'
    BY <1>1, <1>2, <1>6, <1>7, <2>1, <2>3 DEF TypeInv
  <2>5. ASSUME CacheInv(cache), MsgInv(cache, up, down)
        PROVE  CacheInv(cache') /\ MsgInv(cache', up', down')
    <3> DEFINE ca == [cache EXCEPT ![r] = c]
    <3>1. Counted(c) /\ MsgInv(ca, up, down')
      BY <1>5, <2>5
    <3>2. /\ s \in Seq(Dirty(c) \ Storing(c))
          /\ \A i, k \in DOMAIN s : s[i] = s[k] => i = k
      <4>1. CASE resume
        BY <1>4, <2>2, <3>1, <4>1, FlushStores
      <4>2. CASE ~resume
        BY <2>2, <4>2
      <4>3. QED
        BY <4>1, <4>2
    <3>3. /\ Counted(f) /\ f.batch = c.batch + Len(s) /\ Len(s) \in Nat
      BY <1>4, <3>1, <3>2, FlushedIs
    <3>4. f.batch > 0
      <4>1. /\ c.dirty \in Nat /\ c.batch \in Nat /\ c.dirty # 0
            /\ BatchLimit \div 2 \in Nat
        BY <1>4, <1>9, <3>1, CountedTodo, ContentAssumption
      <4>2. CASE resume
        BY <1>4, <2>2, <3>1, <4>1, <4>2, FlushGoes
      <4>3. CASE ~resume
        <5>1. c.dirty = c.batch \/ c.batch > BatchLimit \div 2
          BY <1>9, <4>1, <4>3
        <5>2. c.batch > 0
          BY <4>1, <5>1
        <5> HIDE DEF f
        <5>3. QED
          BY <3>3, <4>1, <5>2
      <4>4. QED
        BY <4>2, <4>3
    <3>5. GoesOn(r, f)
      BY <3>4 DEF GoesOn
    <3>6. CacheInv(cache')
      BY <1>7, <2>1, <2>5, <3>3, <3>5 DEF CacheInv
    <3>7. /\ ca \in [Ranks -> Cache] /\ ca[r] = c
          /\ cache' = [ca EXCEPT ![r] = f]
      BY <1>4, <1>7, <2>1, Zenon
    <3> HIDE DEF ca, f
    <3>8. MsgInv([ca EXCEPT ![r] = f], [up EXCEPT ![r] = up[r] \o Stores(s)],
                 down')
      BY <1>7, <2>3, <3>1, <3>2, <3>7, MsgFlush, Zenon DEF f
    <3>9. QED
      BY <2>1, <3>6, <3>7, <3>8, Zenon
  <2>6. QED
    BY <1>2, <2>4, <2>5 DEF ContentInv
<1>10. QED
  BY <1>2, <1>8, <1>9

-----------------------------------------------------------------------------
(* The backing store and its module *)

\* An answer of the backing module, whatever it says, keeps the invariant.
LEMMA AnsweredStep ==
    ASSUME ContentInv, up[0] # <<>>, NEW ok \in BOOLEAN,
           Answered(Head(up[0]), ok), db' \subseteq Blobs
    PROVE  ContentInv'
<1> DEFINE m == Head(up[0])
           a == Response(m.t, m.b, ok)
<1>1. TypeInv /\ 0 \in Ranks
  BY ContentAssumption DEF ContentInv
<1>2. up[0] \in Seq(UpMsg) /\ m \in UpMsg /\ Tail(up[0]) \in Seq(UpMsg)
  BY <1>1 DEF TypeInv
<1>3. /\ up' = [up EXCEPT ![0] = Tail(up[0])]
      /\ down' = [down EXCEPT ![0] = Append(down[0], a)]
      /\ UNCHANGED <<cache, dangling>>
  BY DEF Answered
<1> HIDE DEF m
<1>4. a \in DownMsg /\ a.t = m.t /\ a.b = m.b /\ m.b \in Blobs
  BY <1>2 DEF Response, DownMsg, UpMsg
<1> HIDE DEF a
<1>5. TypeInv'
  BY <1>1, <1>2, <1>3, <1>4 DEF TypeInv
<1>6. /\ up'[0] = Tail(up[0]) /\ down'[0] = Append(down[0], a)
      /\ down[0] \in Seq(DownMsg)
      /\ \A x \in Ranks : x # 0 => up'[x] = up[x] /\ down'[x] = down[x]
  BY <1>1, <1>3 DEF TypeInv
<1>7. ASSUME MsgInv(cache, up, down)
      PROVE  MsgInv(cache', up', down')
  <2>1. \A x \in Ranks : Once(up[x]) /\ Once(down[x])
    BY <1>7 DEF MsgInv
  <2>2. /\ Once(up'[0]) /\ \A y : Has(up'[0], y) => Has(up[0], y)
        /\ m.t = "store" => Has(up[0], m.b) /\ ~Has(up'[0], m.b)
    <3>1. up[0] \in Seq(UpMsg) /\ Once(up[0])
      BY <1>1, <1>2, <2>1
    <3>2. QED
      BY <1>6, <3>1, TakeHead DEF m
  <2>3. CASE m.t # "store"
    <3>1. Once(down'[0]) /\ \A y : Has(down'[0], y) <=> Has(down[0], y)
      BY <1>1, <1>4, <1>6, <2>1, <2>3, AppendLoad
    <3>2. NoMore(cache, up, down, cache', up', down')
      BY <1>3, <1>6, <2>1, <2>2, <3>1 DEF NoMore
    <3>3. QED
      BY <1>7, <3>2, MsgSame
  <2>4. CASE m.t = "store"
    <3>1. /\ cache[0].entries[m.b].store /\ ~Has(down[0], m.b)
          /\ ~Waits(cache, 0, m.b)
      BY <1>1, <1>4, <1>7, <2>2, <2>4 DEF MsgInv
    <3>2. /\ Once(down'[0])
          /\ \A y : Has(down'[0], y) <=> Has(down[0], y) \/ y = m.b
      BY <1>1, <1>4, <1>6, <2>1, <2>4, <3>1, AppendStore
    <3>3. \A x \in Ranks : Once(up'[x]) /\ Once(down'[x])
      BY <1>6, <2>1, <2>2, <3>2, Zenon
    <3>4. ASSUME NEW x \in Ranks, NEW y \in Blobs
          PROVE  /\ Has(up'[x], y) => /\ cache[x].entries[y].store
                                      /\ ~Has(down'[x], y) /\ ~Waits(cache, x, y)
                 /\ Has(down'[x], y) => /\ cache[x].entries[y].store
                                        /\ ~Waits(cache, x, y)
                 /\ Waits(cache, x, y) => cache[x].entries[y].store
      <4>1. /\ Has(up[x], y) => /\ cache[x].entries[y].store
                                /\ ~Has(down[x], y) /\ ~Waits(cache, x, y)
            /\ Has(down[x], y) => cache[x].entries[y].store /\ ~Waits(cache, x, y)
            /\ Waits(cache, x, y) => cache[x].entries[y].store
        BY <1>7 DEF MsgInv
      <4>2. CASE x # 0
        BY <1>6, <4>1, <4>2
      <4>3. CASE x = 0
        BY <2>2, <2>4, <3>1, <3>2, <4>1, <4>3
      <4>4. QED
        BY <4>2, <4>3
    <3>5. MsgInv(cache, up', down')
      BY <1>7, <3>3, <3>4 DEF MsgInv
    <3>6. QED
      BY <1>3, <3>5
  <2>5. QED
    BY <2>3, <2>4
<1>8. QED
  BY <1>3, <1>5, <1>7 DEF ContentInv

\* A step of the backing module's load and store handlers keeps the invariant.
LEMMA BackingStep ==
    ASSUME ContentInv, Backing
    PROVE  ContentInv'
<1>1. TypeInv /\ 0 \in Ranks
  BY ContentAssumption DEF ContentInv
<1>2. up[0] # <<>> => Head(up[0]) \in UpMsg /\ Head(up[0]).b \in Blobs
  <2>1. up[0] \in Seq(UpMsg)
    BY <1>1 DEF TypeInv
  <2>2. up[0] # <<>> => Head(up[0]) \in UpMsg
    BY <2>1
  <2>3. QED
    BY <2>2 DEF UpMsg
<1>3. /\ up[0] # <<>>
      /\ \E ok \in BOOLEAN : Answered(Head(up[0]), ok)
      /\ db' = db \/ db' = db \cup {Head(up[0]).b}
  <2>1. (Head(up[0]).b \in db) \in BOOLEAN
    OBVIOUS
  <2>2. CASE load_cb
    BY <2>1, <2>2, Zenon DEF load_cb
  <2>3. CASE store_cb
    BY <2>3, Zenon DEF store_cb
  <2>4. CASE fault
    BY <2>4, Zenon DEF fault
  <2>5. CASE enosys
    BY <2>5, Zenon DEF enosys
  <2>6. QED
    BY <2>2, <2>3, <2>4, <2>5 DEF Backing
<1>4. db' \subseteq Blobs
  BY <1>1, <1>2, <1>3 DEF TypeInv
<1>5. QED
  BY <1>3, <1>4, AnsweredStep

\* Loading, stopping and unloading the backing module keep the invariant.
LEMMA ModuleStep ==
    ASSUME ContentInv, ModuleMain \/ stop
    PROVE  ContentInv'
<1>1. CASE UNCHANGED <<cache, up, down, db, dangling>>
  BY <1>1 DEF ContentInv, TypeInv
<1>2. CASE content_unregister_backing_store
  <2> DEFINE c1 == [cache[0] EXCEPT !.backing = FALSE]
  <2>1. TypeInv /\ 0 \in Ranks /\ cache[0] \in Cache
    BY ContentAssumption DEF ContentInv, TypeInv
  <2>2. cache' = [cache EXCEPT ![0] = c1] /\ UNCHANGED <<up, down, db, dangling>>
    BY <1>2 DEF content_unregister_backing_store
  <2>3. /\ c1 \in Cache /\ c1.entries = cache[0].entries
        /\ c1.dirty = cache[0].dirty /\ c1.batch = cache[0].batch
        /\ c1.flush = cache[0].flush /\ ~c1.backing
    BY <2>1, Zenon DEF Cache
  <2> HIDE DEF c1
  <2>4. TypeInv'
    BY <2>1, <2>2, <2>3 DEF TypeInv
  <2>5. ASSUME CacheInv(cache), MsgInv(cache, up, down)
        PROVE  CacheInv(cache') /\ MsgInv(cache', up', down')
    <3>1. Dirty(c1) = Dirty(cache[0]) /\ Storing(c1) = Storing(cache[0])
      BY <2>3 DEF Dirty, Storing
    <3>2. Counted(c1) /\ GoesOn(0, c1)
      BY <2>1, <2>3, <2>5, <3>1 DEF CacheInv, Counted, GoesOn
    <3>3. CacheInv(cache')
      BY <2>1, <2>2, <2>5, <3>2 DEF CacheInv, TypeInv
    <3>4. \A x \in Ranks : Once(up'[x]) /\ Once(down'[x])
      BY <2>2, <2>5 DEF MsgInv
    <3>5. NoMore(cache, up, down, cache', up', down')
      BY <2>1, <2>2, <2>3, <3>4 DEF NoMore, TypeInv
    <3>6. QED
      BY <2>5, <3>3, <3>5, MsgSame
  <2>6. QED
    BY <2>2, <2>4, <2>5 DEF ContentInv
<1>3. QED
  BY <1>1, <1>2 DEF ModuleMain, stop, content_register_service, exited

-----------------------------------------------------------------------------
(* The invariant holds *)

\* The caches start out empty, so the invariant holds at first.
LEMMA ContentInit == Init => ContentInv
<1> SUFFICES ASSUME Init
             PROVE  ContentInv
  OBVIOUS
<1>1. content_cache_create \in Cache
  BY NoEntryType DEF content_cache_create, Cache
<1>2. TypeInv
  <2>1. <<>> \in Seq(UpMsg) /\ <<>> \in Seq(DownMsg)
    OBVIOUS
  <2>2. QED
    BY <1>1, <2>1, Zenon DEF Init, TypeInv
<1>3. \A r \in Ranks, b \in Blobs :
        /\ ~cache[r].entries[b].store /\ ~cache[r].entries[b].dirty
        /\ cache[r].entries[b].stores = {}
  BY DEF Init, content_cache_create, NoEntry
<1>4. \A r \in Ranks : Dirty(cache[r]) = {} /\ Storing(cache[r]) = {}
  BY <1>3 DEF Dirty, Storing
<1>5. \A r \in Ranks : cache[r].dirty = 0 /\ cache[r].batch = 0
                       /\ cache[r].flush = {}
  BY DEF Init, content_cache_create
<1>6. CacheInv(cache)
  BY <1>4, <1>5, FS_EmptySet DEF CacheInv, Counted, GoesOn
<1>7. MsgInv(cache, up, down)
  <2>1. \A r \in Ranks : up[r] = <<>> /\ down[r] = <<>>
    BY DEF Init
  <2>2. \A r \in Ranks, b \in Blobs : ~Waits(cache, r, b)
    BY <1>3, ContentAssumption, Zenon DEF Waits
  <2>3. QED
    BY <1>3, <2>1, <2>2, EmptyQueue DEF MsgInv
<1>8. QED
  BY <1>2, <1>6, <1>7 DEF ContentInv

\* Every step of the specification keeps the invariant.
LEMMA ContentNext == ContentInv /\ [Next]_vars => ContentInv'
<1> SUFFICES ASSUME ContentInv, [Next]_vars
             PROVE  ContentInv'
  OBVIOUS
<1>1. CASE UNCHANGED vars
  BY <1>1 DEF vars, ContentInv, TypeInv
<1>2. ASSUME NEW q \in Requests, ClientRequest(q)
      PROVE  ContentInv'
  BY <1>2, ClientRequestStep
<1>3. ASSUME NEW q \in Requests, content_flush_request(q)
      PROVE  ContentInv'
  BY <1>3, FlushRequestStep
<1>4. ASSUME NEW r \in Ranks, ChildRequest(r)
      PROVE  ContentInv'
  BY <1>4, ChildRequestStep
<1>5. ASSUME NEW r \in Ranks, Continuation(r)
      PROVE  ContentInv'
  BY <1>5, LoadContinuationStep, StoreContinuationStep DEF Continuation
<1>6. ASSUME NEW r \in Ranks, content_dropcache_request(r) \/ cache_purge(r)
      PROVE  ContentInv'
  <2>1. \E S \in SUBSET Blobs : drop(r, S)
    BY <1>6 DEF content_dropcache_request, cache_purge, Droppable
  <2>2. QED
    BY <2>1, DropStep
<1>7. CASE Backing
  BY <1>7, BackingStep
<1>8. CASE ModuleMain \/ stop
  BY <1>8, ModuleStep
<1>9. CASE content_register_backing_store
  BY <1>9, RegisterStep
<1>10. QED
  BY <1>1, <1>2, <1>3, <1>4, <1>5, <1>6, <1>7, <1>8, <1>9 DEF Next

\* The invariant that the properties below follow from: the types, the counters
\* and the flush of each cache, and where each pending store is.
THEOREM ContentInvariant == Spec => []ContentInv
  BY ContentInit, ContentNext, PTL DEF Spec

\* acct_dirty and flush_batch_count count the dirty entries and the stores under
\* way, and only dirty entries are stored, so that what cache_flush computes
\* from their difference is right.
THEOREM ContentCounts == Spec => []CountsAgree
<1>1. ContentInv => CountsAgree
  BY DEF ContentInv, CacheInv, Counted, CountsAgree
<1>2. QED
  BY <1>1, ContentInvariant, PTL

\* A flush request that waits, and a dirty entry that could be stored, always
\* has a store under way whose response resumes the flush (cache_resume_flush).
THEOREM ContentFlush == Spec => []FlushGoesOn
<1>1. ContentInv => FlushGoesOn
  BY DEF ContentInv, CacheInv, GoesOn, FlushGoesOn
<1>2. QED
  BY <1>1, ContentInvariant, PTL

-----------------------------------------------------------------------------
(* What is clean is in the backing store *)

\* A response of the backing store that reports success is about a blob that
\* it has.
Durable ==
    /\ CleanIsDurable
    /\ \A i \in DOMAIN down[0] : down[0][i].ok => down[0][i].b \in db

\* No child has rank 0, so the queue down[0] holds responses of the backing
\* store only.
LEMMA DownZero ==
    \A d, S, b, ok : S \subseteq Who =>
        DownLoads(d, S, b, ok)[0] = d[0] /\ DownStores(d, S, b, ok)[0] = d[0]
<1> SUFFICES ASSUME NEW d, NEW S, NEW b, NEW ok, S \subseteq Who
             PROVE  /\ DownLoads(d, S, b, ok)[0] = d[0]
                    /\ DownStores(d, S, b, ok)[0] = d[0]
  OBVIOUS
<1>1. 0 \in Ranks /\ Child(0) \notin S
  BY ContentAssumption, WhoIsWho
<1>2. QED
  BY <1>1 DEF DownLoads, DownStores

\* The step makes no entry of rank 0 clean, and brings no response.
LEMMA DurableSame ==
    ASSUME Durable, db \subseteq db',
           \A b \in Blobs :
              cache'[0].entries[b].st = "valid" /\ ~cache'[0].entries[b].dirty
              => \/ cache[0].entries[b].st = "valid"
                    /\ ~cache[0].entries[b].dirty
                 \/ b \in db',
           \A i \in DOMAIN down'[0] : \E k \in DOMAIN down[0] :
              down'[0][i] = down[0][k]
    PROVE  Durable'
<1>1. CleanIsDurable'
  BY DEF Durable, CleanIsDurable
<1>2. \A i \in DOMAIN down'[0] : down'[0][i].ok => down'[0][i].b \in db'
  BY DEF Durable
<1>3. QED
  BY <1>1, <1>2 DEF Durable

\* A load or store request never makes an unwritten blob look written.
LEMMA HandleDurable ==
    ASSUME TypeInv, Durable, NEW r \in Ranks, NEW who \in Who, NEW t,
           NEW b \in Blobs, NEW u, Handle(r, who, t, b, u, down), UNCHANGED db
    PROVE  Durable'
<1>1. 0 \in Ranks /\ cache[0] \in Cache /\ cache[r] \in Cache
      /\ cache[r].entries[b] \in Entry /\ {who} \in SUBSET Who
      /\ down \in [Ranks -> Seq(DownMsg)]
  BY ContentAssumption DEF TypeInv, Cache
<1>2. CASE content_load_request(r, who, b, u, down)
  <2>1. down'[0] = down[0]
    <3>1. down' = down \/ \E ok : down' = DownLoads(down, {who}, b, ok)
      BY <1>2, Zenon DEF content_load_request
    <3>2. {who} \subseteq Who
      OBVIOUS
    <3>3. QED
      BY <3>1, <3>2, DownZero
  <2>2. \A y \in Blobs : \/ cache'[0].entries[y] = cache[0].entries[y]
                         \/ cache'[0].entries[y].st = "invalid"
    <3>1. CASE cache' = cache
      BY <3>1
    <3>2. CASE cache' # cache
      <4> DEFINE e1 == [cache[r].entries[b] EXCEPT
                          !.st = "invalid", !.load = TRUE,
                          !.loads = @ \cup {who}]
      <4>1. cache' = [cache EXCEPT ![r].entries[b] = e1]
        BY <1>2, <3>2, Zenon DEF content_load_request
      <4>2. e1.st = "invalid"
        BY <1>1 DEF Entry
      <4> HIDE DEF e1
      <4>3. QED
        BY <1>1, <4>1, <4>2 DEF TypeInv, Cache
    <3>3. QED
      BY <3>1, <3>2
  <2>3. QED
    BY <2>1, <2>2, DurableSame
<1>3. CASE content_store_request(r, who, b, u, down)
  <2> DEFINE e == cache[r].entries[b]
             e1 == cache'[r].entries[b]
  <2>1. /\ \A y \in Blobs : ~(r = 0 /\ y = b)
              => cache'[0].entries[y] = cache[0].entries[y]
        /\ e1.dirty <=> \/ e.st # "valid" \/ e.dirty
                        \/ r = 0 /\ ~cache[r].backing
    BY <1>1, <1>3, Zenon DEF content_store_request, TypeInv, Cache, Entry
  <2>2. down'[0] = down[0]
    <3> DEFINE loads == IF e.st # "valid" THEN e.loads ELSE {}
               d1 == DownLoads(down, loads, b, TRUE)
    <3>1. \E S : S \subseteq Who /\ down' = DownStores(d1, S, b, TRUE)
      BY <1>1, <1>3, Zenon DEF content_store_request
    <3>2. loads \subseteq Who
      BY <1>1 DEF Entry
    <3> HIDE DEF loads
    <3>3. d1[0] = down[0]
      BY <1>1, <3>2, WhoIsWho, Zenon DEF DownLoads
    <3> HIDE DEF d1
    <3>4. QED
      BY <1>1, <3>1, <3>3, WhoIsWho, Zenon DEF DownStores
  <2>3. \A y \in Blobs :
          cache'[0].entries[y].st = "valid" /\ ~cache'[0].entries[y].dirty
          => cache[0].entries[y].st = "valid" /\ ~cache[0].entries[y].dirty
    <3> HIDE DEF e, e1
    <3>1. ~e1.dirty => e.st = "valid" /\ ~e.dirty
      BY <2>1
    <3>2. QED
      BY <2>1, <3>1 DEF e, e1
  <2>4. QED
    BY <2>2, <2>3, DurableSame
<1>4. QED
  BY <1>2, <1>3 DEF Handle

\* The cache of rank 0 after the first stores of a flush: nothing is cleaner.
LEMMA FlushedDurable ==
    ASSUME NEW c \in Cache, NEW s, NEW b \in Blobs
    PROVE  /\ Flushed(c, s).entries[b].st = c.entries[b].st
           /\ Flushed(c, s).entries[b].dirty = c.entries[b].dirty
<1>1. c.entries[b] \in Entry
  BY DEF Cache
<1>2. Flushed(c, s).entries[b] = c.entries[b]
      \/ Flushed(c, s).entries[b] = [c.entries[b] EXCEPT !.store = TRUE]
  BY DEF Flushed, Cache
<1>3. QED
  BY <1>1, <1>2 DEF Entry

\* Rank r changes its cache to c1 and nothing of rank 0 becomes clean.
LEMMA DurableCache ==
    ASSUME TypeInv, Durable, NEW r \in Ranks, NEW c1,
           cache' = [cache EXCEPT ![r] = c1], db' = db,
           \A i \in DOMAIN down'[0] : \E k \in DOMAIN down[0] :
              down'[0][i] = down[0][k],
           r = 0 => \A b \in Blobs :
              c1.entries[b].st = "valid" /\ ~c1.entries[b].dirty
              => \/ cache[r].entries[b].st = "valid"
                    /\ ~cache[r].entries[b].dirty
                 \/ b \in db
    PROVE  Durable'
<1>1. 0 \in Ranks /\ db \subseteq db'
  BY ContentAssumption
<1>2. cache'[0] = IF r = 0 THEN c1 ELSE cache[0]
  BY <1>1 DEF TypeInv
<1>3. \A b \in Blobs :
        cache'[0].entries[b].st = "valid" /\ ~cache'[0].entries[b].dirty
        => \/ cache[0].entries[b].st = "valid" /\ ~cache[0].entries[b].dirty
           \/ b \in db'
  BY <1>2
<1>4. CleanIsDurable'
  BY <1>1, <1>3 DEF Durable, CleanIsDurable
<1>5. \A i \in DOMAIN down'[0] : down'[0][i].ok => down'[0][i].b \in db'
  BY <1>1 DEF Durable
<1>6. QED
  BY <1>4, <1>5 DEF Durable

\* The queue of rank 0 after its first message was taken.
LEMMA TakenDown ==
    ASSUME TypeInv, Durable, NEW r \in Ranks, down[r] # <<>>, NEW S,
           S \subseteq Who, NEW b, NEW ok,
           \/ down' = DownLoads([down EXCEPT ![r] = Tail(@)], S, b, ok)
           \/ down' = DownStores([down EXCEPT ![r] = Tail(@)], S, b, ok)
    PROVE  /\ \A i \in DOMAIN down'[0] : \E k \in DOMAIN down[0] :
                down'[0][i] = down[0][k]
           /\ r = 0 /\ Head(down[r]).ok => Head(down[r]).b \in db
           /\ Head(down[r]) \in DownMsg
<1>1. 0 \in Ranks /\ down[0] \in Seq(DownMsg) /\ down[r] \in Seq(DownMsg)
  BY ContentAssumption DEF TypeInv
<1>2. down'[0] = [down EXCEPT ![r] = Tail(@)][0]
  <2> DEFINE d == [down EXCEPT ![r] = Tail(@)]
  <2>1. down' = DownLoads(d, S, b, ok) \/ down' = DownStores(d, S, b, ok)
    OBVIOUS
  <2> HIDE DEF d
  <2>2. down'[0] = d[0]
    BY <2>1, DownZero
  <2>3. QED
    BY <2>2 DEF d
<1>3. down'[0] = IF r = 0 THEN Tail(down[0]) ELSE down[0]
  BY <1>1, <1>2 DEF TypeInv
<1>4. \A i \in DOMAIN down'[0] : \E k \in DOMAIN down[0] :
        down'[0][i] = down[0][k]
  <2>1. CASE r # 0
    BY <1>3, <2>1
  <2>2. CASE r = 0
    <3>1. \A i \in DOMAIN Tail(down[0]) :
            i + 1 \in DOMAIN down[0] /\ Tail(down[0])[i] = down[0][i + 1]
      BY <1>1, <2>2
    <3>2. QED
      BY <1>3, <2>2, <3>1
  <2>3. QED
    BY <2>1, <2>2
<1>5. Head(down[r]) = down[r][1] /\ 1 \in DOMAIN down[r]
      /\ Head(down[r]) \in DownMsg
  BY <1>1
<1>6. QED
  BY <1>4, <1>5 DEF Durable

\* A load that completes never makes an unwritten blob look written.
LEMMA LoadContinuationDurable ==
    ASSUME TypeInv, Durable, NEW r \in Ranks, cache_load_continuation(r)
    PROVE  Durable'
<1> DEFINE m == Head(down[r])
           c == cache[r]
           e0 == c.entries[m.b]
           e == [e0 EXCEPT !.load = FALSE, !.loads = {}]
           ev == [e EXCEPT !.st = "valid"]
           done == [c EXCEPT !.entries[m.b] = e]
           cv == [c EXCEPT !.entries[m.b] = ev]
           cr == remove_entry(done, {m.b})
<1>1. /\ down[r] # <<>>
      /\ down' = DownLoads([down EXCEPT ![r] = Tail(@)], e0.loads, m.b, m.ok)
      /\ db' = db
      /\ \/ m.ok /\ cache' = [cache EXCEPT ![r].entries[m.b] = ev]
         \/ ~m.ok /\ cache' = [cache EXCEPT ![r] = cr]
  BY Zenon DEF cache_load_continuation
<1>2. /\ m \in DownMsg /\ m.b \in Blobs /\ c \in Cache /\ e0 \in Entry
      /\ e0.loads \subseteq Who
  <2>1. down[r] \in Seq(DownMsg) /\ c \in Cache
    BY DEF TypeInv
  <2>a. down[r] # <<>>
    BY <1>1, Zenon
  <2>2. m \in DownMsg
    BY ONLY <2>1, <2>a
  <2>3. m.b \in Blobs
    BY <2>2 DEF DownMsg
  <2>4. QED
    BY <2>1, <2>2, <2>3 DEF Cache, Entry
<1>3. /\ \A i \in DOMAIN down'[0] : \E k \in DOMAIN down[0] :
           down'[0][i] = down[0][k]
      /\ r = 0 /\ m.ok => m.b \in db
  BY <1>1, <1>2, TakenDown, Zenon
<1> HIDE DEF m
<1>4. CASE m.ok /\ cache' = [cache EXCEPT ![r].entries[m.b] = ev]
  <2>1. cache' = [cache EXCEPT ![r] = cv]
    BY <1>4
  <2>2. \A b \in Blobs : b # m.b => cv.entries[b] = c.entries[b]
    BY <1>2 DEF Cache
  <2> HIDE DEF cv
  <2>3. r = 0 => \A b \in Blobs :
          cv.entries[b].st = "valid" /\ ~cv.entries[b].dirty
          => \/ c.entries[b].st = "valid" /\ ~c.entries[b].dirty
             \/ b \in db
    BY <1>3, <1>4, <2>2
  <2>4. QED
    BY <1>1, <1>3, <2>1, <2>3, DurableCache, Zenon
<1>5. CASE cache' = [cache EXCEPT ![r] = cr]
  <2>1. \A b \in Blobs : b # m.b => done.entries[b] = c.entries[b]
    BY <1>2 DEF Cache
  <2>2. \A b \in Blobs : cr.entries[b] = IF b = m.b THEN NoEntry
                                           ELSE c.entries[b]
    <3> HIDE DEF done
    <3>1. \A b \in Blobs : cr.entries[b] = IF b \in {m.b} THEN NoEntry
                                             ELSE done.entries[b]
      <4>1. done \in Cache
        <5>1. e \in Entry
          <6> HIDE DEF e0
          <6>1. QED
            BY <1>2, EntryTypes, Zenon
        <5> HIDE DEF e
        <5>2. QED
          BY <1>2, <5>1 DEF done, Cache
      <4>2. {m.b} \in SUBSET Blobs
        BY <1>2
      <4>3. QED
        BY <4>1, <4>2, RemoveEntry
    <3> HIDE DEF cr
    <3>2. QED
      BY <2>1, <3>1
  <2>3. NoEntry.st # "valid"
    BY DEF NoEntry
  <2> HIDE DEF cr
  <2>4. \A b \in Blobs :
          cr.entries[b].st = "valid" /\ ~cr.entries[b].dirty
          => \/ c.entries[b].st = "valid" /\ ~c.entries[b].dirty
             \/ b \in db
    BY <2>2, <2>3
  <2>5. QED
    BY <1>1, <1>3, <1>5, <2>4, DurableCache, Zenon
<1>6. QED
  BY <1>1, <1>4, <1>5

\* A store that completes makes the entry of rank 0 clean only if it was written.
LEMMA StoreContinuationDurable ==
    ASSUME TypeInv, Durable, NEW r \in Ranks, cache_store_continuation(r)
    PROVE  Durable'
<1> DEFINE m == Head(down[r])
           e == cache[r].entries[m.b]
           c == DoneCache(cache[r], m)
<1>1. /\ down[r] # <<>>
      /\ down' = DownStores([down EXCEPT ![r] = Tail(@)], e.stores, m.b, m.ok)
      /\ \/ cache' = [cache EXCEPT ![r] = [c EXCEPT !.flush = {}]]
         \/ \E s : cache' = [cache EXCEPT ![r] = Flushed(c, s)]
      /\ db' = db
  BY Zenon DEF cache_store_continuation, DoneCache, DoneEntry
<1>2. m \in DownMsg
  <2>1. down[r] \in Seq(DownMsg)
    BY DEF TypeInv
  <2>2. QED
    BY <1>1, <2>1
<1> HIDE DEF m
<1>3. /\ m.b \in Blobs /\ m.ok \in BOOLEAN /\ cache[r] \in Cache /\ e \in Entry
      /\ c \in Cache
      /\ c.entries = [cache[r].entries EXCEPT ![m.b] = DoneEntry(e, m)]
      /\ DoneEntry(e, m).dirty = (e.dirty /\ ~m.ok) /\ DoneEntry(e, m).st = e.st
  BY <1>2, StoreDoneTypes, Zenon
<1>4. /\ \A i \in DOMAIN down'[0] : \E k \in DOMAIN down[0] :
           down'[0][i] = down[0][k]
      /\ r = 0 /\ m.ok => m.b \in db
  <2>1. e.stores \subseteq Who
    BY <1>3, Zenon DEF Entry
  <2>2. QED
    BY <1>1, <2>1, TakenDown, Zenon DEF m
<1>5. \A b \in Blobs : c.entries[b] = IF b = m.b THEN DoneEntry(e, m)
                                       ELSE cache[r].entries[b]
  <2>1. cache[r].entries \in [Blobs -> Entry]
    BY <1>3 DEF Cache
  <2> HIDE DEF c, e
  <2>2. QED
    BY <1>3, <2>1
<1> HIDE DEF c
<1>6. r = 0 => \A b \in Blobs :
        c.entries[b].st = "valid" /\ ~c.entries[b].dirty
        => \/ cache[r].entries[b].st = "valid" /\ ~cache[r].entries[b].dirty
           \/ b \in db
  <2> SUFFICES ASSUME r = 0, NEW b \in Blobs, c.entries[b].st = "valid",
                      ~c.entries[b].dirty
               PROVE  \/ cache[r].entries[b].st = "valid"
                         /\ ~cache[r].entries[b].dirty
                      \/ b \in db
    OBVIOUS
  <2>1. CASE b # m.b
    BY <1>5, <2>1
  <2>2. CASE b = m.b
    <3>1. e.st = "valid" /\ ~(e.dirty /\ ~m.ok)
      BY <1>3, <1>5, <2>2, Zenon
    <3>2. QED
      BY <1>4, <2>2, <3>1
  <2>3. QED
    BY <2>1, <2>2
<1>7. ASSUME NEW c1, cache' = [cache EXCEPT ![r] = c1],
             \A b \in Blobs : /\ c1.entries[b].st = c.entries[b].st
                             /\ c1.entries[b].dirty = c.entries[b].dirty
      PROVE  Durable'
  <2>1. r = 0 => \A b \in Blobs :
          c1.entries[b].st = "valid" /\ ~c1.entries[b].dirty
          => \/ cache[r].entries[b].st = "valid" /\ ~cache[r].entries[b].dirty
             \/ b \in db
    BY <1>6, <1>7
  <2>2. QED
    BY <1>1, <1>4, <1>7, <2>1, DurableCache, Zenon
<1>8. CASE cache' = [cache EXCEPT ![r] = [c EXCEPT !.flush = {}]]
  <2>1. [c EXCEPT !.flush = {}].entries = c.entries
    BY <1>3 DEF Cache
  <2>2. QED
    BY <1>7, <1>8, <2>1, Zenon
<1>9. CASE \E s : cache' = [cache EXCEPT ![r] = Flushed(c, s)]
  <2>1. PICK s : cache' = [cache EXCEPT ![r] = Flushed(c, s)]
    BY <1>9, Zenon
  <2>2. \A b \in Blobs :
          /\ Flushed(c, s).entries[b].st = c.entries[b].st
          /\ Flushed(c, s).entries[b].dirty = c.entries[b].dirty
    <3>1. c \in Cache
      BY <1>3
    <3>2. QED
      BY ONLY <3>1, FlushedDurable
  <2>3. QED
    BY <1>7, <2>1, <2>2, Zenon
<1>10. QED
  BY <1>1, <1>8, <1>9

\* No blob is in a cache at first.
LEMMA DurableInit == Init => Durable
<1> SUFFICES ASSUME Init
             PROVE  Durable
  OBVIOUS
<1>1. 0 \in Ranks
  BY ContentAssumption
<1>2. \A b \in Blobs : cache[0].entries[b].st = "none"
  BY <1>1 DEF Init, content_cache_create, NoEntry
<1>3. down[0] = <<>>
  BY <1>1 DEF Init
<1>4. QED
  BY <1>2, <1>3 DEF Durable, CleanIsDurable

\* Every step keeps the clean entries of rank 0 among the blobs in the database.
LEMMA DurableNext == TypeInv /\ Durable /\ [Next]_vars => Durable'
<1> SUFFICES ASSUME TypeInv, Durable, [Next]_vars
             PROVE  Durable'
  OBVIOUS
<1>0. 0 \in Ranks /\ cache[0] \in Cache /\ down[0] \in Seq(DownMsg)
  BY ContentAssumption DEF TypeInv
<1>a. \A i \in DOMAIN down[0] : \E k \in DOMAIN down[0] : down[0][i] = down[0][k]
  OBVIOUS
<1>1. CASE UNCHANGED <<cache, down, db>>
  BY <1>1 DEF Durable, CleanIsDurable
<1>2. ASSUME NEW q \in Requests, ClientRequest(q)
      PROVE  Durable'
  <2>1. /\ request[q].rank \in Ranks /\ request[q].blob \in Blobs
        /\ Client(q) \in Who
    BY <1>2, ContentAssumption DEF ClientRequest, Who
  <2>2. Handle(request[q].rank, Client(q), request[q].kind, request[q].blob,
               up, down) /\ UNCHANGED db
    BY <1>2 DEF ClientRequest
  <2>3. QED
    BY <2>1, <2>2, HandleDurable
<1>3. ASSUME NEW r \in Ranks, ChildRequest(r)
      PROVE  Durable'
  <2>1. r # 0 /\ Parent[r] \in Ranks /\ Child(r) \in Who
    BY <1>3, ContentAssumption DEF ChildRequest, Who
  <2>2. Head(up[r]).b \in Blobs
    <3>1. up[r] \in Seq(UpMsg) /\ up[r] # <<>>
      BY <1>3 DEF ChildRequest, TypeInv
    <3>2. Head(up[r]) \in UpMsg
      BY <3>1
    <3>3. QED
      BY <3>2 DEF UpMsg
  <2>3. Handle(Parent[r], Child(r), Head(up[r]).t, Head(up[r]).b,
               [up EXCEPT ![r] = Tail(@)], down) /\ UNCHANGED db
    BY <1>3 DEF ChildRequest
  <2>4. QED
    BY <2>1, <2>2, <2>3, HandleDurable
<1>4. ASSUME NEW q \in Requests, content_flush_request(q)
      PROVE  Durable'
  <2> DEFINE r == request[q].rank
             c == cache[r]
  <2>1. r \in Ranks /\ c \in Cache
    BY ContentAssumption, Zenon DEF TypeInv
  <2>2. down' = down /\ db' = db
    BY <1>4 DEF content_flush_request
  <2>3. CASE cache' = cache
    BY <1>1, <2>2, <2>3
  <2>4. CASE cache' # cache
    <3>1. PICK s, Q : cache' = [cache EXCEPT ![r] =
                                  [Flushed(c, s) EXCEPT !.flush = Q]]
      BY <1>4, <2>4, Zenon DEF content_flush_request
    <3> DEFINE c1 == [Flushed(c, s) EXCEPT !.flush = Q]
    <3>2. c1.entries = Flushed(c, s).entries
      BY <2>1 DEF Flushed, Cache
    <3>3. \A b \in Blobs : /\ c1.entries[b].st = c.entries[b].st
                          /\ c1.entries[b].dirty = c.entries[b].dirty
      BY <2>1, <3>2, FlushedDurable
    <3> HIDE DEF c1
    <3>4. cache' = [cache EXCEPT ![r] = c1]
      BY <3>1 DEF c1
    <3>5. QED
      BY <1>a, <2>1, <2>2, <3>3, <3>4, DurableCache, Zenon
  <2>5. QED
    BY <2>3, <2>4
<1>5. ASSUME NEW r \in Ranks, Continuation(r)
      PROVE  Durable'
  BY <1>5, LoadContinuationDurable, StoreContinuationDurable DEF Continuation
<1>6. ASSUME NEW r \in Ranks, content_dropcache_request(r) \/ cache_purge(r)
      PROVE  Durable'
  <2>1. PICK S \in SUBSET Blobs : drop(r, S)
    BY <1>6 DEF content_dropcache_request, cache_purge, Droppable
  <2> DEFINE c1 == remove_entry(cache[r], S)
  <2>2. cache' = [cache EXCEPT ![r] = c1] /\ down' = down /\ db' = db
    BY <2>1 DEF drop
  <2>3. cache[r] \in Cache
    BY DEF TypeInv
  <2>4. \A b \in Blobs : c1.entries[b] = IF b \in S THEN NoEntry
                                          ELSE cache[r].entries[b]
    BY <2>3, RemoveEntry
  <2>5. NoEntry.st # "valid"
    BY DEF NoEntry
  <2> HIDE DEF c1
  <2>6. \A b \in Blobs : c1.entries[b].st = "valid" /\ ~c1.entries[b].dirty
          => cache[r].entries[b].st = "valid" /\ ~cache[r].entries[b].dirty
    BY <2>4, <2>5
  <2>7. QED
    BY <1>a, <2>2, <2>6, DurableCache, Zenon
<1>7. CASE Backing
  <2> DEFINE m == Head(up[0])
  <2>1. /\ \E ok \in BOOLEAN :
             /\ down' = [down EXCEPT ![0] = Append(@, Response(m.t, m.b, ok))]
             /\ ok => m.b \in db'
        /\ cache' = cache
        /\ db \subseteq db'
    <3>1. (m.b \in db) \in BOOLEAN
      OBVIOUS
    <3>2. CASE load_cb
      BY <3>1, <3>2, Zenon DEF load_cb, Answered
    <3>3. CASE store_cb
      BY <3>3, Zenon DEF store_cb, Answered
    <3>4. CASE fault
      BY <3>4, Zenon DEF fault, Answered
    <3>5. CASE enosys
      BY <3>5, Zenon DEF enosys, Answered
    <3>6. QED
      BY <1>7, <3>2, <3>3, <3>4, <3>5 DEF Backing
  <2>2. PICK ok \in BOOLEAN :
             /\ down' = [down EXCEPT ![0] = Append(@, Response(m.t, m.b, ok))]
             /\ ok => m.b \in db'
    BY <2>1, Zenon
  <2> DEFINE a == Response(m.t, m.b, ok)
  <2>3. a.ok = ok /\ a.b = m.b
    BY DEF Response
  <2>4. down'[0] = Append(down[0], a)
    BY <1>0, <2>2 DEF TypeInv
  <2> HIDE DEF a, m
  <2>5. CleanIsDurable'
    BY <2>1 DEF Durable, CleanIsDurable
  <2>6. \A i \in DOMAIN down'[0] : down'[0][i] = a \/ \E k \in DOMAIN down[0] :
          down'[0][i] = down[0][k]
    BY <1>0, <2>4
  <2>7. \A i \in DOMAIN down'[0] : down'[0][i].ok => down'[0][i].b \in db'
    BY <2>1, <2>2, <2>3, <2>6 DEF Durable
  <2>8. QED
    BY <2>5, <2>7 DEF Durable
<1>8. CASE content_unregister_backing_store
  <2> DEFINE c1 == [cache[0] EXCEPT !.backing = FALSE]
  <2>1. cache' = [cache EXCEPT ![0] = c1] /\ down' = down /\ db' = db
    BY <1>8 DEF content_unregister_backing_store
  <2>2. c1.entries = cache[0].entries
    BY <1>0 DEF Cache
  <2> HIDE DEF c1
  <2>3. QED
    BY <1>0, <1>a, <2>1, <2>2, DurableCache, Zenon
<1>9. CASE content_register_backing_store
  <2> DEFINE c == [cache[0] EXCEPT !.backing = TRUE]
  <2>1. PICK s : cache' = [cache EXCEPT ![0] = Flushed(c, s)]
    BY <1>9, Zenon DEF content_register_backing_store
  <2>2. down' = down /\ db' = db
    BY <1>9 DEF content_register_backing_store
  <2>3. c \in Cache /\ c.entries = cache[0].entries
    BY <1>0, Zenon DEF Cache
  <2> HIDE DEF c
  <2>4. \A b \in Blobs : /\ Flushed(c, s).entries[b].st = c.entries[b].st
                        /\ Flushed(c, s).entries[b].dirty = c.entries[b].dirty
    BY <2>3, FlushedDurable
  <2>5. QED
    <3> DEFINE c1 == Flushed(c, s)
    <3>1. \A b \in Blobs : c1.entries[b].st = "valid" /\ ~c1.entries[b].dirty
            => cache[0].entries[b].st = "valid" /\ ~cache[0].entries[b].dirty
      BY <2>3, <2>4
    <3> HIDE DEF c1
    <3>2. cache' = [cache EXCEPT ![0] = c1]
      BY <2>1 DEF c1
    <3>3. QED
      BY <1>0, <1>a, <2>2, <3>1, <3>2, DurableCache, Zenon
<1>10. QED
  BY <1>1, <1>2, <1>3, <1>4, <1>5, <1>6, <1>7, <1>8, <1>9
     DEF Next, vars, ModuleMain, stop, content_register_service, exited

\* What dropcache and purge remove from the cache of rank 0 is in the backing
\* store, whatever the order of stores, faults, flushes and reloads of the
\* module was.
THEOREM ContentDurable == Spec => []CleanIsDurable
<1>1. Durable => CleanIsDurable
  BY DEF Durable
<1>2. ContentInv => TypeInv
  BY DEF ContentInv
<1>3. QED
  BY <1>1, <1>2, ContentInvariant, DurableInit, DurableNext, PTL DEF Spec

-----------------------------------------------------------------------------
(* A flush of rank 0 that succeeds *)

\* Flush requests wait in the list of their rank, and only there.
WaitersAt(r, c) ==
    /\ \A q \in Requests :
         Client(q) \in c.flush => request[q].kind = "flush" /\ request[q].rank = r
    /\ \A b \in Blobs, q \in Requests :
         Client(q) \in c.entries[b].loads \/ Client(q) \in c.entries[b].stores
         => request[q].kind # "flush"

Waiters == \A r \in Ranks : WaitersAt(r, cache[r])

\* The step answers no flush request.
NoFlushAnswered ==
    \A q \in Requests : request[q].kind = "flush" => answer'[q] = answer[q]

\* The flush requests of rank 0 that the step answers with success find no
\* dirty entry counted.
FlushRight ==
    \A q \in Requests :
        /\ request[q].kind = "flush" /\ request[q].rank = 0
        /\ answer[q] = <<>> /\ answer'[q] = <<TRUE>>
        => cache'[0].dirty = 0

\* Only the cache of rank r changes.
LEMMA WaitersCache ==
    ASSUME TypeInv, Waiters, NEW r \in Ranks, NEW c1,
           cache' = [cache EXCEPT ![r] = c1], WaitersAt(r, c1)
    PROVE  Waiters'
<1>1. \A x \in Ranks : cache'[x] = IF x = r THEN c1 ELSE cache[x]
  BY DEF TypeInv
<1>2. \A x \in Ranks : WaitersAt(x, cache'[x])
  BY <1>1 DEF Waiters
<1>3. QED
  BY <1>2 DEF Waiters, WaitersAt

\* Nobody begins to wait.
LEMMA FewerWait ==
    ASSUME NEW r, NEW c, NEW c1, WaitersAt(r, c), c1.flush \subseteq c.flush,
           \A b \in Blobs :
              /\ c1.entries[b].loads \subseteq c.entries[b].loads
              /\ c1.entries[b].stores \subseteq c.entries[b].stores
    PROVE  WaitersAt(r, c1)
  BY DEF WaitersAt

\* A flush sends stores and lets nobody wait.
LEMMA FlushedWaiters ==
    ASSUME NEW r, NEW c \in Cache, NEW s, WaitersAt(r, c)
    PROVE  WaitersAt(r, Flushed(c, s)) /\ Flushed(c, s).flush = c.flush
           /\ Flushed(c, s).dirty = c.dirty
<1>1. Flushed(c, s).flush = c.flush /\ Flushed(c, s).dirty = c.dirty
  BY DEF Flushed, Cache
<1>2. \A b \in Blobs :
        /\ Flushed(c, s).entries[b].loads = c.entries[b].loads
        /\ Flushed(c, s).entries[b].stores = c.entries[b].stores
  <2>1. TAKE b \in Blobs
  <2>2. c.entries[b] \in Entry
    BY DEF Cache
  <2>3. Flushed(c, s).entries[b] = c.entries[b]
        \/ Flushed(c, s).entries[b] = [c.entries[b] EXCEPT !.store = TRUE]
    BY DEF Flushed, Cache
  <2>4. QED
    BY <2>2, <2>3 DEF Entry
<1>3. QED
  BY <1>1, <1>2, FewerWait

\* Those who are not in Q get no answer.
LEMMA RespondOthers ==
    ASSUME NEW a, NEW Q, NEW ok, NEW q \in Requests
    PROVE  /\ Client(q) \notin Q => Respond(a, Q, ok)[q] = a[q]
           /\ Client(q) \in Q => Respond(a, Q, ok)[q] = Append(a[q], ok)
  BY DEF Respond

\* The first answer.
LEMMA FirstAnswer ==
    /\ <<>> # <<TRUE>>
    /\ \A x \in BOOLEAN : Append(<<>>, x) = <<TRUE>> => x
<1>1. <<>> # <<TRUE>> /\ <<TRUE>>[1] = TRUE
  OBVIOUS
<1>2. \A x : Append(<<>>, x)[1] = x
  OBVIOUS
<1>3. ASSUME NEW x \in BOOLEAN, Append(<<>>, x) = <<TRUE>>
      PROVE  x
  <2>1. x = TRUE
    BY <1>1, <1>2, <1>3, Zenon
  <2>2. QED
    BY <2>1
<1>4. QED
  BY <1>1, <1>3

\* A load or store request lets a load or store wait, and answers such.
LEMMA HandleWaiters ==
    ASSUME TypeInv, Waiters, NEW r \in Ranks, NEW who \in Who, NEW t,
           NEW b \in Blobs, NEW u, NEW d, Handle(r, who, t, b, u, d),
           \A q \in Requests : who = Client(q) => request[q].kind # "flush"
    PROVE  Waiters' /\ NoFlushAnswered
<1> DEFINE c == cache[r]
           e == c.entries[b]
<1>1. c \in Cache /\ e \in Entry /\ WaitersAt(r, c)
  BY DEF TypeInv, Cache, Waiters
<1>2. \A q \in Requests : request[q].kind = "flush" =>
         Client(q) \notin {who} /\ Client(q) \notin e.loads
  BY <1>1 DEF WaitersAt
<1>3. ASSUME NEW e1 \in Entry, e1.loads \subseteq e.loads \cup {who},
             e1.stores \subseteq e.stores \cup {who},
             NEW c1, c1.flush = c.flush,
             \A y \in Blobs : c1.entries[y] = IF y = b THEN e1 ELSE c.entries[y],
             cache' = [cache EXCEPT ![r] = c1]
      PROVE  Waiters'
  <2> HIDE DEF c, e
  <2>1. WaitersAt(r, c1)
    BY <1>1, <1>2, <1>3 DEF WaitersAt, e
  <2>2. QED
    BY <1>3, <2>1, WaitersCache
<1>4. CASE content_load_request(r, who, b, u, d)
  <2>1. NoFlushAnswered
    <3>1. answer' = answer \/ \E ok : answer' = Respond(answer, {who}, ok)
      BY <1>4, Zenon DEF content_load_request
    <3> HIDE DEF c, e
    <3>2. QED
      BY <1>2, <3>1, RespondOthers DEF NoFlushAnswered
  <2>2. CASE cache' = cache
    BY <2>1, <2>2 DEF Waiters, WaitersAt
  <2>3. CASE cache' # cache
    <3> DEFINE e1 == [e EXCEPT !.st = "invalid", !.load = TRUE,
                               !.loads = @ \cup {who}]
               c1 == [c EXCEPT !.entries[b] = e1]
    <3>1. cache' = [cache EXCEPT ![r].entries[b] = e1]
      BY <1>4, <2>3, Zenon DEF content_load_request
    <3>2. cache' = [cache EXCEPT ![r] = c1]
      BY <3>1 DEF TypeInv
    <3>3. e1.loads = e.loads \cup {who} /\ e1.stores = e.stores
      BY <1>1 DEF Entry
    <3>4. e1 \in Entry
      <4>1. e.loads \cup {who} \in SUBSET Who
        BY <1>1 DEF Entry
      <4>2. e1 = [e EXCEPT !.st = "invalid", !.load = TRUE,
                           !.loads = e.loads \cup {who}]
        BY <1>1 DEF Entry
      <4> HIDE DEF e, e1
      <4>3. QED
        BY <1>1, <4>1, <4>2, EntryTypes
    <3> HIDE DEF e, e1
    <3>5. /\ c1.flush = c.flush
          /\ \A y \in Blobs : c1.entries[y] = IF y = b THEN e1 ELSE c.entries[y]
      BY <1>1 DEF Cache
    <3> HIDE DEF c, c1
    <3>6. QED
      BY <1>3, <2>1, <3>2, <3>3, <3>4, <3>5
  <2>4. QED
    BY <2>2, <2>3
<1>5. CASE content_store_request(r, who, b, u, d)
  <2>1. NoFlushAnswered
    <3>1. PICK Q : /\ Q \subseteq e.loads \cup {who}
                   /\ answer' = Respond(answer, Q, TRUE)
      BY <1>5, Zenon DEF content_store_request
    <3> HIDE DEF c, e
    <3>2. \A q \in Requests : request[q].kind = "flush" => Client(q) \notin Q
      BY <1>2, <3>1
    <3>3. \A q \in Requests : Client(q) \notin Q => answer'[q] = answer[q]
      BY <3>1, Zenon DEF Respond
    <3>4. QED
      BY <3>2, <3>3, Zenon DEF NoFlushAnswered
  <2> DEFINE fill == e.st # "valid"
             dirty == fill \/ e.dirty
             store == /\ dirty /\ (r # 0 \/ c.backing) /\ ~e.store
                      /\ r = 0 => c.batch < BatchLimit
             redirty == ~dirty /\ r = 0 /\ ~c.backing
             loads == IF fill THEN e.loads ELSE {}
             x == dirty \/ redirty
             y == e.store \/ store
             L == e.loads \ loads
             S == IF dirty /\ r # 0 THEN e.stores \cup {who} ELSE e.stores
             ed == [e EXCEPT !.st = "valid", !.dirty = x, !.store = y,
                             !.loads = L, !.stores = S]
             n == IF ed.dirty /\ ~e.dirty THEN c.dirty + 1 ELSE c.dirty
             k == IF store THEN c.batch + 1 ELSE c.batch
  <2>2. /\ L \subseteq e.loads /\ S \subseteq e.stores \cup {who}
        /\ x \in BOOLEAN /\ y \in BOOLEAN
        /\ cache' = [cache EXCEPT ![r] =
             [c EXCEPT !.entries[b] = ed, !.dirty = n, !.batch = k]]
    <3>1. x \in BOOLEAN /\ y \in BOOLEAN
      BY <1>1, Zenon DEF Entry
    <3>2. L \subseteq e.loads /\ S \subseteq e.stores \cup {who}
      OBVIOUS
    <3>3. cache' = [cache EXCEPT ![r] =
                     [c EXCEPT !.entries[b] = ed, !.dirty = n, !.batch = k]]
      BY <1>1, <1>5, Zenon DEF content_store_request, Cache, Entry
    <3>4. QED
      BY <3>1, <3>2, <3>3, Zenon
  <2> HIDE DEF x, y, L, S, n, k
  <2> DEFINE e1 == [e EXCEPT !.st = "valid", !.dirty = x, !.store = y,
                             !.loads = L, !.stores = S]
             c1 == [c EXCEPT !.entries[b] = e1, !.dirty = n, !.batch = k]
  <2>3. L \in SUBSET Who /\ S \in SUBSET Who
    BY <1>1, <2>2 DEF Entry
  <2>4. e1 \in Entry
    <3> HIDE DEF e
    <3>1. QED
      BY <1>1, <2>2, <2>3, EntryTypes
  <2>5. e1.loads = L /\ e1.stores = S
    BY <1>1 DEF Entry
  <2>6. cache' = [cache EXCEPT ![r] = c1]
    BY <2>2
  <2> HIDE DEF e, e1
  <2>7. /\ c1.flush = c.flush
        /\ \A z \in Blobs : c1.entries[z] = IF z = b THEN e1 ELSE c.entries[z]
    BY <1>1 DEF Cache
  <2> HIDE DEF c, c1
  <2>8. e1.loads \subseteq e.loads \cup {who} /\ e1.stores \subseteq e.stores \cup {who}
    <3>1. L \subseteq e.loads /\ S \subseteq e.stores \cup {who}
      BY <2>2, Zenon
    <3>2. QED
      BY <2>5, <3>1
  <2>9. Waiters'
    BY <1>3, <2>4, <2>6, <2>7, <2>8, Zenon
  <2>10. QED
    BY <2>1, <2>9
<1>6. QED
  BY <1>4, <1>5 DEF Handle

\* A load response ends the wait of loads.
LEMMA LoadContinuationWaiters ==
    ASSUME TypeInv, Waiters, NEW r \in Ranks, cache_load_continuation(r)
    PROVE  Waiters' /\ NoFlushAnswered
<1> DEFINE m == Head(down[r])
           c == cache[r]
           e == [c.entries[m.b] EXCEPT !.load = FALSE, !.loads = {}]
           done == [c EXCEPT !.entries[m.b] = e]
<1>1. m \in DownMsg /\ m.b \in Blobs
  BY TakeDown DEF cache_load_continuation, DownMsg
<1>2. c \in Cache /\ c.entries[m.b] \in Entry /\ WaitersAt(r, c)
  BY <1>1 DEF TypeInv, Cache, Waiters
<1>3. NoFlushAnswered
  <2>1. answer' = Respond(answer, c.entries[m.b].loads, m.ok)
    BY DEF cache_load_continuation
  <2> HIDE DEF c, m
  <2>2. QED
    BY <1>1, <1>2, <2>1, RespondOthers DEF NoFlushAnswered, WaitersAt
<1>4. /\ e.loads = {} /\ e.stores = c.entries[m.b].stores /\ e \in Entry
      /\ [e EXCEPT !.st = "valid"].loads = {}
      /\ [e EXCEPT !.st = "valid"].stores = c.entries[m.b].stores
  <2>1. e \in Entry
    BY <1>2, EntryTypes
  <2>2. e.loads = {} /\ e.stores = c.entries[m.b].stores
    BY <1>2 DEF Entry
  <2> HIDE DEF e
  <2>3. QED
    BY <2>1, <2>2 DEF Entry
<1>5. CASE m.ok
  <2> DEFINE v == [e EXCEPT !.st = "valid"]
             c1 == [c EXCEPT !.entries[m.b] = v]
  <2>1. cache' = [cache EXCEPT ![r].entries[m.b] = v]
    BY <1>5 DEF cache_load_continuation
  <2>2. cache' = [cache EXCEPT ![r] = c1]
    BY <2>1 DEF TypeInv
  <2>3. v.loads = {} /\ v.stores = c.entries[m.b].stores
    BY <1>4
  <2> HIDE DEF v, e
  <2>4. /\ c1.flush = c.flush
        /\ \A z \in Blobs : c1.entries[z] = IF z = m.b THEN v ELSE c.entries[z]
    BY <1>1, <1>2 DEF Cache
  <2> HIDE DEF c, c1, m
  <2>5. WaitersAt(r, c1)
    BY <1>2, <2>3, <2>4, FewerWait
  <2>6. QED
    BY <1>3, <2>2, <2>5, WaitersCache
<1>6. CASE ~m.ok
  <2> DEFINE c1 == remove_entry(done, {m.b})
  <2>1. cache' = [cache EXCEPT ![r] = c1]
    BY <1>6 DEF cache_load_continuation
  <2> HIDE DEF e
  <2>2. done \in Cache /\ done.flush = c.flush
        /\ \A z \in Blobs : done.entries[z] = IF z = m.b THEN e ELSE c.entries[z]
    BY <1>1, <1>2, <1>4 DEF Cache
  <2> HIDE DEF done
  <2>3. /\ \A z \in Blobs : c1.entries[z] = IF z \in {m.b} THEN NoEntry
                                             ELSE done.entries[z]
        /\ c1.flush = done.flush
    <3>1. {m.b} \in SUBSET Blobs
      BY <1>1
    <3>2. \A z \in Blobs : c1.entries[z] = IF z \in {m.b} THEN NoEntry
                                            ELSE done.entries[z]
      BY <2>2, <3>1, RemoveEntry
    <3>3. c1.flush = done.flush
      BY <2>2 DEF remove_entry, Cache
    <3>4. QED
      BY <3>2, <3>3
  <2>4. NoEntry.loads = {} /\ NoEntry.stores = {}
    BY DEF NoEntry
  <2> HIDE DEF c, c1, m
  <2>5. WaitersAt(r, c1)
    BY <1>2, <2>2, <2>3, <2>4, FewerWait
  <2>6. QED
    BY <1>3, <2>1, <2>5, WaitersCache
<1>7. QED
  BY <1>5, <1>6 DEF DownMsg

\* A store response ends the wait of stores, and may answer the flush requests
\* of its rank, with success if the count of dirty entries is 0.
LEMMA StoreContinuationWaiters ==
    ASSUME TypeInv, Waiters, NEW r \in Ranks, cache_store_continuation(r)
    PROVE  Waiters' /\ FlushRight
<1> DEFINE m == Head(down[r])
           e == cache[r].entries[m.b]
           e1 == [e EXCEPT !.store = FALSE, !.stores = {}, !.dirty = @ /\ ~m.ok]
           c == [cache[r] EXCEPT
                   !.entries[m.b] = e1,
                   !.batch = @ - 1,
                   !.dirty = IF m.ok /\ e.dirty THEN @ - 1 ELSE @]
           stored == Respond(answer, e.stores, m.ok)
<1>1. m \in DownMsg /\ m.b \in Blobs /\ m.ok \in BOOLEAN
  BY TakeDown DEF cache_store_continuation, DownMsg
<1>2. cache[r] \in Cache /\ e \in Entry /\ WaitersAt(r, cache[r])
  BY <1>1 DEF TypeInv, Cache, Waiters
<1>3. e1 \in Entry /\ e1.loads = e.loads /\ e1.stores = {}
  <2>1. (e.dirty /\ ~m.ok) \in BOOLEAN
    OBVIOUS
  <2>2. e1 = [e EXCEPT !.store = FALSE, !.stores = {}, !.dirty = e.dirty /\ ~m.ok]
    BY <1>2 DEF Entry
  <2>3. e1 \in Entry
    BY <1>2, <2>1, <2>2, EntryTypes, Zenon
  <2>4. e1.loads = e.loads /\ e1.stores = {}
    BY <1>2 DEF Entry
  <2>5. QED
    BY <2>3, <2>4
<1>4. c \in Cache /\ c.flush = cache[r].flush
      /\ \A z \in Blobs : c.entries[z] = IF z = m.b THEN e1 ELSE cache[r].entries[z]
  <2> DEFINE n == IF m.ok /\ e.dirty THEN cache[r].dirty - 1 ELSE cache[r].dirty
             k == cache[r].batch - 1
             E == [cache[r].entries EXCEPT ![m.b] = e1]
  <2>1. c = [cache[r] EXCEPT !.entries = E, !.batch = k, !.dirty = n]
    BY <1>2 DEF Cache
  <2> HIDE DEF e1
  <2>2. n \in Int /\ k \in Int
    BY <1>2 DEF Cache
  <2>3. E \in [Blobs -> Entry]
        /\ \A z \in Blobs : E[z] = IF z = m.b THEN e1 ELSE cache[r].entries[z]
    BY <1>1, <1>2, <1>3 DEF Cache
  <2> HIDE DEF n, k, E, c
  <2>4. c \in Cache /\ c.flush = cache[r].flush /\ c.entries = E
    BY <1>2, <2>1, <2>2, <2>3, Zenon DEF Cache
  <2>5. QED
    BY <2>3, <2>4
<1>5. WaitersAt(r, c)
  <2> HIDE DEF c, e1
  <2>1. \A z \in Blobs :
          /\ c.entries[z].loads \subseteq cache[r].entries[z].loads
          /\ c.entries[z].stores \subseteq cache[r].entries[z].stores
    BY <1>3, <1>4
  <2>2. QED
    BY <1>2, <1>4, <2>1, FewerWait
<1>6. \A q \in Requests : request[q].kind = "flush" => stored[q] = answer[q]
  <2>1. \A q \in Requests : request[q].kind = "flush" => Client(q) \notin e.stores
    BY <1>1, <1>2 DEF WaitersAt
  <2> HIDE DEF e, m
  <2>2. QED
    BY <2>1, RespondOthers
<1>7. CASE /\ cache' = [cache EXCEPT ![r] = [c EXCEPT !.flush = {}]]
           /\ answer' = Respond(stored, c.flush, c.dirty = 0)
  <2> DEFINE c1 == [c EXCEPT !.flush = {}]
             ok == c.dirty = 0
  <2> HIDE DEF c, stored
  <2>1. c1.flush = {} /\ c1.entries = c.entries /\ c1.dirty = c.dirty
    BY <1>4 DEF Cache
  <2>2. cache' = [cache EXCEPT ![r] = c1]
    BY <1>7
  <2>3. cache'[r] = c1
    BY <2>2 DEF TypeInv
  <2> HIDE DEF c1
  <2>4. WaitersAt(r, c1)
    BY <1>5, <2>1, FewerWait
  <2>5. Waiters'
    BY <2>2, <2>4, WaitersCache
  <2>6. ASSUME NEW q \in Requests, request[q].kind = "flush",
               request[q].rank = 0, answer[q] = <<>>, answer'[q] = <<TRUE>>
        PROVE  cache'[0].dirty = 0
    <3>1. ok \in BOOLEAN /\ answer' = Respond(stored, c.flush, ok)
      BY <1>7
    <3> HIDE DEF ok
    <3>2. stored[q] = <<>>
      BY <1>6, <2>6
    <3>3. /\ Client(q) \notin c.flush => answer'[q] = <<>>
          /\ Client(q) \in c.flush => answer'[q] = Append(<<>>, ok)
      BY <3>1, <3>2, Zenon DEF Respond
    <3>a. Client(q) \in c.flush /\ Append(<<>>, ok) = <<TRUE>>
      BY <2>6, <3>3, FirstAnswer, Zenon
    <3>4. ok
      BY <3>1, <3>a, FirstAnswer, Zenon
    <3>5. r = 0
      BY <1>2, <1>4, <2>6, <3>a DEF WaitersAt
    <3>6. QED
      BY <2>1, <2>3, <3>4, <3>5 DEF ok
  <2>7. QED
    BY <2>5, <2>6 DEF FlushRight
<1>8. ASSUME NEW s, cache' = [cache EXCEPT ![r] = Flushed(c, s)], answer' = stored
      PROVE  Waiters' /\ FlushRight
  <2> HIDE DEF c, stored
  <2>1. WaitersAt(r, Flushed(c, s))
    BY <1>4, <1>5, FlushedWaiters
  <2>2. Waiters'
    BY <1>8, <2>1, WaitersCache
  <2>3. <<>> # <<TRUE>>
    OBVIOUS
  <2>4. QED
    BY <1>6, <1>8, <2>2, <2>3 DEF FlushRight
<1>9. QED
  <2>1. \/ /\ cache' = [cache EXCEPT ![r] = [c EXCEPT !.flush = {}]]
           /\ answer' = Respond(stored, c.flush, c.dirty = 0)
        \/ \E s : cache' = [cache EXCEPT ![r] = Flushed(c, s)] /\ answer' = stored
    BY Zenon DEF cache_store_continuation
  <2> HIDE DEF c, stored
  <2>2. QED
    BY <1>7, <1>8, <2>1

\* Every step keeps the waiters apart and answers flushes rightly.
LEMMA WaitersNext ==
    ASSUME TypeInv, Waiters, [Next]_vars
    PROVE  Waiters' /\ FlushRight
<1>0. <<>> # <<TRUE>> /\ 0 \in Ranks
  BY ContentAssumption
<1>a. NoFlushAnswered => FlushRight
  BY <1>0 DEF NoFlushAnswered, FlushRight
<1>b. answer' = answer => FlushRight
  BY <1>0 DEF FlushRight
<1>1. CASE UNCHANGED <<cache, answer>>
  BY <1>b, <1>1 DEF Waiters
<1>2. ASSUME NEW q \in Requests, ClientRequest(q)
      PROVE  Waiters' /\ FlushRight
  <2>1. /\ request[q].rank \in Ranks /\ request[q].blob \in Blobs
        /\ Client(q) \in Who /\ request[q].kind # "flush"
        /\ Handle(request[q].rank, Client(q), request[q].kind, request[q].blob,
                  up, down)
    BY <1>2, ContentAssumption DEF ClientRequest, Who
  <2>2. \A p \in Requests : Client(q) = Client(p) => request[p].kind # "flush"
    BY <2>1 DEF Client
  <2>3. QED
    BY <1>a, <2>1, <2>2, HandleWaiters
<1>3. ASSUME NEW r \in Ranks, ChildRequest(r)
      PROVE  Waiters' /\ FlushRight
  <2>1. r # 0 /\ Parent[r] \in Ranks /\ Child(r) \in Who
    BY <1>3, ContentAssumption DEF ChildRequest, Who
  <2>2. Head(up[r]).b \in Blobs
    <3>1. up[r] \in Seq(UpMsg) /\ up[r] # <<>>
      BY <1>3 DEF ChildRequest, TypeInv
    <3>2. Head(up[r]) \in UpMsg
      BY <3>1
    <3>3. QED
      BY <3>2 DEF UpMsg
  <2>3. Handle(Parent[r], Child(r), Head(up[r]).t, Head(up[r]).b,
               [up EXCEPT ![r] = Tail(@)], down)
    BY <1>3 DEF ChildRequest
  <2>4. \A p \in Requests : Child(r) = Client(p) => request[p].kind # "flush"
    BY WhoIsWho
  <2>5. QED
    BY <1>a, <2>1, <2>2, <2>3, <2>4, HandleWaiters
<1>4. ASSUME NEW q \in Requests, content_flush_request(q)
      PROVE  Waiters' /\ FlushRight
  <2> DEFINE r == request[q].rank
             c == cache[r]
  <2>1. r \in Ranks /\ c \in Cache /\ WaitersAt(r, c) /\ request[q].kind = "flush"
    BY <1>4, ContentAssumption, Zenon DEF TypeInv, Waiters, content_flush_request
  <2>2. CASE /\ c.dirty = 0 /\ cache' = cache
             /\ answer' = Respond(answer, {Client(q)}, TRUE)
    <3>1. Waiters'
      BY <2>2 DEF Waiters
    <3>2. ASSUME NEW p \in Requests, request[p].rank = 0, answer[p] = <<>>,
                 answer'[p] = <<TRUE>>
          PROVE  cache'[0].dirty = 0
      <4>0. Client(p) \notin {Client(q)} => answer'[p] = answer[p]
        BY <2>2, Zenon DEF Respond
      <4>1. Client(p) \in {Client(q)}
        BY <1>0, <3>2, <4>0, Zenon
      <4>2. p = q
        BY <4>1 DEF Client
      <4>3. QED
        BY <2>2, <3>2, <4>2
    <3>3. QED
      BY <3>1, <3>2 DEF FlushRight
  <2>3. ASSUME NEW s, answer' = answer,
               cache' = [cache EXCEPT ![r] =
                           [Flushed(c, s) EXCEPT !.flush = @ \cup {Client(q)}]]
        PROVE  Waiters' /\ FlushRight
    <3> DEFINE f == Flushed(c, s)
               c1 == [f EXCEPT !.flush = @ \cup {Client(q)}]
    <3>1. WaitersAt(r, f) /\ f.flush = c.flush
      BY <2>1, FlushedWaiters
    <3>2. c1.flush = f.flush \cup {Client(q)} /\ c1.entries = f.entries
      BY <2>1 DEF Flushed, Cache
    <3>3. \A p \in Requests : Client(p) = Client(q) => p = q
      BY DEF Client
    <3>4. cache' = [cache EXCEPT ![r] = c1]
      BY <2>3
    <3> HIDE DEF f, c1, c
    <3>5. WaitersAt(r, c1)
      BY <2>1, <3>1, <3>2, <3>3 DEF WaitersAt
    <3> HIDE DEF r
    <3>6. QED
      BY <1>b, <2>1, <2>3, <3>4, <3>5, WaitersCache
  <2>4. QED
    <3>1. \/ /\ c.dirty = 0 /\ cache' = cache
             /\ answer' = Respond(answer, {Client(q)}, TRUE)
          \/ /\ answer' = answer
             /\ \E s : cache' = [cache EXCEPT ![r] =
                         [Flushed(c, s) EXCEPT !.flush = @ \cup {Client(q)}]]
      BY <1>4, Zenon DEF content_flush_request
    <3> HIDE DEF c, r
    <3>2. QED
      BY <2>2, <2>3, <3>1
<1>5. ASSUME NEW r \in Ranks, Continuation(r)
      PROVE  Waiters' /\ FlushRight
  BY <1>a, <1>5, LoadContinuationWaiters, StoreContinuationWaiters
     DEF Continuation
<1>6. ASSUME NEW r \in Ranks, content_dropcache_request(r) \/ cache_purge(r)
      PROVE  Waiters' /\ FlushRight
  <2>1. PICK S \in SUBSET Blobs : drop(r, S)
    BY <1>6 DEF content_dropcache_request, cache_purge, Droppable
  <2> DEFINE c1 == remove_entry(cache[r], S)
  <2>2. cache' = [cache EXCEPT ![r] = c1] /\ answer' = answer
    BY <2>1 DEF drop
  <2>3. cache[r] \in Cache /\ WaitersAt(r, cache[r])
    BY DEF TypeInv, Waiters
  <2>4. \A b \in Blobs : c1.entries[b] = IF b \in S THEN NoEntry
                                          ELSE cache[r].entries[b]
    <3>1. cache[r] \in Cache /\ S \in SUBSET Blobs
      BY <2>1, <2>3
    <3>2. QED
      BY <3>1, RemoveEntry
  <2>5. c1.flush = cache[r].flush
    BY <2>3 DEF remove_entry, Cache
  <2>6. NoEntry.loads = {} /\ NoEntry.stores = {}
    BY DEF NoEntry
  <2> HIDE DEF c1
  <2>7. WaitersAt(r, c1)
    BY <2>3, <2>4, <2>5, <2>6, FewerWait
  <2>8. QED
    BY <1>b, <2>2, <2>7, WaitersCache
<1>7. CASE Backing
  BY <1>1, <1>7 DEF Backing, load_cb, store_cb, fault, enosys, Answered
<1>8. CASE content_unregister_backing_store
  <2> DEFINE c1 == [cache[0] EXCEPT !.backing = FALSE]
  <2>1. cache' = [cache EXCEPT ![0] = c1] /\ answer' = answer
    BY <1>8 DEF content_unregister_backing_store
  <2>2. c1.entries = cache[0].entries /\ c1.flush = cache[0].flush
    BY <1>0 DEF TypeInv, Cache
  <2> HIDE DEF c1
  <2>3. WaitersAt(0, c1)
    BY <1>0, <2>2 DEF Waiters, WaitersAt
  <2>4. QED
    BY <1>0, <1>b, <2>1, <2>3, WaitersCache
<1>9. CASE content_register_backing_store
  <2> DEFINE c == [cache[0] EXCEPT !.backing = TRUE]
  <2>1. PICK s : cache' = [cache EXCEPT ![0] = Flushed(c, s)]
    BY <1>9, Zenon DEF content_register_backing_store
  <2>2. answer' = answer
    BY <1>9 DEF content_register_backing_store
  <2>3. cache[0] \in Cache
    BY <1>0 DEF TypeInv
  <2>4. c \in Cache /\ c.entries = cache[0].entries /\ c.flush = cache[0].flush
    BY <2>3, Zenon DEF Cache
  <2> HIDE DEF c
  <2>5. WaitersAt(0, c)
    BY <1>0, <2>4 DEF Waiters, WaitersAt
  <2>6. WaitersAt(0, Flushed(c, s))
    BY <2>4, <2>5, FlushedWaiters
  <2>7. QED
    BY <1>0, <1>b, <2>1, <2>2, <2>6, WaitersCache
<1>10. QED
  BY <1>1, <1>2, <1>3, <1>4, <1>5, <1>6, <1>7, <1>8, <1>9
     DEF Next, vars, ModuleMain, stop, content_register_service, exited

\* Nobody waits at first.
LEMMA WaitersInit == Init => Waiters
<1>1. content_cache_create.flush = {} /\ \A b \in Blobs :
        content_cache_create.entries[b] = NoEntry
  BY DEF content_cache_create
<1>2. NoEntry.loads = {} /\ NoEntry.stores = {}
  BY DEF NoEntry
<1>3. \A r : WaitersAt(r, content_cache_create)
  BY <1>1, <1>2 DEF WaitersAt
<1>4. QED
  BY <1>3 DEF Init, Waiters

\* When a flush of rank 0 is answered with success, acct_dirty is 0 because no
\* entry is dirty: all blobs whose store was answered are in the backing store,
\* as long as those blobs can be loaded at all and no freed entry is in use.
THEOREM ContentFlushDone ==
    Spec /\ [](StoredLoadable /\ NothingDangling) => FlushDurable
<1> DEFINE A == \A q \in Requests :
                  /\ request[q].kind = "flush" /\ request[q].rank = 0
                  /\ answer[q] = <<>> /\ answer'[q] = <<TRUE>>
                  => StoredBlobs' \subseteq db'
<1>1. ASSUME FlushRight, ContentInv', StoredLoadable', NothingDangling'
      PROVE  A
  <2>1. SUFFICES ASSUME cache'[0].dirty = 0
                 PROVE  StoredBlobs' \subseteq db'
    BY <1>1 DEF FlushRight
  <2>2. 0 \in Ranks /\ cache'[0] \in Cache /\ Counted(cache'[0])
    <3>1. 0 \in Ranks
      BY ContentAssumption
    <3>2. TypeInv' /\ CacheInv(cache')
      BY <1>1 DEF ContentInv, NothingDangling
    <3>3. QED
      BY <3>1, <3>2 DEF TypeInv, CacheInv
  <2>3. Dirty(cache'[0]) = {}
    BY <2>1, <2>2, CountedTodo
  <2>4. \A b \in Blobs : ~cache'[0].entries[b].dirty
    BY <2>3 DEF Dirty
  <2>5. \A b \in StoredBlobs' : b \in Blobs
    BY ContentAssumption DEF StoredBlobs
  <2>6. QED
    BY <1>1, <2>4, <2>5 DEF StoredLoadable
<1>2. ContentInv => TypeInv
  BY DEF ContentInv
<1>3. TypeInv /\ Waiters /\ [Next]_vars => Waiters' /\ FlushRight
  BY WaitersNext
<1>4. FlushRight /\ ContentInv' /\ StoredLoadable' /\ NothingDangling' => [A]_vars
  BY <1>1
<1>5. QED
  BY <1>2, <1>3, <1>4, ContentInvariant, WaitersInit, PTL
     DEF Spec, FlushDurable
=============================================================================
