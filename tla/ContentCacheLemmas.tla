------------------------- MODULE ContentCacheLemmas -------------------------
(***************************************************************************)
(* The inductive invariant of the content cache, and the lemmas about what *)
(* requests and flushes keep of it: the cache of one rank, the queues of   *)
(* messages, and then the requests of clients and children.                *)
(***************************************************************************)
EXTENDS ContentCache, Integers, FiniteSetTheorems, SequenceTheorems, TLAPS

-----------------------------------------------------------------------------
(* Types *)

Who == {Client(q) : q \in Requests} \cup {Child(r) : r \in Ranks \ {0}}

Entry == [st : {"none", "invalid", "valid"}, dirty : BOOLEAN,
          load : BOOLEAN, store : BOOLEAN,
          loads : SUBSET Who, stores : SUBSET Who]

Cache == [entries : [Blobs -> Entry], backing : BOOLEAN, dirty : Int,
          batch : Int, flush : SUBSET Who]

UpMsg == [t : {"load", "store"}, b : Blobs]
DownMsg == [t : {"load", "store"}, b : Blobs, ok : BOOLEAN]

TypeInv ==
    /\ cache \in [Ranks -> Cache]
    /\ up \in [Ranks -> Seq(UpMsg)]
    /\ down \in [Ranks -> Seq(DownMsg)]
    /\ db \subseteq Blobs
    /\ dangling \in BOOLEAN

-----------------------------------------------------------------------------
(* One cache *)

\* The counters of one cache agree with its entries.
Counted(c) ==
    /\ c.dirty = Cardinality(Dirty(c))
    /\ c.batch = Cardinality(Storing(c))
    /\ Storing(c) \subseteq Dirty(c)

\* Its flush goes on.
GoesOn(r, c) ==
    \/ c.batch > 0
    \/ c.flush = {} /\ (r # 0 \/ c.backing => Dirty(c) = {})

\* The changes of an entry keep its type.
LEMMA EntryTypes ==
    ASSUME NEW e \in Entry, NEW x \in BOOLEAN, NEW y \in BOOLEAN,
           NEW L \in SUBSET Who, NEW S \in SUBSET Who
    PROVE  /\ [e EXCEPT !.store = TRUE] \in Entry
           /\ [e EXCEPT !.st = "valid"] \in Entry
           /\ [e EXCEPT !.load = FALSE, !.loads = {}] \in Entry
           /\ [e EXCEPT !.st = "invalid", !.load = TRUE, !.loads = L] \in Entry
           /\ [e EXCEPT !.store = FALSE, !.stores = {}, !.dirty = x] \in Entry
           /\ [e EXCEPT !.st = "valid", !.dirty = x, !.store = y, !.loads = L,
                        !.stores = S] \in Entry
<1>1. [e EXCEPT !.store = TRUE] \in Entry
  BY Zenon DEF Entry
<1>2. [e EXCEPT !.st = "valid"] \in Entry
  BY DEF Entry
<1>3. [e EXCEPT !.load = FALSE, !.loads = {}] \in Entry
  BY Zenon DEF Entry
<1>4. [e EXCEPT !.st = "invalid", !.load = TRUE, !.loads = L] \in Entry
  BY Zenon DEF Entry
<1>5. [e EXCEPT !.store = FALSE, !.stores = {}, !.dirty = x] \in Entry
  BY Zenon DEF Entry
<1>6. [e EXCEPT !.st = "valid", !.dirty = x, !.store = y, !.loads = L,
               !.stores = S] \in Entry
  BY Zenon DEF Entry
<1>7. QED
  BY <1>1, <1>2, <1>3, <1>4, <1>5, <1>6

\* Sets of blobs are finite, and their sizes natural numbers.
LEMMA BlobSets ==
    ASSUME NEW S \in SUBSET Blobs
    PROVE  /\ IsFiniteSet(S) /\ Cardinality(S) \in Nat
           /\ Cardinality(S) = 0 <=> S = {}
  BY ContentAssumption, FS_Subset, FS_CardinalityType, FS_EmptySet

\* The sizes of two sets of blobs differ if one is a proper part of the other.
LEMMA BlobSubsets ==
    ASSUME NEW S \in SUBSET Blobs, NEW T \in SUBSET S
    PROVE  /\ Cardinality(T) <= Cardinality(S)
           /\ Cardinality(T) = Cardinality(S) => T = S
           /\ Cardinality(S \ T) = Cardinality(S) - Cardinality(T)
<1>1. IsFiniteSet(S) /\ IsFiniteSet(T)
  BY BlobSets
<1>2. S \cap T = T
  OBVIOUS
<1>3. Cardinality(S \ T) = Cardinality(S) - Cardinality(S \cap T)
  BY <1>1, FS_Difference
<1>4. QED
  BY <1>1, <1>2, <1>3, FS_Subset, Zenon

\* A cache whose counters are right has work to send unless all that is dirty
\* was sent.
LEMMA CountedTodo ==
    ASSUME NEW c \in Cache, Counted(c)
    PROVE  /\ c.dirty \in Nat /\ c.batch \in Nat
           /\ Dirty(c) \in SUBSET Blobs /\ Storing(c) \in SUBSET Blobs
           /\ c.batch <= c.dirty
           /\ c.dirty # c.batch => Dirty(c) \ Storing(c) # {}
           /\ c.dirty = 0 <=> Dirty(c) = {}
           /\ c.batch = 0 <=> Storing(c) = {}
<1>1. Dirty(c) \in SUBSET Blobs /\ Storing(c) \in SUBSET Blobs
  BY DEF Dirty, Storing
<1>2. /\ Cardinality(Dirty(c)) \in Nat /\ Cardinality(Storing(c)) \in Nat
      /\ Cardinality(Dirty(c)) = 0 <=> Dirty(c) = {}
      /\ Cardinality(Storing(c)) = 0 <=> Storing(c) = {}
  BY <1>1, BlobSets
<1>3. Storing(c) \in SUBSET Dirty(c)
  BY DEF Counted
<1>4. /\ Cardinality(Storing(c)) <= Cardinality(Dirty(c))
      /\ Cardinality(Storing(c)) = Cardinality(Dirty(c)) => Storing(c) = Dirty(c)
      /\ Cardinality(Dirty(c) \ Storing(c))
            = Cardinality(Dirty(c)) - Cardinality(Storing(c))
  BY <1>1, <1>3, BlobSubsets
<1>5. Cardinality({}) = 0
  BY FS_EmptySet
<1>6. c.dirty # c.batch => Dirty(c) \ Storing(c) # {}
  BY <1>2, <1>4, <1>5 DEF Counted
<1>7. QED
  BY <1>1, <1>2, <1>4, <1>6 DEF Counted

\* The stores that cache_flush sends are distinct, of entries that are dirty
\* and not sent; there is one if there is work and room for it.
LEMMA FlushStores ==
    ASSUME NEW c \in Cache, Counted(c), NEW s \in cache_flush(c)
    PROVE  /\ s \in Seq(Dirty(c) \ Storing(c))
           /\ \A i, k \in DOMAIN s : s[i] = s[k] => i = k
           /\ c.dirty # c.batch /\ c.batch < BatchLimit => Len(s) > 0
<1> DEFINE todo == Dirty(c) \ Storing(c)
           room == BatchLimit - c.batch
           n == IF Cardinality(todo) < room THEN Cardinality(todo) ELSE room
<1>1. CASE c.dirty = c.batch \/ c.batch >= BatchLimit
  <2>1. s = <<>>
    BY <1>1 DEF cache_flush
  <2>2. ~(c.dirty # c.batch /\ c.batch < BatchLimit)
    BY <1>1, CountedTodo, ContentAssumption
  <2>3. QED
    BY <2>1, <2>2
<1>2. CASE ~(c.dirty = c.batch \/ c.batch >= BatchLimit)
  <2>1. todo \in SUBSET Blobs /\ todo # {}
    BY <1>2, CountedTodo
  <2>2. Cardinality(todo) \in Nat /\ Cardinality(todo) > 0
    BY <2>1, BlobSets
  <2>3. n \in Nat /\ n > 0
    BY <1>2, <2>2, CountedTodo, ContentAssumption
  <2>4. s \in [1..n -> todo] /\ \A i, k \in 1..n : s[i] = s[k] => i = k
    BY <1>2, Zenon DEF cache_flush
  <2> HIDE DEF n, todo
  <2>5. s \in Seq(todo) /\ Len(s) = n /\ DOMAIN s = 1..n
    BY <2>3, <2>4
  <2>6. QED
    BY <2>3, <2>4, <2>5 DEF todo
<1>3. QED
  BY <1>1, <1>2

\* What Flushed changes: the entries of s are sent.
LEMMA FlushedIs ==
    ASSUME NEW c \in Cache, Counted(c), NEW s \in Seq(Dirty(c) \ Storing(c)),
           \A i, k \in DOMAIN s : s[i] = s[k] => i = k
    PROVE  LET f == Flushed(c, s)
           IN /\ f \in Cache /\ Counted(f)
              /\ Dirty(f) = Dirty(c) /\ f.batch = c.batch + Len(s)
              /\ f.backing = c.backing /\ f.flush = c.flush /\ f.dirty = c.dirty
              /\ \A b \in Blobs :
                   /\ f.entries[b].store
                        <=> c.entries[b].store \/ \E i \in DOMAIN s : s[i] = b
                   /\ f.entries[b].stores = c.entries[b].stores
                   /\ f.entries[b].st = c.entries[b].st
                   /\ f.entries[b].dirty = c.entries[b].dirty
<1> DEFINE f == Flushed(c, s)
           R == {s[i] : i \in DOMAIN s}
<1>1. f \in Cache
  <2> DEFINE E == [b \in Blobs |-> IF \E i \in DOMAIN s : s[i] = b
                                   THEN [c.entries[b] EXCEPT !.store = TRUE]
                                   ELSE c.entries[b]]
  <2>1. c.batch + Len(s) \in Int
    BY DEF Cache
  <2>2. \A b \in Blobs : [c.entries[b] EXCEPT !.store = TRUE] \in Entry
    BY EntryTypes, Zenon DEF Cache
  <2>3. E \in [Blobs -> Entry]
    BY <2>2 DEF Cache
  <2>4. f = [c EXCEPT !.entries = E, !.batch = c.batch + Len(s)]
    BY DEF Flushed, Cache
  <2> HIDE DEF E, f
  <2>5. QED
    BY <2>1, <2>3, <2>4, Zenon DEF Cache
<1>2. /\ f.batch = c.batch + Len(s)
      /\ f.backing = c.backing /\ f.flush = c.flush /\ f.dirty = c.dirty
  BY DEF Flushed, Cache
<1>3. \A b \in Blobs : f.entries[b] = IF \E i \in DOMAIN s : s[i] = b
                                      THEN [c.entries[b] EXCEPT !.store = TRUE]
                                      ELSE c.entries[b]
  BY DEF Flushed, Cache
<1>4. \A b \in Blobs : /\ f.entries[b].store
                            <=> c.entries[b].store \/ \E i \in DOMAIN s : s[i] = b
                       /\ f.entries[b].stores = c.entries[b].stores
                       /\ f.entries[b].st = c.entries[b].st
                       /\ f.entries[b].dirty = c.entries[b].dirty
  <2> SUFFICES ASSUME NEW b \in Blobs
               PROVE  /\ f.entries[b].store
                           <=> c.entries[b].store \/ \E i \in DOMAIN s : s[i] = b
                      /\ f.entries[b].stores = c.entries[b].stores
                      /\ f.entries[b].st = c.entries[b].st
                      /\ f.entries[b].dirty = c.entries[b].dirty
    OBVIOUS
  <2>1. c.entries[b] \in Entry
    BY DEF Cache
  <2>2. CASE \E i \in DOMAIN s : s[i] = b
    <3>1. f.entries[b] = [c.entries[b] EXCEPT !.store = TRUE]
      BY <1>3, <2>2
    <3>2. f.entries[b].store
      BY <2>1, <3>1 DEF Entry
    <3>3. QED
      BY <2>1, <2>2, <3>1, <3>2 DEF Entry
  <2>3. CASE ~\E i \in DOMAIN s : s[i] = b
    <3>1. f.entries[b] = c.entries[b]
      BY <1>3, <2>3, Zenon
    <3>2. QED
      BY <2>3, <3>1
  <2>4. QED
    BY <2>2, <2>3
<1>5. R \in SUBSET (Dirty(c) \ Storing(c)) /\ Cardinality(R) = Len(s)
  <2>1. R \in SUBSET (Dirty(c) \ Storing(c))
    OBVIOUS
  <2>2. s \in Bijection(1..Len(s), R)
    <3>1. s \in [1..Len(s) -> R] /\ DOMAIN s = 1..Len(s)
      OBVIOUS
    <3>2. \A x \in R : \E i \in 1..Len(s) : s[i] = x
      BY <3>1
    <3>3. \A i, k \in 1..Len(s) : s[i] = s[k] => i = k
      BY <3>1
    <3> HIDE DEF R
    <3>4. QED
      BY <3>1, <3>2, <3>3 DEF Bijection, Injection, Surjection, IsInjective
  <2>3. IsFiniteSet(1..Len(s)) /\ Cardinality(1..Len(s)) = Len(s)
    <3>1. Len(s) \in Nat
      OBVIOUS
    <3>2. QED
      BY <3>1, FS_Interval
  <2>4. Cardinality(R) = Cardinality(1..Len(s))
    BY <2>2, <2>3, FS_Bijection DEF ExistsBijection
  <2>5. QED
    BY <2>1, <2>3, <2>4
<1>6. Dirty(f) = Dirty(c) /\ Storing(f) = Storing(c) \cup R
  <2>1. Dirty(f) = Dirty(c)
    BY <1>4 DEF Dirty
  <2>2. R \in SUBSET Blobs
    BY <1>5 DEF Dirty
  <2>3. QED
    BY <1>4, <2>1, <2>2 DEF Storing
<1>7. Cardinality(Storing(f)) = Cardinality(Storing(c)) + Len(s)
  <2>1. IsFiniteSet(Storing(c)) /\ IsFiniteSet(R) /\ Storing(c) \cap R = {}
    BY <1>5, BlobSets DEF Storing, Dirty
  <2>2. Cardinality(Storing(c) \cup R)
          = Cardinality(Storing(c)) + Cardinality(R) - Cardinality({})
    BY <2>1, FS_Union, Zenon
  <2>3. Cardinality(Storing(c)) \in Nat /\ Len(s) \in Nat
    BY <2>1, FS_CardinalityType
  <2>4. QED
    BY <1>5, <1>6, <2>2, <2>3, FS_EmptySet
<1>8. Counted(f)
  BY <1>2, <1>5, <1>6, <1>7 DEF Counted
<1>9. QED
  BY <1>1, <1>2, <1>4, <1>6, <1>8

\* After a flush of a cache that has dirty entries, a store is under way.
LEMMA FlushGoes ==
    ASSUME NEW c \in Cache, Counted(c), NEW s \in cache_flush(c), c.dirty # 0
    PROVE  Flushed(c, s).batch > 0
<1>1. s \in Seq(Dirty(c) \ Storing(c))
  BY FlushStores
<1>2. Flushed(c, s).batch = c.batch + Len(s) /\ Len(s) \in Nat
  BY <1>1 DEF Flushed, Cache
<1>3. /\ c.dirty # c.batch /\ c.batch < BatchLimit => Len(s) > 0
      /\ c.dirty \in Nat /\ c.batch \in Nat
  BY FlushStores, CountedTodo, Zenon
<1>4. QED
  BY <1>2, <1>3, ContentAssumption

-----------------------------------------------------------------------------
(* Queues of messages *)

\* A store of b is in the queue, and no store is there twice.
Has(q, b) == \E i \in DOMAIN q : q[i].t = "store" /\ q[i].b = b

Once(q) ==
    \A i, k \in DOMAIN q :
        q[i].t = "store" /\ q[k].t = "store" /\ q[i].b = q[k].b => i = k

\* An empty queue has nothing.
LEMMA EmptyQueue == Once(<<>>) /\ \A b : ~Has(<<>>, b)
  BY DEF Once, Has

\* A load that is appended, or taken, changes nothing of the stores.
LEMMA AppendLoad ==
    ASSUME NEW M, NEW q \in Seq(M), Once(q), NEW m \in M, m.t # "store"
    PROVE  Once(Append(q, m)) /\ \A b : Has(Append(q, m), b) <=> Has(q, b)
<1> DEFINE a == Append(q, m)
<1>1. DOMAIN a = 1..(Len(q) + 1) /\ DOMAIN q = 1..Len(q) /\ Len(q) \in Nat
  OBVIOUS
<1>2. (\A i \in DOMAIN q : a[i] = q[i]) /\ a[Len(q) + 1] = m
  OBVIOUS
<1> HIDE DEF a
<1>3. \A i \in DOMAIN a : a[i].t = "store" => i \in DOMAIN q
  BY <1>1, <1>2
<1>4. DOMAIN q \subseteq DOMAIN a
  BY <1>1
<1>5. Once(a)
  BY <1>2, <1>3 DEF Once
<1>6. \A b : Has(a, b) <=> Has(q, b)
  BY <1>2, <1>3, <1>4 DEF Has
<1>7. QED
  BY <1>5, <1>6 DEF a

\* A store is appended to a queue that does not have it.
LEMMA AppendStore ==
    ASSUME NEW M, NEW q \in Seq(M), Once(q), NEW m \in M, m.t = "store",
           ~Has(q, m.b)
    PROVE  /\ Once(Append(q, m))
           /\ \A b : Has(Append(q, m), b) <=> Has(q, b) \/ b = m.b
<1> DEFINE a == Append(q, m)
<1>1. DOMAIN a = 1..(Len(q) + 1) /\ DOMAIN q = 1..Len(q) /\ Len(q) \in Nat
  OBVIOUS
<1>2. (\A i \in DOMAIN q : a[i] = q[i]) /\ a[Len(q) + 1] = m
  OBVIOUS
<1> HIDE DEF a
<1>3. \A i \in DOMAIN a : i \in DOMAIN q \/ i = Len(q) + 1
  BY <1>1
<1>4. DOMAIN q \subseteq DOMAIN a /\ Len(q) + 1 \in DOMAIN a
  BY <1>1
<1>5. Once(a)
  BY <1>2, <1>3 DEF Once, Has
<1>6. \A b : Has(a, b) <=> Has(q, b) \/ b = m.b
  BY <1>2, <1>3, <1>4 DEF Has
<1>7. QED
  BY <1>5, <1>6 DEF a

\* Several stores are appended.
LEMMA ConcatStores ==
    ASSUME NEW q \in Seq(UpMsg), Once(q), NEW s \in Seq(Blobs),
           \A i, k \in DOMAIN s : s[i] = s[k] => i = k,
           \A i \in DOMAIN s : ~Has(q, s[i])
    PROVE  /\ q \o Stores(s) \in Seq(UpMsg)
           /\ Once(q \o Stores(s))
           /\ \A b : Has(q \o Stores(s), b)
                       <=> Has(q, b) \/ \E i \in DOMAIN s : s[i] = b
<1> DEFINE z == Stores(s)
           a == q \o z
<1>1. z \in Seq(UpMsg) /\ Len(z) = Len(s) /\ DOMAIN z = DOMAIN s
      /\ \A i \in DOMAIN s : z[i] = Message("store", s[i])
  <2>1. DOMAIN s = 1..Len(s) /\ Len(s) \in Nat
    OBVIOUS
  <2>2. \A i \in DOMAIN s : Message("store", s[i]) \in UpMsg
    BY DEF Message, UpMsg
  <2>3. QED
    BY <2>1, <2>2 DEF Stores
<1>2. /\ DOMAIN s = 1..Len(s) /\ Len(s) \in Nat
      /\ DOMAIN q = 1..Len(q) /\ Len(q) \in Nat
  OBVIOUS
<1> HIDE DEF z
<1>3. /\ a \in Seq(UpMsg) /\ DOMAIN a = 1..(Len(q) + Len(s))
      /\ \A i \in DOMAIN q : a[i] = q[i]
      /\ \A i \in DOMAIN s : a[Len(q) + i] = z[i]
  <2>1. /\ a \in Seq(UpMsg) /\ Len(a) = Len(q) + Len(z)
        /\ \A i \in 1..(Len(q) + Len(z)) :
             a[i] = IF i <= Len(q) THEN q[i] ELSE z[i - Len(q)]
    <3>1. z \in Seq(UpMsg)
      BY <1>1
    <3>2. /\ q \o z \in Seq(UpMsg)
          /\ Len(q \o z) = Len(q) + Len(z)
          /\ \A i \in 1 .. Len(q) + Len(z) :
               (q \o z)[i] = IF i <= Len(q) THEN q[i] ELSE z[i - Len(q)]
      BY ONLY q \in Seq(UpMsg), <3>1, ConcatProperties, Zenon
    <3>3. QED
      BY <3>2
  <2> HIDE DEF a
  <2>2. \A i \in DOMAIN q : a[i] = q[i]
    BY <1>1, <1>2, <2>1
  <2>3. ASSUME NEW i \in DOMAIN s PROVE a[Len(q) + i] = z[i]
    <3>1. Len(q) + i \in 1..(Len(q) + Len(z)) /\ ~(Len(q) + i <= Len(q))
          /\ (Len(q) + i) - Len(q) = i
      BY <1>1, <1>2
    <3>2. QED
      BY <2>1, <3>1
  <2>4. QED
    BY <1>1, <1>2, <2>1, <2>2, <2>3
<1> HIDE DEF a
<1>4. \A i \in DOMAIN a : \/ i \in DOMAIN q
                          \/ i - Len(q) \in DOMAIN s
                             /\ a[i] = Message("store", s[i - Len(q)])
  <2> SUFFICES ASSUME NEW i \in DOMAIN a, i \notin DOMAIN q
               PROVE  i - Len(q) \in DOMAIN s
                      /\ a[i] = Message("store", s[i - Len(q)])
    OBVIOUS
  <2>1. i - Len(q) \in DOMAIN s /\ i = Len(q) + (i - Len(q))
    BY <1>2, <1>3
  <2>2. QED
    BY <1>1, <1>3, <2>1
<1>5. Once(a)
  <2> SUFFICES ASSUME NEW i \in DOMAIN a, NEW k \in DOMAIN a,
                      a[i].t = "store", a[k].t = "store", a[i].b = a[k].b
               PROVE  i = k
    BY DEF Once
  <2>1. CASE i \in DOMAIN q /\ k \in DOMAIN q
    BY <1>3, <2>1 DEF Once
  <2>2. CASE i \in DOMAIN q /\ k \notin DOMAIN q
    BY <1>3, <1>4, <2>2 DEF Has, Message
  <2>3. CASE i \notin DOMAIN q /\ k \in DOMAIN q
    BY <1>3, <1>4, <2>3 DEF Has, Message
  <2>4. CASE i \notin DOMAIN q /\ k \notin DOMAIN q
    <3>1. i - Len(q) = k - Len(q)
      BY <1>4, <2>4 DEF Message
    <3>2. QED
      BY <1>2, <1>3, <3>1
  <2>5. QED
    BY <2>1, <2>2, <2>3, <2>4
<1>6. ASSUME NEW b
      PROVE  Has(a, b) <=> Has(q, b) \/ \E i \in DOMAIN s : s[i] = b
  <2>1. Has(a, b) => Has(q, b) \/ \E i \in DOMAIN s : s[i] = b
    BY <1>3, <1>4 DEF Has, Message
  <2>2. Has(q, b) => Has(a, b)
    BY <1>2, <1>3 DEF Has
  <2>3. ASSUME NEW i \in DOMAIN s, s[i] = b PROVE Has(a, b)
    <3>1. Len(q) + i \in DOMAIN a /\ a[Len(q) + i] = Message("store", b)
      BY <1>1, <1>2, <1>3, <2>3
    <3>2. QED
      BY <3>1 DEF Has, Message
  <2>4. QED
    BY <2>1, <2>2, <2>3
<1>7. QED
  BY <1>3, <1>5, <1>6 DEF a, z

\* The head of a queue is taken.
LEMMA TakeHead ==
    ASSUME NEW M, NEW q \in Seq(M), Once(q), q # <<>>
    PROVE  /\ Head(q) \in M /\ Tail(q) \in Seq(M) /\ Once(Tail(q))
           /\ Head(q).t = "store" => Has(q, Head(q).b) /\ ~Has(Tail(q), Head(q).b)
           /\ \A b : Has(Tail(q), b) => Has(q, b)
           /\ Head(q).t # "store" => \A b : Has(Tail(q), b) <=> Has(q, b)
<1> DEFINE a == Tail(q)
<1>1. /\ Len(q) \in Nat /\ Len(q) > 0 /\ DOMAIN q = 1..Len(q) /\ a \in Seq(M)
      /\ DOMAIN a = 1..(Len(q) - 1) /\ Head(q) = q[1] /\ Head(q) \in M
  OBVIOUS
<1>2. \A i \in DOMAIN a : a[i] = q[i + 1]
  OBVIOUS
<1> HIDE DEF a
<1>3. \A i \in DOMAIN a : i + 1 \in DOMAIN q /\ i + 1 # 1
  BY <1>1
<1>4. \A i \in DOMAIN q : i # 1 => i - 1 \in DOMAIN a /\ a[i - 1] = q[i]
  <2> SUFFICES ASSUME NEW i \in DOMAIN q, i # 1
               PROVE  i - 1 \in DOMAIN a /\ a[i - 1] = q[i]
    OBVIOUS
  <2>1. i - 1 \in DOMAIN a /\ (i - 1) + 1 = i
    BY <1>1
  <2>2. QED
    BY <1>2, <2>1
<1>5. Once(a)
  <2> SUFFICES ASSUME NEW i \in DOMAIN a, NEW k \in DOMAIN a,
                      a[i].t = "store", a[k].t = "store", a[i].b = a[k].b
               PROVE  i = k
    BY DEF Once
  <2>1. i + 1 = k + 1
    BY <1>2, <1>3 DEF Once
  <2>2. QED
    BY <1>1, <2>1
<1>6. \A b : Has(a, b) => Has(q, b)
  BY <1>2, <1>3 DEF Has
<1>7. q[1].t = "store" => Has(q, q[1].b) /\ ~Has(a, q[1].b)
  <2>1. 1 \in DOMAIN q
    BY <1>1
  <2>2. QED
    BY <1>2, <1>3, <2>1 DEF Has, Once
<1>8. q[1].t # "store" => \A b : Has(q, b) => Has(a, b)
  BY <1>4 DEF Has
<1>9. QED
  BY <1>1, <1>5, <1>6, <1>7, <1>8 DEF a

-----------------------------------------------------------------------------
(* The inductive invariant *)

\* Rank r waits for its parent to store b.
Waits(ca, r, b) == r # 0 /\ Child(r) \in ca[Parent[r]].entries[b].stores

\* A store that is pending is in one place: on the way up, with the parent, or
\* on the way back.
MsgInv(ca, u, d) ==
    /\ \A r \in Ranks : Once(u[r]) /\ Once(d[r])
    /\ \A r \in Ranks, b \in Blobs :
         /\ Has(u[r], b) => /\ ca[r].entries[b].store
                            /\ ~Has(d[r], b) /\ ~Waits(ca, r, b)
         /\ Has(d[r], b) => ca[r].entries[b].store /\ ~Waits(ca, r, b)
         /\ Waits(ca, r, b) => ca[r].entries[b].store
    /\ \A p \in Ranks, r \in Ranks, b \in Blobs :
         Child(r) \in ca[p].entries[b].stores => r # 0 /\ Parent[r] = p

CacheInv(ca) == \A r \in Ranks : Counted(ca[r]) /\ GoesOn(r, ca[r])

ContentInv ==
    TypeInv /\ (dangling \/ (CacheInv(cache) /\ MsgInv(cache, up, down)))

\* Clients and children are told apart.
LEMMA WhoIsWho ==
    /\ \A q, r : Client(q) # Child(r)
    /\ \A r, x : Child(r) = Child(x) => r = x
    /\ \A r \in Ranks : Child(r) \in Who => r # 0
  BY DEF Client, Child, Who

\* The entry that a blob has at first.
LEMMA NoEntryType == NoEntry \in Entry
  BY DEF NoEntry, Entry

\* One entry of a cache changes, and the counters with it.
LEMMA ChangeEntry ==
    ASSUME NEW c \in Cache, Counted(c), NEW c1 \in Cache, NEW b \in Blobs,
           c1.entries = [c.entries EXCEPT ![b] = c1.entries[b]],
           c1.entries[b].store => c1.entries[b].dirty,
           c1.dirty = c.dirty + (IF c1.entries[b].dirty THEN 1 ELSE 0)
                              - (IF c.entries[b].dirty THEN 1 ELSE 0),
           c1.batch = c.batch + (IF c1.entries[b].store THEN 1 ELSE 0)
                              - (IF c.entries[b].store THEN 1 ELSE 0)
    PROVE  Counted(c1)
<1>1. /\ Dirty(c) \in SUBSET Blobs /\ Storing(c) \in SUBSET Blobs
      /\ Dirty(c1) \in SUBSET Blobs /\ Storing(c1) \in SUBSET Blobs
  BY DEF Dirty, Storing
<1>2. \A x \in Blobs : x # b => c1.entries[x] = c.entries[x]
  BY DEF Cache
<1>3. /\ b \in Dirty(c1) <=> c1.entries[b].dirty
      /\ b \in Dirty(c) <=> c.entries[b].dirty
      /\ b \in Storing(c1) <=> c1.entries[b].store
      /\ b \in Storing(c) <=> c.entries[b].store
  BY DEF Dirty, Storing
<1>4. Dirty(c1) \ {b} = Dirty(c) \ {b} /\ Storing(c1) \ {b} = Storing(c) \ {b}
  BY <1>2 DEF Dirty, Storing
<1>5. \A S \in SUBSET Blobs :
        Cardinality(S) \in Nat
        /\ Cardinality(S) = Cardinality(S \ {b}) + (IF b \in S THEN 1 ELSE 0)
  <2> SUFFICES ASSUME NEW S \in SUBSET Blobs
               PROVE  Cardinality(S) \in Nat /\ Cardinality(S)
                        = Cardinality(S \ {b}) + (IF b \in S THEN 1 ELSE 0)
    OBVIOUS
  <2>1. IsFiniteSet(S) /\ Cardinality(S) \in Nat
    BY BlobSets
  <2>2. Cardinality(S \ {b}) = IF b \in S THEN Cardinality(S) - 1
                                           ELSE Cardinality(S)
    BY <2>1, FS_RemoveElement, Zenon
  <2>3. QED
    BY <2>1, <2>2
<1>a. \A S \in SUBSET Blobs : Cardinality(S \ {b}) \in Nat
  BY BlobSets
<1>6. c1.dirty = Cardinality(Dirty(c1))
  <2>1. c.dirty = Cardinality(Dirty(c) \ {b})
                    + (IF c.entries[b].dirty THEN 1 ELSE 0)
    BY <1>1, <1>3, <1>5 DEF Counted
  <2>2. Cardinality(Dirty(c1)) = Cardinality(Dirty(c) \ {b})
                    + (IF c1.entries[b].dirty THEN 1 ELSE 0)
    BY <1>1, <1>3, <1>4, <1>5
  <2>3. Cardinality(Dirty(c) \ {b}) \in Nat
    BY <1>1, <1>a, Zenon
  <2>4. CASE c1.entries[b].dirty
    BY <2>1, <2>2, <2>3, <2>4
  <2>5. CASE ~c1.entries[b].dirty
    BY <2>1, <2>2, <2>3, <2>5
  <2>6. QED
    BY <2>4, <2>5
<1>7. c1.batch = Cardinality(Storing(c1))
  <2>1. c.batch = Cardinality(Storing(c) \ {b})
                    + (IF c.entries[b].store THEN 1 ELSE 0)
    BY <1>1, <1>3, <1>5 DEF Counted
  <2>2. Cardinality(Storing(c1)) = Cardinality(Storing(c) \ {b})
                    + (IF c1.entries[b].store THEN 1 ELSE 0)
    BY <1>1, <1>3, <1>4, <1>5
  <2>3. QED
    BY <1>1, <1>a, <2>1, <2>2
<1>8. Storing(c1) \subseteq Dirty(c1)
  BY <1>3, <1>4 DEF Counted
<1>9. QED
  BY <1>6, <1>7, <1>8 DEF Counted

\* A change of what is not counted: the state of entries, and who waits.
SameStores(c, c1) ==
    /\ c1.dirty = c.dirty /\ c1.batch = c.batch
    /\ c1.backing = c.backing /\ c1.flush = c.flush
    /\ \A b \in Blobs : /\ c1.entries[b].dirty = c.entries[b].dirty
                        /\ c1.entries[b].store = c.entries[b].store

\* A change to a cache that leaves its stores alone keeps its counters and its flush.
LEMMA SameStoresKept ==
    ASSUME NEW r \in Ranks, NEW c, NEW c1, SameStores(c, c1),
           Counted(c), GoesOn(r, c)
    PROVE  Counted(c1) /\ GoesOn(r, c1)
<1>1. Dirty(c1) = Dirty(c) /\ Storing(c1) = Storing(c)
  BY DEF SameStores, Dirty, Storing
<1>2. QED
  BY <1>1 DEF SameStores, Counted, GoesOn

\* The responses to children have their types.
LEMMA DownTypes ==
    ASSUME NEW d \in [Ranks -> Seq(DownMsg)], NEW S, NEW b \in Blobs,
           NEW ok \in BOOLEAN
    PROVE  /\ DownLoads(d, S, b, ok) \in [Ranks -> Seq(DownMsg)]
           /\ DownStores(d, S, b, ok) \in [Ranks -> Seq(DownMsg)]
<1>1. Response("load", b, ok) \in DownMsg /\ Response("store", b, ok) \in DownMsg
  BY DEF Response, DownMsg
<1>2. QED
  BY <1>1 DEF DownLoads, DownStores

\* The responses to loads change nothing of the stores.
LEMMA DownLoadsStores ==
    ASSUME NEW d \in [Ranks -> Seq(DownMsg)], NEW L, NEW b \in Blobs,
           NEW ok \in BOOLEAN, NEW r \in Ranks, Once(d[r])
    PROVE  /\ Once(DownLoads(d, L, b, ok)[r])
           /\ \A x : Has(DownLoads(d, L, b, ok)[r], x) <=> Has(d[r], x)
<1>1. Response("load", b, ok) \in DownMsg /\ Response("load", b, ok).t # "store"
  BY DEF Response, DownMsg
<1>2. d[r] \in Seq(DownMsg)
  OBVIOUS
<1>3. /\ Once(Append(d[r], Response("load", b, ok)))
      /\ \A x : Has(Append(d[r], Response("load", b, ok)), x) <=> Has(d[r], x)
  BY <1>1, <1>2, AppendLoad
<1>4. DownLoads(d, L, b, ok)[r] = IF Child(r) \in L
                                  THEN Append(d[r], Response("load", b, ok))
                                  ELSE d[r]
  BY DEF DownLoads
<1>5. QED
  BY <1>3, <1>4

\* The responses to stores that no response was under way to.
LEMMA DownStoresStores ==
    ASSUME NEW d \in [Ranks -> Seq(DownMsg)], NEW S, NEW b \in Blobs,
           NEW ok \in BOOLEAN, NEW r \in Ranks, Once(d[r]),
           Child(r) \in S => ~Has(d[r], b)
    PROVE  /\ Once(DownStores(d, S, b, ok)[r])
           /\ \A x : Has(DownStores(d, S, b, ok)[r], x)
                       <=> Has(d[r], x) \/ (Child(r) \in S /\ x = b)
<1> DEFINE m == Response("store", b, ok)
<1>1. m \in DownMsg /\ m.t = "store" /\ m.b = b
  BY DEF Response, DownMsg
<1>2. d[r] \in Seq(DownMsg)
  OBVIOUS
<1>3. DownStores(d, S, b, ok)[r] = IF Child(r) \in S THEN Append(d[r], m)
                                   ELSE d[r]
  BY DEF DownStores
<1> HIDE DEF m
<1>4. CASE Child(r) \in S
  <2>1. /\ Once(Append(d[r], m))
        /\ \A x : Has(Append(d[r], m), x) <=> Has(d[r], x) \/ x = m.b
    BY <1>1, <1>2, <1>4, AppendStore
  <2>2. QED
    BY <1>1, <1>3, <1>4, <2>1
<1>5. CASE Child(r) \notin S
  BY <1>3, <1>5
<1>6. QED
  BY <1>4, <1>5

-----------------------------------------------------------------------------
(* Store requests *)

\* The requester of a store is free: if it is a child of r, its store is
\* pending and in no other place.
Free(r, who, b, u, d) ==
    \A c \in Ranks : who = Child(c) =>
        /\ c # 0 /\ Parent[c] = r /\ cache[c].entries[b].store
        /\ ~Has(u[c], b) /\ ~Has(d[c], b) /\ ~Waits(cache, c, b)

\* content_store_request keeps the types, the counters of the cache and the
\* agreement between the pending stores and the messages.
LEMMA StoreRequest ==
    ASSUME TypeInv, NEW r \in Ranks, NEW who \in Who, NEW b \in Blobs,
           NEW u \in [Ranks -> Seq(UpMsg)], NEW d \in [Ranks -> Seq(DownMsg)],
           content_store_request(r, who, b, u, d)
    PROVE  /\ cache' \in [Ranks -> Cache]
           /\ up' \in [Ranks -> Seq(UpMsg)]
           /\ down' \in [Ranks -> Seq(DownMsg)]
           /\ CacheInv(cache) => CacheInv(cache')
           /\ MsgInv(cache, u, d) /\ Free(r, who, b, u, d)
                => MsgInv(cache', up', down')
<1> DEFINE c == cache[r]
           e == c.entries[b]
           fill == e.st # "valid"
           dirty == fill \/ e.dirty
           store == /\ dirty /\ (r # 0 \/ c.backing) /\ ~e.store
                    /\ r = 0 => c.batch < BatchLimit
           wait == dirty /\ r # 0
           redirty == ~dirty /\ r = 0 /\ ~c.backing
           loads == IF fill THEN e.loads ELSE {}
           stored == IF wait THEN {} ELSE {who}
           e1 == [e EXCEPT !.st = "valid", !.dirty = dirty \/ redirty,
                           !.store = e.store \/ store,
                           !.loads = e.loads \ loads,
                           !.stores = IF wait THEN e.stores \cup {who}
                                              ELSE e.stores]
           c1 == [c EXCEPT !.entries[b] = e1,
                           !.dirty = IF e1.dirty /\ ~e.dirty THEN c.dirty + 1
                                     ELSE c.dirty,
                           !.batch = IF store THEN c.batch + 1 ELSE c.batch]
           m == Message("store", b)
           d1 == DownLoads(d, loads, b, TRUE)
<1>1. /\ cache' = [cache EXCEPT ![r] = c1]
      /\ up' = IF store THEN [u EXCEPT ![r] = Append(u[r], m)] ELSE u
      /\ down' = DownStores(d1, stored, b, TRUE)
  BY DEF content_store_request, TypeInv, Cache, Entry
<1>2. c \in Cache /\ e \in Entry
  BY DEF TypeInv, Cache
<1>3. /\ e1 \in Entry
      /\ e1.dirty = (dirty \/ redirty) /\ e1.store = (e.store \/ store)
      /\ e1.stores = IF wait THEN e.stores \cup {who} ELSE e.stores
  <2>1. /\ (dirty \/ redirty) \in BOOLEAN /\ (e.store \/ store) \in BOOLEAN
        /\ e.loads \ loads \in SUBSET Who
        /\ (IF wait THEN e.stores \cup {who} ELSE e.stores) \in SUBSET Who
    BY <1>2 DEF Entry
  <2> HIDE DEF e, dirty, redirty, store, loads, wait
  <2>2. e1 \in Entry
    BY <1>2, <2>1, EntryTypes, Zenon
  <2>3. QED
    BY <1>2, <2>2 DEF Entry
<1>4. /\ c1 \in Cache
      /\ c1.entries = [c.entries EXCEPT ![b] = e1] /\ c1.entries[b] = e1
      /\ c1.dirty = IF e1.dirty /\ ~e.dirty THEN c.dirty + 1 ELSE c.dirty
      /\ c1.batch = IF store THEN c.batch + 1 ELSE c.batch
      /\ c1.backing = c.backing /\ c1.flush = c.flush
  <2> HIDE DEF e1, store, c, e
  <2>1. /\ [c.entries EXCEPT ![b] = e1] \in [Blobs -> Entry]
        /\ (IF e1.dirty /\ ~e.dirty THEN c.dirty + 1 ELSE c.dirty) \in Int
        /\ (IF store THEN c.batch + 1 ELSE c.batch) \in Int
    BY <1>2, <1>3 DEF Cache
  <2>2. QED
    BY <1>2, <1>3, <2>1, Zenon DEF Cache
<1>5. /\ m \in UpMsg /\ m.t = "store" /\ m.b = b
  BY DEF Message, UpMsg
<1>6. cache' \in [Ranks -> Cache]
  BY <1>1, <1>4, Zenon DEF TypeInv
<1>7. up' \in [Ranks -> Seq(UpMsg)]
  BY <1>1, <1>5
<1>8. d1 \in [Ranks -> Seq(DownMsg)] /\ down' \in [Ranks -> Seq(DownMsg)]
  BY <1>1, DownTypes, Zenon
<1>9. ASSUME CacheInv(cache)
      PROVE  CacheInv(cache')
  <2>1. Counted(c) /\ GoesOn(r, c)
    BY <1>9 DEF CacheInv
  <2>2. e.store => e.dirty
    BY <2>1 DEF Counted, Storing, Dirty
  <2>3. Counted(c1)
    <3>1. /\ dirty \in BOOLEAN /\ redirty \in BOOLEAN /\ store \in BOOLEAN
          /\ e.dirty \in BOOLEAN /\ e.store \in BOOLEAN
          /\ e.dirty => dirty
          /\ store => dirty /\ ~e.store
          /\ c.dirty \in Int /\ c.batch \in Int
      BY <1>2 DEF Entry, Cache
    <3> HIDE DEF dirty, redirty, store, e1, c1, c, e
    <3>2. e1.store => e1.dirty
      BY <1>3, <2>2, <3>1
    <3>3. c1.dirty = c.dirty + (IF e1.dirty THEN 1 ELSE 0)
                             - (IF e.dirty THEN 1 ELSE 0)
      BY <1>3, <1>4, <3>1
    <3>4. c1.batch = c.batch + (IF e1.store THEN 1 ELSE 0)
                             - (IF e.store THEN 1 ELSE 0)
      BY <1>3, <1>4, <3>1
    <3>5. QED
      BY <1>2, <1>4, <2>1, <3>2, <3>3, <3>4, ChangeEntry, Zenon DEF e
  <2>4. GoesOn(r, c1)
    <3>1. c.batch \in Nat /\ (c.batch = 0 <=> Storing(c) = {})
      BY <1>2, <2>1, CountedTodo
    <3>2. CASE store \/ c.batch > 0
      <4> HIDE DEF c1, store, c
      <4>1. c1.batch > 0
        BY <1>4, <3>1, <3>2
      <4>2. QED
        BY <4>1 DEF GoesOn
    <3> HIDE DEF c1
    <3>3. CASE ~store /\ ~(c.batch > 0)
      <4>1. c.batch = 0 /\ Storing(c) = {} /\ ~e.store
        BY <3>1, <3>3 DEF Storing
      <4>2. c.flush = {} /\ (r # 0 \/ c.backing => Dirty(c) = {})
        BY <2>1, <4>1 DEF GoesOn
      <4>3. r # 0 \/ c.backing => ~dirty /\ ~redirty
        BY <3>3, <4>1, ContentAssumption
      <4>4. r # 0 \/ c.backing => Dirty(c1) = {}
        <5> SUFFICES ASSUME r # 0 \/ c.backing, NEW x \in Blobs
                     PROVE  ~c1.entries[x].dirty
          BY DEF Dirty
        <5>1. CASE x = b
          <6> HIDE DEF e1, dirty, redirty
          <6>1. QED
            BY <1>3, <1>4, <4>3, <5>1, Zenon
        <5>2. CASE x # b
          <6>1. c.entries \in [Blobs -> Entry] /\ Dirty(c) = {}
            BY <1>2, <4>2 DEF Cache
          <6> HIDE DEF c, e1
          <6>2. c1.entries[x] = c.entries[x]
            BY <1>4, <5>2, <6>1
          <6>3. QED
            BY <6>1, <6>2 DEF Dirty
        <5>3. QED
          BY <5>1, <5>2
      <4>5. QED
        BY <1>4, <4>2, <4>4 DEF GoesOn
    <3>4. QED
      BY <3>2, <3>3
  <2> HIDE DEF c1
  <2>5. QED
    BY <1>1, <1>9, <2>3, <2>4 DEF CacheInv, TypeInv
<1>10. ASSUME MsgInv(cache, u, d), Free(r, who, b, u, d)
       PROVE  MsgInv(cache', up', down')
  <2>1. \A x \in Ranks, y \in Blobs :
          /\ cache'[x].entries[y].store
                <=> cache[x].entries[y].store \/ (store /\ x = r /\ y = b)
          /\ cache'[x].entries[y].stores
                = IF wait /\ x = r /\ y = b
                  THEN cache[x].entries[y].stores \cup {who}
                  ELSE cache[x].entries[y].stores
    <3> SUFFICES ASSUME NEW x \in Ranks, NEW y \in Blobs
                 PROVE  /\ cache'[x].entries[y].store
                              <=> \/ cache[x].entries[y].store
                                  \/ store /\ x = r /\ y = b
                        /\ cache'[x].entries[y].stores
                              = IF wait /\ x = r /\ y = b
                                THEN cache[x].entries[y].stores \cup {who}
                                ELSE cache[x].entries[y].stores
      BY Zenon
    <3>1. CASE x = r /\ y = b
      <4>1. cache'[x].entries[y] = e1
        BY <1>1, <1>4, <3>1, Zenon DEF TypeInv
      <4> HIDE DEF e1, store, wait
      <4>2. QED
        BY <1>3, <3>1, <4>1, Zenon
    <3>2. CASE ~(x = r /\ y = b)
      <4>1. cache'[x].entries[y] = cache[x].entries[y]
        <5> HIDE DEF c1
        <5>1. CASE x = r
          <6>1. y # b /\ cache'[x] = c1
            BY <1>1, <3>2, <5>1 DEF TypeInv
          <6>2. c.entries \in [Blobs -> Entry]
            BY <1>2 DEF Cache
          <6>3. QED
            BY <1>4, <5>1, <6>1, <6>2
        <5>2. CASE x # r
          BY <1>1, <5>2 DEF TypeInv
        <5>3. QED
          BY <5>1, <5>2
      <4> HIDE DEF e1, store, wait
      <4>2. QED
        BY <3>2, <4>1
    <3>3. QED
      BY <3>1, <3>2
  <2>2. store => ~Has(u[r], b)
    BY <1>10 DEF MsgInv
  <2>3. \A x \in Ranks :
          /\ Once(up'[x])
          /\ \A y \in Blobs : Has(up'[x], y)
                <=> Has(u[x], y) \/ (store /\ x = r /\ y = b)
    <3>1. \A x \in Ranks : Once(u[x]) /\ u[x] \in Seq(UpMsg)
      BY <1>10 DEF MsgInv
    <3> HIDE DEF m, store
    <3>2. CASE store
      <4>1. /\ Once(Append(u[r], m))
            /\ \A y : Has(Append(u[r], m), y) <=> Has(u[r], y) \/ y = b
        BY <1>5, <2>2, <3>1, <3>2, AppendStore
      <4>2. /\ up'[r] = Append(u[r], m)
            /\ \A x \in Ranks : x # r => up'[x] = u[x]
        BY <1>1, <3>2
      <4>3. QED
        BY <3>1, <3>2, <4>1, <4>2, Zenon
    <3>3. CASE ~store
      BY <1>1, <3>1, <3>3
    <3>4. QED
      BY <3>2, <3>3
  <2>4. \A x \in Ranks :
          /\ Once(down'[x])
          /\ \A y \in Blobs : Has(down'[x], y)
                <=> Has(d[x], y) \/ (~wait /\ who = Child(x) /\ y = b)
    <3> SUFFICES ASSUME NEW x \in Ranks
                 PROVE  /\ Once(down'[x])
                        /\ \A y \in Blobs : Has(down'[x], y)
                              <=> \/ Has(d[x], y)
                                  \/ ~wait /\ who = Child(x) /\ y = b
      OBVIOUS
    <3>1. Once(d1[x]) /\ \A y : Has(d1[x], y) <=> Has(d[x], y)
      <4>1. Once(d[x])
        BY <1>10 DEF MsgInv
      <4> HIDE DEF loads
      <4>2. QED
        BY <4>1, DownLoadsStores, Zenon
    <3>2. Child(x) \in stored <=> ~wait /\ who = Child(x)
      OBVIOUS
    <3>3. Child(x) \in stored => ~Has(d1[x], b)
      BY <1>10, <3>1, <3>2, Zenon DEF Free
    <3> HIDE DEF d1, stored, wait
    <3>4. /\ Once(DownStores(d1, stored, b, TRUE)[x])
          /\ \A y : Has(DownStores(d1, stored, b, TRUE)[x], y)
                      <=> Has(d1[x], y) \/ (Child(x) \in stored /\ y = b)
      BY <1>8, <3>1, <3>3, DownStoresStores, Zenon
    <3>5. QED
      BY <1>1, <3>1, <3>2, <3>4, Zenon
  <2>5. \A x \in Ranks, y \in Blobs :
          Waits(cache', x, y) <=> \/ Waits(cache, x, y)
                                  \/ wait /\ who = Child(x) /\ y = b
    <3>1. \A x \in Ranks : x # 0 => Parent[x] \in Ranks
      BY ContentAssumption
    <3>2. \A x \in Ranks : who = Child(x) => x # 0 /\ Parent[x] = r
      BY <1>10 DEF Free
    <3> HIDE DEF wait, store
    <3> SUFFICES ASSUME NEW x \in Ranks, NEW y \in Blobs
                 PROVE  Waits(cache', x, y)
                          <=> \/ Waits(cache, x, y)
                              \/ wait /\ who = Child(x) /\ y = b
      OBVIOUS
    <3>3. CASE x = 0
      BY <3>2, <3>3 DEF Waits
    <3>4. CASE x # 0
      <4>1. cache'[Parent[x]].entries[y].stores
              = IF wait /\ Parent[x] = r /\ y = b
                THEN cache[Parent[x]].entries[y].stores \cup {who}
                ELSE cache[Parent[x]].entries[y].stores
        BY <2>1, <3>1, <3>4, Zenon
      <4>2. QED
        BY <3>2, <3>4, <4>1 DEF Waits
    <3>5. QED
      BY <3>3, <3>4
  <2> HIDE DEF store, wait, e, c
  <2>6. \A x \in Ranks, y \in Blobs :
          /\ Has(up'[x], y) => /\ cache'[x].entries[y].store
                               /\ ~Has(down'[x], y) /\ ~Waits(cache', x, y)
          /\ Has(down'[x], y) => cache'[x].entries[y].store
                                 /\ ~Waits(cache', x, y)
          /\ Waits(cache', x, y) => cache'[x].entries[y].store
    <3>1. store => ~cache[r].entries[b].store
      BY DEF store, e, c
    <3> SUFFICES ASSUME NEW x \in Ranks, NEW y \in Blobs
                 PROVE  /\ Has(up'[x], y) => /\ cache'[x].entries[y].store
                                             /\ ~Has(down'[x], y)
                                             /\ ~Waits(cache', x, y)
                        /\ Has(down'[x], y) => /\ cache'[x].entries[y].store
                                               /\ ~Waits(cache', x, y)
                        /\ Waits(cache', x, y) => cache'[x].entries[y].store
      OBVIOUS
    <3>2. /\ Has(u[x], y) => /\ cache[x].entries[y].store
                             /\ ~Has(d[x], y) /\ ~Waits(cache, x, y)
          /\ Has(d[x], y) => cache[x].entries[y].store /\ ~Waits(cache, x, y)
          /\ Waits(cache, x, y) => cache[x].entries[y].store
      BY <1>10 DEF MsgInv
    <3>3. who = Child(x) => /\ cache[x].entries[b].store /\ ~Has(u[x], b)
                            /\ ~Has(d[x], b) /\ ~Waits(cache, x, b)
      BY <1>10 DEF Free
    <3>4. cache'[x].entries[y].store
            <=> cache[x].entries[y].store \/ (store /\ x = r /\ y = b)
      BY <2>1, Zenon
    <3>5. Has(up'[x], y) <=> Has(u[x], y) \/ (store /\ x = r /\ y = b)
      BY <2>3
    <3>6. Has(down'[x], y)
            <=> Has(d[x], y) \/ (~wait /\ who = Child(x) /\ y = b)
      BY <2>4
    <3>7. Waits(cache', x, y)
            <=> Waits(cache, x, y) \/ (wait /\ who = Child(x) /\ y = b)
      BY <2>5
    <3>8. QED
      BY <3>1, <3>2, <3>3, <3>4, <3>5, <3>6, <3>7
  <2>7. \A p \in Ranks, x \in Ranks, y \in Blobs :
          Child(x) \in cache'[p].entries[y].stores => x # 0 /\ Parent[x] = p
    <3> SUFFICES ASSUME NEW p \in Ranks, NEW x \in Ranks, NEW y \in Blobs,
                        Child(x) \in cache'[p].entries[y].stores
                 PROVE  x # 0 /\ Parent[x] = p
      OBVIOUS
    <3>a. cache'[p].entries[y].stores = IF wait /\ p = r /\ y = b
                                       THEN cache[p].entries[y].stores \cup {who}
                                       ELSE cache[p].entries[y].stores
      BY <2>1, Zenon
    <3>1. \/ Child(x) \in cache[p].entries[y].stores
          \/ p = r /\ who = Child(x)
      BY <3>a
    <3>2. QED
      BY <1>10, <3>1 DEF MsgInv, Free
  <2>8. QED
    BY <2>3, <2>4, <2>6, <2>7 DEF MsgInv
<1>11. QED
  BY <1>6, <1>7, <1>8, <1>9, <1>10

-----------------------------------------------------------------------------
(* Steps that take messages, or send stores *)

\* Fewer stores in the queues, and fewer that wait.
NoMore(ca, u, d, ca1, u1, d1) ==
    /\ \A r \in Ranks : Once(u1[r]) /\ Once(d1[r])
    /\ \A r \in Ranks, b \in Blobs :
         /\ Has(u1[r], b) => Has(u[r], b)
         /\ Has(d1[r], b) => Has(d[r], b)
         /\ ca1[r].entries[b].store <=> ca[r].entries[b].store
         /\ ca1[r].entries[b].stores \subseteq ca[r].entries[b].stores

\* A step that adds no store message and no pending store keeps that agreement.
LEMMA MsgSame ==
    ASSUME NEW ca, NEW u, NEW d, NEW ca1, NEW u1, NEW d1, MsgInv(ca, u, d),
           NoMore(ca, u, d, ca1, u1, d1)
    PROVE  MsgInv(ca1, u1, d1)
<1>1. \A r \in Ranks, b \in Blobs : Waits(ca1, r, b) => Waits(ca, r, b)
  <2> SUFFICES ASSUME NEW r \in Ranks, NEW b \in Blobs, Waits(ca1, r, b)
               PROVE  Waits(ca, r, b)
    OBVIOUS
  <2>1. r # 0 /\ Parent[r] \in Ranks
    BY ContentAssumption DEF Waits
  <2>2. ca1[Parent[r]].entries[b].stores \subseteq ca[Parent[r]].entries[b].stores
    BY <2>1 DEF NoMore
  <2>3. QED
    BY <2>1, <2>2 DEF Waits
<1>2. ASSUME NEW r \in Ranks, NEW b \in Blobs
      PROVE  /\ Has(u1[r], b) => /\ ca1[r].entries[b].store
                                 /\ ~Has(d1[r], b) /\ ~Waits(ca1, r, b)
             /\ Has(d1[r], b) => ca1[r].entries[b].store /\ ~Waits(ca1, r, b)
             /\ Waits(ca1, r, b) => ca1[r].entries[b].store
  <2>1. /\ Has(u[r], b) => /\ ca[r].entries[b].store
                           /\ ~Has(d[r], b) /\ ~Waits(ca, r, b)
        /\ Has(d[r], b) => ca[r].entries[b].store /\ ~Waits(ca, r, b)
        /\ Waits(ca, r, b) => ca[r].entries[b].store
    BY DEF MsgInv
  <2>2. /\ Has(u1[r], b) => Has(u[r], b)
        /\ Has(d1[r], b) => Has(d[r], b)
        /\ ca1[r].entries[b].store <=> ca[r].entries[b].store
        /\ Waits(ca1, r, b) => Waits(ca, r, b)
    BY <1>1 DEF NoMore
  <2>3. QED
    BY <2>1, <2>2
<1>3. ASSUME NEW p \in Ranks, NEW r \in Ranks, NEW b \in Blobs,
             Child(r) \in ca1[p].entries[b].stores
      PROVE  r # 0 /\ Parent[r] = p
  <2>1. Child(r) \in ca[p].entries[b].stores
    BY <1>3 DEF NoMore
  <2>2. QED
    BY <2>1 DEF MsgInv
<1>4. QED
  BY <1>2, <1>3 DEF MsgInv, NoMore

\* Rank r sends the stores s of its cache.
LEMMA MsgFlush ==
    ASSUME NEW ca \in [Ranks -> Cache], NEW u \in [Ranks -> Seq(UpMsg)], NEW d,
           MsgInv(ca, u, d), NEW r \in Ranks, Counted(ca[r]),
           NEW s \in Seq(Dirty(ca[r]) \ Storing(ca[r])),
           \A i, k \in DOMAIN s : s[i] = s[k] => i = k,
           NEW c1 \in Cache, c1.entries = Flushed(ca[r], s).entries
    PROVE  MsgInv([ca EXCEPT ![r] = c1], [u EXCEPT ![r] = u[r] \o Stores(s)], d)
<1> DEFINE ca1 == [ca EXCEPT ![r] = c1]
           u1 == [u EXCEPT ![r] = u[r] \o Stores(s)]
           In(b) == \E i \in DOMAIN s : s[i] = b
<1>1. \A i \in DOMAIN s : s[i] \in Blobs /\ ~ca[r].entries[s[i]].store
  <2>1. \A i \in DOMAIN s : s[i] \in Dirty(ca[r]) \ Storing(ca[r])
    OBVIOUS
  <2>2. QED
    BY <2>1 DEF Dirty, Storing
<1>2. s \in Seq(Blobs)
  <2>1. Dirty(ca[r]) \ Storing(ca[r]) \subseteq Blobs
    BY DEF Dirty
  <2>2. QED
    BY <2>1
<1>3. \A x \in Ranks, b \in Blobs :
        /\ ca1[x].entries[b].store
              <=> ca[x].entries[b].store \/ (x = r /\ In(b))
        /\ ca1[x].entries[b].stores = ca[x].entries[b].stores
  <2> SUFFICES ASSUME NEW x \in Ranks, NEW b \in Blobs
               PROVE  /\ ca1[x].entries[b].store
                            <=> ca[x].entries[b].store \/ (x = r /\ In(b))
                      /\ ca1[x].entries[b].stores = ca[x].entries[b].stores
    OBVIOUS
  <2>1. CASE x = r
    <3>1. ca1[x].entries[b] = IF In(b) THEN [ca[r].entries[b] EXCEPT !.store = TRUE]
                              ELSE ca[r].entries[b]
      BY <2>1, Zenon DEF Flushed, Cache
    <3>2. ca[r].entries[b] \in Entry
      BY DEF Cache
    <3> HIDE DEF In, ca1
    <3>3. CASE In(b)
      BY <2>1, <3>1, <3>2, <3>3 DEF Entry
    <3>4. CASE ~In(b)
      BY <2>1, <3>1, <3>4
    <3>5. QED
      BY <3>3, <3>4
  <2>2. CASE x # r
    BY <2>2
  <2>3. QED
    BY <2>1, <2>2
<1>4. /\ Once(u[r] \o Stores(s))
      /\ \A b : Has(u[r] \o Stores(s), b) <=> Has(u[r], b) \/ In(b)
  <2>1. Once(u[r]) /\ u[r] \in Seq(UpMsg)
    BY DEF MsgInv
  <2>2. \A i \in DOMAIN s : ~Has(u[r], s[i])
    BY <1>1 DEF MsgInv
  <2>3. QED
    BY <1>2, <2>1, <2>2, ConcatStores
<1>5. \A x \in Ranks :
        /\ Once(u1[x])
        /\ \A b \in Blobs : Has(u1[x], b) <=> Has(u[x], b) \/ (x = r /\ In(b))
  <2> SUFFICES ASSUME NEW x \in Ranks
               PROVE  /\ Once(u1[x])
                      /\ \A b \in Blobs : Has(u1[x], b)
                            <=> Has(u[x], b) \/ (x = r /\ In(b))
    OBVIOUS
  <2>1. CASE x = r
    <3>1. u1[x] = u[r] \o Stores(s)
      BY <2>1
    <3> HIDE DEF In, u1
    <3>2. QED
      BY <1>4, <2>1, <3>1
  <2>2. CASE x # r
    <3>1. u1[x] = u[x] /\ Once(u[x])
      BY <2>2 DEF MsgInv
    <3> HIDE DEF In, u1
    <3>2. QED
      BY <2>2, <3>1
  <2>3. QED
    BY <2>1, <2>2
<1>6. \A b \in Blobs : In(b) => ~ca[r].entries[b].store
  BY <1>1
<1>7. \A x \in Ranks, b \in Blobs : Waits(ca1, x, b) <=> Waits(ca, x, b)
  <2>1. \A x \in Ranks : x # 0 => Parent[x] \in Ranks
    BY ContentAssumption
  <2> HIDE DEF ca1
  <2>2. QED
    BY <1>3, <2>1 DEF Waits
<1> HIDE DEF ca1, u1, In
<1>8. ASSUME NEW x \in Ranks, NEW b \in Blobs
      PROVE  /\ Has(u1[x], b) => /\ ca1[x].entries[b].store
                                 /\ ~Has(d[x], b) /\ ~Waits(ca1, x, b)
             /\ Has(d[x], b) => ca1[x].entries[b].store /\ ~Waits(ca1, x, b)
             /\ Waits(ca1, x, b) => ca1[x].entries[b].store
  <2>1. /\ Has(u[x], b) => /\ ca[x].entries[b].store
                           /\ ~Has(d[x], b) /\ ~Waits(ca, x, b)
        /\ Has(d[x], b) => ca[x].entries[b].store /\ ~Waits(ca, x, b)
        /\ Waits(ca, x, b) => ca[x].entries[b].store
    BY DEF MsgInv
  <2>2. /\ ca1[x].entries[b].store
              <=> ca[x].entries[b].store \/ (x = r /\ In(b))
        /\ Has(u1[x], b) <=> Has(u[x], b) \/ (x = r /\ In(b))
        /\ Waits(ca1, x, b) <=> Waits(ca, x, b)
        /\ x = r /\ In(b) => ~ca[x].entries[b].store
    BY <1>3, <1>5, <1>6, <1>7, Zenon
  <2>3. QED
    BY <2>1, <2>2
<1>9. ASSUME NEW p \in Ranks, NEW x \in Ranks, NEW b \in Blobs,
             Child(x) \in ca1[p].entries[b].stores
      PROVE  x # 0 /\ Parent[x] = p
  <2>1. Child(x) \in ca[p].entries[b].stores
    BY <1>3, <1>9
  <2>2. QED
    BY <2>1 DEF MsgInv
<1>10. MsgInv(ca1, u1, d)
  BY <1>5, <1>8, <1>9, Zenon DEF MsgInv
<1>11. QED
  BY <1>10 DEF ca1, u1

-----------------------------------------------------------------------------
(* Load requests, and the requests of children and clients *)

\* content_load_request keeps the types, the counters and the agreement.
LEMMA LoadRequest ==
    ASSUME TypeInv, NEW r \in Ranks, NEW who \in Who, NEW b \in Blobs,
           NEW u \in [Ranks -> Seq(UpMsg)], NEW d \in [Ranks -> Seq(DownMsg)],
           content_load_request(r, who, b, u, d)
    PROVE  /\ cache' \in [Ranks -> Cache]
           /\ up' \in [Ranks -> Seq(UpMsg)]
           /\ down' \in [Ranks -> Seq(DownMsg)]
           /\ CacheInv(cache) => CacheInv(cache')
           /\ MsgInv(cache, u, d) => MsgInv(cache', up', down')
<1> DEFINE e == cache[r].entries[b]
           e1 == [e EXCEPT !.st = "invalid", !.load = TRUE,
                           !.loads = e.loads \cup {who}]
           c1 == [cache[r] EXCEPT !.entries[b] = e1]
           m == Message("load", b)
<1>1. ASSUME cache' = cache, up' = u, NEW ok \in BOOLEAN,
             down' = DownLoads(d, {who}, b, ok)
      PROVE  /\ down' \in [Ranks -> Seq(DownMsg)]
             /\ MsgInv(cache, u, d) => MsgInv(cache', up', down')
  <2>1. down' \in [Ranks -> Seq(DownMsg)]
    BY <1>1, DownTypes, Zenon
  <2>2. ASSUME MsgInv(cache, u, d)
        PROVE  MsgInv(cache', up', down')
    <3>1. \A x \in Ranks : Once(u[x]) /\ Once(d[x])
      BY <2>2 DEF MsgInv
    <3>2. \A x \in Ranks : /\ Once(down'[x])
                           /\ \A y : Has(down'[x], y) <=> Has(d[x], y)
      BY <1>1, <3>1, DownLoadsStores, Zenon
    <3>3. NoMore(cache, u, d, cache', up', down')
      BY <1>1, <3>1, <3>2, Zenon DEF NoMore
    <3>4. QED
      BY <2>2, <3>3, MsgSame
  <2>3. QED
    BY <2>1, <2>2
<1>2. ASSUME cache' = [cache EXCEPT ![r].entries[b] = e1], down' = d,
             up' = IF e.load THEN u ELSE [u EXCEPT ![r] = Append(u[r], m)]
      PROVE  /\ cache' \in [Ranks -> Cache]
             /\ up' \in [Ranks -> Seq(UpMsg)]
             /\ CacheInv(cache) => CacheInv(cache')
             /\ MsgInv(cache, u, d) => MsgInv(cache', up', down')
  <2>1. e \in Entry /\ cache[r] \in Cache
    BY DEF TypeInv, Cache
  <2>2. /\ e1 \in Entry /\ e1.dirty = e.dirty /\ e1.store = e.store
        /\ e1.stores = e.stores
    <3>1. e.loads \cup {who} \in SUBSET Who
      BY <2>1 DEF Entry
    <3> HIDE DEF e
    <3>2. e1 \in Entry
      BY <2>1, <3>1, EntryTypes, Zenon
    <3>3. QED
      BY <2>1, <3>2 DEF Entry
  <2>3. cache' = [cache EXCEPT ![r] = c1]
    BY <1>2 DEF TypeInv, Cache
  <2>4. /\ c1 \in Cache /\ c1.entries = [cache[r].entries EXCEPT ![b] = e1]
        /\ c1.dirty = cache[r].dirty /\ c1.batch = cache[r].batch
        /\ c1.backing = cache[r].backing /\ c1.flush = cache[r].flush
    <3> HIDE DEF e1
    <3>1. QED
      BY <2>1, <2>2, Zenon DEF Cache
  <2>5. cache' \in [Ranks -> Cache]
    BY <2>3, <2>4 DEF TypeInv
  <2>6. m \in UpMsg /\ m.t # "store"
    BY DEF Message, UpMsg
  <2>7. up' \in [Ranks -> Seq(UpMsg)]
    BY <1>2, <2>6
  <2>8. \A y \in Blobs :
          /\ c1.entries[y].dirty = cache[r].entries[y].dirty
          /\ c1.entries[y].store = cache[r].entries[y].store
          /\ c1.entries[y].stores = cache[r].entries[y].stores
    <3>1. cache[r].entries \in [Blobs -> Entry]
      BY <2>1 DEF Cache
    <3> HIDE DEF c1, e1
    <3>2. QED
      BY <2>2, <2>4, <3>1
  <2> HIDE DEF c1, e1
  <2>9. ASSUME CacheInv(cache)
        PROVE  CacheInv(cache')
    <3>1. SameStores(cache[r], c1)
      BY <2>4, <2>8 DEF SameStores
    <3>2. Counted(c1) /\ GoesOn(r, c1)
      BY <2>9, <3>1, SameStoresKept DEF CacheInv
    <3>3. QED
      BY <2>3, <2>9, <3>2 DEF CacheInv, TypeInv
  <2>10. ASSUME MsgInv(cache, u, d)
         PROVE  MsgInv(cache', up', down')
    <3>1. \A x \in Ranks : Once(u[x]) /\ Once(d[x])
      BY <2>10 DEF MsgInv
    <3>2. \A x \in Ranks : /\ Once(up'[x])
                           /\ \A y : Has(up'[x], y) <=> Has(u[x], y)
      <4> HIDE DEF m
      <4>1. CASE e.load
        BY <1>2, <3>1, <4>1
      <4>2. CASE ~e.load
        <5>1. /\ Once(Append(u[r], m))
              /\ \A y : Has(Append(u[r], m), y) <=> Has(u[r], y)
          BY <2>6, <3>1, AppendLoad
        <5>2. up'[r] = Append(u[r], m) /\ \A x \in Ranks : x # r => up'[x] = u[x]
          BY <1>2, <4>2
        <5>3. QED
          BY <3>1, <5>1, <5>2, Zenon
      <4>3. QED
        BY <4>1, <4>2
    <3>3. \A x \in Ranks, y \in Blobs :
            /\ cache'[x].entries[y].store <=> cache[x].entries[y].store
            /\ cache'[x].entries[y].stores \subseteq cache[x].entries[y].stores
      BY <2>3, <2>8 DEF TypeInv
    <3>4. NoMore(cache, u, d, cache', up', down')
      BY <1>2, <3>1, <3>2, <3>3 DEF NoMore
    <3>5. QED
      BY <2>10, <3>4, MsgSame
  <2>11. QED
    BY <2>5, <2>7, <2>9, <2>10
<1>3. CASE cache' = cache /\ up' = u
           /\ \E ok \in BOOLEAN : down' = DownLoads(d, {who}, b, ok)
  BY <1>1, <1>3, Zenon DEF TypeInv
<1>4. CASE /\ cache' = [cache EXCEPT ![r].entries[b] = e1] /\ down' = d
           /\ up' = IF e.load THEN u ELSE [u EXCEPT ![r] = Append(u[r], m)]
  BY <1>2, <1>4
<1>5. QED
  <2>1. \/ /\ cache' = cache /\ up' = u
           /\ \E ok \in BOOLEAN : down' = DownLoads(d, {who}, b, ok)
        \/ /\ cache' = [cache EXCEPT ![r].entries[b] = e1] /\ down' = d
           /\ up' = IF e.load THEN u ELSE [u EXCEPT ![r] = Append(u[r], m)]
    BY Zenon DEF content_load_request
  <2>2. QED
    BY <1>3, <1>4, <2>1, Zenon

\* A request of a client or of a child that is free if it stores.
LEMMA HandleKeeps ==
    ASSUME TypeInv, NEW r \in Ranks, NEW who \in Who, NEW t, NEW b \in Blobs,
           NEW u \in [Ranks -> Seq(UpMsg)], NEW d \in [Ranks -> Seq(DownMsg)],
           Handle(r, who, t, b, u, d)
    PROVE  /\ cache' \in [Ranks -> Cache]
           /\ up' \in [Ranks -> Seq(UpMsg)]
           /\ down' \in [Ranks -> Seq(DownMsg)]
           /\ CacheInv(cache) => CacheInv(cache')
           /\ MsgInv(cache, u, d) /\ (t = "store" => Free(r, who, b, u, d))
                => MsgInv(cache', up', down')
<1>1. CASE t = "load" /\ content_load_request(r, who, b, u, d)
  BY <1>1, LoadRequest, Zenon
<1>2. CASE t = "store" /\ content_store_request(r, who, b, u, d)
  BY <1>2, StoreRequest
<1>3. QED
  BY <1>1, <1>2 DEF Handle

\* A request of a client keeps the invariant.
LEMMA ClientRequestStep ==
    ASSUME ContentInv, NEW q \in Requests, ClientRequest(q)
    PROVE  ContentInv'
<1> DEFINE r == request[q].rank
           b == request[q].blob
<1>1. r \in Ranks /\ b \in Blobs
  BY ContentAssumption DEF ClientRequest
<1>2. Client(q) \in Who
  BY DEF Who
<1>3. Free(r, Client(q), b, up, down)
  BY WhoIsWho DEF Free
<1>4. Handle(r, Client(q), request[q].kind, b, up, down)
      /\ UNCHANGED <<db, dangling>>
  BY DEF ClientRequest
<1> HIDE DEF r, b
<1>5. TypeInv
  BY DEF ContentInv
<1>6. /\ cache' \in [Ranks -> Cache]
      /\ up' \in [Ranks -> Seq(UpMsg)]
      /\ down' \in [Ranks -> Seq(DownMsg)]
      /\ CacheInv(cache) => CacheInv(cache')
      /\ MsgInv(cache, up, down) => MsgInv(cache', up', down')
  <2>1. up \in [Ranks -> Seq(UpMsg)] /\ down \in [Ranks -> Seq(DownMsg)]
    BY <1>5 DEF TypeInv
  <2>2. QED
    BY <1>1, <1>2, <1>3, <1>4, <1>5, <2>1, HandleKeeps, Zenon
<1>7. QED
  BY <1>4, <1>6 DEF ContentInv, TypeInv

\* A request that arrives from a child rank keeps the invariant.
LEMMA ChildRequestStep ==
    ASSUME ContentInv, NEW c \in Ranks, ChildRequest(c)
    PROVE  ContentInv'
<1> DEFINE r == Parent[c]
           m == Head(up[c])
           u == [up EXCEPT ![c] = Tail(up[c])]
<1>1. c # 0 /\ up[c] # <<>> /\ r \in Ranks /\ Child(c) \in Who
  BY ContentAssumption DEF ChildRequest, Who
<1>2. TypeInv
  BY DEF ContentInv
<1>3. /\ up[c] \in Seq(UpMsg) /\ m \in UpMsg /\ m.b \in Blobs
      /\ u \in [Ranks -> Seq(UpMsg)] /\ down \in [Ranks -> Seq(DownMsg)]
  <2>1. up \in [Ranks -> Seq(UpMsg)] /\ down \in [Ranks -> Seq(DownMsg)]
    BY <1>2 DEF TypeInv
  <2>2. m \in UpMsg /\ Tail(up[c]) \in Seq(UpMsg)
    BY <1>1, <2>1
  <2>3. QED
    BY <2>1, <2>2, Zenon DEF UpMsg
<1>4. Handle(r, Child(c), m.t, m.b, u, down) /\ UNCHANGED <<db, dangling>>
  BY DEF ChildRequest
<1> HIDE DEF r, m, u
<1>5. /\ cache' \in [Ranks -> Cache]
      /\ up' \in [Ranks -> Seq(UpMsg)]
      /\ down' \in [Ranks -> Seq(DownMsg)]
      /\ CacheInv(cache) => CacheInv(cache')
      /\ MsgInv(cache, u, down)
           /\ (m.t = "store" => Free(r, Child(c), m.b, u, down))
           => MsgInv(cache', up', down')
  BY <1>1, <1>2, <1>3, <1>4, HandleKeeps, Zenon
<1>6. ASSUME MsgInv(cache, up, down)
      PROVE  /\ MsgInv(cache, u, down)
             /\ m.t = "store" => Free(r, Child(c), m.b, u, down)
  <2>1. \A x \in Ranks : Once(up[x]) /\ Once(down[x])
    BY <1>6 DEF MsgInv
  <2>2. u[c] = Tail(up[c]) /\ \A x \in Ranks : x # c => u[x] = up[x]
    BY <1>2 DEF u, TypeInv
  <2>3. /\ Once(u[c])
        /\ m.t = "store" => Has(up[c], m.b) /\ ~Has(u[c], m.b)
        /\ \A y : Has(u[c], y) => Has(up[c], y)
    <3>1. up[c] \in Seq(UpMsg) /\ up[c] # <<>> /\ Once(up[c])
      BY <1>1, <1>3, <2>1
    <3>2. QED
      BY <2>2, <3>1, TakeHead DEF m
  <2>4. /\ \A x \in Ranks : Once(u[x]) /\ Once(down[x])
        /\ \A x \in Ranks, y \in Blobs : Has(u[x], y) => Has(up[x], y)
    BY <2>1, <2>2, <2>3
  <2>5. MsgInv(cache, u, down)
    <3>1. NoMore(cache, up, down, cache, u, down)
      BY <2>4 DEF NoMore
    <3>2. QED
      BY <1>6, <3>1, MsgSame
  <2>6. ASSUME m.t = "store"
        PROVE  Free(r, Child(c), m.b, u, down)
    <3>1. /\ cache[c].entries[m.b].store /\ ~Has(down[c], m.b)
          /\ ~Waits(cache, c, m.b) /\ ~Has(u[c], m.b)
      BY <1>3, <1>6, <2>3, <2>6 DEF MsgInv
    <3>2. QED
      BY <1>1, <3>1, WhoIsWho DEF Free, r
  <2>7. QED
    BY <2>5, <2>6
<1>7. QED
  BY <1>4, <1>5, <1>6 DEF ContentInv, TypeInv

-----------------------------------------------------------------------------
(* Flush requests, and the registration of a backing store *)

\* The types of what a flush changes, whatever the counters are.
LEMMA FlushTypes ==
    ASSUME NEW c \in Cache, NEW s, s \in cache_flush(c) \/ s = <<>>,
           NEW q \in Seq(UpMsg)
    PROVE  s \in Seq(Blobs) /\ Flushed(c, s) \in Cache
           /\ q \o Stores(s) \in Seq(UpMsg)
<1>1. s \in Seq(Blobs)
  <2> DEFINE todo == Dirty(c) \ Storing(c)
             room == BatchLimit - c.batch
             n == IF Cardinality(todo) < room THEN Cardinality(todo) ELSE room
  <2>1. CASE s = <<>>
    BY <2>1
  <2>2. CASE s # <<>>
    <3>1. ~(c.dirty = c.batch \/ c.batch >= BatchLimit)
      BY <2>2 DEF cache_flush
    <3>2. s \in [1..n -> todo]
      BY <2>2, <3>1, Zenon DEF cache_flush
    <3>3. todo \in SUBSET Blobs
      BY DEF Dirty
    <3>4. Cardinality(todo) \in Nat
      BY <3>3, BlobSets
    <3>5. n \in Nat
      BY <3>1, <3>4, ContentAssumption DEF Cache
    <3> HIDE DEF n, todo
    <3>6. s \in [1..n -> Blobs]
      BY <3>2, <3>3
    <3>7. QED
      BY <3>5, <3>6
  <2>3. QED
    BY <2>1, <2>2
<1>2. Flushed(c, s) \in Cache
  <2> DEFINE E == [b \in Blobs |-> IF \E i \in DOMAIN s : s[i] = b
                                   THEN [c.entries[b] EXCEPT !.store = TRUE]
                                   ELSE c.entries[b]]
  <2>1. c.batch + Len(s) \in Int
    BY <1>1 DEF Cache
  <2>2. \A b \in Blobs : [c.entries[b] EXCEPT !.store = TRUE] \in Entry
    BY EntryTypes, Zenon DEF Cache
  <2>3. E \in [Blobs -> Entry]
    BY <2>2 DEF Cache
  <2>4. Flushed(c, s) = [c EXCEPT !.entries = E, !.batch = c.batch + Len(s)]
    BY DEF Flushed, Cache
  <2> HIDE DEF E
  <2>5. QED
    BY <2>1, <2>3, <2>4, Zenon DEF Cache
<1>3. q \o Stores(s) \in Seq(UpMsg)
  <2>1. \A i \in DOMAIN s : Message("store", s[i]) \in UpMsg
    BY <1>1 DEF Message, UpMsg
  <2>2. DOMAIN s = 1..Len(s) /\ Len(s) \in Nat
    BY <1>1
  <2>3. Stores(s) \in [1..Len(s) -> UpMsg]
    BY <2>1, <2>2 DEF Stores
  <2>4. Stores(s) \in Seq(UpMsg)
    BY <2>2, <2>3
  <2>5. QED
    BY <2>4
<1>4. QED
  BY <1>1, <1>2, <1>3

\* Rank r sends the stores that cache_flush chooses for c, a cache with the
\* entries and counters that r has.
LEMMA FlushStep ==
    ASSUME TypeInv, NEW r \in Ranks, NEW c \in Cache,
           c.entries = cache[r].entries, c.dirty = cache[r].dirty,
           c.batch = cache[r].batch, NEW s \in cache_flush(c), NEW c1 \in Cache,
           c1 = [Flushed(c, s) EXCEPT !.flush = c1.flush],
           c.dirty = 0 => c1.flush = {},
           cache' = [cache EXCEPT ![r] = c1],
           up' = [up EXCEPT ![r] = up[r] \o Stores(s)], UNCHANGED down,
           CacheInv(cache), MsgInv(cache, up, down)
    PROVE  CacheInv(cache') /\ MsgInv(cache', up', down')
<1> DEFINE f == Flushed(c, s)
<1>1. Counted(cache[r]) /\ cache[r] \in Cache
  BY DEF CacheInv, TypeInv
<1>2. Dirty(c) = Dirty(cache[r]) /\ Storing(c) = Storing(cache[r])
  BY DEF Dirty, Storing
<1>3. Counted(c)
  BY <1>1, <1>2 DEF Counted
<1>4. /\ s \in Seq(Dirty(c) \ Storing(c))
      /\ \A i, k \in DOMAIN s : s[i] = s[k] => i = k
  BY <1>3, FlushStores
<1>5. f \in Cache /\ Counted(f) /\ f.dirty = c.dirty /\ Dirty(f) = Dirty(c)
  BY <1>3, <1>4, FlushedIs
<1>6. c.dirty # 0 => f.batch > 0
  BY <1>3, FlushGoes
<1>7. c.dirty = 0 => Dirty(c) = {}
  BY <1>3, CountedTodo
<1> HIDE DEF f
<1>8. /\ c1.entries = f.entries /\ c1.dirty = f.dirty /\ c1.batch = f.batch
  BY <1>5 DEF Cache, f
<1>9. Dirty(c1) = Dirty(f) /\ Storing(c1) = Storing(f)
  BY <1>8 DEF Dirty, Storing
<1>10. Counted(c1) /\ GoesOn(r, c1)
  BY <1>5, <1>6, <1>7, <1>8, <1>9, Zenon DEF Counted, GoesOn
<1>11. CacheInv(cache')
  BY <1>10 DEF CacheInv, TypeInv
<1>12. Flushed(cache[r], s).entries = Flushed(c, s).entries
  BY <1>1 DEF Flushed, Cache
<1>13. MsgInv(cache', up', down')
  <2>1. cache \in [Ranks -> Cache] /\ up \in [Ranks -> Seq(UpMsg)]
    BY DEF TypeInv
  <2>2. s \in Seq(Dirty(cache[r]) \ Storing(cache[r]))
    BY <1>2, <1>4
  <2>3. c1.entries = Flushed(cache[r], s).entries
    BY <1>8, <1>12 DEF f
  <2>4. MsgInv([cache EXCEPT ![r] = c1],
               [up EXCEPT ![r] = up[r] \o Stores(s)], down)
    BY <1>1, <1>4, <2>1, <2>2, <2>3, MsgFlush, Zenon
  <2>5. QED
    BY <2>4
<1>14. QED
  BY <1>11, <1>13

\* content_flush_request keeps the invariant.
LEMMA FlushRequestStep ==
    ASSUME ContentInv, NEW q \in Requests, content_flush_request(q)
    PROVE  ContentInv'
<1> DEFINE r == request[q].rank
           c == cache[r]
<1>1. r \in Ranks /\ Client(q) \in Who
  BY ContentAssumption DEF Who
<1>2. TypeInv /\ c \in Cache
  BY <1>1 DEF ContentInv, TypeInv
<1>3. UNCHANGED <<down, db, dangling>>
  BY DEF content_flush_request
<1>4. CASE UNCHANGED <<cache, up>>
  BY <1>3, <1>4 DEF ContentInv, TypeInv
<1>5. CASE /\ c.dirty # 0
           /\ \E s \in cache_flush(c) :
                /\ cache' = [cache EXCEPT ![r] =
                               [Flushed(c, s) EXCEPT !.flush = @ \cup {Client(q)}]]
                /\ up' = [up EXCEPT ![r] = @ \o Stores(s)]
  <2>1. PICK s \in cache_flush(c) :
                /\ cache' = [cache EXCEPT ![r] =
                               [Flushed(c, s) EXCEPT !.flush = @ \cup {Client(q)}]]
                /\ up' = [up EXCEPT ![r] = @ \o Stores(s)]
    BY <1>5, Zenon
  <2> DEFINE f == Flushed(c, s)
             c1 == [f EXCEPT !.flush = f.flush \cup {Client(q)}]
  <2>2. f \in Cache /\ up[r] \o Stores(s) \in Seq(UpMsg)
    <3>1. up[r] \in Seq(UpMsg)
      BY <1>1, <1>2 DEF TypeInv
    <3> HIDE DEF c
    <3>2. QED
      BY <1>2, <3>1, FlushTypes
  <2>3. cache' = [cache EXCEPT ![r] = c1]
    BY <2>1, <2>2 DEF Cache
  <2>4. c1 \in Cache /\ c1 = [f EXCEPT !.flush = c1.flush]
    <3> HIDE DEF f
    <3>1. QED
      BY <1>1, <2>2 DEF Cache
  <2>5. up' = [up EXCEPT ![r] = up[r] \o Stores(s)]
    BY <2>1
  <2> HIDE DEF c1
  <2>6. TypeInv'
    BY <1>1, <1>2, <1>3, <2>2, <2>3, <2>4, <2>5 DEF TypeInv
  <2>7. CacheInv(cache) /\ MsgInv(cache, up, down)
        => CacheInv(cache') /\ MsgInv(cache', up', down')
    BY <1>1, <1>2, <1>3, <1>5, <2>3, <2>4, <2>5, FlushStep, Zenon DEF c
  <2>8. QED
    BY <1>3, <2>6, <2>7 DEF ContentInv
<1>6. QED
  BY <1>4, <1>5, Zenon DEF content_flush_request

\* Registering the backing store, and the flush it starts, keep the invariant.
LEMMA RegisterStep ==
    ASSUME ContentInv, content_register_backing_store
    PROVE  ContentInv'
<1> DEFINE c == [cache[0] EXCEPT !.backing = TRUE]
<1>1. 0 \in Ranks
  BY ContentAssumption
<1>2. TypeInv /\ cache[0] \in Cache
  BY <1>1 DEF ContentInv, TypeInv
<1>3. UNCHANGED <<down, db, dangling>>
  BY DEF content_register_backing_store
<1>4. /\ c \in Cache /\ c.entries = cache[0].entries
      /\ c.dirty = cache[0].dirty /\ c.batch = cache[0].batch
      /\ c.flush = cache[0].flush
  BY <1>2, Zenon DEF Cache
<1>5. PICK s \in cache_flush(c) :
                /\ cache' = [cache EXCEPT ![0] = Flushed(c, s)]
                /\ up' = [up EXCEPT ![0] = up[0] \o Stores(s)]
  BY Zenon DEF content_register_backing_store
<1> HIDE DEF c
<1> DEFINE f == Flushed(c, s)
<1>6. f \in Cache /\ up[0] \o Stores(s) \in Seq(UpMsg)
  <2>1. up[0] \in Seq(UpMsg)
    BY <1>1, <1>2 DEF TypeInv
  <2>2. QED
    BY <1>4, <2>1, FlushTypes
<1>7. TypeInv'
  BY <1>1, <1>2, <1>3, <1>5, <1>6 DEF TypeInv
<1>8. ASSUME CacheInv(cache), MsgInv(cache, up, down)
      PROVE  CacheInv(cache') /\ MsgInv(cache', up', down')
  <2>1. f = [f EXCEPT !.flush = f.flush] /\ f.flush = c.flush
    BY <1>4, <1>6, Zenon DEF Flushed, Cache
  <2>2. cache[0].dirty = 0 => cache[0].flush = {}
    <3>1. Counted(cache[0]) /\ GoesOn(0, cache[0])
      BY <1>1, <1>8 DEF CacheInv
    <3>2. cache[0].dirty = 0 => ~(cache[0].batch > 0)
      BY <1>2, <3>1, CountedTodo
    <3>3. QED
      BY <3>1, <3>2 DEF GoesOn
  <2>3. c.dirty = 0 => f.flush = {}
    BY <1>4, <2>1, <2>2
  <2> HIDE DEF f
  <2>4. QED
    BY <1>1, <1>2, <1>3, <1>4, <1>5, <1>6, <1>8, <2>1, <2>3,
       FlushStep, Zenon DEF f
<1>9. QED
  BY <1>3, <1>7, <1>8 DEF ContentInv
=============================================================================
