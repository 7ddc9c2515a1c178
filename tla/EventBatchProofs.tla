-------------------------- MODULE EventBatchProofs --------------------------
(***************************************************************************)
(* Theorems about the batches of the job-manager (module EventBatch).      *)
(*                                                                         *)
(* The batches cut the events posted into consecutive pieces; BatchInv     *)
(* names the cuts and says what has been done with the pieces so far.      *)
(***************************************************************************)
EXTENDS EventBatch, ListProofs

-----------------------------------------------------------------------------
(* Prefixes of sequences *)

\* A prefix agrees entry by entry.
LEMMA PrefixElements ==
    ASSUME NEW S, NEW s \in Seq(S), NEW t \in Seq(S)
    PROVE  IsPrefix(s, t) <=>
             Len(s) <= Len(t) /\ \A i \in 1..Len(s) : s[i] = t[i]
<1>1. SubSeq(s, 1, Len(s)) = s
  BY SubSeqFull
<1>2. ASSUME Len(s) <= Len(t)
      PROVE  /\ SubSeq(t, 1, Len(s)) \in Seq(S)
             /\ Len(SubSeq(t, 1, Len(s))) = Len(s)
             /\ \A i \in 1..Len(s) : SubSeq(t, 1, Len(s))[i] = t[i]
  BY <1>2
<1>3. QED
  BY <1>1, <1>2, SeqEqual DEF IsPrefix

\* The members of Prefixes(t) are the prefixes of t.
LEMMA PrefixesAre ==
    ASSUME NEW S, NEW t \in Seq(S)
    PROVE  \A s : s \in Prefixes(t) <=> s \in Seq(S) /\ IsPrefix(s, t)
<1>1. ASSUME NEW s, s \in Prefixes(t)
      PROVE  s \in Seq(S) /\ IsPrefix(s, t)
  <2>1. PICK l \in 0..Len(t) : s = SubSeq(t, 1, l)
    BY <1>1 DEF Prefixes
  <2>2. s \in Seq(S) /\ Len(s) = l /\ \A i \in 1..l : s[i] = t[i]
    BY <2>1
  <2>3. QED
    BY <2>2, PrefixElements
<1>2. ASSUME NEW s \in Seq(S), IsPrefix(s, t)
      PROVE  s \in Prefixes(t)
  <2>1. Len(s) <= Len(t) /\ s = SubSeq(t, 1, Len(s))
    BY <1>2, SubSeqFull DEF IsPrefix
  <2>2. Len(s) \in 0..Len(t)
    BY <2>1
  <2>3. QED
    BY <2>1, <2>2, Zenon DEF Prefixes
<1>3. QED
  BY <1>1, <1>2

\* A sequence is a prefix of itself, of what extends it, and of what extends
\* an extension.
LEMMA PrefixExtends ==
    ASSUME NEW S, NEW s \in Seq(S), NEW t \in Seq(S), NEW u \in Seq(S)
    PROVE  /\ IsPrefix(s, s)
           /\ IsPrefix(s, s \o t)
           /\ IsPrefix(s, t) /\ IsPrefix(t, u) => IsPrefix(s, u)
           /\ IsPrefix(s, t) => Len(s) <= Len(t) /\ Entries(s) \subseteq Entries(t)
<1>1. IsPrefix(s, s)
  BY PrefixElements
<1>2. IsPrefix(s, s \o t)
  <2>1. s \o t \in Seq(S) /\ Len(s \o t) = Len(s) + Len(t)
        /\ \A i \in 1..Len(s) : (s \o t)[i] = s[i]
    OBVIOUS
  <2>2. \A v \in Seq(S) : IsPrefix(s, v) <=>
               Len(s) <= Len(v) /\ \A i \in 1..Len(s) : s[i] = v[i]
    BY PrefixElements
  <2>3. Len(s) <= Len(s \o t) /\ \A i \in 1..Len(s) : s[i] = (s \o t)[i]
    BY <2>1
  <2>4. QED
    BY <2>1, <2>2, <2>3, Zenon
<1>3. IsPrefix(s, t) /\ IsPrefix(t, u) => IsPrefix(s, u)
  BY PrefixElements
<1>4. IsPrefix(s, t) => Len(s) <= Len(t) /\ Entries(s) \subseteq Entries(t)
  BY PrefixElements DEF Entries
<1>5. QED
  BY <1>1, <1>2, <1>3, <1>4

\* Appending an entry, also at the end of a concatenation.
LEMMA AppendConcat ==
    \A S : \A x \in S : \A s \in Seq(S) :
       /\ Append(s, x) # <<>> /\ Len(Append(s, x)) = Len(s) + 1
       /\ \A t \in Seq(S) : Append(s \o t, x) = s \o Append(t, x)
<1>1. TAKE S
<1>2. TAKE x \in S
<1>3. TAKE s \in Seq(S)
<1>4. Append(s, x) # <<>> /\ Len(Append(s, x)) = Len(s) + 1
  <2>1. Len(Append(s, x)) = Len(s) + 1 /\ Len(s) \in Nat
    OBVIOUS
  <2>2. Len(Append(s, x)) # 0 /\ Len(<<>>) = 0
    BY <2>1
  <2>3. Append(s, x) # <<>>
    BY <2>2, Zenon
  <2>4. QED
    BY <2>1, <2>3
<1>5. ASSUME NEW t \in Seq(S)
      PROVE  Append(s \o t, x) = s \o Append(t, x)
  OBVIOUS
<1>6. QED
  BY <1>4, <1>5

\* A prefix of a sequence is a prefix of what extends it by an entry.
LEMMA PrefixAppend ==
    ASSUME NEW S, NEW s \in Seq(S), NEW t \in Seq(S), NEW x \in S,
           IsPrefix(s, t)
    PROVE  IsPrefix(s, Append(t, x))
<1>1. Append(t, x) \in Seq(S) /\ Len(Append(t, x)) = Len(t) + 1
      /\ \A i \in 1..Len(t) : Append(t, x)[i] = t[i]
  OBVIOUS
<1>2. \A u \in Seq(S) : IsPrefix(s, u) <=>
             Len(s) <= Len(u) /\ \A i \in 1..Len(s) : s[i] = u[i]
  BY PrefixElements
<1>3. Len(s) <= Len(t) /\ \A i \in 1..Len(s) : s[i] = t[i]
  BY <1>2
<1>4. \A i \in 1..Len(s) : s[i] = Append(t, x)[i]
  BY <1>1, <1>3
<1>5. Len(s) <= Len(Append(t, x))
  BY <1>1, <1>3
<1>6. QED
  BY <1>1, <1>2, <1>4, <1>5, Zenon

-----------------------------------------------------------------------------
(* The state changes among the events *)

\* The rank of a position counts the kept positions up to it: positions after
\* it do not matter.
LEMMA RankStays ==
    ASSUME NEW K, NEW n \in Nat, K \subseteq 1..n, NEW i \in 1..n
    PROVE  Rank(K \union {n + 1}, i) = Rank(K, i)
<1>1. {m \in K \union {n + 1} : m <= i} = {m \in K : m <= i}
  OBVIOUS
<1>2. QED
  BY <1>1 DEF Rank

\* Without(s, C) is the only sequence whose k-th entry is the one at the kept
\* position of rank k.
LEMMA WithoutElements ==
    ASSUME NEW S, NEW s \in Seq(S), NEW C
    PROVE  /\ Len(Without(s, C)) = Cardinality(Kept(s, C))
           /\ Cardinality(Kept(s, C)) \in Nat
           /\ \A i \in Kept(s, C) :
                /\ Rank(Kept(s, C), i) \in 1..Cardinality(Kept(s, C))
                /\ Without(s, C)[Rank(Kept(s, C), i)] = s[i]
           /\ \A k \in 1..Cardinality(Kept(s, C)) :
                \E i \in Kept(s, C) : Rank(Kept(s, C), i) = k
<1> DEFINE K == Kept(s, C)
           n == Cardinality(K)
           at(k) == CHOOSE i \in K : Rank(K, i) = k
<1>1. K \subseteq 1..Len(s) /\ Len(s) \in Nat
  BY DEF Kept
<1>2. K \subseteq Nat /\ IsFiniteSet(K)
  <2>1. IsFiniteSet(1..Len(s))
    BY <1>1, FS_Interval
  <2>2. QED
    BY <1>1, <2>1, FS_Subset
<1>3. /\ n \in Nat
      /\ \A i \in K : Rank(K, i) \in 1..n
      /\ \A i, j \in K : Rank(K, i) = Rank(K, j) => i = j
      /\ \A k \in 1..n : \E i \in K : Rank(K, i) = k
  BY <1>2, RankBijection
<1>4. Without(s, C) = [k \in 1..n |-> s[at(k)]]
  BY DEF Without
<1> HIDE DEF K
<1>5. \A k \in 1..n : at(k) \in K /\ Rank(K, at(k)) = k
  BY <1>3
<1>6. \A i \in K : at(Rank(K, i)) = i
  BY <1>3, <1>5
<1> HIDE DEF at, n
<1>7. Len(Without(s, C)) = n /\ \A k \in 1..n : Without(s, C)[k] = s[at(k)]
  BY <1>3, <1>4
<1>8. \A i \in K : Without(s, C)[Rank(K, i)] = s[i]
  BY <1>3, <1>6, <1>7
<1>9. QED
  BY <1>3, <1>7, <1>8 DEF K, n

\* Posting an event appends it to the state changes, or does not change them.
LEMMA WithoutAppend ==
    ASSUME NEW S, NEW s \in Seq(S), NEW C, NEW x \in S
    PROVE  Without(Append(s, x), C) =
             IF x \in C THEN Without(s, C) ELSE Append(Without(s, C), x)
<1> DEFINE t == Append(s, x)
           K == Kept(s, C)
           J == Kept(t, C)
           n == Len(s)
<1>1. /\ t \in Seq(S) /\ n \in Nat /\ Len(t) = n + 1
      /\ t[n + 1] = x /\ \A i \in 1..n : t[i] = s[i]
  OBVIOUS
<1>2. K \subseteq 1..n
  BY DEF Kept
<1>3. J = IF x \in C THEN K ELSE K \union {n + 1}
  <2> HIDE DEF t
  <2>1. QED
    BY <1>1 DEF Kept
<1>4. IsFiniteSet(K) /\ n + 1 \notin K
  <2>1. IsFiniteSet(1..n)
    BY <1>1, FS_Interval
  <2>2. QED
    BY <1>1, <1>2, <2>1, FS_Subset
<1>5. /\ Without(s, C) \in Seq(S) /\ Without(t, C) \in Seq(S)
  BY <1>1, WithoutEntries
<1>6. /\ Len(Without(s, C)) = Cardinality(K) /\ Cardinality(K) \in Nat
      /\ \A i \in K : Rank(K, i) \in 1..Cardinality(K)
                      /\ Without(s, C)[Rank(K, i)] = s[i]
      /\ \A k \in 1..Cardinality(K) : \E i \in K : Rank(K, i) = k
  BY WithoutElements
<1>7. /\ Len(Without(t, C)) = Cardinality(J) /\ Cardinality(J) \in Nat
      /\ \A i \in J : Rank(J, i) \in 1..Cardinality(J)
                      /\ Without(t, C)[Rank(J, i)] = t[i]
  BY <1>1, WithoutElements
<1> HIDE DEF t, K, J, n
<1>8. CASE x \in C
  <2>1. J = K
    BY <1>3, <1>8
  <2>2. \A k \in 1..Cardinality(K) : Without(t, C)[k] = Without(s, C)[k]
    <3>1. TAKE k \in 1..Cardinality(K)
    <3>2. PICK i \in K : Rank(K, i) = k
      BY <1>6
    <3>3. QED
      BY <1>1, <1>2, <1>6, <1>7, <2>1, <3>2
  <2>3. Without(t, C) = Without(s, C)
    BY <1>5, <1>6, <1>7, <2>1, <2>2, SeqEqual
  <2>4. QED
    BY <1>8, <2>3 DEF t
<1>9. CASE x \notin C
  <2>1. J = K \union {n + 1}
    BY <1>3, <1>9
  <2>2. Cardinality(J) = Cardinality(K) + 1
    BY <1>4, <2>1, AddOne
  <2>3. \A i \in K : Rank(J, i) = Rank(K, i)
    BY <1>1, <1>2, <2>1, RankStays
  <2>4. Rank(J, n + 1) = Cardinality(K) + 1
    <3>1. \A m \in J : m <= n + 1
      BY <1>1, <1>2, <2>1
    <3>2. {m \in J : m <= n + 1} = J
      BY <3>1
    <3>3. QED
      BY <2>2, <3>2 DEF Rank
  <2>5. Without(t, C)[Cardinality(K) + 1] = x
    <3>1. n + 1 \in J
      BY <2>1
    <3>2. Without(t, C)[Rank(J, n + 1)] = t[n + 1]
      BY <1>7, <3>1
    <3>3. QED
      BY <1>1, <2>4, <3>2
  <2>6. \A k \in 1..Cardinality(K) : Without(t, C)[k] = Without(s, C)[k]
    <3>1. TAKE k \in 1..Cardinality(K)
    <3>2. PICK i \in K : Rank(K, i) = k
      BY <1>6
    <3>3. i \in J /\ i \in 1..n
      BY <1>2, <2>1
    <3>4. Without(t, C)[Rank(J, i)] = t[i] /\ t[i] = s[i]
      BY <1>1, <1>7, <3>3
    <3>5. QED
      BY <1>6, <2>3, <3>2, <3>4
  <2> DEFINE u == Append(Without(s, C), x)
  <2>7. /\ u \in Seq(S) /\ Len(u) = Cardinality(K) + 1
        /\ u[Cardinality(K) + 1] = x
        /\ \A k \in 1..Cardinality(K) : u[k] = Without(s, C)[k]
    BY <1>5, <1>6, AppendProperties
  <2> HIDE DEF u
  <2>8. \A k \in 1..Len(u) : Without(t, C)[k] = u[k]
    BY <1>6, <2>5, <2>6, <2>7
  <2>9. Without(t, C) = u
    BY <1>5, <1>7, <2>2, <2>7, <2>8, SeqEqual
  <2>10. QED
    BY <1>9, <2>9 DEF t, u
<1>10. QED
  BY <1>8, <1>9

\* StateChanges of a list of events and of one more event.
LEMMA ChangesOfEvents ==
    ASSUME NEW s \in EventList, NEW e \in Events
    PROVE  /\ StateChanges(s) \in EventList
           /\ Entries(StateChanges(s)) \subseteq Entries(s)
           /\ StateChanges(<<>>) = <<>>
           /\ StateChanges(Append(s, e)) =
                IF e \in Transitions THEN Append(StateChanges(s), e)
                ELSE StateChanges(s)
<1>1. /\ StateChanges(s) \in EventList
      /\ Entries(StateChanges(s)) \subseteq Entries(s)
  BY WithoutEntries DEF EventList, StateChanges
<1>2. StateChanges(<<>>) = <<>>
  <2>1. <<>> \in EventList /\ Entries(<<>>) = {}
    BY DEF EventList, Entries
  <2>2. StateChanges(<<>>) \in EventList /\ Entries(StateChanges(<<>>)) = {}
    <3>1. \A q \in Seq(Events) : \A C :
             Without(q, C) \in Seq(Events) /\ Entries(Without(q, C)) = Entries(q) \ C
      BY WithoutEntries
    <3>2. QED
      BY <2>1, <3>1, Zenon DEF EventList, StateChanges
  <2>3. QED
    BY <2>2 DEF EventList, Entries
<1>3. StateChanges(Append(s, e)) =
        IF e \in Transitions THEN Append(StateChanges(s), e)
        ELSE StateChanges(s)
  BY WithoutAppend DEF EventList, StateChanges
<1>4. QED
  BY <1>1, <1>2, <1>3

-----------------------------------------------------------------------------
(* BatchInv is inductive.  The steps that post, commit or destroy change the *)
(* cuts; a lemma for each says how.                                          *)

\* Cuts, as sequences of events.
Cuts(L, m) ==
    /\ L \in [0..Len(pending) -> EventList]
    /\ \A i \in 0..Len(pending) : IsPrefix(L[i], posted)
    /\ m \in 0..Len(pending)
    /\ Cut(L, m)

\* BatchInv speaks of cuts as members of a set that TLC can enumerate.
LEMMA CutsPrefixes ==
    ASSUME NEW p \in EventList, NEW n
    PROVE  \A L : L \in [0..n -> Prefixes(p)] <=>
                    /\ L \in [0..n -> EventList]
                    /\ \A i \in 0..n : IsPrefix(L[i], p)
<1>1. \A s : s \in Prefixes(p) <=> s \in EventList /\ IsPrefix(s, p)
  BY PrefixesAre DEF EventList
<1>2. QED
  BY <1>1, Zenon

\* What the fields of a batch are.
LEMMA BatchFields ==
    ASSUME TypeOK
    PROVE  /\ posted \in Seq(Events) /\ kvs \in Seq(Events)
           /\ published \in Seq(Events)
           /\ Len(pending) \in Nat /\ Len(posted) \in Nat
           /\ batch.txn \in Seq(Events) /\ batch.trans \in Seq(Events)
           /\ batch.responses \subseteq Requests
           /\ \A i \in 1..Len(pending) :
                /\ pending[i] \in Batch
                /\ pending[i].txn \in Seq(Events)
                /\ pending[i].trans \in Seq(Events)
                /\ pending[i].responses \subseteq Requests
                /\ pending[i].f \in {"sent", "ok", "error"}
           /\ \A r \in Requests : handed[r].n \in Nat /\ handed[r].with \in BOOLEAN
<1>1. \A b \in Batch :
         /\ b.txn \in Seq(Events) /\ b.trans \in Seq(Events)
         /\ b.responses \subseteq Requests
         /\ b.f \in {"none", "sent", "ok", "error"}
  BY DEF Batch, EventList
<1>2. \A i \in 1..Len(pending) : pending[i] \in Batch
  BY DEF TypeOK
<1>3. Len(pending) \in Nat /\ Len(posted) \in Nat
  BY DEF TypeOK, EventList
<1>4. \A r \in Requests : handed[r].n \in Nat /\ handed[r].with \in BOOLEAN
  BY DEF TypeOK
<1>5. QED
  BY <1>1, <1>2, <1>3, <1>4 DEF TypeOK, EventList

\* The cuts are prefixes of what was posted, and so are their state changes.
LEMMA CutFields ==
    ASSUME TypeOK, NEW L, NEW m, Cuts(L, m)
    PROVE  /\ m \in Nat /\ m <= Len(pending)
           /\ L \in [0..Len(pending) -> Seq(Events)]
           /\ \A i \in 0..Len(pending) :
                /\ L[i] \in Seq(Events) /\ Len(L[i]) \in Nat
                /\ StateChanges(L[i]) \in Seq(Events)
                /\ Entries(StateChanges(L[i])) \subseteq Entries(L[i])
                /\ IsPrefix(L[i], posted)
           /\ StateChanges(posted) \in Seq(Events)
<1>1. L \in [0..Len(pending) -> Seq(Events)]
  BY DEF Cuts, EventList
<1>2. \A s \in Seq(Events) :
         /\ StateChanges(s) \in Seq(Events)
         /\ Entries(StateChanges(s)) \subseteq Entries(s)
  BY WithoutEntries DEF StateChanges
<1>3. \A i \in 0..Len(pending) : L[i] \in Seq(Events)
  BY <1>1
<1>4. QED
  BY <1>1, <1>2, <1>3, BatchFields DEF Cuts

\* Posting an event moves no cut.
LEMMA PostCuts ==
    ASSUME TypeOK, NEW L, NEW m, Cuts(L, m), NEW e \in Events,
           event_batch_commit_event(e)
    PROVE  Cuts(L, m)'
<1>1. /\ posted' = Append(posted, e) /\ pending' = pending
      /\ module' = module /\ kvs' = kvs /\ published' = published
      /\ handed' = handed /\ answered' = answered /\ failed' = failed
      /\ batch' = [batch EXCEPT
                   !.txn = Append(@, e),
                   !.trans = IF e \in Transitions THEN Append(@, e) ELSE @]
      /\ module = "run"
  BY DEF event_batch_commit_event
<1>2. /\ batch'.txn = Append(batch.txn, e)
      /\ batch'.trans = IF e \in Transitions THEN Append(batch.trans, e)
                        ELSE batch.trans
  BY <1>1 DEF TypeOK, Batch
<1>3. \A i \in 0..Len(pending) : IsPrefix(L[i], posted')
  BY <1>1, BatchFields, CutFields, PrefixAppend
<1>4. StateChanges(posted') = IF e \in Transitions
                                THEN Append(StateChanges(posted), e)
                                ELSE StateChanges(posted)
  BY <1>1, BatchFields, ChangesOfEvents DEF EventList
<1>5. \A i \in 0..Len(pending) : IsPrefix(StateChanges(L[i]), StateChanges(posted'))
  <2>1. TAKE i \in 0..Len(pending)
  <2>2. IsPrefix(StateChanges(L[i]), StateChanges(posted))
    BY DEF Cuts, Cut
  <2>3. QED
    BY <1>4, <2>2, CutFields, PrefixAppend
<1>6. /\ posted' = L[Len(pending)] \o batch'.txn
      /\ StateChanges(posted') = StateChanges(L[Len(pending)]) \o batch'.trans
  <2> DEFINE n == Len(pending)
  <2>1. /\ posted = L[n] \o batch.txn
        /\ StateChanges(posted) = StateChanges(L[n]) \o batch.trans
    BY <1>1 DEF Cuts, Cut
  <2>2. n \in 0..Len(pending)
    BY BatchFields
  <2> HIDE DEF n
  <2>3. L[n] \in Seq(Events) /\ StateChanges(L[n]) \in Seq(Events)
    BY <2>2, CutFields
  <2>4. /\ Append(L[n] \o batch.txn, e) = L[n] \o Append(batch.txn, e)
        /\ Append(StateChanges(L[n]) \o batch.trans, e)
             = StateChanges(L[n]) \o Append(batch.trans, e)
    <3>1. \A s, u \in Seq(Events) : Append(s \o u, e) = s \o Append(u, e)
      BY AppendConcat, Zenon
    <3>2. QED
      BY <2>3, <3>1, BatchFields, Zenon
  <2>5. QED
    BY <1>1, <1>2, <1>4, <2>1, <2>4 DEF n
<1>7. QED
  BY <1>1, <1>3, <1>5, <1>6 DEF Cuts, Cut

\* A response is handed over once; none that was handed over before changes.
LEMMA RespondCuts ==
    ASSUME TypeOK, NEW L, NEW m, Cuts(L, m), NEW r \in Requests,
           event_batch_respond(r)
    PROVE  Cuts(L, m)'
<1>1. /\ posted' = posted /\ pending' = pending
      /\ module' = module /\ kvs' = kvs /\ published' = published
      /\ answered' = answered /\ failed' = failed
      /\ batch' = [batch EXCEPT !.responses = @ \union {r}]
      /\ handed' = [handed EXCEPT ![r] = [n |-> Len(posted),
                                     with |-> batch.txn # <<>>]]
      /\ r \notin answered
      /\ \A i \in 1..Len(pending) : r \notin pending[i].responses
  BY DEF event_batch_respond, Handed
<1>2. batch'.txn = batch.txn /\ batch'.trans = batch.trans
  BY <1>1 DEF TypeOK, Batch
<1>3. \A q : q # r => handed'[q] = handed[q]
  BY <1>1 DEF TypeOK
<1>4. \A q \in answered : handed'[q] = handed[q]
  BY <1>1, <1>3
<1>5. \A i \in 1..Len(pending) : \A q \in pending[i].responses :
         handed'[q] = handed[q]
  BY <1>1, <1>3
<1>6. /\ \A q \in answered : handed'[q].with => handed'[q].n <= Len(L[0])
      /\ \A i \in 1..Len(pending) : \A q \in pending[i].responses :
            handed'[q].with => handed'[q].n <= Len(L[i])
  BY <1>4, <1>5 DEF Cuts, Cut
<1>7. QED
  BY <1>1, <1>2, <1>6 DEF Cuts, Cut

\* The first commit that has not completed completes: the KVS has the events of
\* one more batch.
LEMMA CommitCuts ==
    ASSUME TypeOK, NEW L, NEW m, Cuts(L, m), NEW f \in {"ok", "error"},
           kvs_commit(f)
    PROVE  Cuts(L, m + 1)'
<1> DEFINE i == CHOOSE i \in Sent : \A k \in Sent : i <= k
<1>1. /\ posted' = posted /\ module' = module /\ published' = published
      /\ answered' = answered /\ handed' = handed /\ batch' = batch
      /\ pending' = [pending EXCEPT ![i].f = f]
      /\ kvs' = IF f = "ok" THEN kvs \o pending[i].txn ELSE kvs
      /\ failed' = (failed \/ f = "error")
      /\ Sent # {}
  BY DEF kvs_commit
<1>2. \A k \in 1..Len(pending) : pending[k].f = "sent" <=> k > m
  BY DEF Cuts, Cut
<1>3. m \in Nat /\ m <= Len(pending) /\ Len(pending) \in Nat
  BY BatchFields, CutFields
<1>4. Sent = m + 1..Len(pending)
  BY <1>2, <1>3 DEF Sent
<1>5. m + 1 \in Sent /\ \A k \in Sent : m + 1 <= k
  BY <1>1, <1>3, <1>4
<1>6. i = m + 1
  <2>1. i \in Sent /\ \A k \in Sent : i <= k
    BY <1>5
  <2> HIDE DEF i
  <2>2. QED
    BY <1>3, <1>4, <1>5, <2>1
<1> HIDE DEF i
<1>7. m + 1 \in 1..Len(pending)
  BY <1>3, <1>4, <1>5
<1>8. /\ Len(pending') = Len(pending)
      /\ \A k \in 1..Len(pending) :
           /\ pending'[k].txn = pending[k].txn
           /\ pending'[k].trans = pending[k].trans
           /\ pending'[k].responses = pending[k].responses
           /\ pending'[k].f = IF k = m + 1 THEN f ELSE pending[k].f
  BY <1>1, <1>6, <1>7, BatchFields DEF TypeOK, Batch
<1>9. \A k \in 1..Len(pending) : pending'[k].f = "sent" <=> k > m + 1
  BY <1>2, <1>3, <1>8
<1>10. ~failed' => kvs' = L[m + 1]
  <2>1. L[m + 1] = L[m] \o pending[m + 1].txn
    <3>1. L[m + 1] = L[(m + 1) - 1] \o pending[m + 1].txn
      BY <1>7, Zenon DEF Cuts, Cut
    <3>2. (m + 1) - 1 = m
      BY <1>3
    <3>3. QED
      BY <3>1, <3>2
  <2>2. ~failed' => ~failed /\ f = "ok"
    BY <1>1
  <2>3. ~failed => kvs = L[m]
    BY DEF Cuts, Cut
  <2>4. QED
    BY <1>1, <1>6, <2>1, <2>2, <2>3
<1>11. m + 1 \in 0..Len(pending)
  BY <1>7
<1>12. QED
  BY <1>1, <1>8, <1>9, <1>10, <1>11 DEF Cuts, Cut

\* The first batch is destroyed: the cuts lose the first one.
LEMMA DestroyCuts ==
    ASSUME TypeOK, NEW L, NEW m, Cuts(L, m), Completed,
           pending' = Tail(pending), event_batch_destroy(Head(pending)),
           module # "crashed", module' # "crashed",
           UNCHANGED <<batch, posted, kvs, handed, failed>>
    PROVE  \E M : Cuts(M, m - 1)'
<1> DEFINE n == Len(pending)
<1>0. PICK M : M = [i \in 0..n - 1 |-> L[i + 1]]
  OBVIOUS
<1>1. /\ n \in Nat /\ pending # <<>> /\ n > 0
      /\ Head(pending) = pending[1] /\ pending[1].f # "sent"
  BY BatchFields DEF Completed, TypeOK
<1>2. /\ Len(pending') = n - 1
      /\ \A i \in 1..n - 1 : pending'[i] = pending[i + 1]
  BY <1>1 DEF TypeOK
<1>3. m \in 1..n
  <2>1. 1 \in 1..Len(pending)
    BY <1>1
  <2>2. pending[1].f = "sent" <=> 1 > m
    BY <2>1, Zenon DEF Cuts, Cut
  <2>3. QED
    BY <1>1, <2>2, CutFields
<1>4. /\ M \in [0..n - 1 -> EventList]
      /\ \A i \in 0..n - 1 : M[i] = L[i + 1] /\ i + 1 \in 0..n
  <2>1. \A i \in 0..n - 1 : i + 1 \in 0..n
    BY <1>1
  <2>2. \A i \in 0..n - 1 : M[i] = L[i + 1]
    BY <1>0
  <2>3. \A k \in 0..n : L[k] \in EventList
    BY CutFields DEF EventList
  <2>4. \A i \in 0..n - 1 : L[i + 1] \in EventList
    BY <2>1, <2>3
  <2> HIDE DEF n
  <2>5. M \in [0..n - 1 -> EventList]
    BY <1>0, <2>4
  <2>6. QED
    BY <2>1, <2>2, <2>5
<1>5. \A i \in 0..n - 1 : IsPrefix(M[i], posted)
  BY <1>4, CutFields
<1>6. \A i, k \in 0..n - 1 : i <= k => IsPrefix(M[i], M[k])
  <2>1. \A i, k \in 0..n : i <= k => IsPrefix(L[i], L[k])
    BY DEF Cuts, Cut
  <2>2. QED
    BY <1>4, <2>1
<1>7. \A i \in 0..n - 1 : IsPrefix(StateChanges(M[i]), StateChanges(posted))
  BY <1>4 DEF Cuts, Cut
<1>8. \A i \in 1..n - 1 :
         /\ M[i] = M[i - 1] \o pending'[i].txn
         /\ StateChanges(M[i]) = StateChanges(M[i - 1]) \o pending'[i].trans
         /\ pending'[i].f = "sent" <=> i > m - 1
         /\ \A r \in pending'[i].responses :
               handed[r].with => handed[r].n <= Len(M[i])
  <2>1. TAKE i \in 1..n - 1
  <2>2. /\ i + 1 \in 1..n /\ (i + 1) - 1 = i
        /\ M[i] = L[i + 1] /\ M[i - 1] = L[i] /\ pending'[i] = pending[i + 1]
    <3>1. /\ i \in 0..n - 1 /\ i - 1 \in 0..n - 1 /\ (i - 1) + 1 = i
          /\ i + 1 \in 1..n /\ (i + 1) - 1 = i
      BY <1>1
    <3>2. M[i - 1] = L[(i - 1) + 1]
      BY <1>4, <3>1
    <3>3. QED
      BY <1>2, <1>4, <3>1, <3>2
  <2>3. /\ L[i + 1] = L[(i + 1) - 1] \o pending[i + 1].txn
        /\ StateChanges(L[i + 1])
             = StateChanges(L[(i + 1) - 1]) \o pending[i + 1].trans
        /\ pending[i + 1].f = "sent" <=> i + 1 > m
        /\ \A r \in pending[i + 1].responses :
              handed[r].with => handed[r].n <= Len(L[i + 1])
    BY <2>2, Zenon DEF Cuts, Cut
  <2>4. i + 1 > m <=> i > m - 1
    BY <1>1, <1>3
  <2>5. QED
    BY <2>2, <2>3, <2>4
<1>9. /\ published' = published \o pending[1].trans
      /\ answered' = answered \union pending[1].responses
  BY <1>1 DEF event_batch_destroy
<1>10. M[0] = L[1] /\ 0 \in 0..n - 1
  BY <1>1, <1>4
<1>11. published' = StateChanges(M[0])
  <2>1. 1 \in 1..Len(pending) /\ 1 - 1 = 0
    BY <1>1
  <2>2. StateChanges(L[1]) = StateChanges(L[1 - 1]) \o pending[1].trans
    BY <2>1, Zenon DEF Cuts, Cut
  <2>3. published = StateChanges(L[0])
    BY DEF Cuts, Cut
  <2>4. QED
    BY <1>9, <1>10, <2>1, <2>2, <2>3
<1>12. \A r \in answered' : handed[r].with => handed[r].n <= Len(M[0])
  <2>1. ASSUME NEW r \in answered, handed[r].with
        PROVE  handed[r].n <= Len(M[0])
    <3>1. handed[r].n <= Len(L[0]) /\ IsPrefix(L[0], L[1])
      BY <1>1, <2>1 DEF Cuts, Cut
    <3>2. L[0] \in Seq(Events) /\ L[1] \in Seq(Events) /\ r \in Requests
      BY <1>1, CutFields DEF TypeOK
    <3>3. Len(L[0]) <= Len(L[1])
      BY <3>1, <3>2, PrefixElements
    <3>4. QED
      BY <1>10, <3>1, <3>2, <3>3, BatchFields
  <2>2. ASSUME NEW r \in pending[1].responses, handed[r].with
        PROVE  handed[r].n <= Len(M[0])
    <3>1. 1 \in 1..Len(pending)
      BY <1>1
    <3>2. handed[r].n <= Len(L[1])
      BY <2>2, <3>1, Zenon DEF Cuts, Cut
    <3>3. QED
      BY <1>10, <3>2
  <2>3. QED
    BY <1>9, <2>1, <2>2
<1>13. ~failed => kvs = M[m - 1]
  <2>1. m - 1 \in 0..n - 1 /\ (m - 1) + 1 = m
    BY <1>1, <1>3
  <2>2. M[m - 1] = L[(m - 1) + 1]
    BY <1>4, <2>1
  <2>3. QED
    BY <2>1, <2>2 DEF Cuts, Cut
<1>14. /\ posted = M[n - 1] \o batch.txn
       /\ StateChanges(posted) = StateChanges(M[n - 1]) \o batch.trans
  <2>1. n - 1 \in 0..n - 1 /\ (n - 1) + 1 = n
    BY <1>1
  <2>2. M[n - 1] = L[(n - 1) + 1]
    BY <1>4, <2>1
  <2>3. QED
    BY <2>1, <2>2 DEF Cuts, Cut
<1>15. m - 1 \in 0..n - 1
  BY <1>1, <1>3
<1>16. Cuts(M, m - 1)'
  BY <1>2, <1>4, <1>5, <1>6, <1>7, <1>8, <1>11, <1>12, <1>13, <1>14, <1>15
     DEF Cuts, Cut
<1>17. QED
  BY <1>16

\* Nothing is lost at either end of a concatenation with the empty sequence.
LEMMA ConcatEmpty ==
    ASSUME NEW S, NEW s \in Seq(S), NEW t \in Seq(S)
    PROVE  /\ s \o <<>> = s
           /\ s = s \o t => t = <<>>
<1>1. s \o <<>> = s
  OBVIOUS
<1>2. ASSUME s = s \o t
      PROVE  t = <<>>
  <2>1. Len(s \o t) = Len(s) + Len(t) /\ Len(s) \in Nat /\ Len(t) \in Nat
    OBVIOUS
  <2>2. Len(t) = 0
    BY <1>2, <2>1
  <2>3. QED
    BY <2>2
<1>3. QED
  BY <1>1, <1>2

\* A batch without events has no changes of state.
LEMMA EmptyBatch ==
    ASSUME TypeOK, NEW L, NEW m, Cuts(L, m), module # "crashed",
           batch.txn = <<>>
    PROVE  batch.trans = <<>> /\ posted = L[Len(pending)]
<1> DEFINE n == Len(pending)
<1>1. /\ posted = L[n] \o batch.txn
      /\ StateChanges(posted) = StateChanges(L[n]) \o batch.trans
  BY DEF Cuts, Cut
<1>2. n \in 0..Len(pending)
  BY BatchFields
<1> HIDE DEF n
<1>3. L[n] \in Seq(Events) /\ StateChanges(L[n]) \in Seq(Events)
  BY <1>2, CutFields
<1>4. posted = L[n]
  <2>1. \A u \in Seq(Events) : u \o <<>> = u
    BY ConcatEmpty
  <2>2. L[n] \o <<>> = L[n]
    BY <1>3, <2>1, Zenon
  <2>3. QED
    BY <1>1, <2>2
<1>5. StateChanges(L[n]) = StateChanges(L[n]) \o batch.trans
  BY <1>1, <1>4
<1>6. \A u, v \in Seq(Events) : u = u \o v => v = <<>>
  BY ConcatEmpty
<1>7. batch.trans = <<>>
  BY <1>3, <1>5, <1>6, BatchFields, Zenon
<1>8. QED
  BY <1>4, <1>7 DEF n

\* Closing a batch that has events adds a cut after all the events posted.
LEMMA CloseCuts ==
    ASSUME TypeOK, NEW L, NEW m, Cuts(L, m), module # "crashed",
           batch.txn # <<>>,
           batch' = NoBatch,
           pending' = Append(pending, [batch EXCEPT !.f = "sent"]),
           \A r \in batch.responses : handed[r].n <= Len(posted),
           UNCHANGED <<posted, kvs, published, handed, answered, failed>>
    PROVE  \E M : Cuts(M, m)'
<1> DEFINE n == Len(pending)
<1>0. PICK M : M = [i \in 0..n + 1 |-> IF i = n + 1 THEN posted ELSE L[i]]
  OBVIOUS
<1>1. n \in Nat /\ m \in Nat /\ m <= n
  BY BatchFields, CutFields
<1>2. /\ Len(pending') = n + 1
      /\ \A i \in 1..n : pending'[i] = pending[i]
      /\ pending'[n + 1].txn = batch.txn
      /\ pending'[n + 1].trans = batch.trans
      /\ pending'[n + 1].responses = batch.responses
      /\ pending'[n + 1].f = "sent"
  <2> DEFINE b == [batch EXCEPT !.f = "sent"]
  <2>1. /\ b \in Batch /\ b.txn = batch.txn /\ b.trans = batch.trans
        /\ b.responses = batch.responses /\ b.f = "sent"
    BY DEF TypeOK, Batch
  <2> HIDE DEF b
  <2>2. pending \in Seq(Batch) /\ pending' = Append(pending, b)
    BY DEF TypeOK, b
  <2>3. /\ Len(pending') = n + 1 /\ pending'[n + 1] = b
        /\ \A i \in 1..n : pending'[i] = pending[i]
    BY <2>1, <2>2
  <2>4. QED
    BY <2>1, <2>3
<1>3. /\ M[n + 1] = posted
      /\ \A i \in 0..n : M[i] = L[i] /\ i \in 0..n + 1
  BY <1>0, <1>1
<1>4. M \in [0..n + 1 -> EventList]
  BY <1>0, <1>1, BatchFields, CutFields DEF EventList
<1>5. IsPrefix(posted, posted)
  BY BatchFields, PrefixExtends
<1>6. \A i \in 0..n + 1 : IsPrefix(M[i], posted)
  <2>1. \A i \in 0..n : IsPrefix(M[i], posted)
    BY <1>3, CutFields
  <2>2. \A i \in 0..n + 1 : i \in 0..n \/ i = n + 1
    BY <1>1
  <2>3. QED
    BY <1>3, <1>5, <2>1, <2>2
<1>7. \A i, k \in 0..n + 1 : i <= k => IsPrefix(M[i], M[k])
  <2>1. TAKE i, k \in 0..n + 1
  <2>2. HAVE i <= k
  <2>3. CASE k = n + 1
    BY <1>3, <1>6, <2>3
  <2>4. CASE k # n + 1
    <3>1. i \in 0..n /\ k \in 0..n
      BY <1>1, <2>2, <2>4
    <3>2. IsPrefix(L[i], L[k])
      BY <2>2, <3>1 DEF Cuts, Cut
    <3>3. QED
      BY <1>3, <3>1, <3>2
  <2>5. QED
    BY <2>3, <2>4
<1>8. \A i \in 0..n + 1 : IsPrefix(StateChanges(M[i]), StateChanges(posted))
  <2>1. IsPrefix(StateChanges(posted), StateChanges(posted))
    BY CutFields, PrefixExtends
  <2>2. \A i \in 0..n : IsPrefix(StateChanges(M[i]), StateChanges(posted))
    BY <1>3 DEF Cuts, Cut
  <2>3. \A i \in 0..n + 1 : i \in 0..n \/ i = n + 1
    BY <1>1
  <2>4. QED
    BY <1>3, <2>1, <2>2, <2>3
<1>9. /\ posted = L[n] \o batch.txn
      /\ StateChanges(posted) = StateChanges(L[n]) \o batch.trans
  BY DEF Cuts, Cut
<1>10. \A i \in 1..n + 1 :
         /\ M[i] = M[i - 1] \o pending'[i].txn
         /\ StateChanges(M[i]) = StateChanges(M[i - 1]) \o pending'[i].trans
         /\ pending'[i].f = "sent" <=> i > m
         /\ \A r \in pending'[i].responses :
               handed[r].with => handed[r].n <= Len(M[i])
  <2>1. TAKE i \in 1..n + 1
  <2>2. CASE i = n + 1
    <3>1. (n + 1) - 1 = n /\ n \in 0..n /\ n + 1 > m
      BY <1>1
    <3>2. M[i] = posted /\ M[i - 1] = L[n]
      BY <1>3, <2>2, <3>1
    <3>3. QED
      BY <1>2, <1>9, <2>2, <3>1, <3>2
  <2>3. CASE i # n + 1
    <3>1. i \in 1..n /\ i \in 0..n /\ i - 1 \in 0..n
      BY <1>1, <2>3
    <3>2. M[i] = L[i] /\ M[i - 1] = L[i - 1] /\ pending'[i] = pending[i]
      BY <1>2, <1>3, <3>1
    <3>3. QED
      BY <3>1, <3>2 DEF Cuts, Cut
  <2>4. QED
    BY <2>2, <2>3
<1>11. M[0] = L[0] /\ M[m] = L[m] /\ m \in 0..n + 1
  BY <1>1, <1>3
<1>12. /\ published = StateChanges(M[0])
       /\ \A r \in answered : handed[r].with => handed[r].n <= Len(M[0])
       /\ ~failed => kvs = M[m]
  BY <1>11 DEF Cuts, Cut
<1>13. /\ posted = M[n + 1] \o NoBatch.txn
       /\ StateChanges(posted) = StateChanges(M[n + 1]) \o NoBatch.trans
  <2>1. \A u \in Seq(Events) : u \o <<>> = u
    BY ConcatEmpty
  <2>2. posted \o <<>> = posted /\ StateChanges(posted) \o <<>> = StateChanges(posted)
    BY <2>1, BatchFields, CutFields, Zenon
  <2>3. NoBatch.txn = <<>> /\ NoBatch.trans = <<>>
    BY DEF NoBatch
  <2>4. QED
    BY <1>3, <2>2, <2>3
<1>14. Cuts(M, m)'
  BY <1>2, <1>4, <1>6, <1>7, <1>8, <1>10, <1>11, <1>12, <1>13 DEF Cuts, Cut
<1>15. QED
  BY <1>14

\* A batch without events is destroyed at once, which publishes no change of
\* state and sends only responses that wait for no event.
LEMMA DropCuts ==
    ASSUME TypeOK, NEW L, NEW m, Cuts(L, m), module # "crashed",
           batch.txn = <<>>,
           batch' = NoBatch, event_batch_destroy(batch),
           \A r \in batch.responses : ~handed[r].with,
           UNCHANGED <<pending, posted, kvs, handed, failed>>
    PROVE  Cuts(L, m)'
<1>1. batch.trans = <<>>
  BY EmptyBatch
<1>2. published' = published
  <2>1. \A u \in Seq(Events) : u \o <<>> = u
    BY ConcatEmpty
  <2>2. published \o <<>> = published
    BY <2>1, BatchFields, Zenon
  <2>3. QED
    BY <1>1, <2>2 DEF event_batch_destroy
<1>3. \A r \in answered' : handed[r].with => handed[r].n <= Len(L[0])
  BY DEF event_batch_destroy, Cuts, Cut
<1>4. batch'.txn = batch.txn /\ batch'.trans = batch.trans
  BY <1>1 DEF NoBatch
<1>5. QED
  BY <1>2, <1>3, <1>4 DEF Cuts, Cut

-----------------------------------------------------------------------------
(* Types *)

\* event_batch_commit keeps the types, and leaves no current batch.
LEMMA CommitTypes ==
    ASSUME TypeOK, event_batch_commit
    PROVE  /\ batch' = NoBatch /\ NoBatch \in Batch /\ NoBatch.f = "none"
           /\ pending' \in Seq(Batch)
           /\ \A i \in 1..Len(pending') : pending'[i].f # "none"
           /\ published' \in EventList /\ noted' \subseteq Notes
           /\ answered' \subseteq Requests
<1>1. NoBatch \in Batch /\ NoBatch.f = "none" /\ NoBatch.txn = <<>>
  BY DEF NoBatch, Batch, EventList
<1>2. CASE batch.txn # <<>>
  <2> DEFINE b == [batch EXCEPT !.f = "sent"]
  <2>1. b \in Batch /\ b.f = "sent"
    BY DEF TypeOK, Batch
  <2> HIDE DEF b
  <2>2. /\ batch' = NoBatch /\ pending' = Append(pending, b)
        /\ UNCHANGED <<published, noted, answered>>
    BY <1>2 DEF event_batch_commit, b
  <2>3. /\ pending' \in Seq(Batch)
        /\ \A i \in 1..Len(pending') : pending'[i].f # "none"
    BY <2>1, <2>2 DEF TypeOK
  <2>4. QED
    BY <1>1, <2>2, <2>3 DEF TypeOK
<1>3. CASE batch.txn = <<>> /\ batch # NoBatch
  <2>1. batch' = NoBatch /\ event_batch_destroy(batch) /\ pending' = pending
    BY <1>3 DEF event_batch_commit
  <2>2. /\ batch.trans \in EventList /\ batch.notes \subseteq Notes
        /\ batch.responses \subseteq Requests
    BY DEF TypeOK, Batch
  <2>3. /\ published' \in EventList /\ noted' \subseteq Notes
        /\ answered' \subseteq Requests
    BY <2>1, <2>2 DEF event_batch_destroy, TypeOK, EventList
  <2>4. QED
    BY <1>1, <2>1, <2>3 DEF TypeOK
<1>4. CASE batch = NoBatch
  BY <1>1, <1>4 DEF event_batch_commit, TypeOK
<1>5. QED
  BY <1>2, <1>3, <1>4

\* Destroying the first batch keeps the types.
LEMMA DestroyTypes ==
    ASSUME TypeOK, Completed, pending' = Tail(pending),
           event_batch_destroy(Head(pending))
    PROVE  /\ pending' \in Seq(Batch)
           /\ \A i \in 1..Len(pending') : pending'[i].f # "none"
           /\ published' \in EventList /\ noted' \subseteq Notes
           /\ answered' \subseteq Requests
<1>1. /\ pending \in Seq(Batch) /\ pending # <<>>
      /\ \A i \in 1..Len(pending) : pending[i].f # "none"
  BY DEF Completed, TypeOK
<1>2. /\ Tail(pending) \in Seq(Batch) /\ Head(pending) \in Batch
      /\ \A i \in 1..Len(Tail(pending)) :
            i + 1 \in 1..Len(pending) /\ Tail(pending)[i] = pending[i + 1]
  BY <1>1
<1>3. \A b \in Batch : /\ b.trans \in EventList /\ b.notes \subseteq Notes
                       /\ b.responses \subseteq Requests
  BY DEF Batch
<1>4. /\ published' \in EventList /\ noted' \subseteq Notes
      /\ answered' \subseteq Requests
  BY <1>2, <1>3 DEF event_batch_destroy, TypeOK, EventList
<1>5. QED
  BY <1>1, <1>2, <1>4

\* Every step keeps the types.
LEMMA TypesStay ==
    ASSUME TypeOK, [Next]_vars
    PROVE  TypeOK'
<1>1. ASSUME NEW e \in Events, event_batch_commit_event(e)
      PROVE  TypeOK'
  <2>1. /\ Append(posted, e) \in EventList
        /\ Append(batch.txn, e) \in EventList
        /\ Append(batch.trans, e) \in EventList /\ batch.trans \in EventList
    BY BatchFields DEF EventList
  <2>2. batch' \in Batch /\ batch'.f = "none"
    BY <1>1, <2>1 DEF event_batch_commit_event, TypeOK, Batch
  <2>3. QED
    BY <1>1, <2>1, <2>2 DEF event_batch_commit_event, TypeOK
<1>2. ASSUME NEW a \in Notes, event_batch_pub_annotations(a)
      PROVE  TypeOK'
  <2>1. batch' \in Batch /\ batch'.f = "none"
    BY <1>2 DEF event_batch_pub_annotations, TypeOK, Batch
  <2>2. QED
    BY <1>2, <2>1 DEF event_batch_pub_annotations, TypeOK
<1>3. ASSUME NEW r \in Requests, event_batch_respond(r)
      PROVE  TypeOK'
  <2>1. batch' \in Batch /\ batch'.f = "none"
    BY <1>3 DEF event_batch_respond, TypeOK, Batch
  <2>2. [n |-> Len(posted), with |-> batch.txn # <<>>] \in [n : Nat, with : BOOLEAN]
    BY BatchFields
  <2>3. handed' \in [Requests -> [n : Nat, with : BOOLEAN]]
    BY <1>3, <2>2 DEF event_batch_respond, TypeOK
  <2>4. QED
    BY <1>3, <2>1, <2>3 DEF event_batch_respond, TypeOK
<1>4. ASSUME timer_cb
      PROVE  TypeOK'
  BY <1>4, CommitTypes DEF timer_cb, TypeOK
<1>5. ASSUME NEW f \in {"ok", "error"}, kvs_commit(f)
      PROVE  TypeOK'
  <2>1. PICK i \in Sent :
           /\ pending' = [pending EXCEPT ![i].f = f]
           /\ kvs' = IF f = "ok" THEN kvs \o pending[i].txn ELSE kvs
    <3>1. \E i \in Sent : \A k \in Sent : i <= k
      <4>1. Sent \subseteq Nat /\ Sent # {}
        BY <1>5, BatchFields DEF kvs_commit, Sent
      <4>2. QED
        BY <4>1, LeastNat
    <3>2. QED
      BY <1>5, <3>1 DEF kvs_commit
  <2>2. i \in 1..Len(pending)
    BY <2>1 DEF Sent
  <2>3. /\ pending' \in Seq(Batch) /\ Len(pending') = Len(pending)
        /\ \A k \in 1..Len(pending) :
             pending'[k].f = IF k = i THEN f ELSE pending[k].f
    <3> DEFINE b == [pending[i] EXCEPT !.f = f]
    <3>1. pending[i] \in Batch
      BY <2>2, BatchFields
    <3>2. b \in Batch /\ b.f = f
      BY <3>1 DEF Batch
    <3>3. pending' = [pending EXCEPT ![i] = b]
      BY <2>1
    <3> HIDE DEF b
    <3>4. QED
      BY <2>2, <3>2, <3>3 DEF TypeOK
  <2>4. kvs' \in EventList
    BY <2>1, <2>2, BatchFields DEF EventList
  <2>5. failed' \in BOOLEAN
    BY <1>5 DEF kvs_commit
  <2>6. \A k \in 1..Len(pending') : pending'[k].f # "none"
    BY <2>3 DEF TypeOK
  <2>7. QED
    BY <1>5, <2>3, <2>4, <2>5, <2>6 DEF kvs_commit, TypeOK
<1>6. ASSUME commit_continuation
      PROVE  TypeOK'
  BY <1>6, DestroyTypes DEF commit_continuation, TypeOK
<1>7. ASSUME event_ctx_destroy
      PROVE  TypeOK'
  BY <1>7, CommitTypes DEF event_ctx_destroy, TypeOK
<1>8. ASSUME flush
      PROVE  TypeOK'
  BY <1>8, DestroyTypes DEF flush, TypeOK
<1>9. ASSUME flushed
      PROVE  TypeOK'
  BY <1>9 DEF flushed, TypeOK
<1>10. ASSUME crash
       PROVE  TypeOK'
  <2>1. NoBatch \in Batch /\ NoBatch.f = "none"
    BY DEF NoBatch, Batch, EventList
  <2>2. QED
    BY <1>10, <2>1 DEF crash, TypeOK
<1>11. ASSUME UNCHANGED vars
       PROVE  TypeOK'
  BY <1>11 DEF vars, TypeOK
<1>12. QED
  BY <1>1, <1>2, <1>3, <1>4, <1>5, <1>6, <1>7, <1>8, <1>9, <1>10, <1>11 DEF Next

-----------------------------------------------------------------------------
(* The steps *)

\* The conjuncts of BatchInv about the current batch.
Current ==
    /\ \A r \in batch.responses :
          /\ handed[r].n <= Len(posted)
          /\ batch.txn = <<>> => ~handed[r].with
    /\ module \in {"flush", "down", "crashed"} => batch = NoBatch
    /\ module = "down" => pending = <<>>

\* BatchInv with cuts as sequences.
LEMMA InvIs ==
    ASSUME TypeOK
    PROVE  BatchInv <=> (\E L, m : Cuts(L, m)) /\ Current
<1>1. \A L : L \in [0..Len(pending) -> Prefixes(posted)] <=>
               /\ L \in [0..Len(pending) -> EventList]
               /\ \A i \in 0..Len(pending) : IsPrefix(L[i], posted)
  BY CutsPrefixes DEF TypeOK
<1>2. QED
  BY <1>1, Zenon DEF BatchInv, Current, Cuts

\* A step that closes the current batch.
LEMMA CloseStep ==
    ASSUME TypeOK, NEW L, NEW m, Cuts(L, m), Current, event_batch_commit,
           module \in {"run", "stop"}, module' \in {"run", "flush"},
           UNCHANGED <<posted, kvs, handed, failed>>
    PROVE  (\E M, k : Cuts(M, k)') /\ Current'
<1>1. batch' = NoBatch
  BY CommitTypes
<1>2. Current'
  BY <1>1 DEF Current, NoBatch
<1>3. CASE batch.txn # <<>>
  <2>1. \E M : Cuts(M, m)'
    BY <1>3, CloseCuts DEF event_batch_commit, Current
  <2>2. QED
    BY <1>2, <2>1
<1>4. CASE batch.txn = <<>> /\ batch # NoBatch
  <2>1. Cuts(L, m)'
    BY <1>4, DropCuts DEF event_batch_commit, Current
  <2>2. QED
    BY <1>2, <2>1
<1>5. CASE batch = NoBatch
  <2>1. UNCHANGED <<batch, pending, published, noted, answered>>
    BY <1>5 DEF event_batch_commit, NoBatch
  <2>2. module # "crashed"
    OBVIOUS
  <2>3. Cuts(L, m)'
    BY <2>1, <2>2 DEF Cuts, Cut
  <2>4. QED
    BY <1>2, <2>3
<1>6. QED
  BY <1>3, <1>4, <1>5

\* Every step keeps BatchInv.
LEMMA InvStays ==
    ASSUME BatchInv, [Next]_vars
    PROVE  BatchInv'
<1>0. TypeOK /\ TypeOK'
  BY TypesStay DEF BatchInv
<1>1. Current /\ \E L, m : Cuts(L, m)
  BY <1>0, InvIs
<1>2. PICK L, m : Cuts(L, m)
  BY <1>1
<1>3. SUFFICES (\E M, k : Cuts(M, k)') /\ Current'
  <2>1. BatchInv' <=> (\E M, k : Cuts(M, k))' /\ Current'
    <3>1. \A M : M \in [0..Len(pending') -> Prefixes(posted')] <=>
                   /\ M \in [0..Len(pending') -> EventList]
                   /\ \A i \in 0..Len(pending') : IsPrefix(M[i], posted')
      <4>1. posted' \in EventList
        BY <1>0 DEF TypeOK
      <4>2. QED
        BY <4>1, CutsPrefixes
    <3>2. QED
      BY <1>0, <3>1, Zenon DEF BatchInv, Current, Cuts
  <2>2. QED
    BY <2>1
<1>4. ASSUME NEW e \in Events, event_batch_commit_event(e)
      PROVE  (\E M, k : Cuts(M, k)') /\ Current'
  <2>1. Cuts(L, m)'
    BY <1>0, <1>2, <1>4, PostCuts
  <2>2. /\ batch'.responses = batch.responses
        /\ batch'.txn = Append(batch.txn, e)
        /\ posted' = Append(posted, e) /\ handed' = handed
        /\ module = "run" /\ module' = module
    BY <1>0, <1>4 DEF event_batch_commit_event, TypeOK, Batch
  <2>3. batch'.txn # <<>> /\ Len(posted') = Len(posted) + 1
    <3>1. \A u \in Seq(Events) :
             Append(u, e) # <<>> /\ Len(Append(u, e)) = Len(u) + 1
      BY AppendConcat, Zenon
    <3>2. batch.txn \in Seq(Events) /\ posted \in Seq(Events)
      BY <1>0, BatchFields
    <3>3. QED
      BY <2>2, <3>1, <3>2, Zenon
  <2>4. \A r \in batch.responses : handed[r].n <= Len(posted) + 1
    <3>1. \A r \in batch.responses : handed[r].n <= Len(posted) /\ handed[r].n \in Nat
      BY <1>0, <1>1, BatchFields DEF Current
    <3>2. Len(posted) \in Nat
      BY <1>0, BatchFields
    <3>3. QED
      BY <3>1, <3>2
  <2>5. Current'
    BY <2>2, <2>3, <2>4 DEF Current
  <2>6. QED
    BY <2>1, <2>5
<1>5. ASSUME NEW a \in Notes, event_batch_pub_annotations(a)
      PROVE  (\E M, k : Cuts(M, k)') /\ Current'
  <2>1. /\ batch'.responses = batch.responses /\ batch'.txn = batch.txn
        /\ batch'.trans = batch.trans
        /\ module = "run"
        /\ UNCHANGED <<pending, module, posted, kvs, published, handed,
                       answered, failed>>
    BY <1>0, <1>5 DEF event_batch_pub_annotations, TypeOK, Batch
  <2>2. Cuts(L, m)'
    BY <1>2, <2>1 DEF Cuts, Cut
  <2>3. Current'
    BY <1>1, <2>1 DEF Current
  <2>4. QED
    BY <2>2, <2>3
<1>6. ASSUME NEW r \in Requests, event_batch_respond(r)
      PROVE  (\E M, k : Cuts(M, k)') /\ Current'
  <2>1. Cuts(L, m)'
    BY <1>0, <1>2, <1>6, RespondCuts
  <2>2. /\ batch'.responses = batch.responses \union {r}
        /\ batch'.txn = batch.txn
        /\ handed'[r].n = Len(posted) /\ handed'[r].with = (batch.txn # <<>>)
        /\ \A q \in batch.responses \ {r} : handed'[q] = handed[q]
        /\ module = "run" /\ module' = module /\ posted' = posted
    BY <1>0, <1>6 DEF event_batch_respond, TypeOK, Batch
  <2>3. Len(posted) <= Len(posted)
    BY <1>0, BatchFields
  <2>4. Current'
    BY <1>1, <2>2, <2>3 DEF Current
  <2>5. QED
    BY <2>1, <2>4
<1>7. ASSUME timer_cb
      PROVE  (\E M, k : Cuts(M, k)') /\ Current'
  BY <1>0, <1>1, <1>2, <1>7, CloseStep DEF timer_cb
<1>8. ASSUME NEW f \in {"ok", "error"}, kvs_commit(f)
      PROVE  (\E M, k : Cuts(M, k)') /\ Current'
  <2>1. Cuts(L, m + 1)'
    BY <1>0, <1>2, <1>8, CommitCuts
  <2>2. /\ UNCHANGED <<batch, module, posted, handed>>
        /\ pending # <<>>
    BY <1>0, <1>8 DEF kvs_commit, Sent
  <2>3. Current'
    BY <1>1, <2>2 DEF Current
  <2>4. QED
    BY <2>1, <2>3
<1>9. ASSUME commit_continuation
      PROVE  (\E M, k : Cuts(M, k)') /\ Current'
  <2>1. /\ module = "run" /\ module' \in {"run", "stop"}
        /\ Completed /\ pending' = Tail(pending)
        /\ event_batch_destroy(Head(pending))
        /\ UNCHANGED <<batch, posted, kvs, handed, failed>>
    BY <1>9 DEF commit_continuation
  <2>2. \E M : Cuts(M, m - 1)'
    BY <1>0, <1>2, <2>1, DestroyCuts
  <2>3. Current'
    BY <1>1, <2>1 DEF Current
  <2>4. QED
    BY <2>2, <2>3
<1>10. ASSUME event_ctx_destroy
       PROVE  (\E M, k : Cuts(M, k)') /\ Current'
  BY <1>0, <1>1, <1>2, <1>10, CloseStep DEF event_ctx_destroy
<1>11. ASSUME flush
       PROVE  (\E M, k : Cuts(M, k)') /\ Current'
  <2>1. /\ module = "flush" /\ module' = module
        /\ Completed /\ pending' = Tail(pending)
        /\ event_batch_destroy(Head(pending))
        /\ UNCHANGED <<batch, posted, kvs, handed, failed>>
    BY <1>11 DEF flush
  <2>2. \E M : Cuts(M, m - 1)'
    BY <1>0, <1>2, <2>1, DestroyCuts
  <2>3. Current'
    BY <1>1, <2>1 DEF Current
  <2>4. QED
    BY <2>2, <2>3
<1>12. ASSUME flushed
       PROVE  (\E M, k : Cuts(M, k)') /\ Current'
  <2>1. /\ module = "flush" /\ module' = "down" /\ pending = <<>>
        /\ UNCHANGED <<batch, pending, posted, kvs, published, handed,
                       answered, failed>>
    BY <1>12 DEF flushed
  <2>2. Cuts(L, m)'
    BY <1>2, <2>1 DEF Cuts, Cut
  <2>3. Current'
    BY <1>1, <2>1 DEF Current
  <2>4. QED
    BY <2>2, <2>3
<1>13. ASSUME crash
       PROVE  (\E M, k : Cuts(M, k)') /\ Current'
  <2>1. /\ module' = "crashed" /\ batch' = NoBatch
        /\ UNCHANGED <<pending, posted, kvs, published, handed, answered, failed>>
    BY <1>13 DEF crash
  <2>2. Cuts(L, m)'
    BY <1>2, <2>1 DEF Cuts, Cut
  <2>3. Current'
    BY <2>1 DEF Current, NoBatch
  <2>4. QED
    BY <2>2, <2>3
<1>14. ASSUME UNCHANGED vars
       PROVE  (\E M, k : Cuts(M, k)') /\ Current'
  <2>1. Cuts(L, m)'
    BY <1>2, <1>14 DEF vars, Cuts, Cut
  <2>2. Current'
    BY <1>1, <1>14 DEF vars, Current
  <2>3. QED
    BY <2>1, <2>2
<1>15. QED
  BY <1>4, <1>5, <1>6, <1>7, <1>8, <1>9, <1>10, <1>11, <1>12, <1>13, <1>14
     DEF Next

\* Nothing has been posted: there is one cut, before all events.
LEMMA InvInit ==
    ASSUME Init
    PROVE  BatchInv
<1>1. TypeOK
  <2>1. NoBatch \in Batch /\ NoBatch.f = "none"
    BY DEF NoBatch, Batch, EventList
  <2>2. /\ pending = <<>> /\ <<>> \in Seq(Batch) /\ <<>> \in EventList
        /\ \A i \in 1..Len(<<>>) : FALSE
    BY DEF Init, EventList
  <2>3. handed \in [Requests -> [n : Nat, with : BOOLEAN]]
    BY DEF Init
  <2>4. /\ batch = NoBatch /\ module = "run" /\ failed = FALSE
        /\ posted = <<>> /\ kvs = <<>> /\ published = <<>>
        /\ noted = {} /\ answered = {}
    BY DEF Init
  <2>5. QED
    BY <2>1, <2>2, <2>3, <2>4 DEF TypeOK
<1>2. PICK L : L = [i \in 0..0 |-> <<>>]
  OBVIOUS
<1>3. Len(pending) = 0 /\ pending = <<>> /\ posted = <<>> /\ <<>> \in Seq(Events)
  BY DEF Init
<1>4. L[0] = <<>> /\ L \in [0..0 -> EventList]
  BY <1>2 DEF EventList
<1>5. \A i \in 0..0 : i = 0
  OBVIOUS
<1>6. StateChanges(<<>>) = <<>>
  <2>1. \A q \in Seq(Events) : \A C :
           Without(q, C) \in Seq(Events) /\ Entries(Without(q, C)) = Entries(q) \ C
    BY WithoutEntries
  <2>2. Entries(<<>>) = {}
    BY DEF Entries
  <2>3. StateChanges(<<>>) \in Seq(Events) /\ Entries(StateChanges(<<>>)) = {}
    BY <1>3, <2>1, <2>2, Zenon DEF StateChanges
  <2>4. QED
    BY <2>3 DEF Entries
<1>7. IsPrefix(<<>>, <<>>)
  BY <1>3, PrefixExtends
<1>8. <<>> \o <<>> = <<>>
  BY <1>3, ConcatEmpty
<1>9. /\ batch.txn = <<>> /\ batch.trans = <<>> /\ batch.responses = {}
      /\ published = <<>> /\ kvs = <<>> /\ answered = {} /\ module = "run"
  BY DEF Init, NoBatch
<1>10. Cut(L, 0)
  BY <1>3, <1>4, <1>5, <1>6, <1>7, <1>8, <1>9 DEF Cut
<1>11. Cuts(L, 0)
  BY <1>3, <1>4, <1>5, <1>7, <1>10 DEF Cuts
<1>12. Current
  BY <1>9 DEF Current
<1>13. QED
  BY <1>1, <1>11, <1>12, InvIs

-----------------------------------------------------------------------------
(* Theorems *)

\* The batches of the job-manager cut the events posted into consecutive
\* pieces, whatever is posted, however commits end, and whenever the module is
\* unloaded or crashes.
THEOREM BatchInvariant == Spec => []BatchInv
<1>1. Init => BatchInv
  BY InvInit
<1>2. BatchInv /\ [Next]_vars => BatchInv'
  BY InvStays
<1>3. QED
  BY <1>1, <1>2, PTL DEF Spec

\* The eventlogs in the KVS have no holes: until a commit fails they hold the
\* first events posted (event_batch_commit, commit_continuation).
THEOREM BatchLog == Spec => []LogPrefix
<1>1. ASSUME BatchInv
      PROVE  LogPrefix
  <2>1. TypeOK
    BY <1>1 DEF BatchInv
  <2>2. PICK L, m : Cuts(L, m)
    BY <1>1, <2>1, InvIs
  <2>3. m \in 0..Len(pending) /\ (~failed => kvs = L[m])
    BY <2>2 DEF Cuts, Cut
  <2>4. IsPrefix(L[m], posted)
    BY <2>2, <2>3 DEF Cuts
  <2>5. QED
    BY <2>3, <2>4 DEF LogPrefix
<1>2. QED
  BY <1>1, BatchInvariant, PTL

\* Changes of state are published once each, in the order they happened
\* (event_batch_destroy publishes batches in the order they were closed).
THEOREM BatchPublished == Spec => []PublishedInOrder
<1>1. ASSUME BatchInv
      PROVE  PublishedInOrder
  <2>1. TypeOK
    BY <1>1 DEF BatchInv
  <2>2. PICK L, m : Cuts(L, m)
    BY <1>1, <2>1, InvIs
  <2>3. 0 \in 0..Len(pending)
    BY <2>1, BatchFields
  <2>4. /\ published = StateChanges(L[0])
        /\ IsPrefix(StateChanges(L[0]), StateChanges(posted))
    BY <2>2, <2>3 DEF Cuts, Cut
  <2>5. QED
    BY <2>4 DEF PublishedInOrder
<1>2. QED
  BY <1>1, BatchInvariant, PTL

\* Until a commit fails nothing is published, and no response that waits for
\* events is sent, before the events are in the KVS.
THEOREM BatchDurable == Spec => []DurableFirst
<1>1. ASSUME BatchInv
      PROVE  DurableFirst
  <2>1. TypeOK
    BY <1>1 DEF BatchInv
  <2>2. PICK L, m : Cuts(L, m)
    BY <1>1, <2>1, InvIs
  <2>3. /\ 0 \in 0..Len(pending) /\ m \in 0..Len(pending) /\ 0 <= m
    BY <2>1, <2>2, BatchFields, CutFields
  <2>4. /\ published = StateChanges(L[0]) /\ IsPrefix(L[0], L[m])
        /\ ~failed => kvs = L[m]
        /\ \A r \in answered : handed[r].with => handed[r].n <= Len(L[0])
    BY <2>2, <2>3 DEF Cuts, Cut
  <2>5. /\ L[0] \in Seq(Events) /\ L[m] \in Seq(Events)
        /\ Len(L[0]) \in Nat /\ Len(L[m]) \in Nat
        /\ Entries(StateChanges(L[0])) \subseteq Entries(L[0])
    BY <2>1, <2>2, <2>3, CutFields
  <2>6. Len(L[0]) <= Len(L[m]) /\ Entries(L[0]) \subseteq Entries(L[m])
    <3>1. \A u, v \in Seq(Events) :
             IsPrefix(u, v) => Len(u) <= Len(v) /\ Entries(u) \subseteq Entries(v)
      BY PrefixExtends
    <3>2. QED
      BY <2>4, <2>5, <3>1, Zenon
  <2>7. \A r \in answered : r \in Requests /\ handed[r].n \in Nat
    BY <2>1, BatchFields DEF TypeOK
  <2>8. \A r \in answered : handed[r].with => handed[r].n <= Len(L[m])
    BY <2>4, <2>5, <2>6, <2>7
  <2>9. Entries(published) \subseteq Entries(L[m])
    BY <2>4, <2>5, <2>6
  <2>10. QED
    BY <2>4, <2>8, <2>9 DEF DurableFirst
<1>2. QED
  BY <1>1, BatchInvariant, PTL

\* After an unload everything posted is published, and is in the KVS unless a
\* commit has failed (event_ctx_destroy).
THEOREM BatchUnload == Spec => []UnloadFlushes
<1>1. ASSUME BatchInv
      PROVE  UnloadFlushes
  <2>1. SUFFICES ASSUME module = "down"
                 PROVE  /\ ~failed => kvs = posted
                        /\ published = StateChanges(posted)
                        /\ batch = NoBatch /\ pending = <<>>
    BY DEF UnloadFlushes
  <2>2. TypeOK /\ batch = NoBatch /\ pending = <<>> /\ batch.txn = <<>>
    BY <1>1, <2>1 DEF BatchInv, NoBatch
  <2>3. PICK L, m : Cuts(L, m)
    BY <1>1, <2>2, InvIs
  <2>4. Len(pending) = 0 /\ m = 0
    BY <2>2, <2>3, CutFields
  <2>5. posted = L[0]
    BY <2>1, <2>2, <2>3, <2>4, EmptyBatch
  <2>6. published = StateChanges(L[0]) /\ (~failed => kvs = L[0])
    BY <2>3, <2>4 DEF Cuts, Cut
  <2>7. QED
    BY <2>2, <2>5, <2>6
<1>2. QED
  BY <1>1, BatchInvariant, PTL
=============================================================================
