--------------------------- MODULE JobQueueProofs ---------------------------
(***************************************************************************)
(* Insertion and deletion keep a queue of jobs sorted.                     *)
(***************************************************************************)
EXTENDS JobQueue, ListProofs, TLAPS

\* job_comparator is a total order up to ties.
LEMMA OrderTotal ==
    ASSUME NEW priority \in [Jobs -> Int],
           NEW j \in Jobs, NEW k \in Jobs, NEW l \in Jobs
    PROVE  /\ job_leq(priority, j, k) \/ job_leq(priority, k, j)
           /\ job_leq(priority, j, k) /\ job_leq(priority, k, l)
                => job_leq(priority, j, l)
  BY JobQueueAssumption DEF job_leq

\* Any place between the entries that precede j and those that follow it keeps
\* the queue sorted.
LEMMA InsertBetween ==
    ASSUME NEW priority \in [Jobs -> Int], NEW q \in Seq(Jobs),
           NEW j \in Jobs, j \notin Entries(q),
           Distinct(q), Sorted(priority, q),
           NEW p \in 0..Len(q),
           \A i \in 1..p : job_leq(priority, q[i], j),
           \A i \in p + 1..Len(q) : job_leq(priority, j, q[i])
    PROVE  LET r == InsertAfter(q, p, j)
           IN  /\ r \in Seq(Jobs) /\ Entries(r) = Entries(q) \union {j}
               /\ Distinct(r) /\ Sorted(priority, r)
<1> DEFINE r == InsertAfter(q, p, j)
           n == Len(q)
<1>1. n \in Nat /\ p \in Nat /\ p <= n /\ \A i \in 1..n : q[i] \in Jobs
  OBVIOUS
<1>2. /\ r = [i \in 1..n + 1 |-> IF i <= p THEN q[i]
                                 ELSE IF i = p + 1 THEN j ELSE q[i - 1]]
  BY DEF InsertAfter
<1>3. /\ r \in Seq(Jobs) /\ Len(r) = n + 1
      /\ \A i \in 1..p : r[i] = q[i]
      /\ r[p + 1] = j
      /\ \A i \in p + 2..n + 1 : r[i] = q[i - 1]
  BY <1>1, <1>2
<1> HIDE DEF r
<1>4. Entries(r) = Entries(q) \union {j}
  <2>1. ASSUME NEW x \in Entries(r) PROVE x \in Entries(q) \union {j}
    <3>1. PICK i \in 1..n + 1 : x = r[i]
      BY <1>3 DEF Entries
    <3>2. CASE i \in 1..p
      <4>1. i \in 1..n /\ x = q[i]
        BY <1>1, <1>3, <3>1, <3>2
      <4>2. QED
        BY <4>1 DEF Entries
    <3>3. CASE i \in p + 2..n + 1
      <4>1. i - 1 \in 1..n /\ x = q[i - 1]
        BY SMTT(20), <1>1, <1>3, <3>1, <3>3
      <4>2. QED
        BY <4>1 DEF Entries
    <3>4. QED
      BY <1>1, <1>3, <3>1, <3>2, <3>3
  <2>2. ASSUME NEW x \in Entries(q) PROVE x \in Entries(r)
    <3>1. PICK i \in 1..n : x = q[i]
      BY DEF Entries
    <3>2. CASE i <= p
      <4>1. i \in 1..n + 1 /\ r[i] = x
        BY <1>1, <1>3, <3>1, <3>2
      <4>2. QED
        BY <1>3, <4>1 DEF Entries
    <3>3. CASE i > p
      <4>1. i + 1 \in p + 2..n + 1 /\ i + 1 \in 1..n + 1 /\ (i + 1) - 1 = i
        BY <1>1, <3>3
      <4>2. r[i + 1] = x
        BY Zenon, <1>3, <3>1, <4>1
      <4>3. QED
        BY Zenon, <1>3, <4>1, <4>2 DEF Entries
    <3>4. QED
      BY <1>1, <3>2, <3>3
  <2>3. j \in Entries(r)
    <3>1. p + 1 \in 1..n + 1
      BY <1>1
    <3>2. QED
      BY Zenon, <1>3, <3>1 DEF Entries
  <2>4. QED
    BY <2>1, <2>2, <2>3
<1>5. \A i \in 1..n : q[i] # j
  BY DEF Entries
<1>6. ASSUME NEW i \in 1..n + 1, NEW k \in 1..n + 1, i < k
      PROVE  r[i] # r[k] /\ job_leq(priority, r[i], r[k])
  <2>1. CASE k <= p
    <3>1. i \in 1..p /\ k \in 1..p /\ i \in 1..n /\ k \in 1..n
      BY <1>1, <1>6, <2>1
    <3>2. r[i] = q[i] /\ r[k] = q[k]
      BY <1>3, <3>1, Zenon
    <3>3. i # k
      BY <1>6
    <3>4. QED
      BY <1>6, <3>1, <3>2, <3>3, Zenon DEF Distinct, Sorted
  <2>2. CASE k = p + 1
    <3>1. i \in 1..p /\ i \in 1..n
      BY <1>1, <1>6, <2>2
    <3>2. QED
      BY Zenon, <1>3, <1>5, <2>2, <3>1
  <2>3. CASE i = p + 1
    <3>1. k \in p + 2..n + 1 /\ k - 1 \in p + 1..n /\ k - 1 \in 1..n
      BY <1>1, <1>6, <2>3
    <3>2. QED
      BY Zenon, <1>3, <1>5, <2>3, <3>1
  <2>4. CASE i <= p /\ k > p + 1
    <3>1. i \in 1..p /\ k \in p + 2..n + 1 /\ i \in 1..n /\ k - 1 \in 1..n
          /\ i < k - 1 /\ i # k - 1
      BY <1>1, <1>6, <2>4
    <3>2. r[i] = q[i] /\ r[k] = q[k - 1]
      BY Zenon, <1>3, <3>1
    <3>3. QED
      BY <3>1, <3>2, Zenon DEF Distinct, Sorted
  <2>5. CASE i > p + 1
    <3>1. i \in p + 2..n + 1 /\ k \in p + 2..n + 1
          /\ i - 1 \in 1..n /\ k - 1 \in 1..n /\ i - 1 < k - 1
          /\ i - 1 # k - 1
      BY <1>1, <1>6, <2>5
    <3>2. r[i] = q[i - 1] /\ r[k] = q[k - 1]
      BY Zenon, <1>3, <3>1
    <3>3. QED
      BY <3>1, <3>2, Zenon DEF Distinct, Sorted
  <2>6. \/ k <= p \/ k = p + 1 \/ i = p + 1
        \/ (i <= p /\ k > p + 1) \/ i > p + 1
    BY <1>1, <1>6
  <2>7. QED
    BY <2>1, <2>2, <2>3, <2>4, <2>5, <2>6, Zenon
<1>7. Sorted(priority, r)
  BY <1>3, <1>6 DEF Sorted
<1>8. Distinct(r)
  <2>1. SUFFICES ASSUME NEW i \in 1..n + 1, NEW k \in 1..n + 1, i # k
                 PROVE  r[i] # r[k]
    BY <1>3 DEF Distinct
  <2>2. i < k \/ k < i
    BY <1>1, <2>1
  <2>3. QED
    BY <1>6, <2>2
<1>9. QED
  BY <1>3, <1>4, <1>7, <1>8 DEF r

\* zlistx_insert puts a job in its place, from whichever end it searches.
LEMMA InsertSorted ==
    ASSUME NEW priority \in [Jobs -> Int], NEW q \in Seq(Jobs),
           NEW j \in Jobs, j \notin Entries(q),
           Distinct(q), Sorted(priority, q)
    PROVE  LET r == zlistx_insert(priority, q, j)
           IN  /\ r \in Seq(Jobs) /\ Entries(r) = Entries(q) \union {j}
               /\ Distinct(r) /\ Sorted(priority, r)
<1> DEFINE n == Len(q)
           before(i) == job_leq(priority, q[i], j)
           after(i) == job_leq(priority, j, q[i])
<1>1. n \in Nat /\ \A i \in 1..n : q[i] \in Jobs
  OBVIOUS
<1>2. \A i \in 1..n : before(i) \/ after(i)
  BY <1>1, OrderTotal
<1>3. \A i, k \in 1..n : i < k /\ before(k) => before(i)
  BY Zenon, <1>1, OrderTotal DEF Sorted
<1>4. \A i, k \in 1..n : i < k /\ after(i) => after(k)
  BY SMTT(20), <1>1, OrderTotal DEF Sorted
<1> HIDE DEF before, after
<1>5. CASE priority[j] > FLUX_JOB_PRIORITY_DEFAULT
  <2> DEFINE P(p) == /\ \A i \in 1..p : ~after(i)
                     /\ p < n => after(p + 1)
             p == CHOOSE p \in 0..n : P(p)
  <2>1. \E x \in 0..n : P(x)
    <3> DEFINE T == {t \in 0..n : t < n => after(t + 1)}
    <3>1. n \in T /\ T \subseteq Nat
      BY <1>1
    <3>2. PICK x \in T : \A y \in T : x <= y
      BY Zenon, <3>1, LeastNat
    <3>3. ASSUME NEW i \in 1..x PROVE ~after(i)
      <4>1. i - 1 \in 0..n /\ i - 1 < n /\ (i - 1) + 1 = i /\ ~(x <= i - 1)
        BY <1>1, <3>2
      <4>2. QED
        BY <3>2, <4>1
    <3>4. QED
      BY <3>2, <3>3
  <2>2. insert_after(priority, q, j) = p
    BY <1>5 DEF insert_after, after
  <2>3. p \in 0..n /\ P(p)
    BY Zenon, <2>1
  <2> HIDE DEF p
  <2>4. \A i \in 1..p : before(i)
    BY <1>1, <1>2, <2>3
  <2>5. \A i \in p + 1..n : after(i)
    BY <1>1, <1>4, <2>3
  <2>6. QED
    BY Zenon, <2>2, <2>3, <2>4, <2>5, InsertBetween
       DEF zlistx_insert, before, after
<1>6. CASE ~(priority[j] > FLUX_JOB_PRIORITY_DEFAULT)
  <2> DEFINE P(p) == /\ \A i \in p + 1..n : ~before(i)
                     /\ p > 0 => before(p)
             p == CHOOSE p \in 0..n : P(p)
  <2>1. \E x \in 0..n : P(x)
    <3> DEFINE T == {t \in 0..n : \A i \in t + 1..n : ~before(i)}
    <3>1. n \in T /\ T \subseteq Nat
      BY <1>1
    <3>2. PICK x \in T : \A y \in T : x <= y
      BY Zenon, <3>1, LeastNat
    <3>3. ASSUME x > 0, ~before(x) PROVE FALSE
      <4>1. x - 1 \in 0..n /\ ~(x <= x - 1)
        BY <1>1, <3>2, <3>3
      <4>2. \A i \in (x - 1) + 1..n : ~before(i)
        BY <1>1, <3>2, <3>3
      <4>3. QED
        BY Zenon, <3>2, <4>1, <4>2
    <3>4. QED
      BY <3>2, <3>3
  <2>2. insert_after(priority, q, j) = p
    BY Zenon, <1>6 DEF insert_after, before
  <2>3. p \in 0..n /\ P(p)
    BY <2>1
  <2> HIDE DEF p
  <2>4. \A i \in 1..p : before(i)
    BY <1>1, <1>3, <2>3
  <2>5. \A i \in p + 1..n : after(i)
    BY <1>1, <1>2, <2>3
  <2>6. QED
    BY <2>2, <2>3, <2>4, <2>5, InsertBetween
       DEF zlistx_insert, before, after
<1>7. QED
  BY <1>5, <1>6

\* zlistx_delete keeps the order of the others, even if the priority of the job
\* that leaves has just changed.
LEMMA DeleteSorted ==
    ASSUME NEW priority \in [Jobs -> Int], NEW q \in Seq(Jobs),
           NEW j \in Jobs, Distinct(q),
           \A i, k \in 1..Len(q) : i < k /\ q[i] # j /\ q[k] # j
                                    => job_leq(priority, q[i], q[k])
    PROVE  LET r == zlistx_delete(q, j)
           IN  /\ r \in Seq(Jobs) /\ Entries(r) = Entries(q) \ {j}
               /\ Distinct(r) /\ Sorted(priority, r)
<1> DEFINE r == zlistx_delete(q, j)
<1>1. /\ r \in Seq(Jobs) /\ Entries(r) = Entries(q) \ {j}
      /\ Distinct(r)
  BY WithoutEntries DEF zlistx_delete
<1>2. ASSUME NEW a \in 1..Len(r), NEW b \in 1..Len(r), a < b
      PROVE  job_leq(priority, r[a], r[b])
  <2>1. PICK i, k \in 1..Len(q) : i < k /\ r[a] = q[i] /\ r[b] = q[k]
    BY <1>2, WithoutOrder DEF zlistx_delete
  <2>2. r[a] \in Entries(r) /\ r[b] \in Entries(r)
    BY DEF Entries
  <2>3. QED
    BY SMTT(20), <1>1, <2>1, <2>2
<1>3. QED
  BY <1>1, <1>2 DEF Sorted

=============================================================================
