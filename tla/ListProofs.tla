----------------------------- MODULE ListProofs -----------------------------
(***************************************************************************)
(* What the operators of module Lists compute, for lists of any length:    *)
(* the facts the proofs about the components cite.                         *)
(***************************************************************************)
EXTENDS Lists, FiniteSetTheorems, NaturalsInduction, WellFoundedInduction,
        SequenceTheorems, TLAPS

\* A non-empty set of natural numbers has a least element.
LEMMA LeastNat ==
    ASSUME NEW T, T \subseteq Nat, T # {}
    PROVE  \E x \in T : \A y \in T : x <= y
<1> DEFINE R == {ss \in Nat \X Nat : ss[1] < ss[2]}
<1>1. IsWellFoundedOn(R, Nat)
  BY NatLessThanWellFounded, Zenon DEF OpToRel
<1>2. \A x, y \in Nat : y < x => <<y, x>> \in R
  OBVIOUS
<1> HIDE DEF R
<1>3. PICK x \in T : \A y \in T : ~(<<y, x>> \in R)
  BY <1>1, WFMin
<1>4. x \in Nat /\ \A y \in T : y \in Nat
  OBVIOUS
<1>5. \A y \in T : ~(y < x)
  BY <1>2, <1>3, <1>4, Zenon
<1>6. QED
  BY <1>4, <1>5

\* Ranks number the elements of a finite set of naturals from 1 upwards: each
\* rank has exactly one element.
LEMMA RankBijection ==
    ASSUME NEW K, K \subseteq Nat, IsFiniteSet(K)
    PROVE  /\ Cardinality(K) \in Nat
           /\ \A i \in K : Rank(K, i) \in 1..Cardinality(K)
           /\ \A i, j \in K : Rank(K, i) = Rank(K, j) => i = j
           /\ \A k \in 1..Cardinality(K) : \E i \in K : Rank(K, i) = k
           /\ \A i, j \in K : i < j => Rank(K, i) < Rank(K, j)
<1> DEFINE n == Cardinality(K)
           upto(i) == {m \in K : m <= i}
           r == [i \in K |-> Rank(K, i)]
<1>1. n \in Nat
  BY FS_CardinalityType
<1>2. \A i \in K : IsFiniteSet(upto(i)) /\ Rank(K, i) \in Nat
                   /\ Rank(K, i) <= n
  BY FS_Subset, FS_CardinalityType DEF Rank
<1>3. ASSUME NEW i \in K PROVE Rank(K, i) # 0
  <2>1. i \in upto(i)
    OBVIOUS
  <2>2. QED
    BY <1>2, <2>1, FS_EmptySet DEF Rank
<1>4. ASSUME NEW i \in K, NEW j \in K, i < j PROVE Rank(K, i) < Rank(K, j)
  <2>0. i \in Nat /\ j \in Nat /\ \A m \in K : m \in Nat
    OBVIOUS
  <2>1. \A m \in K : m <= i => m <= j /\ m # j
    BY <1>4, <2>0
  <2>7. upto(i) \subseteq upto(j) \ {j}
    BY <2>1, Zenon
  <2>2. j \in upto(j)
    BY <2>0
  <2>3. /\ IsFiniteSet(upto(j) \ {j})
        /\ Cardinality(upto(j) \ {j}) = Cardinality(upto(j)) - 1
    BY <1>2, <2>2, FS_RemoveElement
  <2>4. Cardinality(upto(i)) <= Cardinality(upto(j) \ {j})
    BY <2>7, <2>3, FS_Subset
  <2>5. /\ Cardinality(upto(i)) = Rank(K, i)
        /\ Cardinality(upto(j)) = Rank(K, j)
    BY DEF Rank
  <2>6. QED
    BY <1>2, <2>3, <2>4, <2>5
<1>5. ASSUME NEW i \in K, NEW j \in K, Rank(K, i) = Rank(K, j) PROVE i = j
  <2>1. i \in Nat /\ j \in Nat /\ Rank(K, i) \in Nat /\ Rank(K, j) \in Nat
    BY <1>2
  <2>2. CASE i < j
    BY <1>4, <1>5, <2>1, <2>2
  <2>3. CASE j < i
    BY <1>4, <1>5, <2>1, <2>3
  <2>4. QED
    BY <2>1, <2>2, <2>3
<1>6. /\ IsFiniteSet(1..n) /\ Cardinality(1..n) = n
  BY <1>1, FS_Interval
<1>7. ASSUME NEW i \in K PROVE Rank(K, i) \in 1..n
  <2>1. Rank(K, i) \in Nat /\ Rank(K, i) <= n /\ Rank(K, i) # 0
    BY <1>2, <1>3
  <2>2. QED
    BY <1>1, <2>1
<1>8. ASSUME NEW k \in 1..n, ~ \E i \in K : Rank(K, i) = k PROVE FALSE
  <2>1. /\ IsFiniteSet(1..n \ {k}) /\ Cardinality(1..n \ {k}) = n - 1
    BY <1>6, FS_RemoveElement
  <2>2. r \in [K -> 1..n \ {k}]
    BY <1>7, <1>8
  <2>3. Cardinality(1..n \ {k}) < Cardinality(K)
    BY <1>1, <2>1
  <2> HIDE DEF n, r
  <2>4. \E x, y \in K : x # y /\ r[x] = r[y]
    BY <2>1, <2>2, <2>3, FS_PigeonHole
  <2>5. QED
    BY <1>5, <2>4 DEF r
<1>9. QED
  BY <1>1, <1>4, <1>5, <1>7, <1>8

\* Removing a set from a list yields a list of the other entries.  (zlistx
\* detach during an iteration, as in wait.c disconnect_rpc.)
THEOREM WithoutEntries ==
    ASSUME NEW S, NEW s \in Seq(S), NEW C
    PROVE  /\ Without(s, C) \in Seq(S)
           /\ Entries(Without(s, C)) = Entries(s) \ C
           /\ Distinct(s) => Distinct(Without(s, C))
<1> DEFINE K == Kept(s, C)
           n == Cardinality(K)
           at(k) == CHOOSE i \in K : Rank(K, i) = k
           q == [k \in 1..n |-> s[at(k)]]
<1>1. K \subseteq 1..Len(s) /\ Len(s) \in Nat
  BY DEF Kept
<1>2. K \subseteq Nat /\ IsFiniteSet(K)
  <2>1. K \subseteq Nat
    BY <1>1
  <2>2. IsFiniteSet(1..Len(s))
    BY <1>1, FS_Interval
  <2>3. QED
    BY <1>1, <2>1, <2>2, FS_Subset
<1>3. /\ n \in Nat
      /\ \A i \in K : Rank(K, i) \in 1..n
      /\ \A i, j \in K : Rank(K, i) = Rank(K, j) => i = j
      /\ \A k \in 1..n : \E i \in K : Rank(K, i) = k
  BY <1>2, RankBijection
<1> HIDE DEF K
<1>4. \A k \in 1..n : at(k) \in K /\ Rank(K, at(k)) = k
  BY <1>3
<1>5. \A i \in K : at(Rank(K, i)) = i
  BY <1>3, <1>4
<1>6. \A k \in 1..n : s[at(k)] \in S /\ s[at(k)] \in Entries(s) \ C
  <2>1. TAKE k \in 1..n
  <2>2. at(k) \in K
    BY <1>4
  <2> HIDE DEF at
  <2>3. at(k) \in 1..Len(s) /\ s[at(k)] \notin C
    BY <1>1, <2>2 DEF K, Kept
  <2>4. QED
    BY <2>3 DEF Entries
<1>7. Without(s, C) = q
  BY DEF Without, K
<1> HIDE DEF at, n
<1>8. q \in Seq(S) /\ Len(q) = n /\ \A k \in 1..n : q[k] = s[at(k)]
  BY <1>3, <1>6
<1> HIDE DEF q
<1>9. Entries(q) \subseteq Entries(s) \ C
  BY <1>6, <1>8 DEF Entries
<1>10. ASSUME NEW x \in Entries(s) \ C PROVE x \in Entries(q)
  <2>1. PICK i \in 1..Len(s) : x = s[i]
    BY DEF Entries
  <2>2. i \in K
    BY <2>1 DEF K, Kept
  <2>3. at(Rank(K, i)) = i /\ Rank(K, i) \in 1..n
    BY <2>2, <1>3, <1>5 DEF n
  <2>4. QED
    BY <1>8, <2>1, <2>3 DEF Entries
<1>11. ASSUME Distinct(s), NEW k \in 1..n, NEW m \in 1..n, q[k] = q[m]
       PROVE  k = m
  <2>1. s[at(k)] = s[at(m)]
    BY <1>8, <1>11
  <2>2. at(k) \in 1..Len(s) /\ at(m) \in 1..Len(s)
    BY <1>1, <1>4 DEF n
  <2>3. at(k) = at(m)
    BY <1>11, <2>1, <2>2 DEF Distinct
  <2>4. QED
    BY <1>4, <2>3 DEF n
<1>12. Distinct(s) => Distinct(q)
  BY <1>8, <1>11 DEF Distinct
<1>13. QED
  BY <1>7, <1>8, <1>9, <1>10, <1>12

\* The entries that stay keep their order.
THEOREM WithoutOrder ==
    ASSUME NEW S, NEW s \in Seq(S), NEW C,
           NEW a \in 1..Len(Without(s, C)), NEW b \in 1..Len(Without(s, C)),
           a < b
    PROVE  \E i, k \in 1..Len(s) : /\ i < k
                                  /\ Without(s, C)[a] = s[i]
                                  /\ Without(s, C)[b] = s[k]
<1> DEFINE K == Kept(s, C)
           n == Cardinality(K)
           at(k) == CHOOSE i \in K : Rank(K, i) = k
<1>1. K \subseteq 1..Len(s) /\ Len(s) \in Nat
  BY DEF Kept
<1>2. K \subseteq Nat /\ IsFiniteSet(K)
  <2>1. K \subseteq Nat
    BY <1>1
  <2>2. IsFiniteSet(1..Len(s))
    BY <1>1, FS_Interval
  <2>3. QED
    BY <1>1, <2>1, <2>2, FS_Subset
<1>3. /\ n \in Nat
      /\ \A k \in 1..n : \E i \in K : Rank(K, i) = k
      /\ \A i, j \in K : i < j => Rank(K, i) < Rank(K, j)
      /\ \A i \in K : Rank(K, i) \in 1..n
  BY <1>2, RankBijection
<1>4. Without(s, C) = [k \in 1..n |-> s[at(k)]]
  BY DEF Without
<1> HIDE DEF K
<1>5. \A k \in 1..n : at(k) \in K /\ Rank(K, at(k)) = k
  BY <1>3
<1> HIDE DEF at, n
<1>6. /\ Len(Without(s, C)) = n
      /\ \A k \in 1..n : Without(s, C)[k] = s[at(k)]
  BY <1>3, <1>4
<1>7. /\ a \in 1..n /\ b \in 1..n
      /\ at(a) \in K /\ at(b) \in K
      /\ Rank(K, at(a)) = a /\ Rank(K, at(b)) = b
  BY <1>5, <1>6
<1>8. at(a) \in 1..Len(s) /\ at(b) \in 1..Len(s)
  BY <1>1, <1>7
<1>9. ~(at(b) < at(a)) /\ at(a) # at(b)
  BY <1>3, <1>7
<1>10. at(a) < at(b)
  BY <1>1, <1>8, <1>9
<1>11. QED
  BY <1>6, <1>7, <1>8, <1>10

-----------------------------------------------------------------------------

\* Removing one element of a finite set, or adding a new one.
LEMMA RemoveOne ==
    ASSUME NEW S, IsFiniteSet(S), NEW x \in S
    PROVE  /\ IsFiniteSet(S \ {x})
           /\ Cardinality(S) \in Nat /\ Cardinality(S \ {x}) \in Nat
           /\ Cardinality(S \ {x}) = Cardinality(S) - 1
<1>1. /\ IsFiniteSet(S \ {x})
      /\ Cardinality(S \ {x}) = Cardinality(S) - 1
  BY FS_RemoveElement
<1>2. Cardinality(S) \in Nat /\ Cardinality(S \ {x}) \in Nat
  BY <1>1, FS_CardinalityType
<1>3. QED
  BY <1>1, <1>2

LEMMA AddOne ==
    ASSUME NEW S, IsFiniteSet(S), NEW x, x \notin S
    PROVE  /\ IsFiniteSet(S \union {x})
           /\ Cardinality(S) \in Nat
           /\ Cardinality(S \union {x}) = Cardinality(S) + 1
<1>1. /\ IsFiniteSet(S \union {x})
      /\ Cardinality(S \union {x}) = Cardinality(S) + 1
  BY FS_AddElement
<1>2. QED
  BY <1>1, FS_CardinalityType

\* Counting to zero, and removing a subset.
LEMMA CountZero ==
    ASSUME NEW S, IsFiniteSet(S)
    PROVE  Cardinality(S) \in Nat /\ (S = {} <=> Cardinality(S) = 0)
  BY FS_CardinalityType, FS_EmptySet

LEMMA RemoveSubset ==
    ASSUME NEW S, IsFiniteSet(S), NEW T, T \subseteq S
    PROVE  /\ IsFiniteSet(S \ T) /\ IsFiniteSet(T)
           /\ Cardinality(S) \in Nat /\ Cardinality(T) \in Nat
           /\ Cardinality(S \ T) \in Nat
           /\ Cardinality(S \ T) = Cardinality(S) - Cardinality(T)
<1>1. IsFiniteSet(T) /\ IsFiniteSet(S \ T)
  BY FS_Subset
<1>2. S \intersect T = T
  OBVIOUS
<1>3. Cardinality(S \ T) = Cardinality(S) - Cardinality(S \intersect T)
  BY <1>1, FS_Difference
<1>4. QED
  BY <1>1, <1>2, <1>3, FS_CardinalityType

\* The entries of a list after the removal of its first or its last entry, or
\* the addition of a new one at the end.
LEMMA TailEntries ==
    ASSUME NEW S, NEW s \in Seq(S), s # <<>>, Distinct(s)
    PROVE  /\ Head(s) \in S /\ Tail(s) \in Seq(S)
           /\ Distinct(Tail(s))
           /\ Head(s) \in Entries(s)
           /\ Entries(Tail(s)) = Entries(s) \ {Head(s)}
<1>1. /\ Len(s) \in Nat /\ Len(s) # 0
      /\ Tail(s) \in Seq(S) /\ Len(Tail(s)) = Len(s) - 1
      /\ \A i \in 1..Len(s) - 1 : Tail(s)[i] = s[i + 1]
      /\ Head(s) = s[1] /\ s[1] \in S
  OBVIOUS
<1>2. Distinct(Tail(s))
  BY <1>1 DEF Distinct
<1>3. Head(s) \in Entries(s)
  BY <1>1 DEF Entries
<1>4. ASSUME NEW x \in Entries(Tail(s)) PROVE x \in Entries(s) \ {Head(s)}
  <2>1. PICK i \in 1..Len(s) - 1 : x = s[i + 1]
    BY <1>1 DEF Entries
  <2>2. i + 1 \in 1..Len(s) /\ 1 \in 1..Len(s) /\ i + 1 # 1
    BY <1>1
  <2>3. s[i + 1] # s[1]
    BY <2>2 DEF Distinct
  <2>4. QED
    BY <1>1, <2>1, <2>2, <2>3 DEF Entries
<1>5. ASSUME NEW x \in Entries(s), x # Head(s) PROVE x \in Entries(Tail(s))
  <2>1. PICK i \in 1..Len(s) : x = s[i]
    BY DEF Entries
  <2>2. i # 1 /\ i - 1 \in 1..Len(s) - 1 /\ Tail(s)[i - 1] = s[i]
    BY <1>1, <1>5, <2>1
  <2>3. QED
    BY <1>1, <2>1, <2>2 DEF Entries
<1>6. QED
  BY <1>1, <1>2, <1>3, <1>4, <1>5

LEMMA AppendEntries ==
    ASSUME NEW S, NEW s \in Seq(S), NEW x \in S, x \notin Entries(s), Distinct(s)
    PROVE  /\ Append(s, x) \in Seq(S)
           /\ Distinct(Append(s, x))
           /\ Entries(Append(s, x)) = Entries(s) \union {x}
           /\ Append(s, x) # <<>>
           /\ Len(Append(s, x)) = Len(s) + 1
           /\ Append(s, x)[Len(s) + 1] = x
<1> DEFINE q == Append(s, x)
<1>1. /\ Len(s) \in Nat /\ q \in Seq(S) /\ Len(q) = Len(s) + 1
      /\ \A i \in 1..Len(s) : q[i] = s[i]
      /\ q[Len(s) + 1] = x /\ q # <<>>
  OBVIOUS
<1> HIDE DEF q
<1>2. \A i \in 1..Len(s) : s[i] \in Entries(s) /\ s[i] # x
  BY DEF Entries
<1>3. Distinct(q)
  BY <1>1, <1>2 DEF Distinct
<1>4. Entries(q) \subseteq Entries(s) \union {x}
  BY <1>1 DEF Entries
<1>5. Entries(s) \union {x} \subseteq Entries(q)
  BY <1>1 DEF Entries
<1>6. QED
  BY <1>1, <1>3, <1>4, <1>5 DEF q

LEMMA DropLastEntries ==
    ASSUME NEW S, NEW s \in Seq(S), s # <<>>, Distinct(s)
    PROVE  LET q == SubSeq(s, 1, Len(s) - 1)
               x == s[Len(s)]
           IN  /\ q \in Seq(S) /\ Distinct(q)
               /\ x \in S /\ x \in Entries(s)
               /\ Entries(q) = Entries(s) \ {x}
<1> DEFINE q == SubSeq(s, 1, Len(s) - 1)
           x == s[Len(s)]
<1>0. Len(s) \in Nat /\ Len(s) # 0 /\ x \in S
  OBVIOUS
<1>1. /\ Len(s) \in Nat /\ Len(s) # 0
      /\ q \in Seq(S) /\ Len(q) = Len(s) - 1
      /\ \A i \in 1..Len(s) - 1 : q[i] = s[i]
      /\ x \in S
  <2> DEFINE n == Len(s) - 1
  <2>1. n \in Nat /\ 1 \in Int /\ n \in Int
    BY <1>0
  <2>2. \A i \in 1..n : s[i] \in S
    BY <1>0
  <2> HIDE DEF n
  <2>3. /\ SubSeq(s, 1, n) \in Seq(S)
        /\ Len(SubSeq(s, 1, n)) = IF 1 <= n THEN n - 1 + 1 ELSE 0
        /\ \A i \in 1..n - 1 + 1 : SubSeq(s, 1, n)[i] = s[1 + i - 1]
    BY <2>1, <2>2, SubSeqProperties
  <2>4. Len(SubSeq(s, 1, n)) = n /\ \A i \in 1..n : SubSeq(s, 1, n)[i] = s[i]
    BY <2>1, <2>3
  <2>5. QED
    BY <1>0, <2>3, <2>4 DEF n
<1> HIDE DEF q
<1>2. Distinct(q)
  BY <1>1 DEF Distinct
<1>3. x \in Entries(s)
  BY <1>1 DEF Entries
<1>4. ASSUME NEW y \in Entries(q) PROVE y \in Entries(s) \ {x}
  <2>1. PICK i \in 1..Len(s) - 1 : y = s[i]
    BY <1>1 DEF Entries
  <2>2. i \in 1..Len(s) /\ Len(s) \in 1..Len(s) /\ i # Len(s)
    BY <1>1
  <2>3. s[i] # x
    BY <2>2 DEF Distinct
  <2>4. QED
    BY <2>1, <2>2, <2>3 DEF Entries
<1>5. ASSUME NEW y \in Entries(s), y # x PROVE y \in Entries(q)
  <2>1. PICK i \in 1..Len(s) : y = s[i]
    BY DEF Entries
  <2>2. i \in 1..Len(s) - 1
    BY <1>1, <1>5, <2>1
  <2>3. QED
    BY <1>1, <2>1, <2>2 DEF Entries
<1>6. QED
  BY <1>1, <1>2, <1>3, <1>4, <1>5 DEF q
=============================================================================
