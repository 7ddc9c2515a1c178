-------------------------------- MODULE Lists --------------------------------
(***************************************************************************)
(* Lists of requests and jobs (czmq zlistx_t) as sequences without         *)
(* duplicates, and the removal of the entries that belong to a set.        *)
(***************************************************************************)
EXTENDS Naturals, Integers, Sequences, FiniteSets

Entries(s) == {s[i] : i \in 1..Len(s)}

Distinct(s) == \A i, k \in 1..Len(s) : s[i] = s[k] => i = k

\* The positions of s whose entries are kept, and the number of kept
\* positions up to i.
Kept(s, C) == {i \in 1..Len(s) : s[i] \notin C}
Rank(K, i) == Cardinality({m \in K : m <= i})

\* s without the entries in C, in the same order: its k-th entry is the one
\* at the kept position of rank k.
Without(s, C) ==
    LET K == Kept(s, C)
    IN  [k \in 1..Cardinality(K) |-> s[CHOOSE i \in K : Rank(K, i) = k]]
=============================================================================
