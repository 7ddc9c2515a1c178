------------------------------- MODULE MCKvs --------------------------------
EXTENDS Kvs

\* Rank 1 and 2 are children of rank 0, or a chain.
MCStar == [r \in {1, 2} |-> 0]
MCChain == [r \in {1, 2} |-> r - 1]

\* A fence of two ranks, commits, and a wait for the first version.
MCrequest ==
    [f0 |-> [rank |-> 0, kind |-> "fence", name |-> "f", nprocs |-> 2],
     f1 |-> [rank |-> 1, kind |-> "fence", name |-> "f", nprocs |-> 2],
     f2 |-> [rank |-> 2, kind |-> "fence", name |-> "f", nprocs |-> 2],
     c0 |-> [rank |-> 0, kind |-> "commit", name |-> "c0", nprocs |-> 1],
     c1 |-> [rank |-> 1, kind |-> "commit", name |-> "c1", nprocs |-> 1],
     c2 |-> [rank |-> 2, kind |-> "commit", name |-> "c2", nprocs |-> 1],
     s1 |-> [rank |-> 1, kind |-> "sync", seq |-> 1],
     s2 |-> [rank |-> 2, kind |-> "sync", seq |-> 1]]

\* A fence and a wait for its version, or a commit.
MCWorkloads == {{"f0", "f2", "s1"}, {"c2"}}
=============================================================================
