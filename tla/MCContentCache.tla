--------------------------- MODULE MCContentCache ---------------------------
EXTENDS ContentCache

MCChain == [r \in Ranks \ {0} |-> r - 1]

MCrequest ==
    [sa0 |-> [rank |-> 0, kind |-> "store", blob |-> "a"],
     sa1 |-> [rank |-> 1, kind |-> "store", blob |-> "a"],
     sa2 |-> [rank |-> 2, kind |-> "store", blob |-> "a"],
     sb0 |-> [rank |-> 0, kind |-> "store", blob |-> "b"],
     sb1 |-> [rank |-> 1, kind |-> "store", blob |-> "b"],
     la0 |-> [rank |-> 0, kind |-> "load", blob |-> "a"],
     la1 |-> [rank |-> 1, kind |-> "load", blob |-> "a"],
     f0 |-> [rank |-> 0, kind |-> "flush"],
     f1 |-> [rank |-> 1, kind |-> "flush"]]
=============================================================================
