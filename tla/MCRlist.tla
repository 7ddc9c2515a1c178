------------------------------- MODULE MCRlist -------------------------------
EXTENDS RlistUse

\* Ranks of 2, 3 and 1 cores.
MCcores == [r \in Ranks |-> 0..(CASE r = 0 -> 1 [] r = 1 -> 2 [] OTHER -> 0)]

\* libjj multiplies the slots of a node by the number of nodes.
Req(n, s, c) == [nnodes |-> n, slots |-> IF n > 0 THEN n * s ELSE s,
                 slot_size |-> c]
MCRequests == {Req(0, 1, 1), Req(0, 2, 2), Req(0, 1, 3),
               Req(0, 4, 1), Req(0, 3, 2), Req(0, 7, 1),
               Req(2, 1, 1), Req(2, 2, 1), Req(2, 1, 2), Req(2, 1, 3),
               Req(3, 1, 1), Req(4, 1, 1)}
=============================================================================
