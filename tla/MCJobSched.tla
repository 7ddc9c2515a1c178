----------------------------- MODULE MCJobSched ------------------------------
EXTENDS JobSched
CONSTANTS j1, j2, j3

MCt_submit == [j \in Jobs |-> IF j = j1 THEN 1 ELSE IF j = j2 THEN 2 ELSE 3]
\* Two ranks of one core, and one of one core and one of two.
MCcores == [r \in Ranks |-> {0}]
MCcoresWide == [r \in Ranks |-> 0..r]

\* j1 needs two cores, j2 one, j3 more than there are.
MCjobspec ==
    [j \in Jobs |-> [nnodes |-> 0, slot_size |-> 1,
                     slots |-> IF j = j1 THEN 2 ELSE IF j = j2 THEN 1 ELSE 4]]
=============================================================================
