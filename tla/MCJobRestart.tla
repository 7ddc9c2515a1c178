---------------------------- MODULE MCJobRestart ----------------------------
EXTENDS JobRestart
CONSTANTS j1, j2
MCt_submit == [j \in Jobs |-> IF j = j1 THEN 1 ELSE 2]
=============================================================================
