---------------------------- MODULE MCJobManager ----------------------------
EXTENDS JobManager
CONSTANTS j1, j2, j3
MCt_submit == [j \in Jobs |-> IF j = j1 THEN 1 ELSE IF j = j2 THEN 2 ELSE 3]
=============================================================================
