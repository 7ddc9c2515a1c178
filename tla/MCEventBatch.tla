---------------------------- MODULE MCEventBatch ----------------------------
EXTENDS EventBatch
CONSTANTS e1, e2, e3, n1, r1
=============================================================================
