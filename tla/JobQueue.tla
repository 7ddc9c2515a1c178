------------------------------ MODULE JobQueue ------------------------------
(***************************************************************************)
(* Queues of jobs, sorted by priority and then by time of submission: the  *)
(* alloc queue of the job-manager and the queue of the scheduler.          *)
(***************************************************************************)
EXTENDS Integers, Sequences, FiniteSets, Lists

CONSTANTS
    Jobs,        \* job ids
    t_submit     \* submission time of each job

ASSUME JobQueueAssumption ==
    /\ IsFiniteSet(Jobs)
    /\ t_submit \in [Jobs -> Nat]

FLUX_JOB_PRIORITY_DEFAULT == 16

\* job_comparator (j, k) <= 0
job_leq(priority, j, k) ==
    \/ priority[j] > priority[k]
    \/ priority[j] = priority[k] /\ t_submit[j] <= t_submit[k]

\* zlistx_insert scans from the front (low_value) or from the back for a place
\* and inserts after position p.
insert_after(priority, q, j) ==
    IF priority[j] > FLUX_JOB_PRIORITY_DEFAULT
      THEN CHOOSE p \in 0..Len(q) :
             /\ \A i \in 1..p : ~job_leq(priority, j, q[i])
             /\ p < Len(q) => job_leq(priority, j, q[p + 1])
      ELSE CHOOSE p \in 0..Len(q) :
             /\ \A i \in p + 1..Len(q) : ~job_leq(priority, q[i], j)
             /\ p > 0 => job_leq(priority, q[p], j)

InsertAfter(q, p, j) == [i \in 1..Len(q) + 1 |-> IF i <= p THEN q[i]
                                                ELSE IF i = p + 1 THEN j
                                                ELSE q[i - 1]]

zlistx_insert(priority, q, j) == InsertAfter(q, insert_after(priority, q, j), j)

zlistx_delete(q, j) == Without(q, {j})

Sorted(priority, q) ==
    \A i, k \in 1..Len(q) : i < k => job_leq(priority, q[i], q[k])

=============================================================================
