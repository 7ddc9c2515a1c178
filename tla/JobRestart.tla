----------------------------- MODULE JobRestart -----------------------------
(***************************************************************************)
(* The job-manager and the job eventlogs in the KVS, with crashes, unloads *)
(* and restarts (restart.c).                                               *)
(*                                                                         *)
(* An event changes the job at once (event_job_update) and is committed to *)
(* the job's eventlog later, in a batch with those of other jobs.  At      *)
(* startup the module replays every eventlog of the KVS with the same      *)
(* event_job_update and takes the action of the state it finds.  The log   *)
(* of a job is represented by what its replay gives.                       *)
(***************************************************************************)
EXTENDS JobManager, SequencesExt

VARIABLE kvs

\* What event_job_update makes of an eventlog.
Image == [state : States, priority : Int, has_resources : BOOLEAN]

image(m, j) == [state |-> m.state[j], priority |-> m.priority[j],
                has_resources |-> j \in m.has_resources]

NoLog == [state |-> "none", priority |-> FLUX_JOB_PRIORITY_DEFAULT,
          has_resources |-> FALSE]

\* A new job is in the KVS, with its submit event, before job-ingest announces
\* it to the job-manager.
NewLog(p) == [state |-> "DEPEND", priority |-> p, has_resources |-> FALSE]

-----------------------------------------------------------------------------
(* restart.c *)

\* mutant: only the submit event is replayed
restart_map_cb_submit(m, j) ==
    event_job_action([m EXCEPT !.state[j] = "DEPEND",
                               !.priority[j] = kvs[j].priority], j)

\* The job as replayed from its eventlog, then the action of its state.
restart_map_cb(m, j) ==
    event_job_action(
      [m EXCEPT !.state[j] = kvs[j].state,
                !.priority[j] = kvs[j].priority,
                !.has_resources = IF kvs[j].has_resources THEN @ \union {j}
                                  ELSE @], j)

\* The jobs of the KVS in the order q of the directory walk, then the count of
\* running jobs, added to what the actions left in running_jobs.
restart_from_kvs(q) ==
    LET m == FoldLeft(restart_map_cb, InitManager, q)
    IN  [m EXCEPT !.running_jobs = @ + Cardinality(Running(m)),
                  !.out = {}]

-----------------------------------------------------------------------------

RestartInit == Init /\ kvs = [j \in Jobs |-> NoLog]

ingest(j, p) ==
    /\ kvs[j] = NoLog
    /\ kvs' = [kvs EXCEPT ![j] = NewLog(p)]
    /\ UNCHANGED jm

\* The handlers of the job-manager.  Only jobs in the KVS are announced to it.
handle ==
    /\ Next
    /\ \A j \in Jobs : jm.state[j] = "none" /\ jm'.state[j] # "none" =>
          kvs[j] = NewLog(jm'.priority[j])
    /\ UNCHANGED kvs

\* The batches committed so far: everything posted until some moment.
commit ==
    /\ ~jm.segfault
    /\ kvs' = [j \in Jobs |-> IF jm.state[j] = "none" THEN kvs[j]
                              ELSE image(jm, j)]
    /\ UNCHANGED jm

\* The module starts again.  After an unload all batches are committed (a
\* commit before it); after a crash the last ones are lost.
restart ==
    /\ \E q \in SetToSeqs({j \in Jobs : kvs[j] # NoLog}) :
          jm' = restart_from_kvs(q)
    /\ UNCHANGED kvs

RestartNext ==
    \/ \E j \in Jobs, p \in Priorities : ingest(j, p)
    \/ handle
    \/ commit
    \/ restart

RestartSpec == RestartInit /\ [][RestartNext]_<<jm, kvs>>

-----------------------------------------------------------------------------
(* Properties *)

\* The job-manager and the eventlogs agree on which jobs exist, and the
\* job-manager is never behind a log: what restart replays is what was.
LogsBehind ==
    /\ kvs \in [Jobs -> Image]
    /\ \A j \in Jobs :
         jm.state[j] # "none" =>
           /\ kvs[j] # NoLog
           /\ StateRank(kvs[j].state) <= StateRank(jm.state[j])

\* A log never goes back, whatever was lost in a crash: the state that
\* the job-manager has published of a job is not taken back.
LogsMoveForward ==
    [][\A j \in Jobs :
         /\ StateRank(kvs[j].state) <= StateRank(kvs'[j].state)
         /\ kvs[j].has_resources /\ ~kvs'[j].has_resources =>
              kvs'[j].state \in {"CLEANUP", "INACTIVE"}]_<<jm, kvs>>

\* The count that decides whether the instance is idle is that of the jobs in
\* RUN or CLEANUP, after a restart too.
RunningCounted == jm.running_jobs = Cardinality(Running(jm))

=============================================================================
