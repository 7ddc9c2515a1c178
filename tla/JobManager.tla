----------------------------- MODULE JobManager -----------------------------
(***************************************************************************)
(* The job-manager module: the job state machine (event.c) and the four    *)
(* interfaces that drive it, to the scheduler (alloc.c), to the exec       *)
(* service (start.c), to job-ingest (submit.c) and to users (raise.c,      *)
(* priority.c, drain.c).                                                   *)
(*                                                                         *)
(* The module is one reactor: a handler runs to completion.  Handlers are  *)
(* operators from a state m of the job-manager to the next one, since they *)
(* call each other; an action applies one of them to the variable jm.  The *)
(* peers are not constrained here: any response may arrive for any job at  *)
(* any time.  Module JobSched closes the scheduler side.                   *)
(***************************************************************************)
EXTENDS JobQueue

CONSTANTS
    Priorities,  \* priorities users ask for
    ExecErrors,  \* whether the exec service may answer with an error
    MaxRequests, \* bound: blocked drain and idle requests
    UINT_MAX     \* largest value of an unsigned counter

ASSUME JobManagerAssumption ==
    /\ Priorities \subseteq Int
    /\ ExecErrors \in BOOLEAN
    /\ MaxRequests \in Nat
    /\ UINT_MAX \in Nat /\ Cardinality(Jobs) <= UINT_MAX

VARIABLE jm

\* "none": not submitted.  The hash active_jobs holds the jobs between
\* "none" and "INACTIVE".
States == {"none", "NEW", "DEPEND", "SCHED", "RUN", "CLEANUP", "INACTIVE"}

JobList == Seq(Jobs)

\* Requests to the scheduler and to the exec service.
Message == [op : {"alloc", "free", "cancel", "start"}, id : Jobs]

\* The flags of struct job are kept as sets of jobs.  The counters of struct
\* alloc are unsigned, running_jobs is signed.  out: the messages sent by a
\* handler, which reach their peer in any order (at most one for each job).
Manager == [
    state : [Jobs -> States], priority : [Jobs -> Int],
    alloc_queued : SUBSET Jobs, alloc_pending : SUBSET Jobs,
    free_pending : SUBSET Jobs, has_resources : SUBSET Jobs,
    start_pending : SUBSET Jobs,
    queue : JobList, mode : {"single", "unlimited"},
    ready : BOOLEAN, disable : BOOLEAN,
    alloc_pending_count : 0..UINT_MAX, free_pending_count : 0..UINT_MAX,
    running_jobs : Int, topic : BOOLEAN, submit_disable : BOOLEAN,
    drain_requests : Nat, idle_requests : Nat, segfault : BOOLEAN,
    out : SUBSET Message]

Active(m) == {j \in Jobs : m.state[j] \notin {"none", "INACTIVE"}}
Running(m) == {j \in Jobs : m.state[j] \in {"RUN", "CLEANUP"}}

InitManager == [
    state |-> [j \in Jobs |-> "none"],
    priority |-> [j \in Jobs |-> FLUX_JOB_PRIORITY_DEFAULT],
    alloc_queued |-> {}, alloc_pending |-> {}, free_pending |-> {},
    has_resources |-> {}, start_pending |-> {},
    queue |-> <<>>, mode |-> "single", ready |-> FALSE, disable |-> FALSE,
    alloc_pending_count |-> 0, free_pending_count |-> 0, running_jobs |-> 0,
    topic |-> FALSE, submit_disable |-> FALSE,
    drain_requests |-> 0, idle_requests |-> 0, segfault |-> FALSE,
    out |-> {}]

Init == jm = InitManager

increment(n) == IF n = UINT_MAX THEN 0 ELSE n + 1
decrement(n) == IF n = 0 THEN UINT_MAX ELSE n - 1

flux_send(m, op, J) == [m EXCEPT !.out = @ \union [op : {op}, id : J]]

-----------------------------------------------------------------------------
(* drain.c *)

\* Blocked drain requests are answered when no job is active, idle requests
\* when no job runs and no alloc request is pending.
drain_check(m) ==
    [m EXCEPT
       !.drain_requests = IF Active(m) = {} THEN 0 ELSE @,
       !.idle_requests = IF m.alloc_pending_count = 0 /\ m.running_jobs = 0
                           THEN 0 ELSE @]

-----------------------------------------------------------------------------
(* alloc.c and start.c, as called by the state machine *)

alloc_enqueue_alloc_request(m, j) ==
    IF j \in m.alloc_queued \/ j \in m.alloc_pending THEN m
    ELSE [m EXCEPT !.queue = zlistx_insert(m.priority, @, j),
                   !.alloc_queued = @ \union {j}]

alloc_dequeue_alloc_request(m, j) ==
    IF j \notin m.alloc_queued THEN m
    ELSE [m EXCEPT !.queue = zlistx_delete(@, j),
                   !.alloc_queued = @ \ {j}]

alloc_cancel_alloc_request(m, j) ==
    IF j \in m.alloc_pending THEN flux_send(m, "cancel", {j}) ELSE m

alloc_send_free_request(m, j) ==
    IF j \in m.free_pending \/ ~m.ready THEN m
    ELSE [flux_send(m, "free", {j}) EXCEPT
            !.free_pending = @ \union {j},
            !.free_pending_count = increment(@)]

start_send_request(m, j) ==
    IF j \in m.start_pending \/ ~m.topic THEN m
    ELSE [flux_send(m, "start", {j}) EXCEPT !.start_pending = @ \union {j}]

-----------------------------------------------------------------------------
(* event.c: the job state machine *)

\* mutant: free is accepted in any state
event_invalid_free(s, name) ==
    \/ name = "depend" /\ s # "DEPEND"
    \/ name \in {"exception", "fatal"} /\ s \in {"NEW", "INACTIVE"}
    \/ name = "alloc" /\ s \notin {"SCHED", "CLEANUP"}
    \/ name = "clean" /\ s # "CLEANUP"
    \/ name \in {"finish", "release"} /\ s \notin {"RUN", "CLEANUP"}

\* Events that event_job_update refuses in the state s.  (A final release in
\* RUN is meant to be refused too, but release_context_decode leaves final 0.)
event_invalid(s, name) ==
    \/ name = "depend" /\ s # "DEPEND"
    \/ name \in {"exception", "fatal"} /\ s \in {"NEW", "INACTIVE"}
    \/ name = "alloc" /\ s \notin {"SCHED", "CLEANUP"}
    \/ name \in {"free", "clean"} /\ s # "CLEANUP"
    \/ name \in {"finish", "release"} /\ s \notin {"RUN", "CLEANUP"}

\* "fatal" is an exception of severity 0, "exception" one of another severity.
event_job_state(s, name) ==
    CASE name = "submit" -> "DEPEND"
      [] name = "depend" -> "SCHED"
      [] name = "fatal" -> "CLEANUP"
      [] name = "alloc" /\ s = "SCHED" -> "RUN"
      [] name = "finish" /\ s = "RUN" -> "CLEANUP"
      [] name = "clean" -> "INACTIVE"
      [] OTHER -> s

event_job_update(m, j, name) ==
    [m EXCEPT !.state[j] = event_job_state(@, name),
              !.has_resources = IF name = "alloc" THEN @ \union {j}
                                ELSE IF name = "free" THEN @ \ {j}
                                ELSE @]

\* event_job_post_pack up to its call of event_job_action: the change of state
\* and the count of jobs in RUN or CLEANUP.
event_job_record(m, j, name) ==
    LET n == event_job_update(m, j, name) IN
    [n EXCEPT !.running_jobs =
       CASE j \in Running(n) /\ j \notin Running(m) -> @ + 1
         [] j \notin Running(n) /\ j \in Running(m) -> @ - 1
         [] OTHER -> @]

\* The requests of a job in CLEANUP: cancel its alloc request, leave the queue,
\* free its resources once the exec service is done with them.
cleanup_requests(m, j) ==
    LET c == alloc_dequeue_alloc_request(alloc_cancel_alloc_request(m, j), j)
    IN  IF j \in c.has_resources /\ j \notin c.start_pending
          THEN alloc_send_free_request(c, j) ELSE c

\* mutant: "clean" does not wait for the resources
cleanup_complete_early(m, j) ==
    j \notin m.alloc_queued \union m.alloc_pending \union m.free_pending
              \union m.start_pending

cleanup_complete(m, j) ==
    j \notin m.alloc_queued \union m.alloc_pending \union m.free_pending
              \union m.start_pending \union m.has_resources

\* mutant: looks for outstanding requests before it withdraws them
cleanup_action_stale(m, j) ==
    IF cleanup_complete(m, j)
      THEN drain_check(event_job_record(m, j, "clean"))
      ELSE cleanup_requests(m, j)

cleanup_action(m, j) ==
    LET c == cleanup_requests(m, j)
    IN  IF cleanup_complete(c, j)
          THEN drain_check(event_job_record(c, j, "clean")) ELSE c

event_job_action(m, j) ==
    CASE m.state[j] = "DEPEND" ->
           alloc_enqueue_alloc_request(event_job_record(m, j, "depend"), j)
      [] m.state[j] = "SCHED" -> alloc_enqueue_alloc_request(m, j)
      [] m.state[j] = "RUN" -> start_send_request(m, j)
      [] m.state[j] = "CLEANUP" -> cleanup_action(m, j)
      [] m.state[j] = "INACTIVE" -> drain_check(m)
      [] OTHER -> m

event_job_post(m, j, name) == event_job_action(event_job_record(m, j, name), j)

-----------------------------------------------------------------------------
(* Requests of job-ingest and users *)

\* A batch of jobs is a sequence of these steps.  A job that is already active
\* is ignored.
submit_job(m, j, p) ==
    event_job_action(event_job_update([m EXCEPT !.priority[j] = p],
                                      j, "submit"), j)

\* alloc_queue_reorder moves the job to its place in the queue.  The node of a
\* job that is not in the queue is NULL.
alloc_queue_reorder(m, j) ==
    IF j \in m.alloc_queued
      THEN [m EXCEPT !.queue =
              zlistx_insert(m.priority, zlistx_delete(@, j), j)]
      ELSE [m EXCEPT !.segfault = TRUE]

\* mutant: the job keeps its place in the queue
priority_handle_request_stay(m, j, p) ==
    IF j \in m.alloc_pending THEN m
    ELSE event_job_post([m EXCEPT !.priority[j] = p], j, "priority")

priority_handle_request(m, j, p) ==
    IF j \in m.alloc_pending THEN m
    ELSE alloc_queue_reorder(
           event_job_post([m EXCEPT !.priority[j] = p], j, "priority"), j)

drain_request(m) == drain_check([m EXCEPT !.drain_requests = @ + 1])

idle_request(m) == drain_check([m EXCEPT !.idle_requests = @ + 1])

-----------------------------------------------------------------------------
(* Messages from the scheduler *)

\* The queues that interface_teardown may leave: jobs with a pending alloc
\* request are put back in the order of the hash, each in its sorted place.
requeued(m) ==
    LET S == m.alloc_queued \union m.alloc_pending
    IN  {q \in [1..Cardinality(S) -> S] :
           Entries(q) = S /\ Distinct(q) /\ Sorted(m.priority, q)}

\* mutant: pending jobs are not put back in the queue
alloc_teardown_forget(m, q) ==
    IF ~m.ready THEN m
    ELSE drain_check([m EXCEPT
           !.alloc_pending = {}, !.free_pending = {},
           !.ready = FALSE,
           !.alloc_pending_count = 0, !.free_pending_count = 0])

\* mutant: no drain_check
alloc_teardown_nodrain(m, q) ==
    IF ~m.ready THEN m
    ELSE [m EXCEPT
           !.queue = q,
           !.alloc_queued = @ \union m.alloc_pending,
           !.alloc_pending = {}, !.free_pending = {},
           !.ready = FALSE,
           !.alloc_pending_count = 0, !.free_pending_count = 0]

alloc_teardown(m, q) ==
    IF ~m.ready THEN m
    ELSE drain_check([m EXCEPT
           !.queue = q,
           !.alloc_queued = @ \union m.alloc_pending,
           !.alloc_pending = {}, !.free_pending = {},
           !.ready = FALSE,
           !.alloc_pending_count = 0, !.free_pending_count = 0])

\* SUCCESS, DENY and CANCEL end the alloc request of a job.
alloc_answered(m, j) ==
    [m EXCEPT !.alloc_pending = @ \ {j},
              !.alloc_pending_count = decrement(@)]

alloc_response(m, j, type, q) ==
    LET a == alloc_answered(m, j) IN
    CASE j \in m.alloc_pending /\ type = "success" ->
           IF j \in m.has_resources \/ event_invalid(m.state[j], "alloc")
             THEN alloc_teardown(a, q)
             ELSE event_job_post(a, j, "alloc")
      [] j \in m.alloc_pending /\ type = "annotate" -> m
      [] j \in m.alloc_pending /\ type = "deny" -> event_job_post(a, j, "fatal")
      [] j \in m.alloc_pending /\ type = "cancel" ->
           drain_check(event_job_action(a, j))
      [] OTHER -> alloc_teardown(m, q)

free_response(m, j, type, q) ==
    LET f == [m EXCEPT !.free_pending = @ \ {j},
                       !.free_pending_count = decrement(@)]
    IN  IF type = "error" \/ j \notin Active(m) \/ j \notin m.has_resources
          THEN alloc_teardown(m, q)
        ELSE IF event_invalid(m.state[j], "free") THEN alloc_teardown(f, q)
        ELSE event_job_post(f, j, "free")

\* The jobs for which the scheduler's ready makes event_job_action send the free
\* request that the last teardown interrupted.  (The others in CLEANUP with
\* resources are left alone: they are neither queued nor pending.)
interrupted(m) ==
    {j \in m.has_resources : m.state[j] = "CLEANUP"}
        \ (m.start_pending \union m.free_pending)

\* mutant: interrupted free requests are not sent again
sched_ready_forget(m, mode) == [m EXCEPT !.mode = mode, !.ready = TRUE]

sched_ready(m, mode) ==
    [flux_send(m, "free", interrupted(m)) EXCEPT
       !.mode = mode, !.ready = TRUE,
       !.free_pending = @ \union interrupted(m),
       !.free_pending_count =
          (@ + Cardinality(interrupted(m))) % (UINT_MAX + 1)]

\* prep_cb and check_cb: the alloc request of the first job of the queue.
can_alloc(m) ==
    /\ m.ready /\ ~m.disable
    /\ m.mode = "single" => m.alloc_pending_count = 0
    /\ m.queue # <<>>

alloc_request(m) ==
    LET j == Head(m.queue)
    IN  [flux_send(m, "alloc", {j}) EXCEPT
           !.queue = Tail(@),
           !.alloc_queued = @ \ {j},
           !.alloc_pending = @ \union {j},
           !.alloc_pending_count = increment(@)]

cancel_all_pending(m) ==
    IF m.alloc_pending_count > 0
      THEN flux_send(m, "cancel", m.alloc_pending) ELSE m

alloc_admin(m, enable) ==
    [IF enable THEN m ELSE cancel_all_pending(m) EXCEPT !.disable = ~enable]

-----------------------------------------------------------------------------
(* Messages from the exec service *)

\* exec-hello is refused while the present service has a start outstanding.
exec_hello_ok(m) == m.topic => m.start_pending = {}

exec_hello(m) ==
    LET R == {j \in Jobs : m.state[j] = "RUN"} \ m.start_pending
    IN  [flux_send(m, "start", R) EXCEPT
           !.topic = TRUE,
           !.start_pending = @ \union R]

\* An error response stops the interface until the next hello.
start_teardown(m) == [m EXCEPT !.topic = FALSE, !.start_pending = {}]

start_response(m, j, type) ==
    LET name == IF type = "release-final" THEN "release" ELSE type
        r == IF type = "release-final"
               THEN [m EXCEPT !.start_pending = @ \ {j}] ELSE m
    IN  IF event_invalid(m.state[j], name) THEN r
        ELSE event_job_post(r, j, name)

-----------------------------------------------------------------------------
(* The reactor: each message runs one handler to completion. *)

AllocTypes == {"success", "annotate", "deny", "cancel", "error"}
FreeTypes == {"success", "error"}
StartTypes == {"start", "release", "release-final", "exception", "fatal",
               "finish"}

\* A handler runs in a process that has not crashed; its messages leave when it
\* returns.
Handle(m) ==
    /\ ~jm.segfault
    /\ jm' = [m EXCEPT !.out = {}]

submit_cb(j, p) ==
    /\ ~jm.submit_disable /\ jm.state[j] = "none"
    /\ Handle(submit_job(jm, j, p))

submit_admin_cb == Handle([jm EXCEPT !.submit_disable = ~@])

\* raiseall is a sequence of these steps.
raise_job(j, name) ==
    /\ j \in Active(jm) /\ ~event_invalid(jm.state[j], name)
    /\ Handle(event_job_post(jm, j, name))

priority_cb(j, p) ==
    /\ j \in Active(jm)
    /\ Handle(priority_handle_request(jm, j, p))

drain_cb ==
    /\ jm.drain_requests < MaxRequests
    /\ Handle(drain_request(jm))

idle_cb ==
    /\ jm.idle_requests < MaxRequests
    /\ Handle(idle_request(jm))

alloc_response_cb(j, type) ==
    \E q \in requeued(jm) : Handle(alloc_response(jm, j, type, q))

free_response_cb(j, type) ==
    \E q \in requeued(jm) : Handle(free_response(jm, j, type, q))

ready_cb(mode) == Handle(sched_ready(jm, mode))

check_cb == can_alloc(jm) /\ Handle(alloc_request(jm))

alloc_admin_cb(enable) == Handle(alloc_admin(jm, enable))

exec_hello_cb == exec_hello_ok(jm) /\ Handle(exec_hello(jm))

start_response_cb(j, type) ==
    /\ jm.topic /\ j \in Active(jm)
    /\ Handle(start_response(jm, j, type))

start_error_cb ==
    /\ ExecErrors /\ jm.topic
    /\ Handle(start_teardown(jm))

JobStep(j) ==
    \/ \E p \in Priorities : submit_cb(j, p) \/ priority_cb(j, p)
    \/ \E name \in {"exception", "fatal"} : raise_job(j, name)
    \/ \E type \in AllocTypes : alloc_response_cb(j, type)
    \/ \E type \in FreeTypes : free_response_cb(j, type)
    \/ \E type \in StartTypes : start_response_cb(j, type)

Next ==
    \/ \E j \in Jobs : JobStep(j)
    \/ submit_admin_cb
    \/ drain_cb
    \/ idle_cb
    \/ \E mode \in {"single", "unlimited"} : ready_cb(mode)
    \/ check_cb
    \/ \E enable \in BOOLEAN : alloc_admin_cb(enable)
    \/ exec_hello_cb
    \/ start_error_cb

Spec == Init /\ [][Next]_jm

-----------------------------------------------------------------------------
(* Properties *)

\* Every field has its C type; nothing is left to send.
TypeOK == jm \in Manager /\ jm.out = {}

\* No job is lost between the queue and the scheduler: a job in SCHED is in the
\* queue or its alloc request is pending, and never both (event_job_action,
\* check_cb, alloc_response_cb, interface_teardown).
SchedAccounted ==
    /\ {j \in Jobs : jm.state[j] = "SCHED"}
         \subseteq jm.alloc_queued \union jm.alloc_pending
    /\ jm.alloc_queued \intersect jm.alloc_pending = {}
    /\ \A j \in jm.alloc_queued \union jm.alloc_pending :
          jm.state[j] \in {"SCHED", "CLEANUP"}

\* A job runs only on resources, asks for none while it holds some, and is not
\* INACTIVE before the exec service and the scheduler are done with it.
ResourcesAccounted ==
    /\ \A j \in Jobs : jm.state[j] = "RUN" => j \in jm.has_resources
    /\ \A j \in jm.has_resources :
          /\ jm.state[j] \in {"RUN", "CLEANUP"}
          /\ j \notin jm.alloc_queued \union jm.alloc_pending
    /\ \A j \in jm.start_pending : jm.state[j] \in {"RUN", "CLEANUP"}
    /\ jm.free_pending \subseteq jm.has_resources

\* A job in CLEANUP waits for something: its "clean" event is posted by the
\* handler that takes the last of its flags.  (Checked without exec errors.)
CleanupWaits ==
    \A j \in Jobs : jm.state[j] = "CLEANUP" => ~cleanup_complete(jm, j)

\* The alloc queue holds the queued jobs, once each, in the order of their
\* present priority and of their submission.
QueueInOrder ==
    /\ Entries(jm.queue) = jm.alloc_queued
    /\ Distinct(jm.queue)
    /\ Sorted(jm.priority, jm.queue)

\* The counters that decide whether the scheduler may be asked again and
\* whether the instance is idle are those of the jobs.
CountsAgree ==
    /\ jm.alloc_pending_count = Cardinality(jm.alloc_pending)
    /\ jm.running_jobs = Cardinality(Running(jm))

\* A blocked drain request waits for an active job, a blocked idle request for
\* a running job or a pending alloc request: no wakeup is missed (drain_check).
NoMissedDrain ==
    /\ jm.drain_requests > 0 => Active(jm) # {}
    /\ jm.idle_requests > 0 => jm.alloc_pending # {} \/ Running(jm) # {}

\* Requests are pending only while the interface they went to is up.
InterfacesUp ==
    /\ ~jm.ready => jm.alloc_pending = {} /\ jm.free_pending = {}
    /\ ~jm.topic => jm.start_pending = {}

\* While the scheduler is up, a job in CLEANUP that the exec service has
\* released gives its resources back.  (Checked without exec errors.)
CleanupFrees ==
    jm.ready => interrupted(jm) = {}

JobManagerInv ==
    /\ TypeOK
    /\ SchedAccounted
    /\ ResourcesAccounted
    /\ QueueInOrder
    /\ CountsAgree
    /\ NoMissedDrain
    /\ InterfacesUp
    /\ ~ExecErrors => CleanupWaits /\ CleanupFrees

StateRank(s) ==
    CASE s = "none" -> 0
      [] s = "NEW" -> 1
      [] s = "DEPEND" -> 2
      [] s = "SCHED" -> 3
      [] s = "RUN" -> 4
      [] s = "CLEANUP" -> 5
      [] OTHER -> 6

\* A job only moves forward through its states, whatever the scheduler and the
\* exec service answer, and gives up resources only in CLEANUP.
JobsMoveForward ==
    [][\A j \in Jobs :
         /\ StateRank(jm.state[j]) <= StateRank(jm'.state[j])
         /\ j \in jm.has_resources \ jm'.has_resources =>
              jm.state[j] = "CLEANUP"]_jm

\* alloc_queue_reorder is never given a job without a queue node.
NoSegfault == ~jm.segfault

=============================================================================
