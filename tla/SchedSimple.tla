----------------------------- MODULE SchedSimple -----------------------------
(***************************************************************************)
(* The scheduler module sched-simple on top of libschedutil.  It is one    *)
(* reactor; its handlers are operators from a state s of the scheduler to  *)
(* the next one.  libschedutil looks up the jobspec of an alloc request    *)
(* and the R of a free request in the KVS before it calls the scheduler,   *)
(* and commits R before it answers an alloc request with success.          *)
(***************************************************************************)
EXTENDS JobQueue, Rlist

CONSTANTS
    jobspec,   \* the request of each job
    FitMode,   \* mode= option of the scheduler
    SchedModes \* "single", "unlimited": how it may be configured

ASSUME SchedSimpleAssumption ==
    /\ jobspec \in [Jobs -> Request]
    /\ FitMode \in Modes
    /\ SchedModes \subseteq {"single", "unlimited"}

\* Responses to the job-manager.  An error response carries no job id.
Response ==
    [op : {"alloc"}, id : Jobs, type : {"success", "deny", "cancel"}]
      \union [op : {"free"}, id : Jobs, type : {"success"}]
      \union [op : {"error"}]

\* alloc_queue, free_lookups: requests whose KVS lookup is not answered yet.
\* commits: allocations whose R is being committed.  queue: the scheduler's own
\* queue; it is looked at while the prep watcher is active.  out: the responses
\* of a handler.
Scheduler == [
    status : {"out", "hello", "ready", "run"},
    mode : {"single", "unlimited"},
    alloc_queue : Seq(Jobs), free_lookups : SUBSET Jobs,
    commits : Seq([id : Jobs, R : Allocation]),
    queue : Seq(Jobs), prep : BOOLEAN, rl : List, out : Seq(Response)]

NoScheduler(mode) == [
    status |-> "out", mode |-> mode, alloc_queue |-> <<>>,
    free_lookups |-> {}, commits |-> <<>>, queue |-> <<>>, prep |-> TRUE,
    rl |-> rlist_copy_empty, out |-> <<>>]

respond(s, op, j, type) ==
    [s EXCEPT !.out = Append(@, [op |-> op, id |-> j, type |-> type])]

flux_respond_error(s) == [s EXCEPT !.out = Append(@, [op |-> "error"])]

-----------------------------------------------------------------------------
(* sched-simple *)

head_errno(s) == rlist_alloc_errno(s.rl, FitMode, jobspec[Head(s.queue)])

\* mutant: the cores stay free until R is committed
try_alloc_late(s) ==
    LET j == Head(s.queue)
        a == rlist_try_alloc(s.rl, FitMode, jobspec[j])
        e == head_errno(s)
    IN  CASE e = "ENOSPC" -> s
          [] e = "0" -> [s EXCEPT !.queue = Tail(@),
                                  !.commits = Append(@, [id |-> j, R |-> a])]
          [] OTHER -> [respond(s, "alloc", j, "deny") EXCEPT !.queue = Tail(@)]

\* The head of the queue is allocated, denied, or stays.
try_alloc(s) ==
    LET j == Head(s.queue)
        a == rlist_try_alloc(s.rl, FitMode, jobspec[j])
        e == head_errno(s)
    IN  CASE e = "ENOSPC" -> s
          [] e = "0" -> [s EXCEPT !.queue = Tail(@),
                                  !.rl = rlist_take(@, a),
                                  !.commits = Append(@, [id |-> j, R |-> a])]
          [] OTHER -> [respond(s, "alloc", j, "deny") EXCEPT !.queue = Tail(@)]

\* check_cb: the watchers stop if the head of the queue has to wait.
check_cb_ok(s) == s.prep /\ s.queue # <<>>

sched_check(s) ==
    IF head_errno(s) = "ENOSPC" THEN [s EXCEPT !.prep = FALSE] ELSE try_alloc(s)

\* mutant: the watchers are not started again
sched_free_sleep(s, j, R) ==
    IF ~rlist_free_ok(s.rl, R) THEN flux_respond_error(s)
    ELSE [respond(s, "free", j, "success") EXCEPT !.rl = rlist_free(@, R)]

sched_free(s, j, R) ==
    IF ~rlist_free_ok(s.rl, R) THEN flux_respond_error(s)
    ELSE [respond(s, "free", j, "success") EXCEPT
            !.rl = rlist_free(@, R), !.prep = TRUE]

sched_alloc(s, priority, j) ==
    IF s.mode = "single" /\ s.queue # <<>> THEN flux_respond_error(s)
    ELSE [s EXCEPT !.queue = zlistx_insert(priority, @, j), !.prep = TRUE]

\* A job that is not in the queue (its jobspec is still looked up, or its R is
\* being committed) is left alone.
sched_cancel(s, j) ==
    IF j \in Entries(s.queue)
      THEN [respond(s, "alloc", j, "cancel") EXCEPT
              !.queue = zlistx_delete(@, j)]
      ELSE s

\* mutant: running jobs are not marked
sched_hello_skip(s, J, R) == [s EXCEPT !.status = "ready"]

\* hello_cb for each job that has resources; R is the KVS.
sched_hello(s, J, R) ==
    [s EXCEPT
       !.status = "ready",
       !.rl = FoldSet(LAMBDA j, l : IF \A r \in Ranks : R[j][r] \subseteq l.ids[r]
                                      THEN rlist_set_allocated(l, R[j]) ELSE l,
                      @, J)]

\* acquire_continuation: one try for the head of the queue.
resource_update(s, up, ranks) ==
    LET u == [s EXCEPT !.rl = IF up THEN rlist_mark_up(@, ranks)
                              ELSE rlist_mark_down(@, ranks)]
    IN  IF u.queue = <<>> THEN u ELSE try_alloc(u)

\* mod_main up to hello: the ranks that are up are acquired.
sched_load(s, ranks) ==
    [NoScheduler(s.mode) EXCEPT
       !.status = "hello",
       !.rl = rlist_mark_up(rlist_mark_down(@, Ranks), ranks)]

\* ENOSYS for the jobs in the queue and for the requests being looked up; the
\* future of an R commit has no message to answer.  (One error stands for all:
\* the job-manager ignores the others.)
simple_sched_destroy(s) ==
    [NoScheduler(s.mode) EXCEPT
       !.out = IF s.queue # <<>> \/ s.alloc_queue # <<>> \/ s.free_lookups # {}
                 THEN <<[op |-> "error"]>> ELSE <<>>]

-----------------------------------------------------------------------------
(* libschedutil *)

\* A request of the job-manager; no scheduler, ENOSYS.
sched_request(s, msg) ==
    CASE s.status = "out" /\ msg.op = "cancel" -> s
      [] s.status = "out" -> flux_respond_error(s)
      [] msg.op = "alloc" -> [s EXCEPT !.alloc_queue = Append(@, msg.id)]
      [] msg.op = "free" -> [s EXCEPT !.free_lookups = @ \union {msg.id}]
      [] OTHER -> sched_cancel(s, msg.id)

\* Alloc requests are passed on in order, whatever the order of the lookups.
alloc_lookup(s, priority) ==
    sched_alloc([s EXCEPT !.alloc_queue = Tail(@)],
                priority, Head(s.alloc_queue))

free_lookup(s, j, R) ==
    sched_free([s EXCEPT !.free_lookups = @ \ {j}], j, R)

alloc_committed(s) ==
    [respond(s, "alloc", Head(s.commits).id, "success") EXCEPT
       !.commits = Tail(@)]

=============================================================================
