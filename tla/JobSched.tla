------------------------------ MODULE JobSched ------------------------------
(***************************************************************************)
(* The job-manager and sched-simple, with the messages between them.       *)
(* Messages of one sender to one receiver arrive in order.  The exec       *)
(* service is reduced to the answers that end a job.                       *)
(***************************************************************************)
EXTENDS JobManager, SchedSimple

CONSTANTS
    MaxLoads,   \* bound: how often a scheduler is loaded
    Drains,     \* bound: the ranks that go down and up
    Admins,     \* bound: the alloc interface is disabled or enabled while
                \* fewer than so many messages are on their way
    PromptAnswers, \* whether the job-manager has seen the errors of the last
                   \* scheduler when the next one is loaded
    QuietUnload    \* whether a scheduler is unloaded only while it commits no R

ASSUME JobSchedAssumption ==
    /\ MaxLoads \in Nat /\ Admins \in Nat
    /\ Drains \subseteq Ranks
    /\ {PromptAnswers, QuietUnload} \subseteq BOOLEAN

VARIABLES
    sched,      \* the scheduler
    R,          \* KVS: the R of each job
    toSched,    \* requests on their way to the scheduler
    toManager,  \* responses, and the hello and ready requests
    loads       \* how often a scheduler has been loaded

jobsched == <<jm, sched, R, toSched, toManager, loads>>

JobSchedInit ==
    /\ jm = [InitManager EXCEPT !.topic = TRUE]
    /\ sched \in {NoScheduler(mode) : mode \in SchedModes}
    /\ R = [j \in Jobs |-> NoCores]
    /\ toSched = <<>> /\ toManager = <<>>
    /\ loads = 0

\* The job-manager runs a handler; its requests to the scheduler leave in some
\* order.
Manage(m) ==
    /\ jm' = [m EXCEPT !.out = {}]
    /\ \E q \in SetToSeqs({x \in m.out : x.op # "start"}) :
          toSched' = toSched \o q

Schedule(s) ==
    /\ sched' = [s EXCEPT !.out = <<>>]
    /\ toManager' = toManager \o s.out

-----------------------------------------------------------------------------
(* Steps of the job-manager that no message of the scheduler causes *)

submit(j) ==
    /\ jm.state[j] = "none"
    /\ \E p \in Priorities : Manage(submit_job(jm, j, p))
    /\ UNCHANGED <<sched, R, toManager, loads>>

cancel(j) ==
    /\ j \in Active(jm) /\ jm.state[j] # "CLEANUP"
    /\ Manage(event_job_post(jm, j, "fatal"))
    /\ UNCHANGED <<sched, R, toManager, loads>>

admin(enable) ==
    /\ enable = jm.disable /\ Len(toSched) + Len(toManager) < Admins
    /\ Manage(alloc_admin(jm, enable))
    /\ UNCHANGED <<sched, R, toManager, loads>>

send_alloc ==
    /\ can_alloc(jm)
    /\ Manage(alloc_request(jm))
    /\ UNCHANGED <<sched, R, toManager, loads>>

\* The exec service ends a job that runs, then releases its resources.
exec_finish(j) ==
    /\ j \in jm.start_pending /\ jm.state[j] = "RUN"
    /\ Manage(start_response(jm, j, "finish"))
    /\ UNCHANGED <<sched, R, toManager, loads>>

exec_release(j) ==
    /\ j \in jm.start_pending /\ jm.state[j] = "CLEANUP"
    /\ Manage(start_response(jm, j, "release-final"))
    /\ UNCHANGED <<sched, R, toManager, loads>>

-----------------------------------------------------------------------------
(* The job-manager receives a message of the scheduler *)

receive_response ==
    /\ toManager # <<>>
    /\ LET msg == Head(toManager) IN
       /\ msg.op \in {"alloc", "free", "error"}
       /\ \E q \in requeued(jm) :
             CASE msg.op = "alloc" ->
                    Manage(alloc_response(jm, msg.id, msg.type, q))
               [] msg.op = "free" ->
                    Manage(free_response(jm, msg.id, msg.type, q))
               [] OTHER -> Manage(alloc_teardown(jm, q))
    /\ toManager' = Tail(toManager)
    /\ UNCHANGED <<sched, R, loads>>

\* The scheduler waits for the answer to hello, then for the one to ready.
receive_hello ==
    /\ toManager # <<>> /\ Head(toManager).op = "hello"
    /\ sched' = sched_hello(sched, jm.has_resources, R)
    /\ toManager' = Append(Tail(toManager), [op |-> "ready"])
    /\ UNCHANGED <<jm, R, toSched, loads>>

receive_ready ==
    /\ toManager # <<>> /\ Head(toManager).op = "ready"
    /\ Manage(sched_ready(jm, sched.mode))
    /\ sched' = [sched EXCEPT !.status = "run"]
    /\ toManager' = Tail(toManager)
    /\ UNCHANGED <<R, loads>>

-----------------------------------------------------------------------------
(* Steps of the scheduler *)

receive_request ==
    /\ toSched # <<>> /\ sched.status \in {"run", "out"}
    /\ Schedule(sched_request(sched, Head(toSched)))
    /\ toSched' = Tail(toSched)
    /\ UNCHANGED <<jm, R, loads>>

\* The reactor runs once hello and ready are done.
Running_sched == sched.status = "run" /\ UNCHANGED <<jm, toSched, loads>>

jobspec_found ==
    /\ Running_sched /\ sched.alloc_queue # <<>>
    /\ Schedule(alloc_lookup(sched, jm.priority))
    /\ UNCHANGED R

R_found(j) ==
    /\ Running_sched /\ j \in sched.free_lookups
    /\ Schedule(free_lookup(sched, j, R[j]))
    /\ UNCHANGED R

check ==
    /\ Running_sched /\ check_cb_ok(sched)
    /\ Schedule(sched_check(sched))
    /\ UNCHANGED R

R_committed ==
    /\ Running_sched /\ sched.commits # <<>>
    /\ Schedule(alloc_committed(sched))
    /\ R' = [R EXCEPT ![Head(sched.commits).id] = Head(sched.commits).R]

update(up, r) ==
    /\ Running_sched /\ sched.rl.up[r] # up
    /\ Schedule(resource_update(sched, up, {r}))
    /\ UNCHANGED R

\* The broker has answered the requests sent before the new scheduler registers
\* its service.
load(ranks) ==
    /\ sched.status = "out" /\ loads < MaxLoads /\ toSched = <<>>
    /\ PromptAnswers => [op |-> "error"] \notin Range(toManager)
    /\ Ranks \ ranks \subseteq Drains
    /\ sched' = sched_load(sched, ranks)
    /\ toManager' = Append(toManager, [op |-> "hello"])
    /\ loads' = loads + 1
    /\ UNCHANGED <<jm, R, toSched>>

\* The requests that are left in its inbox are answered like later ones.
unload ==
    /\ sched.status = "run" /\ loads < MaxLoads
    /\ QuietUnload => sched.commits = <<>>
    /\ Schedule(simple_sched_destroy(sched))
    /\ UNCHANGED <<jm, R, toSched, loads>>

JobSchedNext ==
    \/ \E j \in Jobs : submit(j)
    \/ \E j \in Jobs : cancel(j)
    \/ \E enable \in BOOLEAN : admin(enable)
    \/ send_alloc
    \/ \E j \in Jobs : exec_finish(j)
    \/ \E j \in Jobs : exec_release(j)
    \/ receive_response
    \/ receive_hello
    \/ receive_ready
    \/ receive_request
    \/ jobspec_found
    \/ \E j \in Jobs : R_found(j)
    \/ check
    \/ R_committed
    \/ \E up \in BOOLEAN, r \in Drains : update(up, r)
    \/ \E ranks \in SUBSET Ranks : load(ranks)
    \/ unload

JobSchedSpec == JobSchedInit /\ [][JobSchedNext]_jobsched

\* Reactors run, messages arrive, the KVS answers and jobs end.  A scheduler is
\* loaded; users and administrators need do nothing.
JobSchedFair ==
    /\ WF_jobsched(send_alloc)
    /\ \A j \in Jobs : /\ WF_jobsched(exec_finish(j))
                       /\ WF_jobsched(exec_release(j))
                       /\ WF_jobsched(R_found(j))
    /\ WF_jobsched(receive_response) /\ WF_jobsched(receive_hello)
    /\ WF_jobsched(receive_ready) /\ WF_jobsched(receive_request)
    /\ WF_jobsched(jobspec_found) /\ WF_jobsched(check)
    /\ WF_jobsched(R_committed)
    /\ WF_jobsched(load(Ranks))

JobSchedFairSpec == JobSchedSpec /\ JobSchedFair

-----------------------------------------------------------------------------
(* Properties *)

InFlight(op, type) ==
    {msg.id : msg \in {x \in Range(toManager) : x.op = op /\ x.type = type}}

\* No core belongs to two jobs that the job-manager believes to have resources.
NoDoubleBooking ==
    \A j, k \in jm.has_resources :
        j # k => \A r \in Ranks : R[j][r] \intersect R[k][r] = {}

\* The cores that the running scheduler believes to be taken are those of the
\* jobs that have resources, of the answers under way, and of the commits under
\* way: none leaks and none is given away too early.
SchedulerAgrees ==
    LET J == (jm.has_resources \ InFlight("free", "success"))
                \union InFlight("alloc", "success")
    IN  sched.status = "run" =>
          \A r \in Ranks :
             cores[r] \ sched.rl.ids[r] =
               UNION ({R[j][r] : j \in J}
                        \union {c.R[r] : c \in Range(sched.commits)})

\* The interface to a scheduler that runs is not torn down: no answer of the
\* scheduler is one the job-manager takes for an error.
NoTeardown ==
    sched.status = "run" => jm.ready /\ [op |-> "error"] \notin Range(toManager)

\* The places where an alloc request or its answer may be.
Requested(j) ==
    Cardinality({i \in DOMAIN toSched : toSched[i] = [op |-> "alloc", id |-> j]})
      + Cardinality({i \in DOMAIN sched.alloc_queue : sched.alloc_queue[i] = j})
      + Cardinality({i \in DOMAIN sched.queue : sched.queue[i] = j})
      + Cardinality({i \in DOMAIN sched.commits : sched.commits[i].id = j})
      + Cardinality({i \in DOMAIN toManager :
                       toManager[i].op = "alloc" /\ toManager[i].id = j})

\* An alloc request that the job-manager believes pending is exactly once on its
\* way, with the scheduler, or answered; or the job-manager is about to learn
\* that the scheduler is gone.
AllocAnswered ==
    \/ [op |-> "error"] \in Range(toManager)
    \/ \A j \in Jobs :
          IF j \in jm.alloc_pending THEN Requested(j) = 1
          ELSE sched.status # "out" => Requested(j) = 0

\* The free requests that the job-manager counts are those that are pending
\* (free_response_cb decrements an unsigned counter).
FreesCounted == jm.free_pending_count = Cardinality(jm.free_pending)

\* In single mode at most one alloc request is outstanding.
SingleOutstanding ==
    sched.mode = "single" =>
        MapThenSumSet(LAMBDA j : Requested(j), Jobs) <= 1

\* In single mode the scheduler stops looking at its queue only while the head
\* has to wait.
BlockedOnlyByHead ==
    sched.mode = "single" /\ sched.status = "run" =>
        sched.prep \/ sched.queue = <<>> \/ head_errno(sched) = "ENOSPC"

\* Every job that is submitted ends.
JobsEnd ==
    \A j \in Jobs : jm.state[j] # "none" ~> jm.state[j] = "INACTIVE"

=============================================================================
