------------------------------- MODULE JobWait -------------------------------
(***************************************************************************)
(* job-manager/wait.c: requests that block until a job ends.               *)
(*                                                                         *)
(* A client waits on one job id or, with FLUX_JOBID_ANY, on whichever      *)
(* waitable job ends next.  A waitable job that ends with nobody waiting   *)
(* becomes a zombie, and the first later wait on it consumes the result.   *)
(* The jobs themselves are reduced to what wait.c sees of them: they are   *)
(* submitted, the event that ends them is captured in end_event, and they  *)
(* become INACTIVE (the full state machine is module JobManager).  Every   *)
(* handler runs to completion in the reactor of the job-manager.           *)
(***************************************************************************)
EXTENDS Naturals, Integers, Sequences, FiniteSets, Lists

CONSTANTS
    Jobs,       \* job ids
    Waitable,   \* the jobs submitted with FLUX_JOB_WAITABLE
    Reqs,       \* wait requests, each sent at most once
    Clients,    \* senders (the first route of a message)
    sender,     \* the client that sends each request
    NoReq, NoJob, ANY

ASSUME WaitAssumption ==
    /\ IsFiniteSet(Jobs) /\ IsFiniteSet(Reqs)
    /\ Waitable \subseteq Jobs
    /\ sender \in [Reqs -> Clients]
    /\ NoReq \notin Reqs /\ NoJob \notin Jobs /\ ANY \notin Jobs

VARIABLES
    phase,      \* life of a job: "none", "active", "cleanup", "inactive"
    end_event,  \* job->end_event, "none" until captured
    first,      \* history: the first event that ended a job
    waiter,     \* job->waiter
    zombies,    \* wait->zombies
    waiters,    \* wait->waiters: count of waiters blocked on specific jobs
    waitables,  \* wait->waitables: count of active waitable jobs
    requests,   \* wait->requests: FLUX_JOBID_ANY requests, oldest first
    resp,       \* what has become of each request
    loaded      \* the job-manager module is loaded

vars == <<phase, end_event, first, waiter, zombies, waiters, waitables,
          requests, resp, loaded>>

jobvars == <<phase, end_event, first>>

\* A fatal exception, or a finish event with exit code 0, or one with another
\* code or a signal.
EndEvents == {"exception", "exit0", "fail"}

Active == {j \in Jobs : phase[j] \in {"active", "cleanup"}}

Resp == [st : {"unsent", "blocked", "job", "ECHILD", "ENOSYS", "gone"},
         job : Jobs \union {NoJob}, ok : BOOLEAN]

Unsent == [st |-> "unsent", job |-> NoJob, ok |-> FALSE]
Blocked == [st |-> "blocked", job |-> NoJob, ok |-> FALSE]
Failed(errnum) == [st |-> errnum, job |-> NoJob, ok |-> FALSE]

Init ==
    /\ phase = [j \in Jobs |-> "none"]
    /\ end_event = [j \in Jobs |-> "none"]
    /\ first = [j \in Jobs |-> "none"]
    /\ waiter = [j \in Jobs |-> NoReq]
    /\ zombies = {}
    /\ waiters = 0
    /\ waitables = 0
    /\ requests = <<>>
    /\ resp = [r \in Reqs |-> Unsent]
    /\ loaded = TRUE

-----------------------------------------------------------------------------
(* Jobs. *)

\* The submit request adds the job to active_jobs, then counts it.
submit(j) ==
    /\ loaded
    /\ phase[j] = "none"
    /\ phase' = [phase EXCEPT ![j] = "active"]
    /\ waitables' = IF j \in Waitable THEN waitables + 1 ELSE waitables
    /\ UNCHANGED <<end_event, first, waiter, zombies, waiters, requests, resp,
                   loaded>>

\* mutant: the last end event is kept
capture_end_event_last(j, e) ==
    [end_event EXCEPT ![j] = IF j \in Waitable THEN e ELSE @]

\* event_job_update keeps the first fatal exception or finish of a job that
\* can be waited for.
capture_end_event(j, e) ==
    [end_event EXCEPT ![j] = IF j \in Waitable /\ @ = "none" THEN e ELSE @]

\* A fatal exception, in any active state; a finish, which ends a job only
\* if no exception has.
end_job(j, e) ==
    /\ loaded
    /\ phase[j] \in {"active", "cleanup"}
    /\ phase' = [phase EXCEPT ![j] = "cleanup"]
    /\ first' = [first EXCEPT ![j] = IF @ = "none" THEN e ELSE @]
    /\ end_event' = IF e = "exception" \/ phase[j] = "active"
                      THEN capture_end_event(j, e) ELSE end_event
    /\ UNCHANGED <<waiter, zombies, waiters, waitables, requests, resp,
                   loaded>>

\* The boolean of a wait response: a finish event with exit code 0.
decode_job_result(j) == end_event[j] = "exit0"

Answer(j) == [st |-> "job", job |-> j, ok |-> decode_job_result(j)]

wait_respond(rs, r, j) == [rs EXCEPT ![r] = Answer(j)]

\* mutant: a job that was handed out stays a zombie
wait_notify_inactive_keep(j) ==
    /\ \/ /\ waiter[j] # NoReq
          /\ resp' = wait_respond(resp, waiter[j], j)
          /\ waiter' = [waiter EXCEPT ![j] = NoReq]
          /\ waiters' = waiters - 1
          /\ UNCHANGED <<requests, zombies>>
       \/ /\ waiter[j] = NoReq
          /\ requests # <<>>
          /\ resp' = wait_respond(resp, Head(requests), j)
          /\ requests' = Tail(requests)
          /\ zombies' = zombies \union {j}
          /\ UNCHANGED <<waiter, waiters>>
       \/ /\ waiter[j] = NoReq
          /\ requests = <<>>
          /\ zombies' = zombies \union {j}
          /\ UNCHANGED <<waiter, waiters, requests, resp>>
    /\ waitables' = waitables - 1

\* mutant: the requests for any job come first
wait_notify_inactive_any_first(j) ==
    /\ \/ /\ requests # <<>>
          /\ resp' = wait_respond(resp, Head(requests), j)
          /\ requests' = Tail(requests)
          /\ UNCHANGED <<waiter, waiters, zombies>>
       \/ /\ requests = <<>>
          /\ waiter[j] # NoReq
          /\ resp' = wait_respond(resp, waiter[j], j)
          /\ waiter' = [waiter EXCEPT ![j] = NoReq]
          /\ waiters' = waiters - 1
          /\ UNCHANGED <<requests, zombies>>
       \/ /\ waiter[j] = NoReq
          /\ requests = <<>>
          /\ zombies' = zombies \union {j}
          /\ UNCHANGED <<waiter, waiters, requests, resp>>
    /\ waitables' = waitables - 1

\* A waitable job has become INACTIVE: its waiter is answered, else the
\* oldest FLUX_JOBID_ANY request, else the job is kept as a zombie.
wait_notify_inactive(j) ==
    /\ \/ /\ waiter[j] # NoReq
          /\ resp' = wait_respond(resp, waiter[j], j)
          /\ waiter' = [waiter EXCEPT ![j] = NoReq]
          /\ waiters' = waiters - 1
          /\ UNCHANGED <<requests, zombies>>
       \/ /\ waiter[j] = NoReq
          /\ requests # <<>>
          /\ resp' = wait_respond(resp, Head(requests), j)
          /\ requests' = Tail(requests)
          /\ UNCHANGED <<waiter, waiters, zombies>>
       \/ /\ waiter[j] = NoReq
          /\ requests = <<>>
          /\ zombies' = zombies \union {j}
          /\ UNCHANGED <<waiter, waiters, requests, resp>>
    /\ waitables' = waitables - 1

\* event_job_action for a job that has just become INACTIVE.
inactive(j) ==
    /\ loaded
    /\ phase[j] = "cleanup"
    /\ phase' = [phase EXCEPT ![j] = "inactive"]
    /\ IF j \in Waitable
         THEN wait_notify_inactive(j)
         ELSE UNCHANGED <<waiter, waiters, waitables, requests, zombies, resp>>
    /\ UNCHANGED <<end_event, first, loaded>>

-----------------------------------------------------------------------------
(* Requests. *)

\* The tail of wait_rpc: with more waiters than waitable jobs the most
\* recently added FLUX_JOBID_ANY request fails.
limit_waiters(reqs, rs) ==
    LET over == Len(reqs) + waiters > waitables /\ reqs # <<>>
    IN  /\ requests' = IF over THEN SubSeq(reqs, 1, Len(reqs) - 1) ELSE reqs
        /\ resp' = IF over
                     THEN [rs EXCEPT ![reqs[Len(reqs)]] = Failed("ECHILD")]
                     ELSE rs

\* A wait on whichever job ends next consumes some zombie, or blocks.
wait_any(r) ==
    /\ \/ \E j \in zombies :
            /\ zombies' = zombies \ {j}
            /\ limit_waiters(requests, wait_respond(resp, r, j))
       \/ /\ zombies = {}
          /\ limit_waiters(Append(requests, r), [resp EXCEPT ![r] = Blocked])
          /\ UNCHANGED zombies
    /\ UNCHANGED <<waiter, waiters>>

\* mutant: a second waiter takes the place of the first
wait_id_replace(r, j) ==
    \/ /\ j \in zombies
       /\ zombies' = zombies \ {j}
       /\ limit_waiters(requests, wait_respond(resp, r, j))
       /\ UNCHANGED <<waiter, waiters>>
    \/ /\ j \in Active \ zombies
       /\ j \in Waitable
       /\ waiter' = [waiter EXCEPT ![j] = r]
       /\ waiters' = waiters + 1
       /\ resp' = [resp EXCEPT ![r] = Blocked]
       /\ UNCHANGED <<requests, zombies>>
    \/ /\ j \notin zombies
       /\ ~(j \in Active /\ j \in Waitable)
       /\ resp' = [resp EXCEPT ![r] = Failed("ECHILD")]
       /\ UNCHANGED <<waiter, waiters, requests, zombies>>

\* A wait on one id consumes the zombie of that id, blocks if the job is
\* active, waitable and has no waiter yet, and fails otherwise.
wait_id(r, j) ==
    \/ /\ j \in zombies
       /\ zombies' = zombies \ {j}
       /\ limit_waiters(requests, wait_respond(resp, r, j))
       /\ UNCHANGED <<waiter, waiters>>
    \/ /\ j \in Active \ zombies
       /\ waiter[j] = NoReq /\ j \in Waitable
       /\ waiter' = [waiter EXCEPT ![j] = r]
       /\ waiters' = waiters + 1
       /\ resp' = [resp EXCEPT ![r] = Blocked]
       /\ UNCHANGED <<requests, zombies>>
    \/ /\ j \notin zombies
       /\ ~(j \in Active /\ waiter[j] = NoReq /\ j \in Waitable)
       /\ resp' = [resp EXCEPT ![r] = Failed("ECHILD")]
       /\ UNCHANGED <<waiter, waiters, requests, zombies>>

wait_rpc(r, id) ==
    /\ loaded
    /\ resp[r] = Unsent
    /\ IF id = ANY THEN wait_any(r) ELSE wait_id(r, id)
    /\ UNCHANGED <<jobvars, waitables, loaded>>

Sent(c) == {r \in Reqs : sender[r] = c}

\* A client has disconnected: the waiters it registered are destroyed.  The
\* scan of active_jobs stops once wait->waiters is 0.  The client sends no
\* more requests.
disconnect_rpc(c) ==
    LET gone == {j \in Active : waiter[j] \in Sent(c)}
    IN  /\ loaded
        /\ waiter' = IF waiters > 0
                       THEN [j \in Jobs |-> IF j \in gone THEN NoReq
                                                          ELSE waiter[j]]
                       ELSE waiter
        /\ waiters' = IF waiters > 0 THEN waiters - Cardinality(gone)
                                     ELSE waiters
        /\ requests' = Without(requests, Sent(c))
        /\ resp' = [r \in Reqs |->
                      IF r \in Sent(c) /\ resp[r] \in {Unsent, Blocked}
                        THEN Failed("gone") ELSE resp[r]]
        /\ UNCHANGED <<jobvars, zombies, waitables, loaded>>

\* The module unloads: every blocked request is answered with ENOSYS.
wait_ctx_destroy ==
    LET scanned == {waiter[j] : j \in Active} \ {NoReq}
        answered == (IF waiters > 0 THEN scanned ELSE {})
                      \union Entries(requests)
    IN  /\ loaded
        /\ loaded' = FALSE
        /\ waiter' = [j \in Jobs |-> NoReq]
        /\ waiters' = 0
        /\ requests' = <<>>
        /\ zombies' = {}
        /\ resp' = [r \in Reqs |-> IF r \in answered THEN Failed("ENOSYS")
                                                    ELSE resp[r]]
        /\ UNCHANGED <<jobvars, waitables>>

JobStep == \E j \in Jobs : \/ submit(j)
                           \/ \E e \in EndEvents : end_job(j, e)
                           \/ inactive(j)

Next ==
    \/ JobStep
    \/ \E r \in Reqs, id \in Jobs \union {ANY} : wait_rpc(r, id)
    \/ \E c \in Clients : disconnect_rpc(c)
    \/ wait_ctx_destroy

Spec == Init /\ [][Next]_vars

\* Jobs are not held forever: a running job ends and, once ended, becomes
\* INACTIVE (its exec service, scheduler and the reactor keep running).
Fairness == \A j \in Jobs : /\ WF_vars(\E e \in EndEvents : end_job(j, e))
                             /\ WF_vars(inactive(j))

FairSpec == Spec /\ Fairness

-----------------------------------------------------------------------------
(* Properties. *)

\* The types of the variables.
TypeOK ==
    /\ phase \in [Jobs -> {"none", "active", "cleanup", "inactive"}]
    /\ end_event \in [Jobs -> EndEvents \union {"none"}]
    /\ first \in [Jobs -> EndEvents \union {"none"}]
    /\ waiter \in [Jobs -> Reqs \union {NoReq}]
    /\ zombies \subseteq Jobs
    /\ waiters \in Nat /\ waitables \in Nat
    /\ requests \in Seq(Reqs)
    /\ resp \in [Reqs -> Resp]
    /\ loaded \in BOOLEAN

\* wait->waiters and wait->waitables, which wait_rpc compares and the scans
\* of disconnect_rpc and wait_ctx_destroy stop on, count what they say.
CountsAgree ==
    loaded =>
      /\ waiters = Cardinality({j \in Jobs : waiter[j] # NoReq})
      /\ waitables = Cardinality(Active \intersect Waitable)

\* A request that has not been answered is registered in exactly one place,
\* and only such requests are: no response is lost, and none can be sent
\* twice.  In particular nothing is left blocked by wait_ctx_destroy.
RegisteredOnce ==
    /\ \A r \in Reqs :
         (resp[r] = Blocked) <=> \/ r \in Entries(requests)
                                \/ \E j \in Jobs : waiter[j] = r
    /\ Distinct(requests)
    /\ \A j, k \in Jobs : waiter[j] = waiter[k] /\ waiter[j] # NoReq => j = k
    /\ \A j \in Jobs : waiter[j] \notin Entries(requests)

\* "Wait is destructive": the result of a job is handed to one request, and
\* a job that was handed out is no zombie any more.
ConsumedOnce ==
    \A r, s \in Reqs :
      resp[r].st = "job" =>
        /\ resp[r].job \in Waitable
        /\ phase[resp[r].job] = "inactive"
        /\ resp[r].job \notin zombies
        /\ resp[s].st = "job" /\ r # s => resp[s].job # resp[r].job

\* A FLUX_JOBID_ANY request never blocks beside a zombie it could consume.
NoZombieWhileAnyBlocked == requests # <<>> => zombies = {}

\* The success reported to a waiter is that of the first event that ended
\* the job, however finish and exceptions raced.
ResultOfFirstEnd ==
    \A r \in Reqs :
      resp[r].st = "job" => resp[r].ok = (first[resp[r].job] = "exit0")

\* What the invariants above rest on.  A registered waiter belongs to an
\* active waitable job of a loaded module; a zombie is a waitable job that is
\* inactive; end_event is captured exactly when a waitable job has ended.
WaiterActive ==
    \A j \in Jobs : waiter[j] # NoReq => loaded /\ j \in Active \intersect Waitable

ZombieInactive == \A j \in zombies : j \in Waitable /\ phase[j] = "inactive"

EndCaptured ==
    \A j \in Waitable :
      /\ end_event[j] = first[j]
      /\ first[j] = "none" <=> phase[j] \in {"none", "active"}

\* The inductive invariant.
WaitInv ==
    /\ TypeOK /\ CountsAgree /\ RegisteredOnce /\ ConsumedOnce
    /\ NoZombieWhileAnyBlocked /\ ResultOfFirstEnd
    /\ WaiterActive /\ ZombieInactive /\ EndCaptured

\* A request blocked on one job id is answered.
WaitOnIdAnswered ==
    \A r \in Reqs, j \in Jobs : waiter[j] = r ~> resp[r] # Blocked

\* wait.c:272: "Ensure that the action taken above does not result in more
\* waiters than waitables."
NoMoreWaitersThanWaitables ==
    loaded => Len(requests) + waiters <= waitables

=============================================================================
