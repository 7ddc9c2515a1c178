-------------------------- MODULE JobManagerProofs --------------------------
(***************************************************************************)
(* Proof that JobManagerInv holds in every reachable state, for any finite *)
(* set of jobs and any behaviour of the scheduler and the exec service.    *)
(***************************************************************************)
EXTENDS JobManager, JobQueueProofs

-----------------------------------------------------------------------------
(* The invariant of a job-manager state m, in parts.  Settled is what          *)
(* event_job_action establishes of the job it is called for.                   *)

FlagsOK(m) ==
    /\ m.alloc_queued \intersect m.alloc_pending = {}
    /\ \A j \in m.alloc_queued \union m.alloc_pending :
          m.state[j] \in {"SCHED", "CLEANUP"}
    /\ \A j \in Jobs : m.state[j] = "RUN" => j \in m.has_resources
    /\ \A j \in m.has_resources :
          /\ m.state[j] \in {"RUN", "CLEANUP"}
          /\ j \notin m.alloc_queued \union m.alloc_pending
    /\ \A j \in m.start_pending : m.state[j] \in {"RUN", "CLEANUP"}
    /\ m.free_pending \subseteq m.has_resources
    /\ ~m.ready => m.alloc_pending = {} /\ m.free_pending = {}
    /\ ~m.topic => m.start_pending = {}

QueueOK(m) ==
    /\ Entries(m.queue) = m.alloc_queued
    /\ Distinct(m.queue)
    /\ Sorted(m.priority, m.queue)

CountsOK(m) ==
    /\ m.alloc_pending_count = Cardinality(m.alloc_pending)
    /\ m.running_jobs = Cardinality(Running(m))

Settled(m, j) ==
    /\ m.state[j] = "SCHED" => j \in m.alloc_queued \union m.alloc_pending
    /\ ~ExecErrors /\ m.state[j] = "CLEANUP" =>
          ~cleanup_complete(m, j) /\ (m.ready => j \notin interrupted(m))

CoreBut(m, J) ==
    /\ m \in Manager
    /\ FlagsOK(m)
    /\ QueueOK(m)
    /\ CountsOK(m)
    /\ \A j \in Jobs \ J : Settled(m, j)

Core(m) == CoreBut(m, {})

\* As CoreBut(m, {j}), but j may be out of its place in the queue.
CoreLoose(m, j) ==
    /\ m \in Manager
    /\ FlagsOK(m)
    /\ Entries(m.queue) = m.alloc_queued
    /\ Distinct(m.queue)
    /\ \A i, k \in 1..Len(m.queue) :
          i < k /\ m.queue[i] # j /\ m.queue[k] # j
            => job_leq(m.priority, m.queue[i], m.queue[k])
    /\ CountsOK(m)
    /\ \A k \in Jobs \ {j} : Settled(m, k)

DrainOK(m) ==
    /\ m.drain_requests > 0 => Active(m) # {}
    /\ m.idle_requests > 0 => m.alloc_pending # {} \/ Running(m) # {}

\* The fields that FlagsOK, QueueOK, CountsOK and Settled read.
Relevant(m) ==
    <<m.state, m.priority, m.alloc_queued, m.alloc_pending, m.free_pending,
      m.has_resources, m.start_pending, m.queue, m.ready, m.topic,
      m.alloc_pending_count, m.running_jobs>>

LEMMA CoreRelevant ==
    ASSUME NEW m, NEW n, NEW J, CoreBut(m, J), n \in Manager,
           Relevant(n) = Relevant(m)
    PROVE  CoreBut(n, J)
<1>1. /\ n.state = m.state /\ n.priority = m.priority
      /\ n.alloc_queued = m.alloc_queued /\ n.alloc_pending = m.alloc_pending
      /\ n.free_pending = m.free_pending
      /\ n.has_resources = m.has_resources
      /\ n.start_pending = m.start_pending /\ n.queue = m.queue
      /\ n.ready = m.ready /\ n.topic = m.topic
      /\ n.alloc_pending_count = m.alloc_pending_count
      /\ n.running_jobs = m.running_jobs
  BY DEF Relevant
<1>2. FlagsOK(n)
  BY <1>1 DEF CoreBut, FlagsOK
<1>3. QueueOK(n)
  BY <1>1 DEF CoreBut, QueueOK
<1>4. CountsOK(n)
  BY <1>1 DEF CoreBut, CountsOK, Running
<1>5. \A j \in Jobs \ J : Settled(n, j)
  BY <1>1 DEF CoreBut, Settled, cleanup_complete, interrupted
<1>6. QED
  BY <1>2, <1>3, <1>4, <1>5 DEF CoreBut

\* drain_check answers the requests that wait for nothing.
LEMMA DrainCheck ==
    ASSUME NEW m, NEW J, CoreBut(m, J)
    PROVE  /\ CoreBut(drain_check(m), J)
           /\ DrainOK(drain_check(m))
<1> DEFINE n == drain_check(m)
<1>1. m \in Manager
  BY SMTT(20) DEF CoreBut
<1>2. n \in Manager /\ Relevant(n) = Relevant(m)
  BY Zenon, <1>1 DEF Manager, drain_check, Relevant
<1>3. CoreBut(n, J)
  BY <1>2, CoreRelevant
<1>4. Active(n) = Active(m) /\ Running(n) = Running(m)
      /\ n.alloc_pending = m.alloc_pending
  BY <1>1 DEF Manager, drain_check, Active, Running
<1>5. /\ Active(m) = {} => n.drain_requests = 0
      /\ m.alloc_pending_count = 0 /\ m.running_jobs = 0
           => n.idle_requests = 0
  BY <1>1 DEF Manager, drain_check
<1>6. m.alloc_pending = {} /\ Running(m) = {} =>
        m.alloc_pending_count = 0 /\ m.running_jobs = 0
  BY FS_EmptySet DEF CoreBut, CountsOK
<1>7. QED
  BY <1>3, <1>4, <1>5, <1>6 DEF DrainOK

LEMMA EnqueueCore ==
    ASSUME NEW m, NEW j \in Jobs, CoreBut(m, {j}), m.state[j] = "SCHED"
    PROVE  LET n == alloc_enqueue_alloc_request(m, j)
           IN  Core(n) /\ (DrainOK(m) => DrainOK(n))
<1> DEFINE n == alloc_enqueue_alloc_request(m, j)
<1>1. m \in Manager
  BY DEF CoreBut
<1>2. CASE j \in m.alloc_queued \/ j \in m.alloc_pending
  <2>1. n = m
    BY <1>2 DEF alloc_enqueue_alloc_request
  <2>2. Settled(m, j)
    BY <1>2 DEF Settled
  <2>3. QED
    BY <2>1, <2>2 DEF Core, CoreBut
<1>3. CASE ~(j \in m.alloc_queued \/ j \in m.alloc_pending)
  <2> DEFINE q == zlistx_insert(m.priority, m.queue, j)
  <2>1. /\ q \in Seq(Jobs) /\ Entries(q) = Entries(m.queue) \union {j}
        /\ Distinct(q) /\ Sorted(m.priority, q)
    <3>1. m.priority \in [Jobs -> Int] /\ m.queue \in Seq(Jobs)
      BY <1>1 DEF Manager, JobList
    <3>2. j \notin Entries(m.queue) /\ Distinct(m.queue)
          /\ Sorted(m.priority, m.queue)
      BY <1>3 DEF CoreBut, QueueOK
    <3>3. QED
      BY <3>1, <3>2, InsertSorted
  <2> HIDE DEF q
  <2>2. n = [m EXCEPT !.queue = q, !.alloc_queued = @ \union {j}]
    BY <1>3 DEF alloc_enqueue_alloc_request, q
  <2>3. /\ n.state = m.state /\ n.priority = m.priority
        /\ n.alloc_queued = m.alloc_queued \union {j}
        /\ n.alloc_pending = m.alloc_pending
        /\ n.free_pending = m.free_pending
        /\ n.has_resources = m.has_resources
        /\ n.start_pending = m.start_pending /\ n.queue = q
        /\ n.ready = m.ready /\ n.topic = m.topic
        /\ n.alloc_pending_count = m.alloc_pending_count
        /\ n.running_jobs = m.running_jobs
        /\ n.drain_requests = m.drain_requests
        /\ n.idle_requests = m.idle_requests
    BY <1>1, <2>2 DEF Manager
  <2>4. n \in Manager
    <3>1. m.alloc_queued \union {j} \in SUBSET Jobs
      BY <1>1 DEF Manager
    <3>2. q \in JobList
      BY <2>1 DEF JobList
    <3>3. QED
      BY ZenonT(30), <1>1, <2>2, <3>1, <3>2 DEF Manager
  <2> HIDE DEF n
  <2>5. FlagsOK(n)
    BY <1>3, <2>3 DEF CoreBut, FlagsOK
  <2>6. QueueOK(n)
    BY <2>1, <2>3 DEF CoreBut, QueueOK
  <2>7. CountsOK(n)
    BY <2>3 DEF CoreBut, CountsOK, Running
  <2>8. \A k \in Jobs : Settled(n, k)
    BY <2>3 DEF CoreBut, Settled, cleanup_complete, interrupted
  <2>9. DrainOK(m) => DrainOK(n)
    BY <2>3 DEF DrainOK, Active, Running
  <2>10. QED
    BY <2>4, <2>5, <2>6, <2>7, <2>8, <2>9 DEF Core, CoreBut, n
<1>4. QED
  BY <1>2, <1>3

LEMMA StartCore ==
    ASSUME NEW m, NEW j \in Jobs, CoreBut(m, {j}), m.state[j] = "RUN"
    PROVE  LET n == start_send_request(m, j)
           IN  Core(n) /\ (DrainOK(m) => DrainOK(n))
<1> DEFINE n == start_send_request(m, j)
<1>1. m \in Manager
  BY DEF CoreBut
<1>2. Settled(m, j)
  BY DEF Settled
<1>3. CASE j \in m.start_pending \/ ~m.topic
  <2>1. n = m
    BY <1>3 DEF start_send_request
  <2>2. QED
    BY <1>2, <2>1 DEF Core, CoreBut
<1>4. CASE ~(j \in m.start_pending \/ ~m.topic)
  <2>1. n = [m EXCEPT !.out = @ \union [op : {"start"}, id : {j}],
                      !.start_pending = @ \union {j}]
    BY <1>1, <1>4 DEF start_send_request, flux_send, Manager
  <2>2. /\ n.state = m.state /\ n.priority = m.priority
        /\ n.alloc_queued = m.alloc_queued
        /\ n.alloc_pending = m.alloc_pending
        /\ n.free_pending = m.free_pending
        /\ n.has_resources = m.has_resources
        /\ n.start_pending = m.start_pending \union {j}
        /\ n.queue = m.queue
        /\ n.ready = m.ready /\ n.topic = m.topic
        /\ n.alloc_pending_count = m.alloc_pending_count
        /\ n.running_jobs = m.running_jobs
        /\ n.drain_requests = m.drain_requests
        /\ n.idle_requests = m.idle_requests
    BY <1>1, <2>1 DEF Manager
  <2>3. n \in Manager
    <3>1. /\ m.start_pending \union {j} \in SUBSET Jobs
          /\ m.out \union [op : {"start"}, id : {j}] \in SUBSET Message
      BY <1>1 DEF Manager, Message
    <3>2. QED
      BY ZenonT(30), <1>1, <2>1, <3>1 DEF Manager
  <2> HIDE DEF n
  <2>4. FlagsOK(n)
    BY <1>4, <2>2 DEF CoreBut, FlagsOK
  <2>5. QueueOK(n)
    BY <2>2 DEF CoreBut, QueueOK
  <2>6. CountsOK(n)
    BY <2>2 DEF CoreBut, CountsOK, Running
  <2>7. \A k \in Jobs : Settled(n, k)
    BY <2>2 DEF CoreBut, Settled, cleanup_complete, interrupted
  <2>8. DrainOK(m) => DrainOK(n)
    BY <2>2 DEF DrainOK, Active, Running
  <2>9. QED
    BY <2>3, <2>4, <2>5, <2>6, <2>7, <2>8 DEF Core, CoreBut, n
<1>5. QED
  BY <1>3, <1>4

\* What the requests of a job in CLEANUP leave alone.
SameJobs(m, n) ==
    /\ n.state = m.state /\ n.alloc_pending = m.alloc_pending
    /\ n.has_resources = m.has_resources
    /\ n.start_pending = m.start_pending /\ n.ready = m.ready
    /\ n.drain_requests = m.drain_requests
    /\ n.idle_requests = m.idle_requests

LEMMA CancelCore ==
    ASSUME NEW m, NEW j \in Jobs, CoreLoose(m, j)
    PROVE  LET n == alloc_cancel_alloc_request(m, j)
           IN  /\ CoreLoose(n, j) /\ SameJobs(m, n)
               /\ n.free_pending = m.free_pending
<1> DEFINE n == alloc_cancel_alloc_request(m, j)
<1>1. m \in Manager
  BY DEF CoreLoose
<1>2. n = m \/ n = [m EXCEPT !.out = @ \union [op : {"cancel"}, id : {j}]]
  BY DEF alloc_cancel_alloc_request, flux_send
<1>3. m.out \union [op : {"cancel"}, id : {j}] \in SUBSET Message
  BY <1>1 DEF Manager, Message
<1>4. /\ n \in Manager /\ SameJobs(m, n)
      /\ n.priority = m.priority /\ n.alloc_queued = m.alloc_queued
      /\ n.free_pending = m.free_pending /\ n.queue = m.queue
      /\ n.topic = m.topic /\ n.running_jobs = m.running_jobs
      /\ n.alloc_pending_count = m.alloc_pending_count
  BY <1>1, <1>2, <1>3 DEF Manager, SameJobs
<1> HIDE DEF n
<1>5. FlagsOK(n)
  BY <1>4 DEF CoreLoose, FlagsOK, SameJobs
<1>6. CountsOK(n)
  BY <1>4 DEF CoreLoose, CountsOK, SameJobs, Running
<1>7. \A k \in Jobs \ {j} : Settled(n, k)
  BY <1>4 DEF CoreLoose, Settled, SameJobs, cleanup_complete, interrupted
<1>8. QED
  BY <1>4, <1>5, <1>6, <1>7 DEF CoreLoose, n

LEMMA DequeueCore ==
    ASSUME NEW m, NEW j \in Jobs, CoreLoose(m, j), m.state[j] = "CLEANUP"
    PROVE  LET n == alloc_dequeue_alloc_request(m, j)
           IN  /\ CoreBut(n, {j}) /\ SameJobs(m, n)
               /\ n.free_pending = m.free_pending
               /\ j \notin n.alloc_queued
<1> DEFINE n == alloc_dequeue_alloc_request(m, j)
<1>1. m \in Manager
  BY DEF CoreLoose
<1>2. CASE j \notin m.alloc_queued
  <2>1. n = m
    BY <1>2 DEF alloc_dequeue_alloc_request
  <2>2. \A i \in 1..Len(m.queue) : m.queue[i] # j
    BY <1>2 DEF CoreLoose, Entries
  <2>3. QueueOK(m)
    BY <2>2 DEF CoreLoose, QueueOK, Sorted
  <2>4. QED
    BY <1>2, <2>1, <2>3 DEF CoreLoose, CoreBut, SameJobs
<1>3. CASE j \in m.alloc_queued
  <2> DEFINE q == zlistx_delete(m.queue, j)
  <2>1. /\ q \in Seq(Jobs) /\ Entries(q) = Entries(m.queue) \ {j}
        /\ Distinct(q) /\ Sorted(m.priority, q)
    <3>1. m.priority \in [Jobs -> Int] /\ m.queue \in Seq(Jobs)
      BY <1>1 DEF Manager, JobList
    <3>2. Distinct(m.queue)
          /\ \A i, k \in 1..Len(m.queue) :
                i < k /\ m.queue[i] # j /\ m.queue[k] # j
                  => job_leq(m.priority, m.queue[i], m.queue[k])
      BY DEF CoreLoose
    <3>3. QED
      BY Zenon, <3>1, <3>2, DeleteSorted
  <2> HIDE DEF q
  <2>2. n = [m EXCEPT !.queue = q, !.alloc_queued = @ \ {j}]
    BY <1>3 DEF alloc_dequeue_alloc_request, q
  <2>3. /\ n.state = m.state /\ n.priority = m.priority
        /\ n.alloc_queued = m.alloc_queued \ {j}
        /\ n.alloc_pending = m.alloc_pending
        /\ n.free_pending = m.free_pending
        /\ n.has_resources = m.has_resources
        /\ n.start_pending = m.start_pending /\ n.queue = q
        /\ n.ready = m.ready /\ n.topic = m.topic
        /\ n.alloc_pending_count = m.alloc_pending_count
        /\ n.running_jobs = m.running_jobs
        /\ n.drain_requests = m.drain_requests
        /\ n.idle_requests = m.idle_requests
    BY <1>1, <2>2 DEF Manager
  <2>4. n \in Manager
    <3>1. m.alloc_queued \ {j} \in SUBSET Jobs
      BY <1>1 DEF Manager
    <3>2. q \in JobList
      BY <2>1 DEF JobList
    <3>3. QED
      BY ZenonT(30), <1>1, <2>2, <3>1, <3>2 DEF Manager
  <2> HIDE DEF n
  <2>5. FlagsOK(n)
    BY <2>3 DEF CoreLoose, FlagsOK
  <2>6. QueueOK(n)
    BY <2>1, <2>3 DEF CoreLoose, QueueOK
  <2>7. CountsOK(n)
    BY <2>3 DEF CoreLoose, CountsOK, Running
  <2>8. \A k \in Jobs \ {j} : Settled(n, k)
    BY <2>3 DEF CoreLoose, Settled, cleanup_complete, interrupted
  <2>9. SameJobs(m, n) /\ j \notin n.alloc_queued
    BY <2>3 DEF SameJobs
  <2>10. QED
    BY SMTT(20), <2>3, <2>4, <2>5, <2>6, <2>7, <2>8, <2>9 DEF CoreBut, n
<1>4. QED
  BY <1>2, <1>3

LEMMA FreeCore ==
    ASSUME NEW m, NEW j \in Jobs, CoreBut(m, {j}), m.state[j] = "CLEANUP",
           j \in m.has_resources
    PROVE  LET n == alloc_send_free_request(m, j)
           IN  /\ CoreBut(n, {j}) /\ SameJobs(m, n)
               /\ n.alloc_queued = m.alloc_queued
               /\ n.ready => j \in n.free_pending
<1> DEFINE n == alloc_send_free_request(m, j)
<1>1. m \in Manager
  BY DEF CoreBut
<1>2. CASE j \in m.free_pending \/ ~m.ready
  BY <1>2 DEF alloc_send_free_request, SameJobs
<1>3. CASE ~(j \in m.free_pending \/ ~m.ready)
  <2> DEFINE c == increment(m.free_pending_count)
  <2>1. c \in 0..UINT_MAX
    BY <1>1, JobManagerAssumption DEF Manager, increment
  <2> HIDE DEF c
  <2>2. n = [m EXCEPT !.out = @ \union [op : {"free"}, id : {j}],
                      !.free_pending = @ \union {j},
                      !.free_pending_count = c]
    BY <1>1, <1>3 DEF alloc_send_free_request, flux_send, Manager, c
  <2>3. /\ n.state = m.state /\ n.priority = m.priority
        /\ n.alloc_queued = m.alloc_queued
        /\ n.alloc_pending = m.alloc_pending
        /\ n.free_pending = m.free_pending \union {j}
        /\ n.has_resources = m.has_resources
        /\ n.start_pending = m.start_pending /\ n.queue = m.queue
        /\ n.ready = m.ready /\ n.topic = m.topic
        /\ n.alloc_pending_count = m.alloc_pending_count
        /\ n.running_jobs = m.running_jobs
        /\ n.drain_requests = m.drain_requests
        /\ n.idle_requests = m.idle_requests
    BY <1>1, <2>2 DEF Manager
  <2>4. n \in Manager
    <3>1. /\ m.free_pending \union {j} \in SUBSET Jobs
          /\ m.out \union [op : {"free"}, id : {j}] \in SUBSET Message
      BY <1>1 DEF Manager, Message
    <3>2. QED
      BY ZenonT(30), <1>1, <2>1, <2>2, <3>1 DEF Manager
  <2> HIDE DEF n
  <2>5. FlagsOK(n)
    BY <1>3, <2>3 DEF CoreBut, FlagsOK
  <2>6. QueueOK(n)
    BY <2>3 DEF CoreBut, QueueOK
  <2>7. CountsOK(n)
    BY <2>3 DEF CoreBut, CountsOK, Running
  <2>8. \A k \in Jobs \ {j} : Settled(n, k)
    BY <2>3 DEF CoreBut, Settled, cleanup_complete, interrupted
  <2>9. SameJobs(m, n) /\ j \in n.free_pending
    BY <2>3 DEF SameJobs
  <2>10. QED
    BY <2>3, <2>4, <2>5, <2>6, <2>7, <2>8, <2>9 DEF CoreBut, n
<1>4. QED
  BY <1>2, <1>3

LEMMA CleanupRequests ==
    ASSUME NEW m, NEW j \in Jobs, CoreLoose(m, j), m.state[j] = "CLEANUP"
    PROVE  LET n == cleanup_requests(m, j)
           IN  /\ CoreBut(n, {j}) /\ SameJobs(m, n)
               /\ j \notin n.alloc_queued
               /\ n.ready => j \notin interrupted(n)
<1> DEFINE a == alloc_cancel_alloc_request(m, j)
           c == alloc_dequeue_alloc_request(a, j)
           n == cleanup_requests(m, j)
<1>1. CoreLoose(a, j) /\ SameJobs(m, a)
  BY CancelCore
<1>2. a.state[j] = "CLEANUP"
  BY <1>1 DEF SameJobs
<1> HIDE DEF a
<1>3. CoreBut(c, {j}) /\ SameJobs(a, c) /\ j \notin c.alloc_queued
  BY <1>1, <1>2, DequeueCore
<1>4. SameJobs(m, c) /\ c.state[j] = "CLEANUP"
  BY <1>1, <1>2, <1>3 DEF SameJobs
<1>5. n = IF j \in c.has_resources /\ j \notin c.start_pending
            THEN alloc_send_free_request(c, j) ELSE c
  BY DEF cleanup_requests, a
<1> HIDE DEF c, n
<1>6. CASE j \in c.has_resources /\ j \notin c.start_pending
  <2>1. /\ CoreBut(n, {j}) /\ SameJobs(c, n)
        /\ n.alloc_queued = c.alloc_queued
        /\ n.ready => j \in n.free_pending
    BY <1>3, <1>4, <1>5, <1>6, FreeCore
  <2>2. QED
    BY <1>3, <1>4, <2>1 DEF SameJobs, interrupted, n
<1>7. CASE ~(j \in c.has_resources /\ j \notin c.start_pending)
  <2>1. n = c
    BY <1>5, <1>7
  <2>2. j \notin interrupted(c)
    BY <1>7 DEF interrupted
  <2>3. QED
    BY <1>3, <1>4, <2>1, <2>2 DEF n
<1>8. QED
  BY <1>6, <1>7

\* An event changes the state and the resources of its job, and keeps the count
\* of running jobs.
Recorded(m, n, j, name) ==
    /\ n \in Manager
    /\ n.state = [m.state EXCEPT ![j] = event_job_state(m.state[j], name)]
    /\ n.has_resources = IF name = "alloc" THEN m.has_resources \union {j}
                         ELSE IF name = "free" THEN m.has_resources \ {j}
                         ELSE m.has_resources
    /\ n.priority = m.priority
    /\ n.alloc_queued = m.alloc_queued /\ n.alloc_pending = m.alloc_pending
    /\ n.free_pending = m.free_pending /\ n.start_pending = m.start_pending
    /\ n.queue = m.queue /\ n.ready = m.ready /\ n.topic = m.topic
    /\ n.alloc_pending_count = m.alloc_pending_count
    /\ n.drain_requests = m.drain_requests
    /\ n.idle_requests = m.idle_requests
    /\ m.running_jobs = Cardinality(Running(m)) =>
         n.running_jobs = Cardinality(Running(n))

LEMMA RecordFields ==
    ASSUME NEW m \in Manager, NEW j \in Jobs, NEW name
    PROVE  Recorded(m, event_job_record(m, j, name), j, name)
<1> DEFINE s == event_job_state(m.state[j], name)
           H == IF name = "alloc" THEN m.has_resources \union {j}
                ELSE IF name = "free" THEN m.has_resources \ {j}
                ELSE m.has_resources
           S == [m.state EXCEPT ![j] = s]
           u == event_job_update(m, j, name)
           r == CASE j \in Running(u) /\ j \notin Running(m) ->
                       u.running_jobs + 1
                  [] j \notin Running(u) /\ j \in Running(m) ->
                       u.running_jobs - 1
                  [] OTHER -> u.running_jobs
           n == event_job_record(m, j, name)
<1>1. s \in States
  BY DEF event_job_state, States, Manager
<1>2. H \in SUBSET Jobs
  BY DEF Manager
<1>3. u = [m EXCEPT !.state = S, !.has_resources = H]
  BY DEF event_job_update, Manager
<1> HIDE DEF s, H
<1>0. S \in [Jobs -> States]
  BY <1>1 DEF Manager
<1> HIDE DEF S
<1>4. /\ u \in Manager
      /\ u.state = S /\ u.has_resources = H
      /\ u.priority = m.priority
      /\ u.alloc_queued = m.alloc_queued
      /\ u.alloc_pending = m.alloc_pending
      /\ u.free_pending = m.free_pending
      /\ u.start_pending = m.start_pending /\ u.queue = m.queue
      /\ u.ready = m.ready /\ u.topic = m.topic
      /\ u.alloc_pending_count = m.alloc_pending_count
      /\ u.drain_requests = m.drain_requests
      /\ u.idle_requests = m.idle_requests
      /\ u.running_jobs = m.running_jobs
  BY ZenonT(30), <1>0, <1>2, <1>3 DEF Manager
<1>5. n = [u EXCEPT !.running_jobs = r]
  BY DEF event_job_record
<1> HIDE DEF u
<1>6. r \in Int
  BY <1>4 DEF Manager
<1>7. /\ n \in Manager
      /\ n.state = u.state /\ n.has_resources = H
      /\ n.priority = u.priority
      /\ n.alloc_queued = u.alloc_queued
      /\ n.alloc_pending = u.alloc_pending
      /\ n.free_pending = u.free_pending
      /\ n.start_pending = u.start_pending /\ n.queue = u.queue
      /\ n.ready = u.ready /\ n.topic = u.topic
      /\ n.alloc_pending_count = u.alloc_pending_count
      /\ n.drain_requests = u.drain_requests
      /\ n.idle_requests = u.idle_requests
      /\ n.running_jobs = r
  <2> HIDE DEF r
  <2>1. QED
    BY <1>4, <1>5, <1>6 DEF Manager
<1>8. /\ Running(n) = Running(u)
      /\ IsFiniteSet(Running(m)) /\ IsFiniteSet(Running(u))
  <2>1. Running(n) = Running(u)
    BY <1>7 DEF Running
  <2>2. Running(m) \subseteq Jobs /\ Running(u) \subseteq Jobs
    BY DEF Running
  <2>3. QED
    BY <2>1, <2>2, JobManagerAssumption, JobQueueAssumption,
       FS_Subset
<1>9. Running(u) = IF s \in {"RUN", "CLEANUP"} THEN Running(m) \union {j}
                   ELSE Running(m) \ {j}
  BY <1>4 DEF Running, Manager, S
<1>10. ASSUME m.running_jobs = Cardinality(Running(m))
       PROVE  r = Cardinality(Running(u))
  <2>1. CASE j \in Running(u) /\ j \notin Running(m)
    <3>1. r = u.running_jobs + 1
      BY <2>1
    <3>2. Running(u) = Running(m) \union {j}
      BY <1>9, <2>1
    <3>3. Cardinality(Running(m) \union {j}) = Cardinality(Running(m)) + 1
      BY <1>8, <2>1, AddOne
    <3>4. QED
      BY <1>4, <1>10, <3>1, <3>2, <3>3
  <2>2. CASE j \notin Running(u) /\ j \in Running(m)
    <3>1. r = u.running_jobs - 1
      BY <2>2
    <3>2. Running(u) = Running(m) \ {j}
      BY <1>9, <2>2
    <3>3. Cardinality(Running(m) \ {j}) = Cardinality(Running(m)) - 1
      BY <1>8, <2>2, RemoveOne
    <3>4. QED
      BY <1>4, <1>10, <3>1, <3>2, <3>3
  <2>3. CASE j \in Running(u) <=> j \in Running(m)
    <3>1. r = u.running_jobs
      BY <2>3
    <3>2. Running(u) = Running(m)
      BY <1>9, <2>3
    <3>3. QED
      BY <1>4, <1>10, <3>1, <3>2
  <2>4. QED
    BY <2>1, <2>2, <2>3
<1> HIDE DEF r, n
<1>11. QED
  BY <1>4, <1>7, <1>8, <1>10 DEF s, H, S, n, Recorded

LEMMA CleanupAction ==
    ASSUME NEW m, NEW j \in Jobs, CoreLoose(m, j), m.state[j] = "CLEANUP"
    PROVE  LET n == cleanup_action(m, j)
           IN  Core(n) /\ (DrainOK(m) => DrainOK(n))
<1> DEFINE c == cleanup_requests(m, j)
           e == event_job_record(c, j, "clean")
<1>1. /\ CoreBut(c, {j}) /\ SameJobs(m, c)
      /\ j \notin c.alloc_queued
      /\ c.ready => j \notin interrupted(c)
  BY CleanupRequests
<1>2. cleanup_action(m, j) = IF cleanup_complete(c, j) THEN drain_check(e)
                             ELSE c
  BY DEF cleanup_action
<1> HIDE DEF c
<1>3. CASE cleanup_complete(c, j)
  <2>1. c \in Manager /\ c.state[j] = "CLEANUP"
    BY <1>1 DEF CoreBut, SameJobs
  <2>2. event_job_state(c.state[j], "clean") = "INACTIVE"
    BY DEF event_job_state
  <2>3. /\ e \in Manager
        /\ e.state = [c.state EXCEPT ![j] = "INACTIVE"]
        /\ e.has_resources = c.has_resources
        /\ e.priority = c.priority
        /\ e.alloc_queued = c.alloc_queued
        /\ e.alloc_pending = c.alloc_pending
        /\ e.free_pending = c.free_pending
        /\ e.start_pending = c.start_pending /\ e.queue = c.queue
        /\ e.ready = c.ready /\ e.topic = c.topic
        /\ e.alloc_pending_count = c.alloc_pending_count
        /\ c.running_jobs = Cardinality(Running(c)) =>
             e.running_jobs = Cardinality(Running(e))
    <3>1. Recorded(c, e, j, "clean")
      BY <2>1, RecordFields
    <3> HIDE DEF e
    <3>2. QED
      BY <2>2, <3>1 DEF Recorded
  <2> HIDE DEF e
  <2>4. FlagsOK(e)
    BY <1>1, <1>3, <2>1, <2>3 DEF CoreBut, FlagsOK, cleanup_complete, Manager
  <2>5. QueueOK(e)
    BY <1>1, <2>3 DEF CoreBut, QueueOK
  <2>6. CountsOK(e)
    BY <1>1, <2>3 DEF CoreBut, CountsOK
  <2>7. \A k \in Jobs : Settled(e, k)
    BY <1>1, <2>1, <2>3
       DEF CoreBut, Settled, cleanup_complete, interrupted, Manager
  <2>8. CoreBut(e, {})
    BY <2>3, <2>4, <2>5, <2>6, <2>7 DEF CoreBut
  <2>9. QED
    BY <1>2, <1>3, <2>8, DrainCheck DEF Core
<1>4. CASE ~cleanup_complete(c, j)
  <2>1. Settled(c, j)
    BY <1>1, <1>4 DEF Settled, SameJobs
  <2>2. DrainOK(m) => DrainOK(c)
    BY <1>1 DEF SameJobs, DrainOK, Active, Running
  <2>3. QED
    BY <1>1, <1>2, <1>4, <2>1, <2>2 DEF Core, CoreBut
<1>5. QED
  BY <1>3, <1>4

\* event_job_action settles its job.
LEMMA ActionCore ==
    ASSUME NEW m, NEW j \in Jobs, CoreBut(m, {j})
    PROVE  LET n == event_job_action(m, j)
           IN  Core(n) /\ (DrainOK(m) => DrainOK(n))
<1> DEFINE n == event_job_action(m, j)
<1>1. m \in Manager
  BY DEF CoreBut
<1>2. CASE m.state[j] = "DEPEND"
  <2> DEFINE e == event_job_record(m, j, "depend")
  <2>1. n = alloc_enqueue_alloc_request(e, j)
    BY <1>2 DEF event_job_action
  <2>2. Recorded(m, e, j, "depend")
    BY <1>1, RecordFields
  <2> HIDE DEF e
  <2>3. event_job_state(m.state[j], "depend") = "SCHED"
    BY DEF event_job_state
  <2>4. e.state = [m.state EXCEPT ![j] = "SCHED"]
        /\ m.state \in [Jobs -> States]
    BY <1>1, <2>2, <2>3 DEF Recorded, Manager
  <2>5. FlagsOK(e)
    BY <1>2, <2>2, <2>4 DEF CoreBut, FlagsOK, Recorded
  <2>6. QueueOK(e)
    BY <2>2 DEF CoreBut, QueueOK, Recorded
  <2>7. CountsOK(e)
    BY <2>2 DEF CoreBut, CountsOK, Recorded
  <2>8. \A k \in Jobs \ {j} : Settled(e, k)
    BY <2>2, <2>4 DEF CoreBut, Settled, cleanup_complete, interrupted, Recorded
  <2>9. CoreBut(e, {j}) /\ e.state[j] = "SCHED"
    BY <2>2, <2>4, <2>5, <2>6, <2>7, <2>8 DEF CoreBut, Recorded
  <2>10. DrainOK(m) => DrainOK(e)
    <3>1. Active(e) = Active(m) /\ Running(e) = Running(m)
      BY <1>2, <2>4 DEF Active, Running
    <3>2. QED
      BY <2>2, <3>1 DEF DrainOK, Recorded
  <2>11. QED
    BY <2>1, <2>9, <2>10, EnqueueCore
<1>3. CASE m.state[j] = "SCHED"
  <2>1. n = alloc_enqueue_alloc_request(m, j)
    BY <1>3 DEF event_job_action
  <2>2. QED
    BY <1>3, <2>1, EnqueueCore
<1>4. CASE m.state[j] = "RUN"
  <2>1. n = start_send_request(m, j)
    BY <1>4 DEF event_job_action
  <2>2. QED
    BY <1>4, <2>1, StartCore
<1>5. CASE m.state[j] = "CLEANUP"
  <2>1. n = cleanup_action(m, j)
    BY <1>5 DEF event_job_action
  <2>2. CoreLoose(m, j)
    BY DEF CoreBut, CoreLoose, QueueOK, Sorted
  <2>3. QED
    BY <1>5, <2>1, <2>2, CleanupAction
<1>6. CASE m.state[j] \notin {"DEPEND", "SCHED", "RUN", "CLEANUP"}
  <2>1. Settled(m, j)
    BY <1>6 DEF Settled
  <2>2. CoreBut(m, {})
    BY <2>1 DEF CoreBut
  <2>3. n = m \/ n = drain_check(m)
    BY <1>6 DEF event_job_action
  <2>4. QED
    BY <2>2, <2>3, DrainCheck DEF Core
<1>7. QED
  BY <1>2, <1>3, <1>4, <1>5, <1>6

\* The events that handlers post.
EventNames == {"exception", "fatal", "alloc", "free", "start", "finish",
               "release", "priority"}

LEMMA RecordCore ==
    ASSUME NEW m, NEW j \in Jobs, CoreBut(m, {j}),
           j \in Active(m), NEW name \in EventNames,
           ~event_invalid(m.state[j], name),
           name = "alloc" => j \notin m.alloc_queued \union m.alloc_pending,
           name = "free" => j \notin m.free_pending
    PROVE  LET e == event_job_record(m, j, name)
           IN  /\ CoreBut(e, {j})
               /\ DrainOK(m) \/ name \in {"alloc", "fatal"} => DrainOK(e)
<1> DEFINE e == event_job_record(m, j, name)
           s == event_job_state(m.state[j], name)
<1>1. m \in Manager /\ m.state \in [Jobs -> States]
      /\ m.state[j] \in States \ {"none", "INACTIVE"}
  BY DEF CoreBut, Manager, Active
<1>2. Recorded(m, e, j, name)
  BY <1>1, RecordFields
<1> HIDE DEF e
<1>3. /\ s = m.state[j] \/ s \in {"RUN", "CLEANUP"}
      /\ name = "fatal" => s = "CLEANUP"
      /\ name = "alloc" => s \in {"RUN", "CLEANUP"}
      /\ s = "RUN" => m.state[j] = "RUN" \/ name = "alloc"
      /\ s = "RUN" => name # "free"
      /\ m.state[j] \in {"RUN", "CLEANUP"} => s \in {"RUN", "CLEANUP"}
      /\ m.state[j] = "CLEANUP" => s = "CLEANUP"
      /\ m.state[j] = "SCHED" /\ name # "alloc" => s \in {"SCHED", "CLEANUP"}
  BY <1>1 DEF event_job_state, event_invalid, EventNames
<1>4. e.state = [m.state EXCEPT ![j] = s]
  BY <1>2 DEF Recorded
<1> HIDE DEF s
<1>5. /\ \A k \in Jobs \ {j} : e.state[k] = m.state[k]
      /\ e.state[j] = s
  BY <1>1, <1>4
<1>6. FlagsOK(e)
  <2>1. FlagsOK(m)
    BY DEF CoreBut
  <2>2. /\ e.alloc_queued = m.alloc_queued /\ e.alloc_pending = m.alloc_pending
        /\ e.free_pending = m.free_pending
        /\ e.start_pending = m.start_pending
        /\ e.ready = m.ready /\ e.topic = m.topic
    BY <1>2 DEF Recorded
  <2>3. /\ m.alloc_queued \subseteq Jobs /\ m.alloc_pending \subseteq Jobs
        /\ m.has_resources \subseteq Jobs /\ m.start_pending \subseteq Jobs
    BY <1>1 DEF Manager
  <2>4. \A k \in m.alloc_queued \union m.alloc_pending :
          e.state[k] \in {"SCHED", "CLEANUP"}
    BY <1>3, <1>5, <2>1, <2>3 DEF FlagsOK
  <2>5. \A k \in Jobs : e.state[k] = "RUN" => k \in e.has_resources
    BY <1>2, <1>3, <1>5, <2>1 DEF FlagsOK, Recorded
  <2>6. \A k \in e.has_resources :
          /\ e.state[k] \in {"RUN", "CLEANUP"}
          /\ k \notin m.alloc_queued \union m.alloc_pending
    BY <1>2, <1>3, <1>5, <2>1, <2>3 DEF FlagsOK, Recorded
  <2>7. \A k \in m.start_pending : e.state[k] \in {"RUN", "CLEANUP"}
    BY <1>3, <1>5, <2>1, <2>3 DEF FlagsOK
  <2>8. e.free_pending \subseteq e.has_resources
    BY <1>2, <2>1 DEF FlagsOK, Recorded
  <2>9. QED
    BY <2>1, <2>2, <2>4, <2>5, <2>6, <2>7, <2>8 DEF FlagsOK
<1>7. QueueOK(e)
  BY <1>2 DEF CoreBut, QueueOK, Recorded
<1>8. CountsOK(e)
  BY <1>2 DEF CoreBut, CountsOK, Recorded
<1>9. ASSUME NEW k \in Jobs \ {j} PROVE Settled(e, k)
  <2>1. Settled(m, k)
    BY DEF CoreBut
  <2>2. /\ e.state[k] = m.state[k]
        /\ k \in e.has_resources <=> k \in m.has_resources
        /\ e.alloc_queued = m.alloc_queued /\ e.alloc_pending = m.alloc_pending
        /\ e.free_pending = m.free_pending
        /\ e.start_pending = m.start_pending
        /\ e.ready = m.ready
    BY <1>2, <1>5 DEF Recorded
  <2>3. QED
    BY <2>1, <2>2 DEF Settled, cleanup_complete, interrupted
<1>10. CoreBut(e, {j})
  BY <1>2, <1>6, <1>7, <1>8, <1>9 DEF CoreBut, Recorded
<1>11. ASSUME DrainOK(m) \/ name \in {"alloc", "fatal"} PROVE DrainOK(e)
  <2>1. j \in Active(e)
    BY <1>1, <1>3, <1>5 DEF Active
  <2>2. CASE j \in Running(e)
    BY <2>1, <2>2 DEF DrainOK
  <2>3. CASE j \notin Running(e)
    <3>1. s \notin {"RUN", "CLEANUP"}
      BY <1>5, <2>3 DEF Running
    <3>2. DrainOK(m)
      BY <1>3, <1>11, <3>1
    <3>3. Running(e) = Running(m)
      BY <1>3, <1>5, <3>1 DEF Running
    <3>4. QED
      BY <1>2, <2>1, <3>2, <3>3 DEF DrainOK, Recorded
  <2>4. QED
    BY <2>2, <2>3
<1>12. QED
  BY <1>10, <1>11 DEF e

\* Posting an event: the only way that handlers change the state of a job.
LEMMA PostCore ==
    ASSUME NEW m, NEW j \in Jobs, CoreBut(m, {j}),
           j \in Active(m), NEW name \in EventNames,
           ~event_invalid(m.state[j], name),
           name = "alloc" => j \notin m.alloc_queued \union m.alloc_pending,
           name = "free" => j \notin m.free_pending
    PROVE  LET n == event_job_post(m, j, name)
           IN  /\ Core(n)
               /\ DrainOK(m) \/ name \in {"alloc", "fatal"} => DrainOK(n)
<1> DEFINE e == event_job_record(m, j, name)
<1>1. /\ CoreBut(e, {j})
      /\ DrainOK(m) \/ name \in {"alloc", "fatal"} => DrainOK(e)
  BY RecordCore
<1>2. event_job_post(m, j, name) = event_job_action(e, j)
  BY DEF event_job_post
<1> HIDE DEF e
<1>3. QED
  BY <1>1, <1>2, ActionCore

-----------------------------------------------------------------------------
(* The handlers.  Good is the invariant while messages are still to be sent.   *)

Good(m) == Core(m) /\ DrainOK(m)

\* Handlers that touch none of the relevant fields.
LEMMA IrrelevantGood ==
    ASSUME NEW m, NEW n, Good(m), n \in Manager, Relevant(n) = Relevant(m),
           n.drain_requests = m.drain_requests,
           n.idle_requests = m.idle_requests
    PROVE  Good(n)
<1>1. Core(n)
  BY CoreRelevant DEF Good, Core
<1>2. n.state = m.state /\ n.alloc_pending = m.alloc_pending
  BY DEF Relevant
<1>3. DrainOK(n)
  BY <1>2 DEF Good, DrainOK, Active, Running
<1>4. QED
  BY <1>1, <1>3 DEF Good

LEMMA DrainRequestGood ==
    ASSUME NEW m, Good(m)
    PROVE  Good(drain_request(m)) /\ Good(idle_request(m))
<1> DEFINE d == [m EXCEPT !.drain_requests = @ + 1]
           i == [m EXCEPT !.idle_requests = @ + 1]
<1>1. m \in Manager /\ CoreBut(m, {})
  BY DEF Good, Core, CoreBut
<1>2. /\ d \in Manager /\ Relevant(d) = Relevant(m)
      /\ i \in Manager /\ Relevant(i) = Relevant(m)
  BY <1>1 DEF Manager, Relevant
<1>3. CoreBut(d, {}) /\ CoreBut(i, {})
  BY <1>1, <1>2, CoreRelevant
<1>4. drain_request(m) = drain_check(d) /\ idle_request(m) = drain_check(i)
  BY DEF drain_request, idle_request
<1>5. QED
  BY <1>3, <1>4, DrainCheck DEF Good, Core

\* A new priority for a job outside the queue leaves the queue in order.
LEMMA PriorityOutside ==
    ASSUME NEW m, NEW j \in Jobs, NEW p \in Int, Good(m),
           j \notin m.alloc_queued
    PROVE  LET n == [m EXCEPT !.priority[j] = p]
           IN  CoreBut(n, {j}) /\ DrainOK(n) /\ n.state = m.state
<1> DEFINE P == [m.priority EXCEPT ![j] = p]
           n == [m EXCEPT !.priority[j] = p]
<1>1. m \in Manager /\ CoreBut(m, {})
  BY DEF Good, Core, CoreBut
<1>2. P \in [Jobs -> Int] /\ \A k \in Jobs \ {j} : P[k] = m.priority[k]
  BY <1>1 DEF Manager
<1>3. n = [m EXCEPT !.priority = P]
  BY <1>1 DEF Manager
<1> HIDE DEF P
<1>4. /\ n \in Manager
      /\ n.state = m.state /\ n.priority = P
      /\ n.alloc_queued = m.alloc_queued
      /\ n.alloc_pending = m.alloc_pending
      /\ n.free_pending = m.free_pending
      /\ n.has_resources = m.has_resources
      /\ n.start_pending = m.start_pending
      /\ n.queue = m.queue
      /\ n.ready = m.ready /\ n.topic = m.topic
      /\ n.alloc_pending_count = m.alloc_pending_count
      /\ n.running_jobs = m.running_jobs
      /\ n.drain_requests = m.drain_requests
      /\ n.idle_requests = m.idle_requests
  BY <1>1, <1>2, <1>3 DEF Manager
<1> HIDE DEF n
<1>5. FlagsOK(n)
  BY <1>1, <1>4 DEF CoreBut, FlagsOK
<1>6. QueueOK(n)
  <2>1. /\ Entries(m.queue) = m.alloc_queued /\ Distinct(m.queue)
        /\ Sorted(m.priority, m.queue)
    BY <1>1 DEF CoreBut, QueueOK
  <2>2. \A i \in 1..Len(m.queue) : m.queue[i] \in Jobs \ {j}
    <3>1. m.alloc_queued \subseteq Jobs
      BY <1>1 DEF Manager
    <3>2. QED
      BY <2>1, <3>1 DEF Entries
  <2>3. Sorted(P, m.queue)
    BY <1>2, <2>1, <2>2 DEF Sorted, job_leq
  <2>4. QED
    BY <1>4, <2>1, <2>3 DEF QueueOK
<1>7. CountsOK(n)
  BY <1>1, <1>4 DEF CoreBut, CountsOK, Running
<1>8. \A k \in Jobs : Settled(n, k)
  BY <1>1, <1>4 DEF CoreBut, Settled, cleanup_complete, interrupted
<1>9. DrainOK(n)
  BY <1>4 DEF Good, DrainOK, Active, Running
<1>10. QED
  BY <1>4, <1>5, <1>6, <1>7, <1>8, <1>9 DEF CoreBut, n

LEMMA SubmitGood ==
    ASSUME NEW m, NEW j \in Jobs, NEW p \in Int, Good(m),
           m.state[j] = "none"
    PROVE  Good(submit_job(m, j, p))
<1> DEFINE a == [m EXCEPT !.priority[j] = p]
           u == event_job_update(a, j, "submit")
<1>1. j \notin m.alloc_queued
  BY DEF Good, Core, CoreBut, FlagsOK
<1>2. CoreBut(a, {j}) /\ DrainOK(a) /\ a.state = m.state
  BY <1>1, PriorityOutside
<1>3. submit_job(m, j, p) = event_job_action(u, j)
  BY DEF submit_job
<1> HIDE DEF a
<1>4. a \in Manager /\ a.state \in [Jobs -> States]
  BY <1>2 DEF CoreBut, Manager
<1>5. u = [a EXCEPT !.state = [a.state EXCEPT ![j] = "DEPEND"]]
  BY Zenon, <1>4 DEF event_job_update, event_job_state, Manager
<1> DEFINE S == [a.state EXCEPT ![j] = "DEPEND"]
<1>6. S \in [Jobs -> States] /\ S[j] = "DEPEND"
      /\ \A k \in Jobs \ {j} : S[k] = a.state[k]
  BY <1>4 DEF States
<1> HIDE DEF S
<1>7. /\ u \in Manager /\ u.state = S
      /\ u.priority = a.priority
      /\ u.alloc_queued = a.alloc_queued
      /\ u.alloc_pending = a.alloc_pending
      /\ u.free_pending = a.free_pending
      /\ u.has_resources = a.has_resources
      /\ u.start_pending = a.start_pending
      /\ u.queue = a.queue
      /\ u.ready = a.ready /\ u.topic = a.topic
      /\ u.alloc_pending_count = a.alloc_pending_count
      /\ u.running_jobs = a.running_jobs
      /\ u.drain_requests = a.drain_requests
      /\ u.idle_requests = a.idle_requests
  BY <1>4, <1>5, <1>6 DEF Manager, S
<1> HIDE DEF u
<1>8. /\ a.alloc_queued \subseteq Jobs /\ a.alloc_pending \subseteq Jobs
      /\ a.has_resources \subseteq Jobs /\ a.start_pending \subseteq Jobs
  BY <1>4 DEF Manager
<1>9. FlagsOK(u)
  BY <1>2, <1>6, <1>7, <1>8 DEF CoreBut, FlagsOK
<1>10. QueueOK(u)
  BY <1>2, <1>7 DEF CoreBut, QueueOK
<1>11. Running(u) = Running(a) /\ Active(a) \subseteq Active(u)
  BY <1>2, <1>6, <1>7 DEF Running, Active
<1>12. CountsOK(u)
  BY <1>2, <1>7, <1>11 DEF CoreBut, CountsOK
<1>13. \A k \in Jobs \ {j} : Settled(u, k)
  BY <1>2, <1>6, <1>7 DEF CoreBut, Settled, cleanup_complete, interrupted
<1>14. CoreBut(u, {j})
  BY <1>7, <1>9, <1>10, <1>12, <1>13 DEF CoreBut
<1>15. DrainOK(u)
  BY <1>2, <1>7, <1>11 DEF DrainOK
<1>16. QED
  BY <1>3, <1>14, <1>15, ActionCore DEF Good

\* A job that is out of place in the queue is put back in its place; without a
\* queue node the job-manager stops.
LEMMA ReorderCore ==
    ASSUME NEW m, NEW j \in Jobs, CoreLoose(m, j), Settled(m, j),
           DrainOK(m), j \in m.alloc_queued
    PROVE  Good(alloc_queue_reorder(m, j))
<1> DEFINE d == zlistx_delete(m.queue, j)
           q == zlistx_insert(m.priority, d, j)
           n == alloc_queue_reorder(m, j)
<1>1. m \in Manager /\ m.priority \in [Jobs -> Int] /\ m.queue \in Seq(Jobs)
  BY DEF CoreLoose, Manager, JobList
<1>2. /\ d \in Seq(Jobs) /\ Entries(d) = Entries(m.queue) \ {j}
      /\ Distinct(d) /\ Sorted(m.priority, d)
  BY <1>1, DeleteSorted DEF CoreLoose
<1> HIDE DEF d
<1>3. /\ q \in Seq(Jobs) /\ Entries(q) = Entries(d) \union {j}
      /\ Distinct(q) /\ Sorted(m.priority, q)
  BY <1>1, <1>2, InsertSorted
<1>4. n = [m EXCEPT !.queue = q]
  BY DEF alloc_queue_reorder, d
<1> HIDE DEF q
<1>5. Entries(q) = m.alloc_queued /\ q \in JobList
  BY <1>2, <1>3 DEF CoreLoose, JobList
<1>6. /\ n \in Manager
      /\ n.state = m.state /\ n.priority = m.priority
      /\ n.alloc_queued = m.alloc_queued
      /\ n.alloc_pending = m.alloc_pending
      /\ n.free_pending = m.free_pending
      /\ n.has_resources = m.has_resources
      /\ n.start_pending = m.start_pending
      /\ n.queue = q
      /\ n.ready = m.ready /\ n.topic = m.topic
      /\ n.alloc_pending_count = m.alloc_pending_count
      /\ n.running_jobs = m.running_jobs
      /\ n.drain_requests = m.drain_requests
      /\ n.idle_requests = m.idle_requests
  BY ZenonT(30), <1>1, <1>4, <1>5 DEF Manager
<1> HIDE DEF n
<1>7. FlagsOK(n)
  BY <1>6 DEF CoreLoose, FlagsOK
<1>8. QueueOK(n)
  BY <1>3, <1>5, <1>6 DEF QueueOK
<1>9. CountsOK(n)
  BY <1>6 DEF CoreLoose, CountsOK, Running
<1>10. \A k \in Jobs : Settled(n, k)
  BY <1>6 DEF CoreLoose, Settled, cleanup_complete, interrupted
<1>11. DrainOK(n)
  BY <1>6 DEF DrainOK, Active, Running
<1>12. QED
  BY SMTT(20), <1>6, <1>7, <1>8, <1>9, <1>10, <1>11 DEF Good, Core, CoreBut, n

LEMMA PriorityGood ==
    ASSUME NEW m, NEW j \in Jobs, NEW p \in Int, Good(m)
    PROVE  Good(priority_handle_request(m, j, p))
<1> DEFINE a == [m EXCEPT !.priority[j] = p]
           P == [m.priority EXCEPT ![j] = p]
           e == event_job_post(a, j, "priority")
           n == priority_handle_request(m, j, p)
<1>1. m \in Manager /\ CoreBut(m, {}) /\ DrainOK(m)
  BY DEF Good, Core, CoreBut
<1>2. P \in [Jobs -> Int] /\ \A k \in Jobs \ {j} : P[k] = m.priority[k]
  BY <1>1 DEF Manager
<1>3. a = [m EXCEPT !.priority = P]
  BY <1>1 DEF Manager
<1> HIDE DEF P
<1>4. /\ a \in Manager
      /\ a.state = m.state /\ a.priority = P
      /\ a.alloc_queued = m.alloc_queued
      /\ a.alloc_pending = m.alloc_pending
      /\ a.free_pending = m.free_pending
      /\ a.has_resources = m.has_resources
      /\ a.start_pending = m.start_pending
      /\ a.queue = m.queue
      /\ a.ready = m.ready /\ a.topic = m.topic
      /\ a.alloc_pending_count = m.alloc_pending_count
      /\ a.running_jobs = m.running_jobs
      /\ a.drain_requests = m.drain_requests
      /\ a.idle_requests = m.idle_requests
  BY <1>1, <1>2, <1>3 DEF Manager
<1>5. CASE j \in m.alloc_pending
  BY <1>5 DEF priority_handle_request
<1>6. CASE j \notin m.alloc_pending
  <2>1. n = alloc_queue_reorder(e, j)
    BY <1>6 DEF priority_handle_request
  <2>2. e = event_job_action(a, j)
    <3>1. event_job_state(a.state[j], "priority") = a.state[j]
      BY DEF event_job_state
    <3>2. event_job_update(a, j, "priority") = a
      BY ZenonT(30), <1>4, <3>1 DEF event_job_update, Manager
    <3>3. event_job_record(a, j, "priority") = a
      BY <1>4, <3>2 DEF event_job_record, Manager
    <3>4. QED
      BY <3>3 DEF event_job_post
  <2>3. CoreLoose(a, j) /\ Settled(a, j) /\ DrainOK(a)
    <3> HIDE DEF a
    <3>1. FlagsOK(a)
      BY <1>1, <1>4 DEF CoreBut, FlagsOK
    <3>2. /\ Entries(a.queue) = a.alloc_queued /\ Distinct(a.queue)
          /\ Sorted(m.priority, a.queue)
      BY <1>1, <1>4 DEF CoreBut, QueueOK
    <3>3. \A i \in 1..Len(a.queue) : a.queue[i] \in Jobs
      <4>1. a.alloc_queued \subseteq Jobs
        BY <1>4 DEF Manager
      <4>2. QED
        BY <3>2, <4>1 DEF Entries
    <3>4. ASSUME NEW i \in 1..Len(a.queue), NEW k \in 1..Len(a.queue),
                 i < k, a.queue[i] # j, a.queue[k] # j
          PROVE  job_leq(a.priority, a.queue[i], a.queue[k])
      <4>1. job_leq(m.priority, a.queue[i], a.queue[k])
        BY <3>2, <3>4 DEF Sorted
      <4>2. /\ P[a.queue[i]] = m.priority[a.queue[i]]
            /\ P[a.queue[k]] = m.priority[a.queue[k]]
        BY <1>2, <3>3, <3>4
      <4>3. QED
        BY <1>4, <4>1, <4>2 DEF job_leq
    <3>5. CountsOK(a)
      BY <1>1, <1>4 DEF CoreBut, CountsOK, Running
    <3>6. \A k \in Jobs : Settled(a, k)
      BY <1>1, <1>4 DEF CoreBut, Settled, cleanup_complete, interrupted
    <3>7. DrainOK(a)
      BY <1>1, <1>4 DEF DrainOK, Active, Running
    <3>8. QED
      BY <1>4, <3>1, <3>2, <3>4, <3>5, <3>6, <3>7 DEF CoreLoose
  <2>4. CASE j \in m.alloc_queued /\ m.state[j] = "SCHED"
    <3>1. e = a
      BY <1>4, <2>2, <2>4 DEF event_job_action, alloc_enqueue_alloc_request
    <3> HIDE DEF a, e
    <3>2. QED
      BY <1>4, <2>1, <2>3, <2>4, <3>1, ReorderCore
  <2>5. ASSUME Good(e) PROVE Good(n)
    <3> HIDE DEF a, e
    <3>1. e \in Manager /\ CoreBut(e, {})
      BY <2>5 DEF Good, Core, CoreBut
    <3>2. CASE j \in e.alloc_queued
      <4>1. CoreLoose(e, j) /\ Settled(e, j) /\ DrainOK(e)
        BY <2>5 DEF Good, Core, CoreBut, CoreLoose, QueueOK, Sorted
      <4>2. QED
        BY SMTT(20), <2>1, <3>2, <4>1, ReorderCore
    <3>3. CASE j \notin e.alloc_queued
      <4>1. n = [e EXCEPT !.segfault = TRUE]
        BY <2>1, <3>3 DEF alloc_queue_reorder
      <4>2. /\ n \in Manager /\ Relevant(n) = Relevant(e)
            /\ n.drain_requests = e.drain_requests
            /\ n.idle_requests = e.idle_requests
        BY ZenonT(30), <3>1, <4>1 DEF Manager, Relevant
      <4>3. QED
        BY <2>5, <4>2, IrrelevantGood
    <3>4. QED
      BY <3>2, <3>3
  <2>6. CASE m.state[j] = "CLEANUP"
    <3>1. e = cleanup_action(a, j)
      BY <1>4, <2>2, <2>6 DEF event_job_action
    <3>2. Good(e)
      <4> HIDE DEF a
      <4>1. QED
        BY <1>4, <2>3, <2>6, <3>1, CleanupAction DEF Good
    <3>3. QED
      BY <2>5, <3>2
  <2>7. CASE j \notin m.alloc_queued
    <3>1. CoreBut(a, {j}) /\ DrainOK(a)
      BY <2>7, PriorityOutside
    <3>2. Good(e)
      <4> HIDE DEF a
      <4>1. QED
        BY <2>2, <3>1, ActionCore DEF Good
    <3>3. QED
      BY <2>5, <3>2
  <2>8. j \in m.alloc_queued => m.state[j] \in {"SCHED", "CLEANUP"}
    BY <1>1 DEF CoreBut, FlagsOK
  <2>9. QED
    BY <2>4, <2>6, <2>7, <2>8
<1>7. QED
  BY <1>5, <1>6

LEMMA TeardownGood ==
    ASSUME NEW m, Core(m), NEW q \in requeued(m), m.ready \/ DrainOK(m)
    PROVE  Good(alloc_teardown(m, q))
<1>1. m \in Manager
  BY DEF Core, CoreBut
<1>2. CASE ~m.ready
  BY <1>2 DEF alloc_teardown, Good
<1>3. CASE m.ready
  <2> DEFINE S == m.alloc_queued \union m.alloc_pending
             n == [m EXCEPT !.queue = q, !.alloc_queued = S,
                            !.alloc_pending = {}, !.free_pending = {},
                            !.ready = FALSE, !.alloc_pending_count = 0,
                            !.free_pending_count = 0]
  <2>1. alloc_teardown(m, q) = drain_check(n)
    BY <1>1, <1>3 DEF alloc_teardown, Manager
  <2>2. S \in SUBSET Jobs /\ IsFiniteSet(S) /\ Cardinality(S) \in Nat
    <3>1. S \in SUBSET Jobs
      BY <1>1 DEF Manager
    <3>2. QED
      BY <3>1, JobManagerAssumption, JobQueueAssumption,
         FS_Subset, FS_CardinalityType
  <2>3. /\ Entries(q) = S /\ Distinct(q) /\ Sorted(m.priority, q)
        /\ q \in [1..Cardinality(S) -> S]
    BY Zenon DEF requeued
  <2> HIDE DEF S
  <2>4. q \in JobList
    BY <2>2, <2>3 DEF JobList
  <2>5. 0 \in 0..UINT_MAX
    BY JobManagerAssumption
  <2>6. /\ n \in Manager
        /\ n.state = m.state /\ n.priority = m.priority
        /\ n.alloc_queued = S
        /\ n.alloc_pending = {}
        /\ n.free_pending = {}
        /\ n.has_resources = m.has_resources
        /\ n.start_pending = m.start_pending
        /\ n.queue = q
        /\ n.ready = FALSE /\ n.topic = m.topic
        /\ n.alloc_pending_count = 0
        /\ n.running_jobs = m.running_jobs
    BY Zenon, <1>1, <2>2, <2>4, <2>5 DEF Manager
  <2> HIDE DEF n
  <2>7. FlagsOK(n)
    BY <2>6 DEF Core, CoreBut, FlagsOK, S
  <2>8. QueueOK(n)
    BY <2>3, <2>6 DEF QueueOK
  <2>9. CountsOK(n)
    BY <2>6, FS_EmptySet DEF Core, CoreBut, CountsOK, Running
  <2>10. \A k \in Jobs : Settled(n, k)
    BY <2>6 DEF Core, CoreBut, Settled, FlagsOK, cleanup_complete, S
  <2>11. CoreBut(n, {})
    BY SMTT(20), <2>6, <2>7, <2>8, <2>9, <2>10 DEF CoreBut
  <2>12. QED
    BY <2>1, <2>11, DrainCheck DEF Good, Core
<1>4. QED
  BY <1>2, <1>3

\* The end of an alloc request takes one from the count.
LEMMA AnsweredCore ==
    ASSUME NEW m, NEW j \in Jobs, Core(m), j \in m.alloc_pending
    PROVE  LET a == alloc_answered(m, j)
           IN  /\ CoreBut(a, {j}) /\ a.state = m.state
               /\ j \in Active(a)
               /\ j \notin a.alloc_queued \union a.alloc_pending
               /\ a.state[j] \in {"SCHED", "CLEANUP"}
<1> DEFINE a == alloc_answered(m, j)
           A == m.alloc_pending \ {j}
           c == decrement(m.alloc_pending_count)
<1>1. m \in Manager /\ CoreBut(m, {})
  BY DEF Core, CoreBut
<1>2. m.alloc_pending \subseteq Jobs /\ IsFiniteSet(m.alloc_pending)
  <2>1. m.alloc_pending \subseteq Jobs
    BY <1>1 DEF Manager
  <2>2. QED
    BY <2>1, JobManagerAssumption, JobQueueAssumption,
       FS_Subset
<1>3. /\ Cardinality(m.alloc_pending) \in Nat /\ Cardinality(A) \in Nat
      /\ Cardinality(A) = Cardinality(m.alloc_pending) - 1
  BY <1>2, RemoveOne
<1>4. c = Cardinality(A) /\ c \in 0..UINT_MAX
  <2>1. m.alloc_pending_count = Cardinality(m.alloc_pending)
        /\ m.alloc_pending_count \in 0..UINT_MAX
    BY <1>1 DEF CoreBut, CountsOK, Manager
  <2>2. QED
    BY <1>3, <2>1, JobManagerAssumption DEF decrement
<1>5. a = [m EXCEPT !.alloc_pending = A, !.alloc_pending_count = c]
  BY DEF alloc_answered
<1>6. A \in SUBSET Jobs
  BY <1>2
<1> HIDE DEF A, c
<1>7. /\ a \in Manager
      /\ a.state = m.state /\ a.priority = m.priority
      /\ a.alloc_queued = m.alloc_queued
      /\ a.alloc_pending = A
      /\ a.free_pending = m.free_pending
      /\ a.has_resources = m.has_resources
      /\ a.start_pending = m.start_pending
      /\ a.queue = m.queue
      /\ a.ready = m.ready /\ a.topic = m.topic
      /\ a.alloc_pending_count = c
      /\ a.running_jobs = m.running_jobs
  BY ZenonT(30), <1>1, <1>4, <1>5, <1>6 DEF Manager
<1> HIDE DEF a
<1>8. FlagsOK(a)
  BY <1>1, <1>7 DEF CoreBut, FlagsOK, A
<1>9. QueueOK(a)
  BY <1>1, <1>7 DEF CoreBut, QueueOK
<1>10. CountsOK(a)
  BY <1>1, <1>4, <1>7 DEF CoreBut, CountsOK, Running
<1>11. \A k \in Jobs \ {j} : Settled(a, k)
  BY <1>1, <1>7 DEF CoreBut, Settled, cleanup_complete, interrupted, A
<1>12. /\ j \notin a.alloc_queued \union a.alloc_pending
       /\ a.state[j] \in {"SCHED", "CLEANUP"}
  BY <1>1, <1>7 DEF CoreBut, FlagsOK, A
<1>13. j \in Active(a)
  BY <1>12 DEF Active
<1>14. QED
  BY SMTT(20), <1>7, <1>8, <1>9, <1>10, <1>11, <1>12, <1>13 DEF CoreBut, a

LEMMA AllocResponseGood ==
    ASSUME NEW m, NEW j \in Jobs, NEW type \in AllocTypes, Good(m),
           NEW q \in requeued(m)
    PROVE  Good(alloc_response(m, j, type, q))
<1> DEFINE a == alloc_answered(m, j)
           n == alloc_response(m, j, type, q)
<1>1. Core(m) /\ DrainOK(m)
  BY DEF Good
<1>2. CASE j \notin m.alloc_pending \/ type = "error"
  <2>1. n = alloc_teardown(m, q)
    BY <1>2 DEF alloc_response
  <2>2. QED
    BY <1>1, <2>1, TeardownGood
<1>3. CASE j \in m.alloc_pending /\ type # "error"
  <2>1. /\ CoreBut(a, {j}) /\ a.state = m.state /\ j \in Active(a)
        /\ j \notin a.alloc_queued \union a.alloc_pending
        /\ a.state[j] \in {"SCHED", "CLEANUP"}
    BY <1>1, <1>3, AnsweredCore
  <2>2. j \notin m.has_resources
    BY <1>1, <1>3 DEF Core, CoreBut, FlagsOK
  <2>3. CASE type = "success"
    <3>1. ~event_invalid(m.state[j], "alloc")
      BY <2>1 DEF event_invalid
    <3>2. n = event_job_post(a, j, "alloc")
      BY <1>3, <2>2, <2>3, <3>1 DEF alloc_response
    <3> HIDE DEF a
    <3>3. QED
      BY <2>1, <3>1, <3>2, PostCore DEF EventNames, Good
  <2>4. CASE type = "annotate"
    BY <1>3, <2>4 DEF alloc_response
  <2>5. CASE type = "deny"
    <3>1. ~event_invalid(m.state[j], "fatal")
      BY <2>1 DEF event_invalid
    <3>2. n = event_job_post(a, j, "fatal")
      BY <1>3, <2>5 DEF alloc_response
    <3> HIDE DEF a
    <3>3. QED
      BY <2>1, <3>1, <3>2, PostCore DEF EventNames, Good
  <2>6. CASE type = "cancel"
    <3>1. n = drain_check(event_job_action(a, j))
      BY <1>3, <2>6 DEF alloc_response
    <3> HIDE DEF a
    <3>2. Core(event_job_action(a, j))
      BY <2>1, ActionCore
    <3>3. QED
      BY <3>1, <3>2, DrainCheck DEF Good, Core
  <2>7. QED
    BY SMTT(20), <1>3, <2>3, <2>4, <2>5, <2>6 DEF AllocTypes
<1>4. QED
  BY <1>2, <1>3

LEMMA FreeResponseGood ==
    ASSUME NEW m, NEW j \in Jobs, NEW type \in FreeTypes, Good(m),
           NEW q \in requeued(m)
    PROVE  Good(free_response(m, j, type, q))
<1> DEFINE F == m.free_pending \ {j}
           c == decrement(m.free_pending_count)
           f == [m EXCEPT !.free_pending = F, !.free_pending_count = c]
           n == free_response(m, j, type, q)
<1>1. m \in Manager /\ CoreBut(m, {}) /\ Core(m) /\ DrainOK(m)
  BY DEF Good, Core, CoreBut
<1>2. CASE type = "error" \/ j \notin Active(m) \/ j \notin m.has_resources
  <2>1. n = alloc_teardown(m, q)
    BY <1>2 DEF free_response
  <2>2. QED
    BY <1>1, <2>1, TeardownGood
<1>3. CASE ~(type = "error" \/ j \notin Active(m)
             \/ j \notin m.has_resources)
  <2>1. n = IF event_invalid(m.state[j], "free") THEN alloc_teardown(f, q)
            ELSE event_job_post(f, j, "free")
    BY <1>3 DEF free_response
  <2>2. F \in SUBSET Jobs /\ c \in 0..UINT_MAX
    BY <1>1, JobManagerAssumption DEF Manager, decrement
  <2> HIDE DEF c, F
  <2>3. /\ f \in Manager
        /\ f.state = m.state /\ f.priority = m.priority
        /\ f.alloc_queued = m.alloc_queued
        /\ f.alloc_pending = m.alloc_pending
        /\ f.free_pending = F
        /\ f.has_resources = m.has_resources
        /\ f.start_pending = m.start_pending
        /\ f.queue = m.queue
        /\ f.ready = m.ready /\ f.topic = m.topic
        /\ f.alloc_pending_count = m.alloc_pending_count
        /\ f.running_jobs = m.running_jobs
        /\ f.drain_requests = m.drain_requests
        /\ f.idle_requests = m.idle_requests
    BY Zenon, <1>1, <2>2 DEF Manager
  <2> HIDE DEF f
  <2>4. FlagsOK(f)
    BY <1>1, <2>3 DEF CoreBut, FlagsOK, F
  <2>5. QueueOK(f)
    BY <1>1, <2>3 DEF CoreBut, QueueOK
  <2>6. CountsOK(f)
    BY SMTT(20), <1>1, <2>3 DEF CoreBut, CountsOK, Running
  <2>7. \A k \in Jobs \ {j} : Settled(f, k)
    BY SMTT(20), <1>1, <2>3 DEF CoreBut, Settled, cleanup_complete, interrupted, F
  <2>8. CoreBut(f, {j})
    BY SMTT(20), <2>3, <2>4, <2>5, <2>6, <2>7 DEF CoreBut
  <2>9. DrainOK(f) /\ j \in Active(f)
    BY <1>1, <1>3, <2>3 DEF DrainOK, Active, Running
  <2>10. CASE event_invalid(m.state[j], "free")
    <3>1. m.state[j] = "RUN"
      BY SMTT(20), <1>1, <1>3, <2>10 DEF CoreBut, FlagsOK, event_invalid
    <3>2. Settled(f, j)
      BY <2>3, <3>1 DEF Settled
    <3>3. Core(f)
      BY <2>8, <3>2 DEF Core, CoreBut
    <3>4. q \in requeued(f)
      BY Zenon, <2>3 DEF requeued
    <3>5. QED
      BY SMTT(20), <2>1, <2>9, <2>10, <3>3, <3>4, TeardownGood
  <2>11. CASE ~event_invalid(m.state[j], "free")
    <3>1. j \notin f.free_pending /\ ~event_invalid(f.state[j], "free")
      BY <2>3, <2>11 DEF F
    <3>2. QED
      BY <2>1, <2>8, <2>9, <2>11, <3>1, PostCore DEF EventNames, Good
  <2>12. QED
    BY <2>10, <2>11
<1>4. QED
  BY <1>2, <1>3

LEMMA ReadyGood ==
    ASSUME NEW m, NEW mode \in {"single", "unlimited"}, Good(m)
    PROVE  Good(sched_ready(m, mode))
<1> DEFINE I == interrupted(m)
           c == (m.free_pending_count + Cardinality(I)) % (UINT_MAX + 1)
           F == m.free_pending \union I
           M == m.out \union [op : {"free"}, id : I]
           n == sched_ready(m, mode)
<1>1. m \in Manager /\ CoreBut(m, {}) /\ DrainOK(m)
  BY DEF Good, Core, CoreBut
<1>2. I \subseteq Jobs /\ IsFiniteSet(I) /\ Cardinality(I) \in Nat
  <2>1. I \subseteq Jobs
    BY <1>1 DEF interrupted, Manager
  <2>2. QED
    BY <2>1, JobManagerAssumption, JobQueueAssumption,
       FS_Subset, FS_CardinalityType
<1>3. c \in 0..UINT_MAX
  <2>1. m.free_pending_count \in Nat /\ UINT_MAX \in Nat
    BY <1>1, JobManagerAssumption DEF Manager
  <2>2. m.free_pending_count + Cardinality(I) \in Nat
    BY <1>2, <2>1
  <2> HIDE DEF I
  <2>3. QED
    BY <2>1, <2>2
<1>4. F \in SUBSET Jobs /\ M \in SUBSET Message
  BY <1>1, <1>2 DEF Manager, Message
<1>5. n = [m EXCEPT !.out = M, !.mode = mode, !.ready = TRUE,
                    !.free_pending = F, !.free_pending_count = c]
  BY <1>1 DEF sched_ready, flux_send, Manager
<1> HIDE DEF c, F, M
<1>0. n \in Manager
  <2> DEFINE o == [m EXCEPT !.out = M, !.mode = mode, !.ready = TRUE]
  <2>1. m \in Manager
    BY <1>1
  <2>2. o \in Manager /\ n = [o EXCEPT !.free_pending = F,
                                       !.free_pending_count = c]
    BY Zenon, <1>4, <1>5, <2>1 DEF Manager
  <2> HIDE DEF o, n
  <2>3. QED
    BY Zenon, <1>3, <1>4, <2>2 DEF Manager
<1>6. /\ n.state = m.state /\ n.priority = m.priority
      /\ n.alloc_queued = m.alloc_queued
      /\ n.alloc_pending = m.alloc_pending
      /\ n.free_pending = F
      /\ n.has_resources = m.has_resources
      /\ n.start_pending = m.start_pending
      /\ n.queue = m.queue
      /\ n.ready = TRUE /\ n.topic = m.topic
      /\ n.alloc_pending_count = m.alloc_pending_count
      /\ n.running_jobs = m.running_jobs
      /\ n.drain_requests = m.drain_requests
      /\ n.idle_requests = m.idle_requests
  BY <1>1, <1>5 DEF Manager
<1> HIDE DEF n
<1>7. FlagsOK(n)
  BY <1>1, <1>6 DEF CoreBut, FlagsOK, F, interrupted
<1>8. QueueOK(n)
  BY SMTT(20), <1>1, <1>6 DEF CoreBut, QueueOK
<1>9. CountsOK(n)
  BY SMTT(20), <1>1, <1>6 DEF CoreBut, CountsOK, Running
<1>10. \A k \in Jobs : Settled(n, k)
  BY <1>1, <1>6 DEF CoreBut, Settled, cleanup_complete, interrupted, F
<1>11. DrainOK(n)
  BY SMTT(20), <1>1, <1>6 DEF DrainOK, Active, Running
<1>12. QED
  BY <1>0, <1>6, <1>7, <1>8, <1>9, <1>10, <1>11 DEF Good, Core, CoreBut, n

LEMMA AllocRequestGood ==
    ASSUME NEW m, Good(m), can_alloc(m)
    PROVE  Good(alloc_request(m))
<1> DEFINE j == Head(m.queue)
           q == Tail(m.queue)
           A == m.alloc_pending \union {j}
           c == increment(m.alloc_pending_count)
           M == m.out \union [op : {"alloc"}, id : {j}]
           n == alloc_request(m)
<1>1. m \in Manager /\ CoreBut(m, {}) /\ DrainOK(m) /\ m.queue \in Seq(Jobs)
  BY DEF Good, Core, CoreBut, Manager, JobList
<1>2. /\ Entries(m.queue) = m.alloc_queued /\ Distinct(m.queue)
      /\ Sorted(m.priority, m.queue) /\ m.queue # <<>>
  BY <1>1 DEF CoreBut, QueueOK, can_alloc
<1>3. /\ j \in Jobs /\ j \in m.alloc_queued
      /\ q \in Seq(Jobs) /\ Distinct(q)
      /\ Entries(q) = m.alloc_queued \ {j}
  BY <1>1, <1>2, TailEntries
<1>4. Sorted(m.priority, q)
  <2>1. /\ Len(q) = Len(m.queue) - 1 /\ Len(q) \in Nat
        /\ \A i \in 1..Len(q) : q[i] = m.queue[i + 1]
    BY <1>1, <1>2
  <2> HIDE DEF q
  <2>2. QED
    BY <1>2, <2>1 DEF Sorted
<1>5. n = [m EXCEPT !.out = M, !.queue = q, !.alloc_queued = @ \ {j},
                    !.alloc_pending = A, !.alloc_pending_count = c]
  BY <1>1 DEF alloc_request, flux_send, Manager
<1> HIDE DEF j
<1>6. /\ m.alloc_pending \subseteq Jobs /\ IsFiniteSet(m.alloc_pending)
      /\ j \notin m.alloc_pending /\ A \subseteq Jobs
  <2>1. m.alloc_pending \subseteq Jobs
    BY <1>1 DEF Manager
  <2>2. j \notin m.alloc_pending
    BY <1>1, <1>3 DEF CoreBut, FlagsOK
  <2>3. QED
    BY <1>3, <2>1, <2>2, JobManagerAssumption, JobQueueAssumption,
       FS_Subset
<1>7. c = Cardinality(A) /\ c \in 0..UINT_MAX
  <2>1. m.alloc_pending_count = Cardinality(m.alloc_pending)
    BY <1>1 DEF CoreBut, CountsOK
  <2>2. /\ Cardinality(A) = Cardinality(m.alloc_pending) + 1
        /\ Cardinality(m.alloc_pending) \in Nat
    BY <1>6, AddOne
  <2>3. Cardinality(A) <= Cardinality(Jobs) /\ Cardinality(Jobs) \in Nat
    BY <1>6, JobManagerAssumption, JobQueueAssumption,
       FS_Subset, FS_CardinalityType
  <2> HIDE DEF A
  <2>4. QED
    BY <2>1, <2>2, <2>3, JobManagerAssumption DEF increment
<1>8. /\ A \in SUBSET Jobs /\ M \in SUBSET Message /\ q \in JobList
      /\ m.alloc_queued \ {j} \in SUBSET Jobs
  <2>1. M \in SUBSET Message /\ m.alloc_queued \ {j} \in SUBSET Jobs
    BY <1>1, <1>3 DEF Manager, Message
  <2>2. QED
    BY <1>3, <1>6, <2>1 DEF JobList
<1> HIDE DEF q, A, c, M
<1>0. n \in Manager
  <2> DEFINE o == [m EXCEPT !.out = M, !.queue = q, !.alloc_queued = @ \ {j}]
  <2>1. m \in Manager
    BY <1>1
  <2>2. o \in Manager /\ n = [o EXCEPT !.alloc_pending = A,
                                       !.alloc_pending_count = c]
    BY ZenonT(30), <1>5, <1>8, <2>1 DEF Manager
  <2> HIDE DEF o, n
  <2>3. QED
    BY Zenon, <1>7, <1>8, <2>2 DEF Manager
<1>9. /\ n.state = m.state /\ n.priority = m.priority
      /\ n.alloc_queued = m.alloc_queued \ {j}
      /\ n.alloc_pending = A
      /\ n.free_pending = m.free_pending
      /\ n.has_resources = m.has_resources
      /\ n.start_pending = m.start_pending
      /\ n.queue = q
      /\ n.ready = m.ready /\ n.topic = m.topic
      /\ n.alloc_pending_count = c
      /\ n.running_jobs = m.running_jobs
      /\ n.drain_requests = m.drain_requests
      /\ n.idle_requests = m.idle_requests
  BY <1>1, <1>5 DEF Manager
<1> HIDE DEF n
<1>10. FlagsOK(n)
  BY <1>1, <1>3, <1>9 DEF CoreBut, FlagsOK, A, can_alloc
<1>11. QueueOK(n)
  BY <1>3, <1>4, <1>9 DEF QueueOK
<1>12. CountsOK(n)
  BY SMTT(20), <1>1, <1>7, <1>9 DEF CoreBut, CountsOK, Running
<1>13. \A k \in Jobs : Settled(n, k)
  BY <1>1, <1>9 DEF CoreBut, Settled, cleanup_complete, interrupted, A
<1>14. DrainOK(n)
  BY <1>1, <1>9 DEF DrainOK, Active, Running, A
<1>15. QED
  BY SMTT(20), <1>0, <1>9, <1>10, <1>11, <1>12, <1>13, <1>14 DEF Good, Core, CoreBut, n

LEMMA AdminGood ==
    ASSUME NEW m, NEW enable \in BOOLEAN, Good(m)
    PROVE  /\ Good(alloc_admin(m, enable))
           /\ Good([m EXCEPT !.submit_disable = ~@])
<1>1. m \in Manager /\ m.alloc_pending \subseteq Jobs
  BY DEF Good, Core, CoreBut, Manager
<1> DEFINE c == cancel_all_pending(m)
           M == m.out \union [op : {"cancel"}, id : m.alloc_pending]
<1>2. M \in SUBSET Message
  BY <1>1 DEF Manager, Message
<1>3. c = m \/ c = [m EXCEPT !.out = M]
  BY DEF cancel_all_pending, flux_send
<1> HIDE DEF M
<1>4. /\ c \in Manager /\ Relevant(c) = Relevant(m)
      /\ c.drain_requests = m.drain_requests
      /\ c.idle_requests = m.idle_requests
  BY <1>1, <1>2, <1>3 DEF Manager, Relevant
<1> HIDE DEF c
<1>5. ASSUME NEW o, o \in Manager, NEW b \in BOOLEAN
      PROVE  LET n == [o EXCEPT !.disable = b]
             IN  /\ n \in Manager /\ Relevant(n) = Relevant(o)
                 /\ n.drain_requests = o.drain_requests
                 /\ n.idle_requests = o.idle_requests
  BY <1>5 DEF Manager, Relevant
<1>6. Good(alloc_admin(m, enable))
  <2> DEFINE o == IF enable THEN m ELSE c
             n == [o EXCEPT !.disable = ~enable]
  <2>1. alloc_admin(m, enable) = n
    BY DEF alloc_admin, c
  <2>2. Good(o)
    BY <1>4, IrrelevantGood
  <2>3. o \in Manager
    BY <1>1, <1>4
  <2>4. (~enable) \in BOOLEAN
    OBVIOUS
  <2> HIDE DEF o
  <2>5. /\ n \in Manager /\ Relevant(n) = Relevant(o)
        /\ n.drain_requests = o.drain_requests
        /\ n.idle_requests = o.idle_requests
    BY Zenon, <1>5, <2>3, <2>4
  <2> HIDE DEF n
  <2>6. QED
    BY <2>1, <2>2, <2>5, IrrelevantGood
<1>7. Good([m EXCEPT !.submit_disable = ~@])
  <2> DEFINE n == [m EXCEPT !.submit_disable = ~@]
  <2>1. /\ n \in Manager /\ Relevant(n) = Relevant(m)
        /\ n.drain_requests = m.drain_requests
        /\ n.idle_requests = m.idle_requests
    BY ZenonT(30), <1>1 DEF Manager, Relevant
  <2> HIDE DEF n
  <2>2. Good(n)
    BY <2>1, IrrelevantGood
  <2>3. QED
    BY <2>2 DEF n
<1>8. QED
  BY <1>6, <1>7

LEMMA ExecHelloGood ==
    ASSUME NEW m, Good(m)
    PROVE  Good(exec_hello(m))
<1> DEFINE R == {j \in Jobs : m.state[j] = "RUN"} \ m.start_pending
           S == m.start_pending \union R
           M == m.out \union [op : {"start"}, id : R]
           n == exec_hello(m)
<1>1. m \in Manager /\ CoreBut(m, {}) /\ DrainOK(m)
  BY DEF Good, Core, CoreBut
<1>2. n = [m EXCEPT !.out = M, !.topic = TRUE, !.start_pending = S]
  BY <1>1 DEF exec_hello, flux_send, Manager
<1>3. S \in SUBSET Jobs /\ M \in SUBSET Message
  BY <1>1 DEF Manager, Message
<1>4. \A k \in Jobs : k \in S <=> k \in m.start_pending \/ m.state[k] = "RUN"
  OBVIOUS
<1> HIDE DEF S, M
<1>5. n \in Manager
  <2>1. m \in Manager
    BY <1>1
  <2>2. QED
    BY ZenonT(30), <1>2, <1>3, <2>1 DEF Manager
<1>6. /\ n.state = m.state /\ n.priority = m.priority
      /\ n.alloc_queued = m.alloc_queued
      /\ n.alloc_pending = m.alloc_pending
      /\ n.free_pending = m.free_pending
      /\ n.has_resources = m.has_resources
      /\ n.start_pending = S
      /\ n.queue = m.queue
      /\ n.ready = m.ready /\ n.topic = TRUE
      /\ n.alloc_pending_count = m.alloc_pending_count
      /\ n.running_jobs = m.running_jobs
      /\ n.drain_requests = m.drain_requests
      /\ n.idle_requests = m.idle_requests
  BY <1>1, <1>2 DEF Manager
<1> HIDE DEF n
<1>7. FlagsOK(n)
  BY <1>1, <1>3, <1>4, <1>6 DEF CoreBut, FlagsOK
<1>8. QueueOK(n)
  BY <1>1, <1>6 DEF CoreBut, QueueOK
<1>9. CountsOK(n)
  BY SMTT(20), <1>1, <1>6 DEF CoreBut, CountsOK, Running
<1>10. \A k \in Jobs : Settled(n, k)
  BY <1>1, <1>4, <1>6 DEF CoreBut, Settled, cleanup_complete, interrupted
<1>11. DrainOK(n)
  BY <1>1, <1>6 DEF DrainOK, Active, Running
<1>12. QED
  BY <1>5, <1>6, <1>7, <1>8, <1>9, <1>10, <1>11 DEF Good, Core, CoreBut, n

\* Start requests that end, for the jobs in J: settled if exec errors are
\* expected, and for the others in any case.
LEMMA StartEnds ==
    ASSUME NEW m, NEW J \in SUBSET Jobs, Good(m), NEW t \in BOOLEAN,
           ~t => m.start_pending \subseteq J, t => m.topic
    PROVE  LET n == [m EXCEPT !.topic = t, !.start_pending = @ \ J]
           IN  /\ n.state = m.state
               /\ CoreBut(n, J) /\ DrainOK(n)
               /\ ExecErrors => Core(n)
               /\ \A j \in Jobs : m.state[j] # "CLEANUP" => Settled(n, j)
<1> DEFINE S == m.start_pending \ J
           n == [m EXCEPT !.topic = t, !.start_pending = @ \ J]
<1>1. m \in Manager /\ CoreBut(m, {}) /\ DrainOK(m)
  BY DEF Good, Core, CoreBut
<1>2. S \in SUBSET Jobs
  BY <1>1 DEF Manager
<1>3. n = [m EXCEPT !.topic = t, !.start_pending = S]
  OBVIOUS
<1> HIDE DEF S
<1>4. n \in Manager
  <2>1. m \in Manager
    BY <1>1
  <2>2. QED
    BY Zenon, <1>2, <1>3, <2>1 DEF Manager
<1>5. /\ n.state = m.state /\ n.priority = m.priority
      /\ n.alloc_queued = m.alloc_queued
      /\ n.alloc_pending = m.alloc_pending
      /\ n.free_pending = m.free_pending
      /\ n.has_resources = m.has_resources
      /\ n.start_pending = S
      /\ n.queue = m.queue
      /\ n.ready = m.ready /\ n.topic = t
      /\ n.alloc_pending_count = m.alloc_pending_count
      /\ n.running_jobs = m.running_jobs
      /\ n.drain_requests = m.drain_requests
      /\ n.idle_requests = m.idle_requests
  BY ZenonT(30), <1>1, <1>3 DEF Manager
<1> HIDE DEF n
<1>6. FlagsOK(n)
  <2>1. FlagsOK(m)
    BY <1>1 DEF CoreBut
  <2>2. S \subseteq m.start_pending /\ (~t => S = {})
    BY SMTT(20) DEF S
  <2>3. QED
    BY <1>5, <2>1, <2>2 DEF FlagsOK
<1>7. QueueOK(n)
  BY SMTT(20), <1>1, <1>5 DEF CoreBut, QueueOK
<1>8. CountsOK(n)
  BY SMTT(20), <1>1, <1>5 DEF CoreBut, CountsOK, Running
<1>9. \A k \in Jobs : m.state[k] # "CLEANUP" \/ k \notin J \/ ExecErrors
                        => Settled(n, k)
  BY SMTT(20), <1>1, <1>5 DEF CoreBut, Settled, cleanup_complete, interrupted, S
<1>10. DrainOK(n)
  BY <1>1, <1>5 DEF DrainOK, Active, Running
<1>11. QED
  BY <1>4, <1>5, <1>6, <1>7, <1>8, <1>9, <1>10 DEF Core, CoreBut, n

LEMMA StartTeardownGood ==
    ASSUME NEW m, Good(m), ExecErrors
    PROVE  Good(start_teardown(m))
<1>1. m \in Manager /\ m.start_pending \in SUBSET Jobs
  BY DEF Good, Core, CoreBut, Manager
<1> DEFINE n == [m EXCEPT !.topic = FALSE,
                          !.start_pending = @ \ m.start_pending]
<1>2. start_teardown(m) = n
  BY Zenon DEF start_teardown
<1>3. CoreBut(n, m.start_pending) /\ DrainOK(n) /\ (ExecErrors => Core(n))
  BY Zenon, <1>1, StartEnds
<1>4. QED
  BY <1>2, <1>3 DEF Good

LEMMA StartResponseGood ==
    ASSUME NEW m, NEW j \in Jobs, NEW type \in StartTypes, Good(m), m.topic,
           j \in Active(m)
    PROVE  Good(start_response(m, j, type))
<1> DEFINE name == IF type = "release-final" THEN "release" ELSE type
           f == [m EXCEPT !.topic = TRUE, !.start_pending = @ \ {j}]
           r == IF type = "release-final"
                  THEN [m EXCEPT !.start_pending = @ \ {j}] ELSE m
           n == start_response(m, j, type)
<1>1. n = IF event_invalid(m.state[j], name) THEN r
          ELSE event_job_post(r, j, name)
  BY DEF start_response
<1>2. name \in EventNames /\ name \notin {"alloc", "free"}
  BY DEF StartTypes, EventNames
<1>3. m \in Manager /\ CoreBut(m, {}) /\ DrainOK(m) /\ m.topic \in BOOLEAN
  BY DEF Good, Core, CoreBut, Manager
<1>4. /\ CoreBut(r, {j}) /\ DrainOK(r) /\ r.state = m.state
      /\ event_invalid(m.state[j], name) => Settled(r, j)
  <2>1. CASE type = "release-final"
    <3>1. r = f
      BY Zenon, <1>3, <2>1 DEF Manager
    <3>2. /\ f.state = m.state /\ CoreBut(f, {j}) /\ DrainOK(f)
          /\ \A k \in Jobs : m.state[k] # "CLEANUP" => Settled(f, k)
      <4>1. {j} \in SUBSET Jobs /\ TRUE \in BOOLEAN
        OBVIOUS
      <4>2. QED
        BY <4>1, StartEnds, Zenon
    <3>3. event_invalid(m.state[j], name) => m.state[j] # "CLEANUP"
      BY <2>1 DEF event_invalid
    <3> HIDE DEF f, r, name
    <3>4. QED
      BY <3>1, <3>2, <3>3
  <2>2. CASE type # "release-final"
    <3>1. r = m
      BY <2>2
    <3> HIDE DEF r, name
    <3>2. QED
      BY <1>3, <3>1 DEF CoreBut
  <2>3. QED
    BY SMTT(20), <2>1, <2>2
<1> HIDE DEF r, name
<1>5. CASE event_invalid(m.state[j], name)
  BY SMTT(20), <1>1, <1>4, <1>5 DEF Good, Core, CoreBut
<1>6. CASE ~event_invalid(m.state[j], name)
  <2>1. j \in Active(r) /\ ~event_invalid(r.state[j], name)
    BY SMTT(20), <1>4, <1>6 DEF Active
  <2>2. QED
    BY SMTT(20), <1>1, <1>2, <1>4, <1>6, <2>1, PostCore DEF Good
<1>7. QED
  BY <1>5, <1>6

LEMMA RaiseGood ==
    ASSUME NEW m, NEW j \in Jobs, NEW name \in {"exception", "fatal"}, Good(m),
           j \in Active(m), ~event_invalid(m.state[j], name)
    PROVE  Good(event_job_post(m, j, name))
<1>1. CoreBut(m, {j}) /\ DrainOK(m)
  BY DEF Good, Core, CoreBut
<1>2. name \in EventNames /\ name \notin {"alloc", "free"}
  BY DEF EventNames
<1>3. QED
  BY <1>1, <1>2, PostCore DEF Good

-----------------------------------------------------------------------------
(* The reactor *)

LEMMA HandleGood ==
    ASSUME NEW m, Good(m), Handle(m)
    PROVE  Good(jm') /\ jm'.out = {}
<1> DEFINE n == [m EXCEPT !.out = {}]
<1>1. m \in Manager
  BY DEF Good, Core, CoreBut
<1>2. /\ n \in Manager /\ Relevant(n) = Relevant(m) /\ n.out = {}
      /\ n.drain_requests = m.drain_requests
      /\ n.idle_requests = m.idle_requests
  BY <1>1 DEF Manager, Relevant
<1> HIDE DEF n
<1>3. Good(n) /\ n.out = {}
  BY <1>2, IrrelevantGood
<1>4. jm' = n
  BY DEF Handle, n
<1>5. QED
  BY <1>3, <1>4

LEMMA InvariantGood == JobManagerInv <=> Good(jm) /\ jm.out = {}
<1>1. TypeOK <=> jm \in Manager /\ jm.out = {}
  BY DEF TypeOK
<1>2. QueueInOrder <=> QueueOK(jm)
  BY DEF QueueInOrder, QueueOK
<1>3. CountsAgree <=> CountsOK(jm)
  BY DEF CountsAgree, CountsOK
<1>4. NoMissedDrain <=> DrainOK(jm)
  BY DEF NoMissedDrain, DrainOK
<1>5. ASSUME jm \in Manager
      PROVE  /\ SchedAccounted
             /\ ResourcesAccounted
             /\ InterfacesUp
             /\ ~ExecErrors => CleanupWaits /\ CleanupFrees
             <=> FlagsOK(jm) /\ \A j \in Jobs : Settled(jm, j)
  <2>1. SchedAccounted /\ ResourcesAccounted /\ InterfacesUp
        <=> /\ FlagsOK(jm)
            /\ \A j \in Jobs : jm.state[j] = "SCHED" =>
                  j \in jm.alloc_queued \union jm.alloc_pending
    BY DEF SchedAccounted, ResourcesAccounted, InterfacesUp, FlagsOK
  <2>2. interrupted(jm) \subseteq {j \in Jobs : jm.state[j] = "CLEANUP"}
    BY <1>5 DEF interrupted, Manager
  <2>3. CleanupWaits /\ CleanupFrees <=>
          (\A j \in Jobs : jm.state[j] = "CLEANUP" =>
             ~cleanup_complete(jm, j) /\ (jm.ready => j \notin interrupted(jm)))
    BY <2>2 DEF CleanupWaits, CleanupFrees
  <2>4. QED
    BY <2>1, <2>3 DEF Settled
<1>6. Good(jm) <=> /\ jm \in Manager /\ FlagsOK(jm) /\ QueueOK(jm)
                   /\ CountsOK(jm) /\ DrainOK(jm)
                   /\ \A j \in Jobs : Settled(jm, j)
  BY DEF Good, Core, CoreBut
<1>7. QED
  BY <1>1, <1>2, <1>3, <1>4, <1>5, <1>6, Zenon DEF JobManagerInv

LEMMA InitGood == Init => Good(jm) /\ jm.out = {}
<1> SUFFICES ASSUME Init PROVE Good(jm) /\ jm.out = {}
  OBVIOUS
<1>1. jm = InitManager
  BY DEF Init
<1>2. InitManager \in Manager
  <2>1. <<>> \in JobList
    BY DEF JobList
  <2>2. 0 \in 0..UINT_MAX
    BY JobManagerAssumption
  <2>3. QED
    BY <2>1, <2>2 DEF InitManager, Manager, States, FLUX_JOB_PRIORITY_DEFAULT
<1>3. /\ \A j \in Jobs : jm.state[j] = "none"
      /\ jm.alloc_queued = {} /\ jm.alloc_pending = {}
      /\ jm.free_pending = {} /\ jm.has_resources = {}
      /\ jm.start_pending = {} /\ jm.queue = <<>>
      /\ jm.alloc_pending_count = 0 /\ jm.running_jobs = 0
      /\ jm.drain_requests = 0 /\ jm.idle_requests = 0 /\ jm.out = {}
  BY <1>1 DEF InitManager
<1>4. FlagsOK(jm)
  BY <1>3 DEF FlagsOK
<1>5. QueueOK(jm)
  BY <1>3 DEF QueueOK, Entries, Distinct, Sorted
<1>6. CountsOK(jm)
  <2>1. Running(jm) = {}
    BY <1>3 DEF Running
  <2>2. QED
    BY <1>3, <2>1, FS_EmptySet DEF CountsOK
<1>7. \A j \in Jobs : Settled(jm, j)
  BY <1>3 DEF Settled
<1>8. DrainOK(jm)
  BY <1>3 DEF DrainOK
<1>9. QED
  BY <1>1, <1>2, <1>3, <1>4, <1>5, <1>6, <1>7, <1>8 DEF Good, Core, CoreBut

LEMMA JobStepGood ==
    ASSUME Good(jm), NEW j \in Jobs, JobStep(j)
    PROVE  Good(jm') /\ jm'.out = {}
<1>1. CASE \E p \in Priorities : submit_cb(j, p)
  <2>1. PICK p \in Priorities : submit_cb(j, p)
    BY <1>1
  <2>2. p \in Int
    BY JobManagerAssumption
  <2>3. QED
    BY <2>1, <2>2, SubmitGood, HandleGood DEF submit_cb
<1>2. CASE \E p \in Priorities : priority_cb(j, p)
  <2>1. PICK p \in Priorities : priority_cb(j, p)
    BY <1>2
  <2>2. p \in Int
    BY JobManagerAssumption
  <2>3. QED
    BY <2>1, <2>2, PriorityGood, HandleGood DEF priority_cb
<1>3. CASE \E name \in {"exception", "fatal"} : raise_job(j, name)
  BY <1>3, RaiseGood, HandleGood DEF raise_job
<1>4. CASE \E type \in AllocTypes : alloc_response_cb(j, type)
  BY <1>4, AllocResponseGood, HandleGood DEF alloc_response_cb
<1>5. CASE \E type \in FreeTypes : free_response_cb(j, type)
  BY <1>5, FreeResponseGood, HandleGood DEF free_response_cb
<1>6. CASE \E type \in StartTypes : start_response_cb(j, type)
  BY <1>6, StartResponseGood, HandleGood DEF start_response_cb
<1>7. QED
  BY SMTT(20), <1>1, <1>2, <1>3, <1>4, <1>5, <1>6 DEF JobStep

LEMMA NextGood ==
    ASSUME Good(jm), jm.out = {}, [Next]_jm
    PROVE  Good(jm') /\ jm'.out = {}
<1>1. CASE \E j \in Jobs : JobStep(j)
  BY <1>1, JobStepGood
<1>2. CASE submit_admin_cb
  <2>1. Good([jm EXCEPT !.submit_disable = ~@])
    BY Zenon, AdminGood
  <2>2. QED
    BY <1>2, <2>1, HandleGood DEF submit_admin_cb
<1>3. CASE drain_cb \/ idle_cb
  BY <1>3, DrainRequestGood, HandleGood DEF drain_cb, idle_cb
<1>4. CASE \E mode \in {"single", "unlimited"} : ready_cb(mode)
  BY <1>4, ReadyGood, HandleGood DEF ready_cb
<1>5. CASE check_cb
  BY <1>5, AllocRequestGood, HandleGood DEF check_cb
<1>6. CASE \E enable \in BOOLEAN : alloc_admin_cb(enable)
  BY Zenon, <1>6, AdminGood, HandleGood DEF alloc_admin_cb
<1>7. CASE exec_hello_cb
  BY <1>7, ExecHelloGood, HandleGood DEF exec_hello_cb
<1>8. CASE start_error_cb
  BY <1>8, StartTeardownGood, HandleGood DEF start_error_cb
<1>9. CASE UNCHANGED jm
  BY <1>9
<1>10. QED
  BY SMTT(20), <1>1, <1>2, <1>3, <1>4, <1>5, <1>6, <1>7, <1>8, <1>9 DEF Next

\* Whatever users, the scheduler and the exec service send, and in any order:
\* the flags, the queue and the counters of the job-manager agree with the
\* states of its jobs after each handler.
THEOREM ManagerInvariant == Spec => []JobManagerInv
<1>1. Init => JobManagerInv
  BY InitGood, InvariantGood
<1>2. JobManagerInv /\ [Next]_jm => JobManagerInv'
  <2> SUFFICES ASSUME JobManagerInv, [Next]_jm PROVE JobManagerInv'
    OBVIOUS
  <2>1. Good(jm) /\ jm.out = {}
    BY InvariantGood
  <2>2. Good(jm') /\ jm'.out = {}
    BY <2>1, NextGood
  <2>3. (JobManagerInv <=> Good(jm) /\ jm.out = {})'
    BY InvariantGood, PTL
  <2>4. Good(jm)' <=> Good(jm')
    OBVIOUS
  <2>5. QED
    BY <2>2, <2>3, <2>4
<1>3. QED
  BY <1>1, <1>2, PTL DEF Spec

\* The parts of the invariant, each as a property of the job-manager.

THEOREM ManagerTypes == Spec => []TypeOK
<1>1. JobManagerInv => TypeOK
  BY DEF JobManagerInv
<1>2. QED
  BY <1>1, ManagerInvariant, PTL

\* No job in SCHED is lost between the queue and the scheduler.
THEOREM ManagerSched == Spec => []SchedAccounted
<1>1. JobManagerInv => SchedAccounted
  BY DEF JobManagerInv
<1>2. QED
  BY <1>1, ManagerInvariant, PTL

\* Resources are held by running jobs and by jobs in CLEANUP only, and no job
\* is INACTIVE while it holds some.
THEOREM ManagerResources == Spec => []ResourcesAccounted
<1>1. JobManagerInv => ResourcesAccounted
  BY DEF JobManagerInv
<1>2. QED
  BY <1>1, ManagerInvariant, PTL

\* The alloc queue is the set of queued jobs in priority order.
THEOREM ManagerQueue == Spec => []QueueInOrder
<1>1. JobManagerInv => QueueInOrder
  BY DEF JobManagerInv
<1>2. QED
  BY <1>1, ManagerInvariant, PTL

\* alloc_pending_count and running_jobs agree with the jobs.
THEOREM ManagerCounts == Spec => []CountsAgree
<1>1. JobManagerInv => CountsAgree
  BY DEF JobManagerInv
<1>2. QED
  BY <1>1, ManagerInvariant, PTL

\* drain and idle requests never miss their wakeup.
THEOREM ManagerDrain == Spec => []NoMissedDrain
<1>1. JobManagerInv => NoMissedDrain
  BY DEF JobManagerInv
<1>2. QED
  BY <1>1, ManagerInvariant, PTL

\* Requests are pending only at an interface that is up.
THEOREM ManagerInterfaces == Spec => []InterfacesUp
<1>1. JobManagerInv => InterfacesUp
  BY DEF JobManagerInv
<1>2. QED
  BY <1>1, ManagerInvariant, PTL

\* If the exec service never answers with an error, no job is left in CLEANUP
\* with nothing to wait for.
THEOREM ManagerCleanup == Spec => [](~ExecErrors => CleanupWaits)
<1>1. JobManagerInv => (~ExecErrors => CleanupWaits)
  BY DEF JobManagerInv
<1>2. QED
  BY <1>1, ManagerInvariant, PTL

\* If the exec service never answers with an error, no job in CLEANUP keeps
\* resources that nothing will free.
THEOREM ManagerFrees == Spec => [](~ExecErrors => CleanupFrees)
<1>1. JobManagerInv => (~ExecErrors => CleanupFrees)
  BY DEF JobManagerInv
<1>2. QED
  BY <1>1, ManagerInvariant, PTL

=============================================================================
