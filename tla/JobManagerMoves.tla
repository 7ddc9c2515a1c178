-------------------------- MODULE JobManagerMoves ---------------------------
(***************************************************************************)
(* Proof that jobs move forward.  Only their states and resources matter.  *)
(***************************************************************************)
EXTENDS JobManagerProofs

Shape(m) ==
    /\ {"state", "has_resources"} \subseteq DOMAIN m
    /\ m.state \in [Jobs -> States]

Same(m, n) ==
    /\ Shape(n) /\ n.state = m.state /\ n.has_resources = m.has_resources

Forward(m, n) ==
    /\ Shape(n)
    /\ \A k \in Jobs : StateRank(m.state[k]) <= StateRank(n.state[k])
    /\ m.has_resources \subseteq n.has_resources

LEMMA RankNat == \A s : StateRank(s) \in Nat
BY DEF StateRank

LEMMA ForwardTrans ==
    ASSUME NEW m, NEW n, NEW o, Forward(m, n), Forward(n, o)
    PROVE  Forward(m, o)
<1>1. \A k \in Jobs : StateRank(m.state[k]) <= StateRank(o.state[k])
  BY RankNat DEF Forward
<1>2. QED
  BY <1>1 DEF Forward

LEMMA SameForward ==
    ASSUME NEW m, NEW n, Same(m, n)
    PROVE  Forward(m, n)
BY RankNat DEF Same, Forward

LEMMA RequestsSame ==
    ASSUME NEW m, NEW j, NEW op, NEW J, Shape(m)
    PROVE  /\ Same(m, flux_send(m, op, J))
           /\ Same(m, drain_check(m))
           /\ Same(m, alloc_enqueue_alloc_request(m, j))
           /\ Same(m, alloc_dequeue_alloc_request(m, j))
           /\ Same(m, alloc_cancel_alloc_request(m, j))
           /\ Same(m, alloc_send_free_request(m, j))
           /\ Same(m, start_send_request(m, j))
           /\ Same(m, alloc_queue_reorder(m, j))
<1>1. \A K, o : Same(m, flux_send(m, o, K))
  BY DEF Same, Shape, flux_send
<1>2. Same(m, drain_check(m))
  BY DEF Same, Shape, drain_check
<1>3. Same(m, alloc_enqueue_alloc_request(m, j))
  BY DEF Same, Shape, alloc_enqueue_alloc_request
<1>4. Same(m, alloc_dequeue_alloc_request(m, j))
  BY DEF Same, Shape, alloc_dequeue_alloc_request
<1>5. Same(m, alloc_cancel_alloc_request(m, j))
  BY <1>1 DEF alloc_cancel_alloc_request, Same
<1>6. Same(m, alloc_send_free_request(m, j))
  BY <1>1 DEF alloc_send_free_request, Same, Shape
<1>7. Same(m, start_send_request(m, j))
  BY <1>1 DEF start_send_request, Same, Shape
<1>8. Same(m, alloc_queue_reorder(m, j))
  BY DEF Same, Shape, alloc_queue_reorder
<1>9. QED
  BY <1>1, <1>2, <1>3, <1>4, <1>5, <1>6, <1>7, <1>8

LEMMA CleanupSame ==
    ASSUME NEW m, NEW j, Shape(m)
    PROVE  Same(m, cleanup_requests(m, j))
<1> DEFINE a == alloc_cancel_alloc_request(m, j)
           c == alloc_dequeue_alloc_request(a, j)
           f == alloc_send_free_request(c, j)
<1>1. Same(m, a)
  BY RequestsSame
<1>2. Same(a, c)
  BY <1>1, RequestsSame DEF Same
<1>3. Same(c, f)
  BY SMTT(20), <1>2, RequestsSame DEF Same
<1>4. cleanup_requests(m, j) \in {c, f}
  BY SMTT(20) DEF cleanup_requests
<1> HIDE DEF a, c, f
<1>5. QED
  BY <1>1, <1>2, <1>3, <1>4 DEF Same

\* An event that event_job_update accepts.
LEMMA RecordForward ==
    ASSUME NEW m, NEW j \in Jobs, Shape(m),
           NEW name \in EventNames \union {"depend", "clean"},
           ~event_invalid(m.state[j], name), m.state[j] # "INACTIVE"
    PROVE  LET n == event_job_record(m, j, name)
           IN  /\ Shape(n)
               /\ \A k \in Jobs :
                     StateRank(m.state[k]) <= StateRank(n.state[k])
               /\ m.has_resources \ {j} \subseteq n.has_resources
               /\ name # "free" => m.has_resources \subseteq n.has_resources
<1> DEFINE s == event_job_state(m.state[j], name)
           u == event_job_update(m, j, name)
           n == event_job_record(m, j, name)
<1>1. s \in States /\ StateRank(m.state[j]) <= StateRank(s)
  BY DEF Shape, States, EventNames, event_job_state, event_invalid, StateRank
<1>2. /\ Shape(u) /\ u.state = [m.state EXCEPT ![j] = s]
      /\ m.has_resources \ {j} \subseteq u.has_resources
      /\ name # "free" => m.has_resources \subseteq u.has_resources
  <2> HIDE DEF s
  <2>1. QED
    BY <1>1 DEF event_job_update, Shape, s
<1>3. Same(u, n)
  <2> HIDE DEF u
  <2>1. QED
    BY SMTT(20), <1>2 DEF event_job_record, Same, Shape, u
<1> HIDE DEF s, u, n
<1>4. \A k \in Jobs : StateRank(m.state[k]) <= StateRank(n.state[k])
  BY SMTT(20), <1>1, <1>2, <1>3, RankNat DEF Same, Shape
<1>5. QED
  BY <1>2, <1>3, <1>4 DEF Same, n

LEMMA ActionForward ==
    ASSUME NEW m, NEW j \in Jobs, Shape(m)
    PROVE  Forward(m, event_job_action(m, j))
<1>1. CASE m.state[j] = "DEPEND"
  <2> DEFINE e == event_job_record(m, j, "depend")
  <2>1. Forward(m, e)
    BY <1>1, RecordForward DEF EventNames, event_invalid, Forward
  <2>2. Same(e, alloc_enqueue_alloc_request(e, j))
    BY <2>1, RequestsSame DEF Forward
  <2>3. event_job_action(m, j) = alloc_enqueue_alloc_request(e, j)
    BY <1>1 DEF event_job_action
  <2>4. QED
    BY SMTT(20), <2>1, <2>2, <2>3, SameForward, ForwardTrans
<1>2. CASE m.state[j] = "CLEANUP"
  <2> DEFINE c == cleanup_requests(m, j)
             e == event_job_record(c, j, "clean")
  <2>1. Same(m, c)
    BY CleanupSame
  <2>2. Forward(c, e)
    BY SMTT(20), <1>2, <2>1, RecordForward DEF EventNames, event_invalid, Forward, Same
  <2>3. Same(e, drain_check(e))
    BY <2>2, RequestsSame DEF Forward
  <2>4. event_job_action(m, j) \in {c, drain_check(e)}
    BY <1>2 DEF event_job_action, cleanup_action
  <2> HIDE DEF c, e
  <2>5. QED
    BY <2>1, <2>2, <2>3, <2>4, SameForward, ForwardTrans
<1>3. CASE m.state[j] \notin {"DEPEND", "CLEANUP"}
  <2>1. event_job_action(m, j) \in
          {m, alloc_enqueue_alloc_request(m, j), start_send_request(m, j),
           drain_check(m)}
    BY SMTT(20), <1>3 DEF event_job_action
  <2>2. QED
    BY <2>1, RequestsSame, SameForward DEF Same
<1>4. QED
  BY <1>1, <1>2, <1>3

LEMMA PostForward ==
    ASSUME NEW m, NEW j \in Jobs, Shape(m), NEW name \in EventNames \ {"free"},
           ~event_invalid(m.state[j], name), m.state[j] # "INACTIVE"
    PROVE  Forward(m, event_job_post(m, j, name))
<1>1. Forward(m, event_job_record(m, j, name))
  BY RecordForward DEF Forward
<1>2. QED
  BY Zenon, <1>1, ActionForward, ForwardTrans DEF event_job_post, Forward

-----------------------------------------------------------------------------
(* Each handler moves jobs forward. *)

LEMMA UsersForward ==
    ASSUME NEW m, NEW j \in Jobs, Shape(m), NEW p
    PROVE  /\ m.state[j] = "none" => Forward(m, submit_job(m, j, p))
           /\ j \in Active(m) => Forward(m, priority_handle_request(m, j, p))
<1> DEFINE a == [m EXCEPT !.priority[j] = p]
<1>1. Same(m, a)
  BY DEF Same, Shape
<1>2. ASSUME m.state[j] = "none"
      PROVE  Forward(m, submit_job(m, j, p))
  <2> DEFINE u == event_job_update(a, j, "submit")
  <2> HIDE DEF a
  <2>1. event_job_state(a.state[j], "submit") = "DEPEND"
    BY DEF event_job_state
  <2>2. /\ Shape(u) /\ u.state = [a.state EXCEPT ![j] = "DEPEND"]
        /\ u.has_resources = a.has_resources
    BY <1>1, <2>1 DEF Same, Shape, event_job_update, States
  <2>3. StateRank("none") <= StateRank("DEPEND")
    BY DEF StateRank
  <2> HIDE DEF u
  <2>4. Forward(m, u)
    BY <1>1, <1>2, <2>2, <2>3, RankNat DEF Same, Shape, Forward
  <2>5. QED
    BY <2>2, <2>4, ActionForward, ForwardTrans DEF submit_job, u, a
<1>3. ASSUME j \in Active(m)
      PROVE  Forward(m, priority_handle_request(m, j, p))
  <2> DEFINE e == event_job_post(a, j, "priority")
  <2>1. priority_handle_request(m, j, p) \in {m, alloc_queue_reorder(e, j)}
    BY DEF priority_handle_request
  <2> HIDE DEF a
  <2>2. Forward(a, e)
    BY SMTT(20), <1>1, <1>3, PostForward DEF EventNames, event_invalid, Same, Active
  <2>3. Same(e, alloc_queue_reorder(e, j))
    BY <2>2, RequestsSame DEF Forward
  <2> HIDE DEF e
  <2>4. Same(m, m)
    BY DEF Same
  <2>5. QED
    BY <1>1, <2>1, <2>2, <2>3, <2>4, SameForward, ForwardTrans
<1>4. QED
  BY <1>2, <1>3

LEMMA DrainForward ==
    ASSUME NEW m, Shape(m)
    PROVE  /\ Forward(m, drain_request(m)) /\ Forward(m, idle_request(m))
           /\ Forward(m, [m EXCEPT !.submit_disable = ~@])
<1> DEFINE d == [m EXCEPT !.drain_requests = @ + 1]
           i == [m EXCEPT !.idle_requests = @ + 1]
<1>1. Same(m, d) /\ Same(m, i) /\ Same(m, [m EXCEPT !.submit_disable = ~@])
  BY DEF Same, Shape
<1>2. drain_request(m) = drain_check(d) /\ idle_request(m) = drain_check(i)
  BY DEF drain_request, idle_request
<1> HIDE DEF d, i
<1>3. Same(d, drain_check(d)) /\ Same(i, drain_check(i))
  BY <1>1, RequestsSame DEF Same
<1>4. QED
  BY <1>1, <1>2, <1>3, SameForward, ForwardTrans

LEMMA TeardownForward ==
    ASSUME NEW m, NEW q, Shape(m)
    PROVE  Same(m, alloc_teardown(m, q))
<1> DEFINE t == [m EXCEPT
             !.queue = q,
             !.alloc_queued = @ \union m.alloc_pending,
             !.alloc_pending = {}, !.free_pending = {},
             !.ready = FALSE,
             !.alloc_pending_count = 0, !.free_pending_count = 0]
<1>1. Same(m, t)
  BY DEF Same, Shape
<1>2. alloc_teardown(m, q) \in {m, drain_check(t)}
  BY DEF alloc_teardown
<1> HIDE DEF t
<1>3. Same(t, drain_check(t))
  BY SMTT(20), <1>1, RequestsSame DEF Same
<1>4. QED
  BY <1>1, <1>2, <1>3 DEF Same

LEMMA AllocResponseForward ==
    ASSUME NEW m, NEW j \in Jobs, NEW type, NEW q, Good(m), Shape(m)
    PROVE  Forward(m, alloc_response(m, j, type, q))
<1> DEFINE a == alloc_answered(m, j)
           n == alloc_response(m, j, type, q)
<1> SUFFICES Forward(m, n)
  OBVIOUS
<1>1. Same(m, a)
  BY DEF Same, Shape, alloc_answered
<1>2. /\ Same(m, alloc_teardown(m, q)) /\ Same(a, alloc_teardown(a, q))
      /\ Same(m, m)
  BY <1>1, TeardownForward DEF Same
<1>3. \/ n \in {m, alloc_teardown(m, q), alloc_teardown(a, q)}
      \/ ~event_invalid(m.state[j], "alloc") /\ n = event_job_post(a, j, "alloc")
      \/ j \in m.alloc_pending /\ n = event_job_post(a, j, "fatal")
      \/ n = drain_check(event_job_action(a, j))
  BY DEF alloc_response
<1> HIDE DEF a, n
<1>4. CASE n \in {m, alloc_teardown(m, q), alloc_teardown(a, q)}
  BY <1>1, <1>2, <1>4, SameForward, ForwardTrans
<1>5. CASE ~event_invalid(m.state[j], "alloc") /\ n = event_job_post(a, j, "alloc")
  <2>1. a.state[j] # "INACTIVE" /\ ~event_invalid(a.state[j], "alloc") /\ Shape(a)
    BY <1>1, <1>5 DEF Same, event_invalid
  <2>2. Forward(a, n)
    BY <1>5, <2>1, PostForward DEF EventNames
  <2>3. QED
    BY SMTT(20), <1>1, <2>2, SameForward, ForwardTrans
<1>6. CASE j \in m.alloc_pending /\ n = event_job_post(a, j, "fatal")
  <2>1. a.state[j] \in {"SCHED", "CLEANUP"} /\ Shape(a)
    BY <1>1, <1>6 DEF Same, Good, Core, CoreBut, FlagsOK
  <2>2. Forward(a, n)
    BY <1>6, <2>1, PostForward DEF EventNames, event_invalid
  <2>3. QED
    BY SMTT(20), <1>1, <2>2, SameForward, ForwardTrans
<1>7. CASE n = drain_check(event_job_action(a, j))
  <2> DEFINE e == event_job_action(a, j)
  <2>1. Forward(a, e)
    BY SMTT(20), <1>1, ActionForward DEF Same
  <2>2. Same(e, n)
    BY <1>7, <2>1, RequestsSame DEF Forward
  <2> HIDE DEF e
  <2>3. QED
    BY <1>1, <2>1, <2>2, SameForward, ForwardTrans
<1>8. QED
  BY <1>3, <1>4, <1>5, <1>6, <1>7

LEMMA ServicesForward ==
    ASSUME NEW m, NEW mode, NEW enable, Shape(m)
    PROVE  /\ Forward(m, sched_ready(m, mode))
           /\ Forward(m, alloc_request(m))
           /\ Forward(m, alloc_admin(m, enable))
           /\ Forward(m, exec_hello(m))
           /\ Forward(m, start_teardown(m))
<1>1. \A J, op : Same(m, flux_send(m, op, J))
  BY RequestsSame
<1>2. Same(m, sched_ready(m, mode))
  BY <1>1 DEF Same, Shape, sched_ready
<1>3. Same(m, alloc_request(m))
  BY <1>1 DEF Same, Shape, alloc_request
<1>4. Same(m, cancel_all_pending(m))
  BY <1>1 DEF cancel_all_pending, Same
<1>5. Same(m, alloc_admin(m, enable))
  BY <1>4 DEF Same, Shape, alloc_admin
<1>6. Same(m, exec_hello(m))
  BY <1>1 DEF Same, Shape, exec_hello
<1>7. Same(m, start_teardown(m))
  BY DEF Same, Shape, start_teardown
<1>8. QED
  BY <1>2, <1>3, <1>5, <1>6, <1>7, SameForward

LEMMA StartResponseForward ==
    ASSUME NEW m, NEW j \in Jobs, NEW type \in StartTypes, Shape(m),
           j \in Active(m)
    PROVE  Forward(m, start_response(m, j, type))
<1> DEFINE name == IF type = "release-final" THEN "release" ELSE type
           r == IF type = "release-final"
                  THEN [m EXCEPT !.start_pending = @ \ {j}] ELSE m
<1>1. Same(m, r)
  BY DEF Same, Shape
<1>2. name \in EventNames \ {"free"}
  BY DEF StartTypes, EventNames
<1>3. start_response(m, j, type) = IF event_invalid(m.state[j], name) THEN r
                                   ELSE event_job_post(r, j, name)
  BY DEF start_response
<1> HIDE DEF name, r
<1>4. r.state[j] # "INACTIVE" /\ Shape(r) /\ r.state[j] = m.state[j]
  BY <1>1 DEF Same, Active
<1>5. CASE event_invalid(m.state[j], name)
  BY <1>1, <1>3, <1>5, SameForward
<1>6. CASE ~event_invalid(m.state[j], name)
  <2>1. Forward(r, event_job_post(r, j, name))
    BY SMTT(20), <1>2, <1>4, <1>6, PostForward
  <2>2. QED
    BY SMTT(20), <1>1, <1>3, <1>6, <2>1, SameForward, ForwardTrans
<1>7. QED
  BY <1>5, <1>6

\* Only the answer to a free request takes resources, of a job in CLEANUP.
LEMMA FreeResponseForward ==
    ASSUME NEW m, NEW j \in Jobs, NEW type, NEW q, Shape(m)
    PROVE  LET n == free_response(m, j, type, q)
           IN  /\ Shape(n)
               /\ \A k \in Jobs :
                     /\ StateRank(m.state[k]) <= StateRank(n.state[k])
                     /\ k \in m.has_resources \ n.has_resources =>
                          m.state[k] = "CLEANUP"
<1> DEFINE f == [m EXCEPT !.free_pending = @ \ {j},
                          !.free_pending_count = decrement(@)]
           n == free_response(m, j, type, q)
<1>1. Same(m, f)
  BY DEF Same, Shape
<1>2. \/ n \in {alloc_teardown(m, q), alloc_teardown(f, q)}
      \/ ~event_invalid(m.state[j], "free") /\ n = event_job_post(f, j, "free")
  BY DEF free_response
<1> HIDE DEF f, n
<1>3. CASE n \in {alloc_teardown(m, q), alloc_teardown(f, q)}
  <2>1. Same(m, alloc_teardown(m, q)) /\ Same(f, alloc_teardown(f, q))
    BY <1>1, TeardownForward DEF Same
  <2>2. Forward(m, n)
    BY SMTT(20), <1>1, <1>3, <2>1, SameForward, ForwardTrans
  <2>3. QED
    BY <2>2 DEF Forward, n
<1>4. CASE ~event_invalid(m.state[j], "free") /\ n = event_job_post(f, j, "free")
  <2> DEFINE e == event_job_record(f, j, "free")
  <2>1. m.state[j] = "CLEANUP" /\ f.state = m.state /\ Shape(f)
        /\ f.has_resources = m.has_resources
    BY <1>1, <1>4 DEF event_invalid, Same
  <2>2. /\ Shape(e)
        /\ \A k \in Jobs : StateRank(f.state[k]) <= StateRank(e.state[k])
        /\ f.has_resources \ {j} \subseteq e.has_resources
    BY <2>1, RecordForward DEF EventNames, event_invalid
  <2>3. Forward(e, n)
    BY <1>4, <2>2, ActionForward DEF event_job_post
  <2> HIDE DEF e
  <2>4. \A k \in Jobs : StateRank(m.state[k]) <= StateRank(n.state[k])
    BY <2>1, <2>2, <2>3, RankNat DEF Forward
  <2>5. m.has_resources \ {j} \subseteq n.has_resources /\ Shape(n)
    BY <2>1, <2>2, <2>3 DEF Forward
  <2>6. QED
    BY <2>1, <2>4, <2>5 DEF n
<1>5. QED
  BY <1>2, <1>3, <1>4

\* A handler's state after its messages have left.
MovedTo(n) ==
    \A k \in Jobs :
       /\ StateRank(jm.state[k]) <= StateRank(n.state[k])
       /\ k \in jm.has_resources \ n.has_resources => jm.state[k] = "CLEANUP"

LEMMA HandleMoves ==
    ASSUME NEW n, Shape(n), MovedTo(n) \/ Forward(jm, n), Handle(n)
    PROVE  MovedTo(jm')
<1>1. Same(n, jm')
  BY DEF Handle, Same, Shape
<1>2. QED
  BY <1>1 DEF Same, Forward, MovedTo

LEMMA JobStepMoves ==
    ASSUME Good(jm), Shape(jm), NEW j \in Jobs, JobStep(j)
    PROVE  MovedTo(jm')
<1> USE DEF Forward
<1>1. CASE \E p \in Priorities : submit_cb(j, p)
  BY SMTT(20), <1>1, UsersForward, HandleMoves DEF submit_cb
<1>2. CASE \E p \in Priorities : priority_cb(j, p)
  BY SMTT(20), <1>2, UsersForward, HandleMoves DEF priority_cb
<1>3. CASE \E name \in {"exception", "fatal"} : raise_job(j, name)
  <2>1. PICK name \in {"exception", "fatal"} : raise_job(j, name)
    BY <1>3
  <2>2. /\ name \in EventNames \ {"free"} /\ jm.state[j] # "INACTIVE"
        /\ ~event_invalid(jm.state[j], name)
        /\ Handle(event_job_post(jm, j, name))
    BY SMTT(20), <2>1 DEF EventNames, raise_job, Active
  <2>3. QED
    BY <2>2, PostForward, HandleMoves
<1>4. CASE \E type \in AllocTypes : alloc_response_cb(j, type)
  BY SMTT(20), <1>4, AllocResponseForward, HandleMoves DEF alloc_response_cb
<1>5. CASE \E type \in FreeTypes : free_response_cb(j, type)
  <2>1. PICK type \in FreeTypes, q \in requeued(jm) :
          Handle(free_response(jm, j, type, q))
    BY <1>5 DEF free_response_cb
  <2>2. /\ Shape(free_response(jm, j, type, q))
        /\ MovedTo(free_response(jm, j, type, q))
    BY FreeResponseForward DEF MovedTo
  <2>3. QED
    BY <2>1, <2>2, HandleMoves
<1>6. CASE \E type \in StartTypes : start_response_cb(j, type)
  BY <1>6, StartResponseForward, HandleMoves DEF start_response_cb
<1>7. QED
  BY SMTT(20), <1>1, <1>2, <1>3, <1>4, <1>5, <1>6 DEF JobStep

\* No job ever goes back to an earlier state, and resources leave a job only
\* through the answer to its free request, in CLEANUP.
THEOREM ManagerForward == Spec => JobsMoveForward
<1> DEFINE A == \A j \in Jobs :
                  /\ StateRank(jm.state[j]) <= StateRank(jm'.state[j])
                  /\ j \in jm.has_resources \ jm'.has_resources =>
                       jm.state[j] = "CLEANUP"
<1>1. JobManagerInv /\ [Next]_jm => [A]_jm
  <2> SUFFICES ASSUME JobManagerInv, Next PROVE MovedTo(jm')
    BY DEF MovedTo
  <2>1. Good(jm)
    BY InvariantGood
  <2>2. Shape(jm)
    BY DEF JobManagerInv, TypeOK, Manager, Shape
  <2>3. CASE \E j \in Jobs : JobStep(j)
    BY <2>1, <2>2, <2>3, JobStepMoves
  <2>4. CASE submit_admin_cb
    <3> DEFINE n == [jm EXCEPT !.submit_disable = ~@]
    <3>1. Forward(jm, n) /\ Handle(n)
      BY <2>2, <2>4, DrainForward DEF submit_admin_cb
    <3> HIDE DEF n
    <3>2. QED
      BY <3>1, HandleMoves DEF Forward
  <2>5. CASE drain_cb \/ idle_cb
    BY Zenon, <2>2, <2>5, DrainForward, HandleMoves DEF drain_cb, idle_cb, Forward
  <2>6. CASE \/ \E mode \in {"single", "unlimited"} : ready_cb(mode)
             \/ check_cb
             \/ \E enable \in BOOLEAN : alloc_admin_cb(enable)
             \/ exec_hello_cb
             \/ start_error_cb
    BY <2>2, <2>6, ServicesForward, HandleMoves
       DEF ready_cb, check_cb, alloc_admin_cb, exec_hello_cb, start_error_cb,
           Forward
  <2>7. QED
    BY <2>3, <2>4, <2>5, <2>6 DEF Next
<1>2. QED
  BY <1>1, ManagerInvariant, PTL DEF Spec, JobsMoveForward
=============================================================================
