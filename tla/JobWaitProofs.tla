---------------------------- MODULE JobWaitProofs ----------------------------
(***************************************************************************)
(* The invariants of module JobWait hold for any number of jobs, requests  *)
(* and clients.  WaitInv is inductive: one lemma per action shows that the *)
(* action preserves it.                                                    *)
(***************************************************************************)
EXTENDS JobWait, ListProofs

\* The answers a request can get; only a job's answer says "job".
LEMMA RespValues ==
    /\ Unsent \in Resp /\ Blocked \in Resp /\ Unsent # Blocked
    /\ Unsent.st # "job" /\ Blocked.st # "job"
    /\ \A e \in {"ECHILD", "ENOSYS", "gone"} :
         Failed(e) \in Resp /\ Failed(e) # Blocked /\ Failed(e).st # "job"
    /\ \A j \in Jobs : Answer(j) \in Resp /\ Answer(j) # Blocked
  BY DEF Resp, Unsent, Blocked, Failed, Answer, decode_job_result

\* The initial state satisfies the inductive invariant.
LEMMA InitWaitInv == Init => WaitInv
<1> SUFFICES ASSUME Init PROVE WaitInv
  OBVIOUS
<1> USE WaitAssumption DEF Init
<1>1. TypeOK
  BY RespValues DEF TypeOK
<1>2. CountsAgree
  <2>1. {j \in Jobs : waiter[j] # NoReq} = {} /\ Active \intersect Waitable = {}
    BY DEF Active
  <2>2. QED
    <3>1. Cardinality({}) = 0
      BY FS_EmptySet
    <3>2. QED
      BY <2>1, <3>1 DEF CountsAgree
<1>3. RegisteredOnce
  BY DEF RegisteredOnce, Unsent, Blocked, Entries, Distinct
<1>4. QED
  BY <1>1, <1>2, <1>3
     DEF WaitInv, ConsumedOnce, NoZombieWhileAnyBlocked, ResultOfFirstEnd,
         WaiterActive, ZombieInactive, EndCaptured, Unsent

\* submit counts the new job once, and touches nothing else wait.c keeps.
LEMMA SubmitWaitInv ==
    ASSUME WaitInv, NEW j \in Jobs, submit(j) PROVE WaitInv'
<1> USE WaitAssumption
<1>1. TypeOK'
  BY DEF WaitInv, TypeOK, submit
<1>2. CountsAgree'
  <2> DEFINE W == Active \intersect Waitable
  <2>1. IsFiniteSet(W) /\ W' = IF j \in Waitable THEN W \union {j} ELSE W
    BY FS_Subset DEF WaitInv, TypeOK, submit, Active
  <2>2. j \notin W
    BY DEF submit, Active
  <2> HIDE DEF W
  <2>3. Cardinality(W') = IF j \in Waitable THEN Cardinality(W) + 1
                                             ELSE Cardinality(W)
    BY <2>1, <2>2, AddOne
  <2>4. QED
    BY <2>3 DEF WaitInv, CountsAgree, submit, W
<1>3. RegisteredOnce' /\ NoZombieWhileAnyBlocked' /\ ConsumedOnce'
      /\ ResultOfFirstEnd'
  BY DEF WaitInv, TypeOK, submit, RegisteredOnce, NoZombieWhileAnyBlocked,
         ConsumedOnce, ResultOfFirstEnd
<1>4. WaiterActive' /\ ZombieInactive' /\ EndCaptured'
  BY DEF WaitInv, TypeOK, submit, WaiterActive, ZombieInactive, EndCaptured,
         Active
<1>5. QED
  BY <1>1, <1>2, <1>3, <1>4 DEF WaitInv

\* A job that ends stays active; its first end is the one captured.
LEMMA EndJobWaitInv ==
    ASSUME WaitInv, NEW j \in Jobs, NEW e \in EndEvents, end_job(j, e)
    PROVE  WaitInv'
<1> USE WaitAssumption
<1>1. TypeOK'
  BY DEF WaitInv, TypeOK, end_job, capture_end_event, EndEvents
<1>2. Active' = Active
  BY DEF WaitInv, TypeOK, end_job, Active
<1>3. CountsAgree' /\ RegisteredOnce' /\ NoZombieWhileAnyBlocked'
      /\ WaiterActive'
  BY <1>2 DEF WaitInv, end_job, CountsAgree, RegisteredOnce,
              NoZombieWhileAnyBlocked, WaiterActive
<1>4. ConsumedOnce'
  BY DEF WaitInv, TypeOK, end_job, ConsumedOnce
<1>5. ResultOfFirstEnd'
  <2> SUFFICES ASSUME NEW r \in Reqs, resp[r].st = "job"
               PROVE  resp[r].ok = (first'[resp[r].job] = "exit0")
    BY DEF ResultOfFirstEnd, end_job
  <2>1. phase[resp[r].job] = "inactive" /\ resp[r].job # j
    BY DEF WaitInv, ConsumedOnce, end_job
  <2>2. QED
    BY <2>1 DEF WaitInv, TypeOK, ResultOfFirstEnd, ConsumedOnce, end_job
<1>6. ZombieInactive'
  BY DEF WaitInv, TypeOK, end_job, ZombieInactive
<1>7. EndCaptured'
  <2> SUFFICES ASSUME NEW k \in Waitable
               PROVE  /\ end_event'[k] = first'[k]
                      /\ first'[k] = "none" <=> phase'[k] \in {"none", "active"}
    BY DEF EndCaptured
  <2>1. CASE k # j
    BY <2>1 DEF WaitInv, TypeOK, EndCaptured, end_job, capture_end_event
  <2>2. CASE k = j /\ first[j] = "none"
    BY <2>2 DEF WaitInv, TypeOK, EndCaptured, end_job, capture_end_event,
                EndEvents
  <2>3. CASE k = j /\ first[j] # "none"
    BY <2>3 DEF WaitInv, TypeOK, EndCaptured, end_job, capture_end_event,
                EndEvents
  <2>4. QED
    BY <2>1, <2>2, <2>3
<1>8. QED
  BY <1>1, <1>3, <1>4, <1>5, <1>6, <1>7 DEF WaitInv

\* The counters after a waitable job has left the active set.
LEMMA InactiveCounts ==
    ASSUME WaitInv, NEW j \in Waitable, inactive(j)
    PROVE  CountsAgree' /\ waiters' \in Nat /\ waitables' \in Nat
<1> DEFINE W == Active \intersect Waitable
           B == {k \in Jobs : waiter[k] # NoReq}
<1> USE WaitAssumption
<1>0. j \in Jobs /\ loaded /\ loaded'
  BY DEF inactive
<1>1. IsFiniteSet(W) /\ j \in W /\ W' = W \ {j} /\ IsFiniteSet(B)
  BY <1>0, FS_Subset DEF WaitInv, TypeOK, inactive, Active
<1> HIDE DEF W, B
<1>2. Cardinality(W') = Cardinality(W) - 1 /\ Cardinality(W') \in Nat
  BY <1>1, RemoveOne
<1>3. waitables' = Cardinality(W') /\ waitables' \in Nat
  BY <1>0, <1>2 DEF WaitInv, TypeOK, CountsAgree, inactive,
                    wait_notify_inactive, W
<1>4. CASE waiter[j] # NoReq
  <2>1. j \in B /\ B' = B \ {j}
    BY <1>0, <1>4 DEF WaitInv, TypeOK, inactive, wait_notify_inactive, B
  <2>2. Cardinality(B') = Cardinality(B) - 1 /\ Cardinality(B') \in Nat
    BY <1>1, <2>1, RemoveOne
  <2>3. waiters' = Cardinality(B') /\ waiters' \in Nat
    BY <1>0, <1>4, <2>2 DEF WaitInv, TypeOK, CountsAgree, inactive,
                            wait_notify_inactive, B
  <2>4. QED
    BY <1>3, <2>3 DEF CountsAgree, W, B
<1>5. CASE waiter[j] = NoReq
  <2>1. waiter' = waiter /\ waiters' = waiters
    BY <1>5 DEF inactive, wait_notify_inactive
  <2>2. QED
    BY <1>0, <1>3, <2>1 DEF WaitInv, TypeOK, CountsAgree, W
<1>6. QED
  BY <1>4, <1>5

\* inactive hands the job to one registered request, which is then registered
\* no more, or keeps it as a zombie.
LEMMA InactiveWaitInv ==
    ASSUME WaitInv, NEW j \in Jobs, inactive(j) PROVE WaitInv'
<1> USE WaitAssumption
<1>0. /\ phase' = [phase EXCEPT ![j] = "inactive"]
      /\ phase[j] = "cleanup"
      /\ end_event' = end_event /\ first' = first /\ loaded /\ loaded'
  BY DEF inactive
<1>1. CASE j \notin Waitable
  <2>1. UNCHANGED <<waiter, waiters, waitables, requests, zombies, resp>>
    BY <1>1 DEF inactive
  <2>2. Active' \intersect Waitable = Active \intersect Waitable
    BY <1>0, <1>1 DEF WaitInv, TypeOK, Active
  <2>3. TypeOK' /\ EndCaptured' /\ ConsumedOnce' /\ ZombieInactive'
    BY <1>0, <1>1, <2>1 DEF WaitInv, TypeOK, ConsumedOnce, ZombieInactive,
                            EndCaptured
  <2>4. CountsAgree' /\ RegisteredOnce' /\ WaiterActive'
    BY <1>0, <2>1, <2>2, SMTT(20)
       DEF WaitInv, CountsAgree, RegisteredOnce, WaiterActive
  <2>5. NoZombieWhileAnyBlocked' /\ ResultOfFirstEnd'
    BY <1>0, <2>1 DEF WaitInv, NoZombieWhileAnyBlocked, ResultOfFirstEnd
  <2>6. QED
    BY <2>3, <2>4, <2>5 DEF WaitInv
<1>2. CASE j \in Waitable
  <2>1. wait_notify_inactive(j)
    BY <1>2 DEF inactive
  <2>2. CountsAgree' /\ waiters' \in Nat /\ waitables' \in Nat
    BY <1>2, InactiveCounts
  <2>3. EndCaptured'
    BY <1>0 DEF WaitInv, TypeOK, EndCaptured
  <2>4. /\ first[j] # "none" /\ end_event[j] = first[j]
        /\ j \notin zombies
        /\ \A r \in Reqs : resp[r].st = "job" => resp[r].job # j
    BY <1>0, <1>2 DEF WaitInv, TypeOK, EndCaptured, ZombieInactive, ConsumedOnce
  <2>5. Answer(j) = [st |-> "job", job |-> j, ok |-> (first[j] = "exit0")]
    BY <2>4 DEF Answer, decode_job_result
  <2>6. CASE waiter[j] # NoReq
    <3> DEFINE r == waiter[j]
    <3>1. /\ r \in Reqs
          /\ resp' = [resp EXCEPT ![r] = Answer(j)]
          /\ waiter' = [waiter EXCEPT ![j] = NoReq]
          /\ UNCHANGED <<requests, zombies>>
      BY <2>1, <2>6 DEF wait_notify_inactive, wait_respond, WaitInv, TypeOK
    <3> HIDE DEF r
    <3>2. TypeOK'
      BY <1>0, <2>2, <3>1, RespValues DEF WaitInv, TypeOK
    <3>3. /\ r \notin Entries(requests)
          /\ \A k \in Jobs \ {j} : waiter[k] # r
      BY <2>6 DEF WaitInv, RegisteredOnce, r
    <3>4. RegisteredOnce'
      <4>1. \A s \in Reqs : resp'[s] = IF s = r THEN Answer(j) ELSE resp[s]
        BY <3>1 DEF WaitInv, TypeOK
      <4>2. \A k \in Jobs : waiter'[k] = IF k = j THEN NoReq ELSE waiter[k]
        BY <3>1 DEF WaitInv, TypeOK
      <4>3. Answer(j) # Blocked
        BY RespValues
      <4>4. NoReq \notin Entries(requests)
        BY DEF WaitInv, TypeOK, Entries
      <4>5. QED
        BY <2>6, <3>1, <3>3, <4>1, <4>2, <4>3, <4>4
           DEF WaitInv, RegisteredOnce, r
    <3>5. ConsumedOnce'
      BY <1>0, <1>2, <2>4, <2>5, <3>1 DEF WaitInv, TypeOK, ConsumedOnce
    <3>6. ResultOfFirstEnd'
      BY <1>0, <2>5, <3>1 DEF WaitInv, TypeOK, ResultOfFirstEnd
    <3>7. NoZombieWhileAnyBlocked' /\ WaiterActive' /\ ZombieInactive'
      BY <1>0, <3>1 DEF WaitInv, TypeOK, NoZombieWhileAnyBlocked, WaiterActive,
                        ZombieInactive, Active
    <3>8. QED
      BY <2>2, <2>3, <3>2, <3>4, <3>5, <3>6, <3>7 DEF WaitInv
  <2>7. CASE waiter[j] = NoReq /\ requests # <<>>
    <3> DEFINE r == Head(requests)
    <3>0. requests \in Seq(Reqs) /\ Distinct(requests)
      BY DEF WaitInv, TypeOK, RegisteredOnce
    <3>2. /\ Distinct(Tail(requests)) /\ r \in Entries(requests)
          /\ Entries(Tail(requests)) = Entries(requests) \ {r}
          /\ r \in Reqs /\ Tail(requests) \in Seq(Reqs)
      BY <2>7, <3>0, TailEntries
    <3>1. /\ r \in Reqs
          /\ resp' = [resp EXCEPT ![r] = Answer(j)]
          /\ requests' = Tail(requests) /\ requests' \in Seq(Reqs)
          /\ UNCHANGED <<waiter, zombies>>
      BY <2>1, <2>7, <3>2, Zenon DEF wait_notify_inactive, wait_respond
    <3> HIDE DEF r
    <3>3. TypeOK'
      BY <1>0, <2>2, <3>1, RespValues DEF WaitInv, TypeOK
    <3>4. RegisteredOnce'
      <4>1. \A s \in Reqs : resp'[s] = IF s = r THEN Answer(j) ELSE resp[s]
        BY <3>1 DEF WaitInv, TypeOK
      <4>2. Answer(j) # Blocked
        BY RespValues
      <4>3. QED
        BY <3>1, <3>2, <4>1, <4>2 DEF WaitInv, RegisteredOnce
    <3>5. ConsumedOnce'
      BY <1>0, <1>2, <2>4, <2>5, <3>1 DEF WaitInv, TypeOK, ConsumedOnce
    <3>6. ResultOfFirstEnd'
      BY <1>0, <2>5, <3>1 DEF WaitInv, TypeOK, ResultOfFirstEnd
    <3>7. NoZombieWhileAnyBlocked' /\ WaiterActive' /\ ZombieInactive'
      BY <1>0, <2>7, <3>1 DEF WaitInv, TypeOK, NoZombieWhileAnyBlocked,
                              WaiterActive, ZombieInactive, Active
    <3>8. QED
      BY <2>2, <2>3, <3>3, <3>4, <3>5, <3>6, <3>7 DEF WaitInv
  <2>8. CASE waiter[j] = NoReq /\ requests = <<>>
    <3>1. /\ zombies' = zombies \union {j}
          /\ UNCHANGED <<waiter, requests, resp>>
      BY <2>1, <2>8 DEF wait_notify_inactive
    <3>2. TypeOK' /\ RegisteredOnce' /\ ResultOfFirstEnd'
      BY <1>0, <2>2, <3>1 DEF WaitInv, TypeOK, RegisteredOnce, ResultOfFirstEnd
    <3>3. ConsumedOnce'
      BY <1>0, <2>4, <3>1 DEF WaitInv, TypeOK, ConsumedOnce
    <3>4. NoZombieWhileAnyBlocked' /\ WaiterActive' /\ ZombieInactive'
      BY <1>0, <1>2, <2>8, <3>1 DEF WaitInv, TypeOK, NoZombieWhileAnyBlocked,
                                    WaiterActive, ZombieInactive, Active
    <3>5. QED
      BY <2>2, <2>3, <3>2, <3>3, <3>4 DEF WaitInv
  <2>9. QED
    BY <2>6, <2>7, <2>8
<1>3. QED
  BY <1>1, <1>2

\* The requests and answers a wait leaves, q and rs, are those registered once.
Registered(q, rs) ==
    /\ q \in Seq(Reqs) /\ Distinct(q) /\ rs \in [Reqs -> Resp]
    /\ \A r \in Reqs : (rs[r] = Blocked) <=> \/ r \in Entries(q)
                                           \/ \E j \in Jobs : waiter[j] = r
    /\ \A j \in Jobs : waiter[j] \notin Entries(q)

\* The limit at the end of wait_rpc unregisters the request it fails, and
\* leaves the other answers alone.
LEMMA LimitWaiters ==
    ASSUME WaitInv, NEW q, NEW rs, Registered(q, rs), limit_waiters(q, rs)
    PROVE  /\ Registered(requests', resp')
           /\ requests' # <<>> => q # <<>>
           /\ \A r \in Reqs : (rs[r].st = "job" \/ resp'[r].st = "job")
                               => resp'[r] = rs[r]
<1>1. CASE Len(q) + waiters > waitables /\ q # <<>>
  <2> DEFINE p == SubSeq(q, 1, Len(q) - 1)
             x == q[Len(q)]
  <2>1. requests' = p /\ resp' = [rs EXCEPT ![x] = Failed("ECHILD")]
    BY <1>1 DEF limit_waiters
  <2>2. /\ p \in Seq(Reqs) /\ Distinct(p)
        /\ x \in Reqs /\ x \in Entries(q) /\ Entries(p) = Entries(q) \ {x}
    BY <1>1, DropLastEntries DEF Registered
  <2> HIDE DEF p, x
  <2>3. /\ Failed("ECHILD") \in Resp /\ Failed("ECHILD") # Blocked
        /\ Failed("ECHILD").st # "job" /\ Blocked.st # "job"
    BY RespValues
  <2>4. rs[x] = Blocked /\ ~ \E j \in Jobs : waiter[j] = x
    BY <2>2 DEF Registered
  <2>5. resp' \in [Reqs -> Resp]
    BY <2>1, <2>2, <2>3 DEF Registered
  <2>6. \A r \in Reqs : resp'[r] = IF r = x THEN Failed("ECHILD") ELSE rs[r]
    BY <2>1, <2>2 DEF Registered
  <2>7. Registered(requests', resp')
    BY <2>1, <2>2, <2>3, <2>4, <2>5, <2>6 DEF Registered
  <2>8. QED
    BY <1>1, <2>3, <2>4, <2>6, <2>7
<1>2. CASE ~(Len(q) + waiters > waitables /\ q # <<>>)
  <2>1. requests' = q /\ resp' = rs
    BY <1>2 DEF limit_waiters
  <2>2. QED
    BY <2>1
<1>3. QED
  BY <1>1, <1>2

\* A wait that consumes the zombie of j.
LEMMA ConsumeZombie ==
    ASSUME WaitInv, NEW r \in Reqs, NEW j \in zombies, loaded,
           resp[r] = Unsent, zombies' = zombies \ {j},
           limit_waiters(requests, wait_respond(resp, r, j)),
           UNCHANGED <<waiter, waiters, jobvars, waitables, loaded>>
    PROVE  WaitInv'
<1> USE WaitAssumption
<1> DEFINE rs == wait_respond(resp, r, j)
<1>0. UNCHANGED <<phase, end_event, first>>
  BY DEF jobvars
<1>1. /\ j \in Waitable /\ j \in Jobs /\ phase[j] = "inactive"
      /\ end_event[j] = first[j]
      /\ \A s \in Reqs : resp[s].st = "job" => resp[s].job # j
  BY DEF WaitInv, TypeOK, ZombieInactive, EndCaptured, ConsumedOnce
<1>2. Answer(j) = [st |-> "job", job |-> j, ok |-> (first[j] = "exit0")]
  BY <1>1 DEF Answer, decode_job_result
<1>3. /\ rs \in [Reqs -> Resp]
      /\ \A s \in Reqs : rs[s] = IF s = r THEN Answer(j) ELSE resp[s]
  BY <1>1, RespValues DEF wait_respond, WaitInv, TypeOK
<1>4. Registered(requests, resp)
  BY DEF Registered, WaitInv, TypeOK, RegisteredOnce
<1> HIDE DEF rs
<1>5. Registered(requests, rs)
  <2>1. Unsent # Blocked /\ Answer(j) # Blocked
    BY <1>1, RespValues
  <2>2. QED
    BY <1>3, <1>4, <2>1 DEF Registered
<1>6. /\ Registered(requests', resp')
      /\ requests' # <<>> => requests # <<>>
      /\ \A s \in Reqs : (rs[s].st = "job" \/ resp'[s].st = "job")
                          => resp'[s] = rs[s]
  <2>1. limit_waiters(requests, rs)
    BY DEF rs
  <2>2. QED
    BY <1>5, <2>1, LimitWaiters
<1>7. TypeOK'
  BY <1>0, <1>6 DEF WaitInv, TypeOK, Registered
<1>8. RegisteredOnce'
  BY <1>6 DEF WaitInv, RegisteredOnce, Registered
<1>9. CountsAgree' /\ WaiterActive' /\ ZombieInactive' /\ EndCaptured'
  BY <1>0 DEF WaitInv, CountsAgree, WaiterActive, ZombieInactive, EndCaptured,
              Active
<1>10. NoZombieWhileAnyBlocked'
  BY <1>6 DEF WaitInv, NoZombieWhileAnyBlocked
<1>11. \A s \in Reqs : resp'[s].st = "job" =>
         \/ s = r /\ resp'[s] = [st |-> "job", job |-> j,
                                 ok |-> (first[j] = "exit0")]
         \/ s # r /\ resp'[s] = resp[s] /\ resp[s].st = "job"
  BY <1>2, <1>3, <1>6
<1>12. ConsumedOnce'
  BY <1>0, <1>1, <1>11 DEF WaitInv, ConsumedOnce
<1>13. ResultOfFirstEnd'
  BY <1>0, <1>11 DEF WaitInv, ResultOfFirstEnd
<1>14. QED
  BY <1>7, <1>8, <1>9, <1>10, <1>12, <1>13 DEF WaitInv

\* A wait on FLUX_JOBID_ANY with no zombie joins the end of the list.
LEMMA BlockAny ==
    ASSUME WaitInv, NEW r \in Reqs, loaded, resp[r] = Unsent, zombies = {},
           limit_waiters(Append(requests, r), [resp EXCEPT ![r] = Blocked]),
           UNCHANGED <<zombies, waiter, waiters, jobvars, waitables, loaded>>
    PROVE  WaitInv'
<1> USE WaitAssumption
<1> DEFINE rs == [resp EXCEPT ![r] = Blocked]
           q == Append(requests, r)
<1>0. UNCHANGED <<phase, end_event, first>>
  BY DEF jobvars
<1>1. Registered(requests, resp)
  BY DEF Registered, WaitInv, TypeOK, RegisteredOnce
<1>2. /\ rs \in [Reqs -> Resp]
      /\ \A s \in Reqs : rs[s] = IF s = r THEN Blocked ELSE resp[s]
  BY <1>1, RespValues DEF Registered
<1>3. r \notin Entries(requests) /\ ~ \E j \in Jobs : waiter[j] = r
  BY <1>1, RespValues DEF Registered
<1>4. q \in Seq(Reqs) /\ Distinct(q) /\ Entries(q) = Entries(requests) \union {r}
  BY <1>1, <1>3, AppendEntries DEF Registered
<1> HIDE DEF rs, q
<1>5. Registered(q, rs)
  BY <1>1, <1>2, <1>3, <1>4 DEF Registered
<1>6. /\ Registered(requests', resp')
      /\ \A s \in Reqs : (rs[s].st = "job" \/ resp'[s].st = "job")
                          => resp'[s] = rs[s]
  <2>1. limit_waiters(q, rs)
    BY DEF q, rs
  <2>2. QED
    BY <1>5, <2>1, LimitWaiters
<1>7. TypeOK'
  BY <1>0, <1>6 DEF WaitInv, TypeOK, Registered
<1>8. RegisteredOnce'
  BY <1>6 DEF WaitInv, RegisteredOnce, Registered
<1>9. /\ CountsAgree' /\ WaiterActive' /\ ZombieInactive' /\ EndCaptured'
      /\ NoZombieWhileAnyBlocked'
  BY <1>0 DEF WaitInv, CountsAgree, WaiterActive, ZombieInactive, EndCaptured,
              Active, NoZombieWhileAnyBlocked
<1>10. \A s \in Reqs : resp'[s].st = "job"
                          => resp'[s] = resp[s] /\ resp[s].st = "job"
  BY <1>2, <1>6, RespValues
<1>11. ConsumedOnce' /\ ResultOfFirstEnd'
  BY <1>0, <1>10 DEF WaitInv, ConsumedOnce, ResultOfFirstEnd
<1>12. QED
  BY <1>7, <1>8, <1>9, <1>11 DEF WaitInv

\* A wait on an active waitable job without a waiter registers there.
LEMMA BlockId ==
    ASSUME WaitInv, NEW r \in Reqs, NEW j \in Jobs, loaded, resp[r] = Unsent,
           j \in Active, waiter[j] = NoReq, j \in Waitable,
           waiter' = [waiter EXCEPT ![j] = r], waiters' = waiters + 1,
           resp' = [resp EXCEPT ![r] = Blocked],
           UNCHANGED <<requests, zombies, jobvars, waitables, loaded>>
    PROVE  WaitInv'
<1> USE WaitAssumption
<1> DEFINE B == {k \in Jobs : waiter[k] # NoReq}
<1>0. UNCHANGED <<phase, end_event, first>>
  BY DEF jobvars
<1>1. TypeOK'
  BY <1>0, RespValues DEF WaitInv, TypeOK
<1>2. \A k \in Jobs : waiter'[k] = IF k = j THEN r ELSE waiter[k]
  BY DEF WaitInv, TypeOK
<1>3. \A s \in Reqs : resp'[s] = IF s = r THEN Blocked ELSE resp[s]
  BY DEF WaitInv, TypeOK
<1>4. r # NoReq /\ r \notin Entries(requests) /\ \A k \in Jobs : waiter[k] # r
  BY RespValues DEF WaitInv, RegisteredOnce
<1>5. CountsAgree'
  <2>1. IsFiniteSet(B) /\ j \notin B /\ B' = B \union {j}
    BY <1>2, <1>4, FS_Subset
  <2> HIDE DEF B
  <2>2. Cardinality(B') = Cardinality(B) + 1
    BY <2>1, AddOne
  <2>3. QED
    BY <1>0, <2>2 DEF WaitInv, CountsAgree, Active, B
<1>6. RegisteredOnce'
  BY <1>2, <1>3, <1>4 DEF WaitInv, RegisteredOnce
<1>7. WaiterActive' /\ ZombieInactive' /\ EndCaptured'
      /\ NoZombieWhileAnyBlocked'
  BY <1>0, <1>2 DEF WaitInv, WaiterActive, ZombieInactive, EndCaptured, Active,
                    NoZombieWhileAnyBlocked
<1>8. ConsumedOnce' /\ ResultOfFirstEnd'
  <2>1. \A s \in Reqs : resp'[s].st = "job"
                           => resp'[s] = resp[s] /\ resp[s].st = "job"
    BY <1>3, RespValues
  <2>2. QED
    BY <1>0, <2>1 DEF WaitInv, ConsumedOnce, ResultOfFirstEnd
<1>9. QED
  BY <1>1, <1>5, <1>6, <1>7, <1>8 DEF WaitInv

\* A wait that fails at once registers nothing.
LEMMA FailWait ==
    ASSUME WaitInv, NEW r \in Reqs, resp[r] = Unsent,
           resp' = [resp EXCEPT ![r] = Failed("ECHILD")],
           UNCHANGED <<waiter, waiters, requests, zombies, jobvars, waitables,
                       loaded>>
    PROVE  WaitInv'
<1> USE WaitAssumption
<1>0. UNCHANGED <<phase, end_event, first>>
  BY DEF jobvars
<1>1. \A s \in Reqs : resp'[s] = IF s = r THEN Failed("ECHILD") ELSE resp[s]
  BY DEF WaitInv, TypeOK
<1>2. TypeOK'
  BY <1>0, RespValues DEF WaitInv, TypeOK
<1>3. RegisteredOnce'
  <2>1. Failed("ECHILD") # Blocked /\ Unsent # Blocked
    BY RespValues
  <2>2. QED
    BY <1>1, <2>1 DEF WaitInv, RegisteredOnce
<1>4. ConsumedOnce' /\ ResultOfFirstEnd'
  <2>1. \A s \in Reqs : resp'[s].st = "job"
                           => resp'[s] = resp[s] /\ resp[s].st = "job"
    BY <1>1, RespValues
  <2>2. QED
    BY <1>0, <2>1 DEF WaitInv, ConsumedOnce, ResultOfFirstEnd
<1>5. CountsAgree' /\ WaiterActive' /\ ZombieInactive' /\ EndCaptured'
      /\ NoZombieWhileAnyBlocked'
  BY <1>0 DEF WaitInv, CountsAgree, WaiterActive, ZombieInactive, EndCaptured,
              Active, NoZombieWhileAnyBlocked
<1>6. QED
  BY <1>2, <1>3, <1>4, <1>5 DEF WaitInv

\* wait_rpc, by the cases above.
LEMMA WaitRpcWaitInv ==
    ASSUME WaitInv, NEW r \in Reqs, NEW id \in Jobs \union {ANY},
           wait_rpc(r, id)
    PROVE  WaitInv'
<1>0. /\ loaded /\ resp[r] = Unsent
      /\ UNCHANGED <<jobvars, waitables, loaded>>
  BY DEF wait_rpc
<1>1. CASE id = ANY
  <2>1. wait_any(r)
    BY <1>1 DEF wait_rpc
  <2>2. QED
    BY <1>0, <2>1, ConsumeZombie, BlockAny DEF wait_any
<1>2. CASE id # ANY
  <2>1. wait_id(r, id) /\ id \in Jobs
    BY <1>2 DEF wait_rpc
  <2>2. QED
    BY <1>0, <2>1, ConsumeZombie, BlockId, FailWait DEF wait_id
<1>3. QED
  BY <1>1, <1>2

\* disconnect_rpc unregisters exactly the requests of the client, and counts
\* the waiters it destroys.
LEMMA DisconnectWaitInv ==
    ASSUME WaitInv, NEW c \in Clients, disconnect_rpc(c) PROVE WaitInv'
<1> USE WaitAssumption
<1> DEFINE gone == {j \in Active : waiter[j] \in Sent(c)}
           B == {k \in Jobs : waiter[k] # NoReq}
<1>0. /\ UNCHANGED <<phase, end_event, first, zombies, waitables, loaded>>
      /\ loaded
  BY DEF disconnect_rpc, jobvars
<1>1. /\ gone = {j \in Jobs : waiter[j] \in Sent(c)}
      /\ gone \subseteq B /\ IsFiniteSet(B)
      /\ waiters = Cardinality(B)
  BY <1>0, FS_Subset DEF WaitInv, WaiterActive, CountsAgree, Active, Sent
<1>2. waiters > 0 \/ gone = {}
  <2> HIDE DEF B, gone
  <2>1. QED
    BY <1>1, CountZero
<1>3. /\ waiter' = [j \in Jobs |-> IF j \in gone THEN NoReq ELSE waiter[j]]
      /\ waiters' = waiters - Cardinality(gone)
  <2>1. CASE waiters > 0
    BY <2>1 DEF disconnect_rpc
  <2>2. CASE ~(waiters > 0)
    <3>1. gone = {} /\ waiter' = waiter /\ waiters' = waiters
      BY <1>2, <2>2 DEF disconnect_rpc
    <3>2. Cardinality(gone) = 0
      BY <3>1, FS_EmptySet
    <3>3. waiter' = [j \in Jobs |-> IF j \in gone THEN NoReq ELSE waiter[j]]
      BY <3>1 DEF WaitInv, TypeOK
    <3>4. QED
      BY <3>1, <3>2, <3>3 DEF WaitInv, TypeOK
  <2>3. QED
    BY <2>1, <2>2
<1>4. /\ requests' = Without(requests, Sent(c)) /\ requests' \in Seq(Reqs)
      /\ Entries(requests') = Entries(requests) \ Sent(c)
      /\ Distinct(requests')
  <2>1. requests \in Seq(Reqs) /\ Distinct(requests)
    BY DEF WaitInv, TypeOK, RegisteredOnce
  <2>2. requests' = Without(requests, Sent(c))
    BY DEF disconnect_rpc
  <2>3. QED
    BY <2>1, <2>2, WithoutEntries
<1>5. \A r \in Reqs : resp'[r] = IF r \in Sent(c) /\ resp[r] \in {Unsent, Blocked}
                                   THEN Failed("gone") ELSE resp[r]
  BY DEF disconnect_rpc
<1>6. Failed("gone") # Blocked /\ Failed("gone").st # "job"
  BY RespValues
<1>7. CountsAgree' /\ waiters' \in Nat
  <2>1. B' = B \ gone
    BY <1>1, <1>3
  <2> HIDE DEF B, gone
  <2>3. /\ IsFiniteSet(B') /\ Cardinality(B') = Cardinality(B) - Cardinality(gone)
        /\ Cardinality(B') \in Nat
    BY <1>1, <2>1, RemoveSubset, Zenon
  <2>4. QED
    BY <1>0, <1>1, <1>3, <2>3 DEF WaitInv, CountsAgree, Active, B
<1>8. TypeOK'
  <2>1. waiter' \in [Jobs -> Reqs \union {NoReq}]
    BY <1>3 DEF WaitInv, TypeOK
  <2>2. resp' \in [Reqs -> Resp]
    BY RespValues DEF disconnect_rpc, WaitInv, TypeOK
  <2>3. QED
    BY <1>0, <1>4, <1>7, <2>1, <2>2 DEF WaitInv, TypeOK
<1>9. RegisteredOnce'
  <2>1. \A j \in Jobs : waiter'[j] = IF waiter[j] \in Sent(c) THEN NoReq
                                                          ELSE waiter[j]
    BY <1>1, <1>3
  <2>2. NoReq \notin Entries(requests)
    BY DEF WaitInv, TypeOK, Entries
  <2> HIDE DEF gone
  <2>3. QED
    BY <1>4, <1>5, <1>6, <2>1, <2>2 DEF WaitInv, RegisteredOnce
<1>10. ConsumedOnce' /\ ResultOfFirstEnd'
  <2>1. \A s \in Reqs : resp'[s].st = "job"
                           => resp'[s] = resp[s] /\ resp[s].st = "job"
    BY <1>5, <1>6
  <2>2. QED
    BY <1>0, <2>1 DEF WaitInv, ConsumedOnce, ResultOfFirstEnd
<1>11. WaiterActive' /\ ZombieInactive' /\ EndCaptured'
  BY <1>0, <1>3 DEF WaitInv, WaiterActive, ZombieInactive, EndCaptured, Active
<1>12. NoZombieWhileAnyBlocked'
  <2>1. requests = <<>> => requests' = <<>>
    BY <1>4 DEF Entries
  <2>2. QED
    BY <1>0, <2>1 DEF WaitInv, NoZombieWhileAnyBlocked
<1>13. QED
  BY <1>7, <1>8, <1>9, <1>10, <1>11, <1>12 DEF WaitInv

\* wait_ctx_destroy answers every registered request.
LEMMA DestroyWaitInv ==
    ASSUME WaitInv, wait_ctx_destroy PROVE WaitInv'
<1> USE WaitAssumption
<1> DEFINE B == {k \in Jobs : waiter[k] # NoReq}
           scanned == {waiter[j] : j \in Active} \ {NoReq}
           answered == (IF waiters > 0 THEN scanned ELSE {})
                         \union Entries(requests)
<1>0. /\ UNCHANGED <<phase, end_event, first, waitables>>
      /\ loaded /\ loaded' = FALSE /\ zombies' = {} /\ requests' = <<>>
      /\ waiter' = [j \in Jobs |-> NoReq] /\ waiters' = 0
  BY DEF wait_ctx_destroy, jobvars
<1>1. waiters > 0 \/ B = {}
  <2>1. IsFiniteSet(B) /\ waiters = Cardinality(B)
    BY <1>0, FS_Subset DEF WaitInv, CountsAgree
  <2> HIDE DEF B
  <2>2. QED
    BY <2>1, CountZero
<1>2. \A r \in Reqs : resp[r] = Blocked => r \in answered
  BY <1>1 DEF WaitInv, RegisteredOnce, WaiterActive
<1>3. \A r \in Reqs : resp'[r] = IF r \in answered THEN Failed("ENOSYS")
                                                   ELSE resp[r]
  BY DEF wait_ctx_destroy
<1>4. Failed("ENOSYS") # Blocked /\ Failed("ENOSYS").st # "job"
  BY RespValues
<1>5. TypeOK'
  <2>1. resp' \in [Reqs -> Resp]
    BY RespValues DEF wait_ctx_destroy, WaitInv, TypeOK
  <2>2. loaded' \in BOOLEAN
    BY <1>0, Zenon
  <2>3. requests' \in Seq(Reqs) /\ waiters' \in Nat
    BY <1>0
  <2>4. QED
    BY <1>0, <2>1, <2>2, <2>3 DEF WaitInv, TypeOK
<1> HIDE DEF answered
<1>6. RegisteredOnce'
  BY <1>0, <1>2, <1>3, <1>4 DEF RegisteredOnce, Entries, Distinct
<1>7. ConsumedOnce' /\ ResultOfFirstEnd'
  <2>1. \A s \in Reqs : resp'[s].st = "job"
                           => resp'[s] = resp[s] /\ resp[s].st = "job"
    BY <1>3, <1>4
  <2>2. QED
    BY <1>0, <2>1 DEF WaitInv, ConsumedOnce, ResultOfFirstEnd
<1>8. CountsAgree' /\ WaiterActive' /\ ZombieInactive' /\ EndCaptured'
      /\ NoZombieWhileAnyBlocked'
  BY <1>0 DEF WaitInv, CountsAgree, WaiterActive, ZombieInactive, EndCaptured,
              NoZombieWhileAnyBlocked
<1>9. QED
  BY <1>5, <1>6, <1>7, <1>8 DEF WaitInv

-----------------------------------------------------------------------------

\* WaitInv is an invariant of wait.c: whatever the order of submissions, ends,
\* waits, disconnects and the unload, for any number of jobs and requests.
THEOREM WaitInvariant == Spec => []WaitInv
<1>1. Init => WaitInv
  BY InitWaitInv
<1>2. WaitInv /\ [Next]_vars => WaitInv'
  <2> SUFFICES ASSUME WaitInv, [Next]_vars PROVE WaitInv'
    OBVIOUS
  <2>1. CASE JobStep
    BY <2>1, SubmitWaitInv, EndJobWaitInv, InactiveWaitInv DEF JobStep
  <2>2. CASE \E r \in Reqs, id \in Jobs \union {ANY} : wait_rpc(r, id)
    BY <2>2, WaitRpcWaitInv
  <2>3. CASE \E c \in Clients : disconnect_rpc(c)
    BY <2>3, DisconnectWaitInv
  <2>4. CASE wait_ctx_destroy
    BY <2>4, DestroyWaitInv, Zenon
  <2>5. CASE UNCHANGED vars
    <3>1. UNCHANGED <<phase, end_event, first, waiter, zombies>>
          /\ UNCHANGED <<waiters, waitables, requests, resp, loaded>>
      BY <2>5 DEF vars
    <3>2. TypeOK' /\ CountsAgree' /\ RegisteredOnce'
      BY <3>1 DEF WaitInv, TypeOK, CountsAgree, RegisteredOnce, Active
    <3>3. ConsumedOnce' /\ NoZombieWhileAnyBlocked' /\ ResultOfFirstEnd'
      BY <3>1 DEF WaitInv, ConsumedOnce, NoZombieWhileAnyBlocked,
                  ResultOfFirstEnd
    <3>4. WaiterActive' /\ ZombieInactive' /\ EndCaptured'
      BY <3>1 DEF WaitInv, WaiterActive, ZombieInactive, EndCaptured, Active
    <3>5. QED
      BY <3>2, <3>3, <3>4 DEF WaitInv
  <2>6. QED
    BY <2>1, <2>2, <2>3, <2>4, <2>5 DEF Next
<1>3. QED
  BY <1>1, <1>2, PTL DEF Spec

\* Every variable of wait.c keeps its type; the counters never underflow.
THEOREM WaitTypes == Spec => []TypeOK
  BY WaitInvariant, PTL DEF WaitInv

\* wait->waiters and wait->waitables agree with the jobs.
THEOREM WaitCounts == Spec => []CountsAgree
  BY WaitInvariant, PTL DEF WaitInv

\* No request is lost and none is registered twice.
THEOREM WaitRegistered == Spec => []RegisteredOnce
  BY WaitInvariant, PTL DEF WaitInv

\* The result of a job is handed out once.
THEOREM WaitDestructive == Spec => []ConsumedOnce
  BY WaitInvariant, PTL DEF WaitInv

\* No request for any job blocks beside a job it could be answered with.
THEOREM WaitZombies == Spec => []NoZombieWhileAnyBlocked
  BY WaitInvariant, PTL DEF WaitInv

\* The result handed out is that of the first event that ended the job.
THEOREM WaitResult == Spec => []ResultOfFirstEnd
  BY WaitInvariant, PTL DEF WaitInv
=============================================================================
