------------------------------- MODULE JobExec -------------------------------
(***************************************************************************)
(* The exec service (job-exec.c) with its two implementations: the job     *)
(* shells started through libsubprocess, one on each rank of the job       *)
(* (exec.c, bulk-exec.c, remote.c, subprocess.c), and the simulated        *)
(* execution by a timer (testexec.c).  No handler touches more than one    *)
(* job, so the module is about one job, from the start request of the      *)
(* job-manager to the end of its struct jobinfo.                           *)
(*                                                                         *)
(* Handlers call each other; those that are called are operators from a    *)
(* state of the module to the next, and an action applies one of them.     *)
(***************************************************************************)
EXTENDS Integers, Sequences, FiniteSets, FiniteSetsExt

CONSTANTS
    Ranks,         \* the ranks of the job's R
    Disturbances,  \* how many times an exception is published, the time limit
                   \* expires or the output of a shell overflows its buffer
    SlowStart,     \* signals may time out, also while a shell is being started
    LateExpiry     \* the time limit may expire while the job is finalized

ASSUME JobExecAssumption ==
    /\ IsFiniteSet(Ranks) /\ Ranks \subseteq Nat /\ Ranks # {}
    /\ Disturbances \in Nat
    /\ SlowStart \in BOOLEAN /\ LateExpiry \in BOOLEAN

VARIABLES
    e,      \* the job: its struct jobinfo, struct bulk_exec and processes, what
            \* it waits for, its responses and its guest namespace
    shell,  \* the job shell on each rank
    left    \* what is left of Disturbances

vars == <<e, shell, left>>

-----------------------------------------------------------------------------
(* State *)

\* flux_subprocess_t: its state, the state reported to the user, whether it is
\* completed and that was reported, and the signal kept until it runs with the
\* future of its flux_subprocess_kill.
NoProc == [state |-> "none", reported |-> "init", completed |-> FALSE,
           done |-> FALSE, signal |-> "none", future |-> "none"]

\* Before the start request.  "commits" are the events sent to the KVS that are
\* not answered, each by what waits for it, "step" is the other step of the
\* completion that is awaited, "kills" are the futures of bulk_exec_kill, and
\* "out" the responses to the job-manager.  "crash" is set by a call through a
\* NULL pointer, a failed assertion and a use of a destroyed future.
NoJob ==
    [refs |-> 0, has_namespace |-> FALSE, exception |-> FALSE,
     started |-> FALSE, running |-> FALSE, finalizing |-> FALSE,
     impl |-> "none", kill_timer |-> "none", expiration |-> "none",
     timer |-> "none",
     cmds |-> {}, active |-> FALSE, nstarted |-> 0, complete |-> 0,
     batch |-> "none", proc |-> [r \in Ranks |-> NoProc], kills |-> <<>>,
     init |-> "none", commits |-> <<>>, step |-> "none", out |-> <<>>,
     ns |-> "none", log |-> <<>>, copy |-> <<>>, crash |-> FALSE]

Init ==
    /\ e = NoJob
    /\ shell = [r \in Ranks |-> "none"]
    /\ left = Disturbances

Freed == e.init # "none" /\ e.refs = 0

Disturb == left > 0 /\ left' = left - 1

Total == Cardinality(Ranks)

-----------------------------------------------------------------------------
(* Operators on the job *)

jobinfo_incref(j) == [j EXCEPT !.refs = @ + 1]

\* jobinfo_decref: the last reference destroys the timers and, with the
\* implementation (exec_exit, bulk_exec_destroy, testexec_exit), the commands,
\* the processes and their watchers, but not the timer of the exit batch.
jobinfo_decref(j) ==
    IF j.refs # 1 THEN [j EXCEPT !.refs = @ - 1]
    ELSE [j EXCEPT !.refs = 0, !.kill_timer = "none", !.expiration = "none",
                   !.timer = "none", !.cmds = {},
                   !.proc = [r \in Ranks |-> NoProc]]

\* jobinfo_emit_event_vpack: the commit appends to exec.eventlog of the guest
\* namespace, if it exists.  The KVS applies and answers commits in the order
\* sent.
emit_event(j, name, waiter) ==
    [j EXCEPT !.log = IF j.ns = "live" THEN Append(@, name) ELSE @,
              !.commits = Append(@, waiter)]

\* mutant: no reference is taken
emit_event_unreferenced(j, name) == emit_event(j, name, "reference")

\* jobinfo_emit_event_vpack_nowait: the answer drops the reference.
emit_event_nowait(j, name) == jobinfo_incref(emit_event(j, name, "reference"))

respond(j, type) == [j EXCEPT !.out = Append(@, type)]

\* jobinfo_release, jobinfo_send_release
jobinfo_release(j) == jobinfo_decref(respond(j, "release"))

\* mutant: the copy does not wait for the done event
jobinfo_finalize_unchained(j) ==
    LET k == [j EXCEPT !.finalizing = TRUE]
    IN IF j.finalizing THEN j
       ELSE IF j.has_namespace
            THEN [emit_event_nowait(k, "done") EXCEPT !.copy = j.log,
                                                      !.step = "copy"]
       ELSE jobinfo_release(k)

\* jobinfo_finalize, namespace_move
jobinfo_finalize(j) ==
    LET k == [j EXCEPT !.finalizing = TRUE]
    IN IF j.finalizing THEN j
       ELSE IF j.has_namespace THEN emit_event(k, "done", "copy")
       ELSE jobinfo_release(k)

jobinfo_cleanup_complete(j) == emit_event(j, "cleanup.finish", "finalize")

jobinfo_complete(j) ==
    respond(emit_event_nowait([j EXCEPT !.running = FALSE], "complete"), "finish")

\* jobinfo_tasks_complete, jobinfo_start_cleanup
jobinfo_tasks_complete(j) ==
    emit_event(jobinfo_complete([j EXCEPT !.crash = @ \/ ~j.started]),
               "cleanup.start", "cleanup")

jobinfo_started(j) == respond([j EXCEPT !.running = TRUE], "start")

\* exec_exit_notify (exec.c has no on_exit)
exec_exit_notify(j) == [j EXCEPT !.batch = "none"]

\* mutant: shells that were started count as complete too
bulk_exec_cancel_all(j) ==
    IF j.cmds = {} THEN j
    ELSE jobinfo_tasks_complete(
           exec_exit_notify([j EXCEPT !.complete = Total, !.cmds = {}]))

\* bulk_exec_cancel: commands that were not started count as complete.
bulk_exec_cancel(j) ==
    LET k == exec_exit_notify([j EXCEPT !.complete = @ + Cardinality(j.cmds),
                                        !.cmds = {}])
    IN IF j.cmds = {} THEN j
       ELSE IF k.complete = Total THEN jobinfo_tasks_complete(k)
       ELSE k

\* exec_add_completed, exit_batch_append
exec_add_completed(j) ==
    LET k == [j EXCEPT !.complete = @ + 1, !.batch = "on"]
    IN IF k.complete = Total THEN jobinfo_tasks_complete(exec_exit_notify(k))
       ELSE k

\* exec_kill, bulk_exec_kill, flux_subprocess_kill: a process that runs gets the
\* signal by an RPC; one that is being started keeps it (add_pending_signal)
\* unless it has one already.  The future of the kill holds a reference.  An
\* RPC is followed only if it has an effect, which is with SIGKILL: a shell may
\* ignore the other signals.
exec_kill(j, sig) ==
    LET In(state) == {r \in Ranks : j.proc[r].state = state}
        keeps == {r \in In("init") : j.proc[r].signal = "none"}
        kill == [sig |-> sig, open |-> TRUE, kept |-> keeps, sent |-> {},
                 rpc |-> IF sig = "KILL" THEN In("running") ELSE {}]
    IN IF In("running") \cup In("init") = {} THEN j
       ELSE jobinfo_incref(
              [j EXCEPT
                 !.kills = Append(@, kill),
                 !.proc = [r \in Ranks |->
                             IF r \in keeps
                             THEN [@[r] EXCEPT !.signal = sig, !.future = "live"]
                             ELSE @[r]]])

testexec_kill(j) ==
    LET k == [j EXCEPT !.timer = "none"]
    IN IF j.running THEN jobinfo_tasks_complete(k) ELSE k

\* job->impl->kill
impl_kill(j, sig) ==
    CASE j.impl = "bulk" -> exec_kill(j, sig)
      [] j.impl = "test" -> testexec_kill(j)
      [] j.impl = "none" -> [j EXCEPT !.crash = TRUE]

\* The watcher stays after it has fired.
jobinfo_killtimer_start(j) ==
    [j EXCEPT !.kill_timer = IF @ = "none" THEN "on" ELSE @]

\* mutant: SIGKILL is not scheduled
jobinfo_cancel_politely(j) ==
    LET k == IF j.impl = "bulk" THEN bulk_exec_cancel(j) ELSE j
    IN IF j.kill_timer # "none" THEN j ELSE impl_kill(k, "TERM")

jobinfo_cancel(j) ==
    LET k == IF j.impl = "bulk" THEN bulk_exec_cancel(j) ELSE j
    IN IF j.kill_timer # "none" THEN j
       ELSE jobinfo_killtimer_start(impl_kill(k, "TERM"))

\* jobinfo_fatal_verror: the job-manager is told unless an exception is in
\* progress.
jobinfo_fatal_error(j) ==
    LET k == emit_event_nowait(j, "exception")
        l == IF j.exception THEN k
             ELSE respond([k EXCEPT !.exception = TRUE], "exception")
    IN IF j.started THEN jobinfo_cancel(l) ELSE jobinfo_finalize(l)

-----------------------------------------------------------------------------
(* Initialization *)

\* start_cb, job_start, jobinfo_start_init: one reference is held until the
\* release, one until the end of the initialization.  The KVS creates the
\* namespace, or does not, before it handles what is sent later.
start_cb ==
    /\ e.init = "none"
    /\ \E ns \in {"none", "live"} :
         e' = [e EXCEPT !.refs = 2, !.init = "create", !.ns = ns]
    /\ UNCHANGED <<shell, left>>

\* namespace_link runs if the namespace was created.
namespace_link ==
    /\ e.init = "create"
    /\ e.ns = "live"
    /\ e' = emit_event([e EXCEPT !.init = "link"], "init", "init")
    /\ UNCHANGED <<shell, left>>

\* jobinfo_set_expiration; no time limit is one that does not expire.
set_expiration(j) == [j EXCEPT !.expiration = "on"]

\* testexec_start, start_timer.  A mock exception makes it fail, and each of the
\* callers jobinfo_start_execution and jobinfo_start_continue raises it again.
testexec_start(j, mock) ==
    LET k == jobinfo_started([j EXCEPT !.timer = "on"])
    IN IF mock THEN jobinfo_fatal_error(jobinfo_fatal_error(jobinfo_fatal_error(k)))
       ELSE k

\* exec_start, bulk_exec_start.  A mock exception is raised before the start.
exec_start(j, mock) ==
    IF mock THEN jobinfo_fatal_error(j) ELSE [j EXCEPT !.active = TRUE]

\* jobinfo_load_implementation (exec_init, testexec_init), then
\* jobinfo_start_execution
start_execution(j, impl, mock) ==
    LET k == [j EXCEPT !.impl = impl,
                       !.cmds = IF impl = "bulk" THEN Ranks ELSE {}]
        l == [emit_event_nowait(k, "starting") EXCEPT !.started = TRUE]
    IN IF impl = "bulk" THEN exec_start(l, mock) ELSE testexec_start(l, mock)

\* jobinfo_start_continue: the requests of the initialization are answered.
\* The namespace may not have been created or linked; an exception may have
\* come; jobspec, R or the expiration may be wrong; exec_init may fail, or
\* testexec_init, which raises an exception of its own; or the job is started.
jobinfo_start_continue ==
    LET j == [e EXCEPT !.init = "done",
                       !.commits = SelectSeq(@, LAMBDA c : c # "init")]
        k == [j EXCEPT !.has_namespace = TRUE]
        l == set_expiration(k)
        Continue(job) == e' = jobinfo_decref(job)
    IN /\ \/ e.init = "create" /\ e.ns = "none"
          \/ e.init = "link" /\ Head(e.commits) = "init"
       /\ \/ Continue(jobinfo_fatal_error(j))
          \/ /\ e.init = "link" /\ e.exception
             /\ Continue(k)
          \/ /\ e.init = "link" /\ ~e.exception
             /\ \/ Continue(jobinfo_fatal_error(k))
                \/ Continue(jobinfo_fatal_error(l))
                \/ Continue(jobinfo_fatal_error(jobinfo_fatal_error(l)))
                \/ \E impl \in {"bulk", "test"}, mock \in BOOLEAN :
                     Continue(start_execution(l, impl, mock))
       /\ UNCHANGED <<shell, left>>

-----------------------------------------------------------------------------
(* Shells *)

\* check_cb, exec_start_cmds, exec_start_cmd: one process per loop.
check_cb ==
    LET r == Min(e.cmds)
    IN /\ e.active /\ e.cmds # {}
       /\ e' = [e EXCEPT !.cmds = @ \ {r}, !.proc[r].state = "init"]
       /\ shell' = [shell EXCEPT ![r] = "asked"]
       /\ UNCHANGED left

\* server_exec_cb of rank r.  The request may also fail, or not reach the rank.
server_exec_cb(r) ==
    /\ shell[r] = "asked"
    /\ \E s \in {"runs", "failed"} : shell' = [shell EXCEPT ![r] = s]
    /\ UNCHANGED <<e, left>>

Exit(r) ==
    /\ shell[r] = "runs"
    /\ shell' = [shell EXCEPT ![r] = "exited"]
    /\ UNCHANGED <<e, left>>

\* fwd_pending_signal: the kept signal is sent if the process runs, otherwise
\* its future fails.  Either way the future must still exist.
fwd_pending_signal(j, r) ==
    LET sent == IF j.proc[r].state = "running" THEN {r} ELSE {}
        Forward(kill) == IF r \in kill.kept
                         THEN [kill EXCEPT !.kept = @ \ {r}, !.sent = @ \cup sent]
                         ELSE kill
    IN [j EXCEPT !.crash = @ \/ j.proc[r].future = "dead",
                 !.proc[r].signal = "none",
                 !.proc[r].future = "none",
                 !.kills = [i \in DOMAIN @ |-> Forward(@[i])]]

process_new_state(j, r, state) ==
    LET k == [j EXCEPT !.proc[r].state = state]
    IN IF k.proc[r].signal = "none" THEN k ELSE fwd_pending_signal(k, r)

\* remote_exec_cb with remote_state: rank r tells the next state of its shell.
remote_state(r) ==
    LET Tell(state) == e' = process_new_state(e, r, state)
    IN /\ \/ /\ e.proc[r].state = "init"
             /\ shell[r] = "failed"
             /\ Tell("failed")
          \/ /\ e.proc[r].state = "init"
             /\ shell[r] \in {"runs", "exited"}
             /\ Tell("running")
          \/ /\ e.proc[r].state = "running"
             /\ shell[r] = "exited"
             /\ Tell("exited")
       /\ UNCHANGED <<shell, left>>

\* remote_exec_cb with remote_completion: the last response.
remote_completion(r) ==
    /\ e.proc[r].state = "exited"
    /\ ~e.proc[r].completed
    /\ e' = [e EXCEPT !.proc[r].completed = TRUE]
    /\ UNCHANGED <<shell, left>>

\* remote_exec_cb with an output that does not fit in the buffer (remote_output):
\* the process fails; if it runs it is sent SIGKILL, by a future nobody keeps.
remote_output_error(r) ==
    LET stray == [sig |-> "KILL", open |-> FALSE, rpc |-> {r}, kept |-> {},
                  sent |-> {}]
    IN /\ Disturb
       /\ e.proc[r].state \in {"running", "exited"}
       /\ ~e.proc[r].completed
       /\ e' = process_new_state(
                 IF e.proc[r].state = "running"
                 THEN [e EXCEPT !.kills = Append(@, stray)] ELSE e,
                 r, "failed")
       /\ UNCHANGED shell

\* mutant: the job is started with each of its shells
exec_state_cb_each(j, state) ==
    CASE state = "running" -> jobinfo_started([j EXCEPT !.nstarted = @ + 1])
      [] state = "failed" -> exec_add_completed(jobinfo_fatal_error(j))
      [] state = "exited" -> j

\* exec_state_cb, with start_cb and error_cb of exec.c
exec_state_cb(j, state) ==
    LET k == [j EXCEPT !.nstarted = @ + 1]
    IN CASE state = "running" -> IF k.nstarted = Total THEN jobinfo_started(k) ELSE k
         [] state = "failed" -> exec_add_completed(jobinfo_fatal_error(j))
         [] state = "exited" -> j

\* state_change_check_cb, state_change_next: states are reported one by one,
\* but for the failure.
state_change_check_cb(r) ==
    LET p == e.proc[r]
        next == IF p.state = "failed" THEN "failed"
                ELSE IF p.reported = "init" THEN "running"
                ELSE "exited"
    IN /\ p.state # "none"
       /\ p.reported # p.state
       /\ e' = exec_state_cb([e EXCEPT !.proc[r].reported = next], next)
       /\ UNCHANGED <<shell, left>>

\* completed_check_cb, exec_complete_cb: not before the exit was reported.
completed_check_cb(r) ==
    LET p == e.proc[r]
    IN /\ p.completed /\ ~p.done
       /\ p.reported = "exited"
       /\ e' = exec_add_completed([e EXCEPT !.proc[r].done = TRUE])
       /\ UNCHANGED <<shell, left>>

exit_batch_cb ==
    /\ e.batch = "on"
    /\ e' = exec_exit_notify(e)
    /\ UNCHANGED <<shell, left>>

-----------------------------------------------------------------------------
(* Signals *)

\* Drop the kills of which nothing is left.
Tidy(j) ==
    [j EXCEPT !.kills = SelectSeq(@, LAMBDA k : k.open \/ k.rpc \cup k.kept
                                                         \cup k.sent # {})]

\* server_signal_cb on rank r, and its answer.  SIGKILL ends the shell; it may
\* ignore the others.  The answer to a kept signal is passed on (sigpending_cb)
\* to a future which must still exist.
server_signal_cb(i, r) ==
    LET kill == e.kills[i]
    IN /\ r \in kill.rpc \cup kill.sent
       /\ e' = Tidy([e EXCEPT !.kills[i].rpc = @ \ {r},
                              !.kills[i].sent = @ \ {r},
                              !.crash = @ \/ (r \in kill.sent /\ ~kill.open)])
       /\ shell' = IF kill.sig = "KILL" /\ shell[r] = "runs"
                   THEN [shell EXCEPT ![r] = "exited"] ELSE shell
       /\ UNCHANGED left

\* exec_kill_cb: all signals are answered, or 3 seconds are over.  The kill is
\* destroyed with the futures of the signals that are kept.
exec_kill_cb(i) ==
    LET kill == e.kills[i]
        Destroy(r) == IF r \in kill.kept THEN [e.proc[r] EXCEPT !.future = "dead"]
                      ELSE e.proc[r]
    IN /\ kill.open
       /\ SlowStart \/ kill.kept \cup kill.sent \cup kill.rpc = {}
       /\ e' = jobinfo_decref(Tidy([e EXCEPT !.kills[i].open = FALSE,
                                             !.proc = [r \in Ranks |-> Destroy(r)]]))
       /\ UNCHANGED <<shell, left>>

\* kill_timer_cb, after the kill timeout of 5 seconds
kill_timer_cb ==
    /\ e.kill_timer = "on"
    /\ SlowStart \/ (e.cmds = {} /\ \A r \in Ranks : e.proc[r].state # "init")
    /\ e' = impl_kill([e EXCEPT !.kill_timer = "fired"], "KILL")
    /\ UNCHANGED <<shell, left>>

timelimit_cb ==
    LET j == impl_kill(respond(e, "exception"), "ALRM")
    IN /\ Disturb
       /\ e.expiration = "on"
       /\ LateExpiry \/ ~e.finalizing
       /\ e' = jobinfo_killtimer_start([j EXCEPT !.expiration = "stopped",
                                                 !.exception = TRUE])
       /\ UNCHANGED shell

\* exception_cb: the job-manager has published an exception of severity 0.
exception_cb ==
    /\ Disturb
    /\ e.refs > 0 /\ ~e.finalizing
    /\ e' = IF e.exception THEN impl_kill(e, "TERM")
            ELSE jobinfo_fatal_error([e EXCEPT !.exception = TRUE])
    /\ UNCHANGED shell

-----------------------------------------------------------------------------
(* Completion *)

\* timer_cb of testexec.c
timer_cb ==
    /\ e.timer = "on"
    /\ e' = jobinfo_tasks_complete([e EXCEPT !.timer = "none"])
    /\ UNCHANGED <<shell, left>>

\* The next commit is answered, and c waited for it.
Answered(c) == e.commits # <<>> /\ Head(e.commits) = c

Committed == [e EXCEPT !.commits = Tail(@)]

emit_event_continuation ==
    /\ Answered("reference")
    /\ e' = jobinfo_decref(Committed)
    /\ UNCHANGED <<shell, left>>

\* jobinfo_start_cleanup_cb with exec_cleanup, testexec_cleanup (fake_cleanup)
jobinfo_start_cleanup_cb ==
    /\ Answered("cleanup")
    /\ e' = IF e.impl = "bulk" THEN jobinfo_cleanup_complete(Committed)
            ELSE [Committed EXCEPT !.step = "cleanup"]
    /\ UNCHANGED <<shell, left>>

fake_cleanup_cb ==
    /\ e.step = "cleanup"
    /\ e' = jobinfo_cleanup_complete([e EXCEPT !.step = "none"])
    /\ UNCHANGED <<shell, left>>

cleanup_complete_cb ==
    /\ Answered("finalize")
    /\ e' = jobinfo_finalize(Committed)
    /\ UNCHANGED <<shell, left>>

namespace_copy ==
    /\ Answered("copy")
    /\ e' = [Committed EXCEPT !.copy = e.log, !.step = "copy"]
    /\ UNCHANGED <<shell, left>>

namespace_delete ==
    /\ e.step = "copy"
    /\ e' = [e EXCEPT !.ns = "removed", !.step = "delete"]
    /\ UNCHANGED <<shell, left>>

\* namespace_move_cb: the namespace is removed, or a step before has failed.
namespace_move_cb ==
    /\ \/ Answered("copy") /\ e' = jobinfo_release(Committed)
       \/ /\ e.step \in {"copy", "delete"}
          /\ e' = jobinfo_release([e EXCEPT !.step = "none"])
    /\ UNCHANGED <<shell, left>>

-----------------------------------------------------------------------------

\* What happens by itself: the handlers of job-exec and of the brokers run, the
\* timers fire, the KVS and the signals are answered.
Progress ==
    \/ namespace_link
    \/ jobinfo_start_continue
    \/ check_cb
    \/ \E r \in Ranks : server_exec_cb(r)
    \/ \E r \in Ranks : remote_state(r)
    \/ \E r \in Ranks : remote_completion(r)
    \/ \E r \in Ranks : state_change_check_cb(r)
    \/ \E r \in Ranks : completed_check_cb(r)
    \/ exit_batch_cb
    \/ \E i \in DOMAIN e.kills, r \in Ranks : server_signal_cb(i, r)
    \/ \E i \in DOMAIN e.kills : exec_kill_cb(i)
    \/ kill_timer_cb
    \/ timer_cb
    \/ emit_event_continuation
    \/ jobinfo_start_cleanup_cb
    \/ fake_cleanup_cb
    \/ cleanup_complete_cb
    \/ namespace_copy
    \/ namespace_delete
    \/ namespace_move_cb

Next ==
    \/ start_cb
    \/ Progress
    \/ \E r \in Ranks : Exit(r)
    \/ \E r \in Ranks : remote_output_error(r)
    \/ timelimit_cb
    \/ exception_cb

Spec == Init /\ [][Next]_vars

\* What can happen by itself goes on happening.  Whether a shell exits, whether
\* its output fails and whether the time limit expires is open.
FairSpec == Spec /\ WF_vars(Progress)

-----------------------------------------------------------------------------
(* Properties *)

\* Nothing that is pending refers to a job that was freed, no reference is
\* dropped twice, and no handler crashes: no call through a NULL impl, no
\* jobinfo_tasks_complete of a job not started, no use of the destroyed future
\* of a kept signal (jobinfo_decref, exec_kill_cb, fwd_pending_signal).
NoDangling ==
    /\ e.refs >= 0
    /\ ~e.crash
    /\ Freed =>
         /\ e.init = "done" /\ e.commits = <<>> /\ e.step = "none"
         /\ e.batch = "none"
         /\ \A i \in DOMAIN e.kills : ~e.kills[i].open

Count(type) == Cardinality({i \in DOMAIN e.out : e.out[i] = type})
Before(a, b) ==
    \A i, j \in DOMAIN e.out : e.out[i] = a /\ e.out[j] = b => i < j

\* The responses to the job-manager follow the protocol of start.c: at most one
\* start, finish and release, in this order; nothing after the final release;
\* and no release without a finish unless an exception was raised.
ResponsesInOrder ==
    /\ \A type \in {"start", "finish", "release"} : Count(type) <= 1
    /\ Before("start", "finish")
    /\ \A type \in {"start", "finish", "exception"} : Before(type, "release")
    /\ Count("release") = 1 /\ ~e.exception => Count("finish") = 1

\* After the final release no shell of the job runs or is about to: "all
\* resources allocated to the job are no longer in use by the exec system"
\* (start.c).  A shell whose output failed is the exception: SIGKILL was sent
\* and is not waited for (remote_exec_cb).
ReleaseWhenQuiet ==
    Count("release") = 1 =>
        \A r \in Ranks :
          \/ shell[r] \notin {"asked", "runs"}
          \/ \E i \in DOMAIN e.kills :
               r \in e.kills[i].rpc /\ e.kills[i].sig = "KILL"

\* No event is lost with the guest namespace: what is removed was copied to the
\* primary namespace, whole, with its done event, and nothing was written to it
\* between the copy and the removal (namespace_move).
LogCopied ==
    e.ns = "removed" =>
        /\ e.copy = e.log
        /\ \E i \in DOMAIN e.copy : e.copy[i] = "done"

\* A job ends: once an exception is in progress, or all its shells are over, or
\* it is a simulation, the final release is sent and the job is freed.
JobReleased ==
    (\/ e.exception
     \/ e.impl = "test"
     \/ \A r \in Ranks : shell[r] \in {"failed", "exited"})
        ~> (Count("release") = 1 /\ Freed)
=============================================================================
