# Verification of flux-core

This directory holds TLA+ specifications of the parts of flux-core that decide
what happens to a job and to the data of an instance: the job-manager, the
scheduler, the exec service, the key-value store and the content cache below
it. TLC checks them on small instances; TLAPS proves the main properties of the
job-manager, of its event batches and of the content cache for instances of any
size. Paths below are relative to `src/src/` of the repository.

## 1. The system

flux-core is a tree of *brokers*, one per node. A broker loads *modules*:
shared objects, each with its own thread and reactor, that exchange requests,
responses and events through the broker. A module runs one message handler,
timer or watcher at a time, to completion; concurrency is between modules and
between brokers. Messages of one sender to one receiver arrive in order. A
request to a service that nobody has registered is answered by the broker with
ENOSYS.

| Part | State | Operations | Talks to |
|---|---|---|---|
| job-manager (`modules/job-manager`) | hash of active jobs, alloc queue, counters, current batch of events, waiters | submit, raise, priority, drain, wait, list, kill; alloc/free/hello/ready; start/hello | scheduler, exec service, KVS, job-ingest, users |
| libschedutil, sched-simple | queue of alloc requests, resource list, KVS futures | alloc, free, cancel, hello, resource updates | job-manager, KVS, resource |
| job-exec, libsubprocess | running jobs, their shells, signals and timers | start, kill, cleanup, release | job-manager, brokers, KVS |
| kvs | cache, transactions, roots of namespaces | commit, fence, lookup, wait for a version, setroot events | every module, content cache |
| content cache (`broker/content-cache.c`), backing stores | entries by hash, dirty counts | load, store, flush, dropcache | kvs, parent broker, content-sqlite |
| job-ingest, fluid | batches, validators, id generator | submit | KVS, job-manager |
| job-info | mirror of the states of jobs | list, eventlog watch | job-manager events, KVS |
| resource, barrier, aggregator, broker, libflux, librouter, shell, commands | see the components of `PROJECT.json` | | |

The life of a job. job-ingest writes the job to the KVS and announces it to the
job-manager, where it passes through DEPEND, SCHED (waits for resources), RUN,
CLEANUP (gives back what it holds) and INACTIVE. Each change is caused by an
*event*, which is applied at once, then committed to the job's eventlog in the
KVS together with other events, and then published. After a restart the
job-manager replays the eventlogs. While the job runs, job-exec starts a shell
on each of its ranks, gives it a namespace of its own in the KVS, kills it on an
exception, and copies the namespace when it is over.

The life of a value. A commit is relayed to rank 0, which applies it to a copy
of the root directory, stores the new blobs through the content cache and
publishes the new root; other ranks learn it from an event or, the first time,
from their parent. Caches expire, so a transaction or a lookup may stall on a
blob that has to be loaded, and goes on when it has come.

What is hard about it, and hardly reached by tests: exceptions that meet
requests under way; a scheduler, exec service or backing store that goes away
with requests outstanding; cancels that cross answers; jobs that wait for
several independent things at once; counters that decide whether anybody is
asked again; requests that wait for a wakeup from some other handler; commits
that complete late or are applied twice; entries that are dropped while somebody
refers to them; crashes between an event and its commit. The `hazards` of
`PROJECT.json` list them with the line where each bites.

## 2. Modules

    Lists ── JobQueue ── JobManager ──┬── JobRestart
      │         │                     │
      │         └── SchedSimple ──────┴── JobSched      KvsTree ── KvsTxn
      │                │                                            │ implements
      ├── JobWait     Rlist ── RlistUse                 Kvs      KvsStore
      └── EventBatch
                                        JobExec         ContentCache

`MC<module>.tla` gives the constants of `<module>` small values; the `.cfg`
files select an instance and its properties. Modules that end in `Proofs`, and
`JobManagerMoves` and `ContentCacheLemmas`, hold theorems. Definitions with the
comment "mutant" are wrong variants of the definition that follows them. No
specification uses them: the `mutants` of `PROJECT.json` pair each checked
property with a variant of the code under which TLC finds it violated.

Definitions keep the names of the functions they model. Handlers call each
other in the code, so most modules write them as operators from a state to the
next state, and an action applies one of them.

**JobManager** (`event.c`, `alloc.c`, `start.c`, `submit.c`, `raise.c`,
`priority.c`, `drain.c`, `job.c`). The variable `jm` is a record: the state and
priority of each job; the flags of `struct job` (alloc_queued, alloc_pending,
free_pending, has_resources, start_pending) as sets of jobs; the queue, mode,
ready and disable flags and the counters of `struct alloc`; running_jobs; the
topic of the exec service; the blocked drain and idle requests. There is one
action for each message handler. The peers are unconstrained: every response of
the scheduler or the exec service may come at any time for any job, including
responses nobody asked for and, if `ExecErrors`, errors of the exec service.
The properties therefore hold whatever the peers do.

Details that matter: `event_job_action` runs again after every event and calls
`event_job_post_pack` recursively; the `clean` event of a job is posted inside
the handler that clears the last of its flags. `alloc_teardown` puts pending
jobs back in the order of a hash table, which the model leaves open
(`requeued`). `alloc_queue_reorder` on a job without a queue node is a crash
(`segfault`). Unsigned counters wrap at `UINT_MAX`. A `release` event with
final=true is accepted in RUN, since `event_release_context_decode` never sets
`final`.

**JobQueue** (`job.c`, and the same order in `sched.c`): the comparator and
the sorted insertion, from the front for high priorities and from the back
otherwise.

**JobWait** (`wait.c`, and the capture of end_event in `event.c`). Waits on one
job or on `FLUX_JOBID_ANY`, zombies, the counters waiters and waitables, the
limit on waiters, disconnects and the unload. A request that arrives is one
action that decides between an answer, an error and blocking.

**EventBatch** (`event.c`). The current batch, its timer, the commits under
way, what each batch publishes and answers when its commit has completed, the
flush at unload, failing commits, crashes.

**JobRestart** (`restart.c`, `job.c`) extends JobManager by the eventlogs in the
KVS. A log is represented by what its replay gives, since replay uses the same
`event_job_update` as live operation. `commit` brings the logs up to date (that
logs are prefixes is what EventBatch shows), `restart` replays them in any
order and takes the action of each job's state. A restart without a commit
before it is a crash that lost the last batches.

**Rlist**, **RlistUse** (`sched-simple/rlist.c`, `rnode.c`, `libjj.c`). The
three allocation modes and the allocation by nodes, feasibility, free, hello and
up/down, with the redundant counter `avail`. A jobspec is the three numbers that
libjj extracts (nodes, slots in total, cores per slot); an R is a set of cores
for each rank. RlistUse exercises the list the way the scheduler does.

**SchedSimple** (`libschedutil/{ops,alloc,hello,ready,init}.c`,
`sched-simple/sched.c`). Requests whose KVS lookup is under way, the queue, the
prep watcher that puts the scheduler to sleep, R commits under way, load, hello
and unload.

**JobSched** composes JobManager and SchedSimple by two queues of messages and
the R of each job in the KVS. The exec service is reduced to the answers that
end a job: finish, then the final release.

**JobExec** (`job-exec/{job-exec,exec,bulk-exec,testexec}.c`,
`common/libsubprocess/{remote,subprocess,server}.c`). One job, from the start
request to the end of its `struct jobinfo` (no handler touches two jobs): the
chain of futures that makes the guest namespace, the shells on all ranks with
the states that libsubprocess reports, the batch in which exits are collected,
signals with the one kept until the process runs, the kill and time limit
timers, the events committed to the guest eventlog, the move of the namespace,
and the reference count that ends it all. `testexec` is the simulated
execution. The shells are processes that start, fail to start, exit or are
killed.

**KvsTree** (`kvs/kvstxn.c`, `lookup.c`). Pure operators: how one operation is
linked into a copy of the root directory (with symlinks, appends, missing
directories), how the copy is unrolled into blobs, and the walk of a path.
Blobs are content addressed, so a reference is represented by the blob itself.
`Meaning` is the reference: a tree is a function from paths to values and an
operation changes that function.

**KvsTxn** (`kvs/{kvs,kvstxn,cache,waitqueue,lookup}.c` on rank 0). Ready
transactions of several namespaces, their merger and the fall-back to the
components, the states of `kvstxn_process`, the shared cache with its entries
valid, dirty and referenced, the queues of waiters, loads and stores that fail,
expiry and dropcache, lookups that stall and are continued.

**KvsStore** is what KvsTxn promises: a queue of transactions that take effect
in order, entirely or not at all, each with one outcome. The mapping forgets the
mergers; the run kvs_txn checks that each step of KvsTxn is a step of KvsStore
or leaves it unchanged.

**Kvs** (`kvs/{kvs,treq,kvssync,kvsroot}.c`, the events of `broker/publisher.c`
and `broker.c`) is one namespace on a tree of ranks. Rank 0 does what KvsStore
promises. Requests are relayed, roots are fetched from the parent with the
request waiting, setroot and error events are flooded down the tree, fences
count their members, a namespace is removed, and followers age their root.

**ContentCache** (`broker/content-cache.c`, `modules/content-sqlite`). The caches
of all ranks with their pending loads and stores, the counters acct_dirty and
flush_batch_count, flushes, dropcache and purge, and the module of the backing
store as it is loaded, registers, fails, is stopped and leaves.

## 3. Runs

Numbers are distinct states, times are for two workers.

| Run | Instance | States | Shows |
|---|---|---|---|
| wait | 3 jobs (2 waitable), 3 requests of 2 clients | 90,304 (89 s) | A request is registered in one place exactly while it is unanswered, a result goes to one request and is that of the first end event, no ANY request blocks beside a zombie; if jobs end, a request blocked on an id is answered |
| manager | 2 jobs, 2 priorities (on both sides of the default), 1 blocked drain and idle request, any peer | 257,568 (88 s) | No job is lost between the queue and the scheduler, jobs run only on resources and end only without them, the queue is in order, no drain request misses its wakeup, jobs only move forward |
| restart | 2 jobs, any peer without exec errors | 177,312 (75 s) | Across crashes and restarts a job in CLEANUP always waits for something and gives its resources back while a scheduler is up; logs never go back |
| batch | 3 events (2 transitions), 1 annotation, 1 request, failing commits, crashes | 184,514 (56 s) | Logs have no holes, publications are in order, nothing is published or answered before it is durable; everything is delivered unless the module crashes |
| rlist | ranks of 2, 3 and 1 cores, 12 requests, 3 modes | 3,976 (84 s) | `avail` is right, an allocation is what was asked for, a job is denied only if it can never be placed, compared with a search over all placements |
| sched | 2 jobs, ranks of 1 and 2 cores that go down and up, both modes, 2 loads of the scheduler, the interface disabled and enabled | 240,634 (42 s) | No core belongs to two jobs; the scheduler's view is the job-manager's plus what is under way |
| sched_live | 2 jobs that compete for 2 cores, 2 loads | 2,463 (62 s) | Every submitted job ends |
| kvs_txn | 2 namespaces, 3 transactions (an append before a walk, one that fails after others, one that goes through a link), a lookup, 1 fault or expiry, a removal | 249,608 (169 s) | The root is what the announced transactions make of the first root; a lookup sees the root it started on; nobody who waits is forgotten; KvsTxn implements KvsStore |
| kvs | a chain of 3 ranks, a fence of ranks 0 and 2 with a version wait, or a commit; a removal, an ageing | 92,209 (131 s) | Answers tell the outcome, a client reads its writes, commits and complete fences are answered |
| content | a chain of 3 ranks, 2 blobs, 2 stores, 2 loads and a flush, batches of 1, 1 fault, 2 loads of the module, 1 drop | 87,784 (156 s) | Counters agree with entries, what may be dropped is durable, a flush that succeeds is durable, work left is never forgotten, all requests are answered |
| exec | a job on 2 ranks, 2 exceptions, time limits or failures of output | 412,890 (179 s) | Nothing pending refers to a freed job, responses follow the protocol, no shell runs after the final release, the guest eventlog is copied whole; a job that was cancelled, or whose shells are over, is released |
| content_race | 2 ranks, a store and a load of one blob | violation | A load that was pending when the blob was stored fails and takes the stored entry with it: StoredLoadable, which a comment of `content-cache.c` states, is violated |

### Further instances

The other `.cfg` files show cases that the passing runs exclude; TLC finds the
property of each violated. They are the evidence for the notes of the hazards.

| File, property | The code |
|---|---|
| JobWaitLimit | A wait on a specific id returns before the limit on waiters is applied, so more requests can be blocked than there are waitable jobs |
| JobManagerSegfault | A priority change of a job in RUN or CLEANUP reorders a queue the job is not in |
| JobRestartCount | A job cleaned up during the replay is subtracted from running_jobs before it was counted |
| RlistHello | A scheduler loaded while the rank of a running job is down subtracts that job's cores from `avail` twice |
| JobSchedLost | A scheduler unloaded while it commits an R never answers that alloc request |
| KvsUnstored | `store_cache` takes a valid entry for a stored one. A merged attempt that fails while its operations are applied leaves the blob of an append valid and dirty; the transaction, applied again by itself, meets it and is published without it being stored |
| KvsAppend | An append to a key that does not exist is an insertion and does not count as an append; if the transaction stalls and is applied again, the data is there twice |
| KvsBackwards | A getroot response that was delayed sets the root of a follower back |

### Bounds

Two jobs suffice for the job-manager because its handlers touch one job at a
time, except teardown, ready, hello and the counters, for which a second job in
another state is what matters; the theorems cover any number. wait uses two
waitable jobs and three requests so that the limit, ANY requests and requests
on ids meet. rlist has ranks of different sizes and requests that fit exactly,
leave a rest, or never fit. sched has two jobs that fit together unless a rank is
down, so both concurrent use and contention occur. kvs and content use a chain
of three ranks: the middle one relays and caches for the last. exec uses two
ranks, so that shells are in different states when the job is cancelled.

- `MaxRequests`: blocked drain and idle requests. `UINT_MAX`: where unsigned
  counters wrap; at least the number of jobs.
- `MaxLoads`, `Loads`: how often a scheduler or backing store is loaded.
  `Admins`: the interface is disabled or enabled only while fewer messages than
  that are under way. `Drains`: ranks that go down and up.
- `Faults`: failing loads and stores, and in kvs_txn expiries. `Drops`,
  `Removals`, `Ageings`, `Disturbances`: how often an entry is dropped, a
  namespace removed or aged, a job disturbed. `Workloads`: the sets of requests
  that clients make, one in a behaviour.

### What the passing runs assume, and why

- `ExecErrors = FALSE` in restart: an error response of the exec service makes
  `start.c:interface_teardown` clear start_pending of all jobs without running
  their actions, and a job in CLEANUP then keeps its resources until the next
  scheduler is ready. The run `manager` and the theorems on it include these
  errors; only CleanupWaits and CleanupFrees are claimed without them.
- `HelloDown = FALSE` in rlist and `QuietUnload = TRUE` in sched_live exclude
  exactly the cases of RlistHello and JobSchedLost.
- `PromptAnswers = TRUE`: the job-manager has read the errors of the last
  scheduler when the next one is loaded. Otherwise a late error makes it ask
  again for a job whose request the new scheduler already holds, since responses
  carry no mark of the instance that sent them. Administrators load a scheduler
  by hand, so the assumption is mild, but the code does not enforce it.
- `SlowStart = FALSE` in exec: a signal is answered within the 3 seconds that
  `exec_kill` waits, also while the shell is being started. Otherwise the future
  of a kept signal is destroyed before `fwd_pending_signal` uses it, and
  NoDangling is violated. A second signal that finds one kept is dropped, so
  without the assumption a SIGKILL may be lost too.
- `LateExpiry = FALSE` in exec: the time limit does not expire once the job is
  being finalized. Otherwise an exception follows the final release, or is
  raised through an implementation that is not set.
- `Disjoint = TRUE` in content: no client loads a blob while it is being stored
  for the first time. content_race shows what happens otherwise.
- The workloads of kvs have at most one request of a client on each rank.
  Nothing in the code orders two getroot requests of one follower with the events
  between them; KvsBackwards, with a commit and a version wait on the same rank,
  shows a late response setting the root back.
- The transactions of kvs_txn have no append to a new key that may stall
  (KvsAppend).
- An allocation by nodes is not always even, in spite of the comment at
  `rlist_alloc_nnodes`: a node that is full leaves the list and the others take
  its share. AllocExact claims the total and the number of nodes only.
- DurableFirst claims durability of responses that share a batch with events. A
  batch without events is destroyed at once, even if earlier commits are
  pending.
- AnswersTrue excepts transactions of a namespace that has been removed: the
  removal answers a committed transaction with ENOTSUP.
- ReleaseWhenQuiet excepts a shell whose output overflowed: it was sent SIGKILL,
  and `remote_exec_cb` does not wait for its end.

### Fairness

wait assumes that jobs end (weak fairness of the end of each job and of its
transition to INACTIVE), which is what the other modules establish. batch
assumes that the timer fires, the KVS answers each commit (with success or
failure) and the reactor runs continuations; all three are single handlers that
stay enabled until they run. sched_live assumes in addition that messages
arrive, that jobs finish and are released, and that a scheduler is loaded after
one was unloaded. kvs assumes that links deliver, that modules handle their
messages, that ready transactions are applied or fail, and that heartbeats go
on. exec assumes that handlers, timers and answers go on happening (Progress);
shells need not exit by themselves. content assumes that messages are handled,
and strong fairness of the steps of the backing store module: until its service
is registered the broker answers each store with an error and the cache sends
it again, so the step is enabled again and again rather than all the time;
the module's thread runs independently of these answers. Nothing is assumed of
users, of administrators, or of crashes.

## 4. Proofs

All theorems are checked by TLAPS from the named assumptions on the constants:
the sets of jobs, events and blobs are finite, as are the requests of JobWait and
EventBatch; submission times are natural numbers, `UINT_MAX` is at least the number of jobs, a parent has a
smaller rank than its child. Nothing bounds the number of jobs, requests,
clients, events, priorities, ranks, blobs or faults.

**ListProofs, JobQueueProofs.** What the removal of a set of entries leaves
(WithoutEntries, WithoutOrder) and that sorted insertion, from either end, has a
place and leaves the queue sorted with one more entry (InsertSorted). The
comparator is total because priorities and times are numbers.

**JobWaitProofs.** `WaitInv` is inductive. The checked invariants are not
inductive by themselves: that a request is registered once needs that a waiter
sits on an active waitable job of a loaded module (WaiterActive), that a result
goes to one request needs that zombies are inactive (ZombieInactive), and that
the result is that of the first end needs that end_event is set exactly when a
waitable job has ended (EndCaptured). One lemma for each action; the requests
are split by outcome (ConsumeZombie, BlockAny, BlockId, FailWait).

**JobManagerProofs.** `JobManagerInv`, the conjunction of the properties, is
shown to be equivalent to `Good(jm)` for a predicate on records that can also be
asserted of the intermediate states of a handler: `Core` (flags, queue,
counters, and `Settled`: a job in SCHED has asked for resources, a job in CLEANUP
waits for something and has asked for its free) and `DrainOK`. Inside a handler
one job is between two states; `CoreBut` says that everything holds except that
this one job is settled, and `CoreLoose`, for a change of priority, that it may
also be out of its place in the queue. The lemmas follow the call graph: the
requests of the state machine (EnqueueCore, StartCore, CancelCore, DequeueCore,
FreeCore), the action of a job (CleanupAction, ActionCore), an event
(RecordCore, PostCore), then one lemma for each handler. Without exec errors the
same invariant gives CleanupWaits and CleanupFrees (ManagerCleanup,
ManagerFrees).

**JobManagerMoves.** ManagerForward, an action property: no step takes a job
back, and resources are given up only in CLEANUP. Each handler is composed of
operators that keep the states or move them forward.

**EventBatchProofs.** `BatchInv` is inductive. None of the checked invariants is:
that the log is a prefix of what was posted says nothing of the batches still
under way, which decide what is appended to it next. BatchInv says that there
are *cuts* L[0], L[1], ... of the events posted, one for each batch whose commit
was sent: L[0] has been published, L[i] is L[i-1] with the events of the i-th
batch, what follows the last cut is in the current batch, and the KVS has L[m]
where m is the number of commits that have completed. Each kind of step moves the
cuts in one way, with a lemma for each: posting moves none (PostCuts), closing a
batch adds one at the end (CloseCuts), a completed commit raises m (CommitCuts),
destroying a batch drops the first (DestroyCuts), and a batch without events has
nothing to publish (EmptyBatch, DropCuts). BatchLog, BatchPublished, BatchDurable
and BatchUnload read the properties off the cuts. UnloadFlushes is only proved;
the run batch has LogPrefix, PublishedInOrder and DurableFirst.

**ContentCacheLemmas, ContentCacheProofs.** `ContentInv` is inductive for any
tree of ranks. The counters agree with the entries only together with the facts
that a pending store is of a dirty entry, that each pending flag has exactly one
message or response under way, and that a flush or a dirty entry that was not
sent has a batch under way (FlushGoesOn); CleanIsDurable needs that a store
response with success is under way only for blobs in the database. Once an entry
has been freed that a list or a future still refers to (`dangling`), the code
has undefined behaviour and CountsAgree and FlushGoesOn claim nothing. The lemmas
module has one lemma for each operation on an entry (what it does to the counts)
and each operation on the queues of messages. ContentFlushDone is conditional: in
behaviours where StoredLoadable and NothingDangling hold throughout, FlushDurable
does. Its own part is that a flush of rank 0 gets a success only from a step that
leaves acct_dirty at 0 (FlushRight), for which `Waiters` says that flush requests
wait in the list of their rank and nowhere else; the counts then say that no
entry is dirty. That the two hypotheses hold is not proved. They do hold in the
instance of `ContentCache.cfg`, where TLC passes with both added to the
invariants, and content_race shows that without `Disjoint` StoredLoadable fails.

Only model-checked, and why. Liveness (WaitOnIdAnswered, EverythingDelivered,
JobsEnd, TxnsAnswered, AllAnswered, JobReleased) and anything with ENABLED is
out of the prover's reach. KvsTree is recursive over directories and paths, and
what a recursive definition computes cannot be proved with the installed
provers; this excludes KvsTxn and with it the refinement of KvsStore. Rlist
searches and sums over nodes with folds, which have the same problem.
CleanupWaits and CleanupFrees are proved for JobManager without restarts; across
restarts they are checked by the run restart, since the replay folds over the
jobs. For Kvs, JobExec and JobSched no inductive invariant has been worked out
yet. StoredLoadable and NothingDangling of ContentCache are not proved, and
FlushDurable only from these two.

## 5. Not modelled

- In the modelled files: message decoding and the checks of a sender's
  credentials, log messages, the FLUX_JOB_DEBUG events, annotations (beyond
  their publication), the JSON forms of R and jobspec, ENOMEM.
- KVS errors in libschedutil. Reading the code suggests that a failed jobspec
  lookup leaves its future at the head of the alloc queue, and that a failed R
  commit frees its context twice.
- The checkpoint of max_jobid, and waitable jobs across a restart.
- job-exec: the setuid helper (IMP), the mock exceptions of testexec, the unload
  of the module, and ranks that are lost while the job runs (its job then never
  ends).
- kvs: the namespace list, stats, the watchers of kvs-watch, and the private
  namespaces' owner checks. A namespace removed before its root was fetched.
- content cache: the hash algorithm, size limits, and the alternative backing
  store content-files.
- All other parts of the table in section 1: see the components of
  `PROJECT.json` for the reason in each case.

## 6. Plan

1. JobExec composed with JobManager in place of the unconstrained exec service;
   a duplicated start after an early final release.
2. KVS errors in SchedSimple; the order of commits that EventBatch takes from
   KvsStore; **KvsWatch** on top of Kvs.
3. **JobIngest** and **Fluid**: batches, ids that stay unique across a crash,
   the announcement after the commit; **JobInfo**: the mirror built from the
   publications of EventBatch.
4. **Broker**: module load and unload, services; **Barrier** and
   **Aggregator** over the tree; the router's subscriptions.
5. An abstract job life cycle that JobManager and JobSched implement.
6. Proofs: StoredLoadable and NothingDangling of ContentCache under `Disjoint`;
   the responses of JobExec; AnswersTrue of Kvs; NoDoubleBooking of JobSched.
