------------------------------ MODULE RlistUse ------------------------------
(***************************************************************************)
(* What sched-simple does with its resource list while jobs come and go,   *)
(* ranks go up and down and the scheduler is loaded again.                 *)
(***************************************************************************)
EXTENDS Rlist

CONSTANTS
    Requests,   \* requests of jobs
    FitModes,   \* allocation modes in use
    HelloDown   \* whether a scheduler may be loaded while a rank that has
                \* jobs on it is down

ASSUME RlistUseAssumption ==
    /\ Requests \subseteq Request
    /\ FitModes \subseteq Modes
    /\ HelloDown \in BOOLEAN

VARIABLES
    rl,     \* struct rlist of the scheduler that is loaded
    held    \* the allocations of running jobs

vars == <<rl, held>>

Init == rl = rlist_copy_empty /\ held = {}

alloc(mode, req) ==
    /\ rlist_alloc_errno(rl, mode, req) = "0"
    /\ LET a == rlist_try_alloc(rl, mode, req)
       IN  rl' = rlist_take(rl, a) /\ held' = held \union {a}

free(a) ==
    /\ rlist_free_ok(rl, a)
    /\ rl' = rlist_free(rl, a) /\ held' = held \ {a}

update(up, S) ==
    /\ rl' = IF up THEN rlist_mark_up(rl, S) ELSE rlist_mark_down(rl, S)
    /\ UNCHANGED held

\* A new scheduler: every rank is marked down, those of S up, and hello marks
\* the allocations of running jobs.
reload(S) ==
    /\ \A a \in held : HelloDown \/ {r \in Ranks : a[r] # {}} \subseteq S
    /\ rl' = FoldSet(LAMBDA a, l : rlist_set_allocated(l, a),
                     rlist_mark_up(rlist_mark_down(rlist_copy_empty, Ranks), S),
                     held)
    /\ UNCHANGED held

Next ==
    \/ \E mode \in FitModes, req \in Requests : alloc(mode, req)
    \/ \E a \in held : free(a)
    \/ \E up \in BOOLEAN, r \in Ranks : update(up, {r})
    \/ \E S \in SUBSET Ranks : reload(S)

Spec == Init /\ [][Next]_vars

-----------------------------------------------------------------------------
(* Properties *)

\* The list has its type, no core is given to two jobs, and none is lost: the
\* free cores are those that no job holds.
CoresAccounted ==
    /\ rl \in List
    /\ \A a, b \in held : a # b => \A r \in Ranks : a[r] \intersect b[r] = {}
    /\ \A r \in Ranks : rl.ids[r] = cores[r] \ UNION {a[r] : a \in held}

\* The count that rlist_alloc looks at first is the number of cores it can use.
\* (Checked while schedulers are loaded with the ranks of running jobs up.)
AvailAgrees ==
    rl.avail = MapThenSumSet(LAMBDA r : rnode_avail(rl, r), Ranks)

\* What a job gets is what it asked for: whole slots, each on one rank that is
\* up, on exactly nnodes ranks if it asked for a number of nodes.
AllocExact ==
    \A mode \in FitModes, req \in Requests :
        rlist_alloc_errno(rl, mode, req) = "0" =>
          LET a == rlist_try_alloc(rl, mode, req)
              N == {r \in Ranks : a[r] # {}}
          IN  /\ count(a) = req.slots * req.slot_size
              /\ \A r \in N : /\ a[r] \subseteq rl.ids[r] /\ rl.up[r]
                              /\ Cardinality(a[r]) % req.slot_size = 0
              /\ req.nnodes > 0 => Cardinality(N) = req.nnodes

\* There is a way to place the slots of req on free_cores[r] cores of each rank
\* r: anywhere, or with the same number of slots on each of nnodes ranks.
Placeable(free_cores, req) ==
    \E n \in [Ranks -> 0..req.slots] :
        /\ MapThenSumSet(LAMBDA r : n[r], Ranks) = req.slots
        /\ \A r \in Ranks : n[r] * req.slot_size <= free_cores[r]
        /\ req.nnodes > 0 =>
             \A r \in Ranks : n[r] \in {0, req.slots \div req.nnodes}

WaitsIf(mode, req) == rlist_alloc_errno(rl, mode, req) = "ENOSPC"
DeniedIf(mode, req) == rlist_alloc_errno(rl, mode, req) = "EOVERFLOW"
PlaceableNow(req) == Placeable([r \in Ranks |-> rnode_avail(rl, r)], req)
PlaceableEver(req) == Placeable([r \in Ranks |-> Cardinality(cores[r])], req)

\* A job is denied only if its slots could not be placed on an idle machine
\* (rlist_alloc_feasible), in every mode.  If it names no number of nodes, it is
\* denied in every such case, and does not block the queue.
DeniedOnlyIfNever ==
    \A mode \in FitModes, req \in Requests :
        /\ DeniedIf(mode, req) => ~PlaceableEver(req)
        /\ req.nnodes = 0 /\ ~PlaceableEver(req) => DeniedIf(mode, req)

\* A job waits only if its slots cannot be placed now: in the default mode, and
\* in every mode if it names a number of nodes.
WaitsOnlyIfFull ==
    \A mode \in FitModes, req \in Requests :
        /\ req.nnodes > 0 \/ mode = "worst-fit"
        /\ WaitsIf(mode, req)
        => ~PlaceableNow(req)

=============================================================================
