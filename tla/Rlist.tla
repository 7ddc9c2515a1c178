------------------------------- MODULE Rlist --------------------------------
(***************************************************************************)
(* The resource list of sched-simple (rlist.c, rnode.c): the cores of each *)
(* broker rank, which of them are allocated, which ranks are up, and the   *)
(* algorithms that choose cores for a job.  An allocation, the contents of *)
(* an R object, is the set of cores taken from each rank.                  *)
(***************************************************************************)
EXTENDS Integers, Sequences, FiniteSets, FiniteSetsExt, SequencesExt

CONSTANTS
    Ranks,      \* broker ranks
    cores       \* the core ids of each rank

ASSUME RlistAssumption ==
    /\ IsFiniteSet(Ranks) /\ Ranks \subseteq Nat
    /\ DOMAIN cores = Ranks
    /\ \A r \in Ranks : IsFiniteSet(cores[r]) /\ cores[r] \subseteq Nat

\* The counts of a jobspec (libjj); nnodes is 0 if it names none.
Request == [nnodes : Int, slots : Int, slot_size : Int]

Modes == {"worst-fit", "best-fit", "first-fit"}

Allocation == [Ranks -> SUBSET UNION {cores[r] : r \in Ranks}]
NoCores == [r \in Ranks |-> {}]

count(a) == MapThenSumSet(LAMBDA r : Cardinality(a[r]), Ranks)

\* rnode.avail is the field ids; rlist.avail is a signed count.
List == [up : [Ranks -> BOOLEAN], ids : Allocation, avail : Int]

\* rlist_from_hwloc_by_rank, rlist_copy_empty: every rank up, nothing allocated
rlist_copy_empty == [up |-> [r \in Ranks |-> TRUE], ids |-> cores,
                     avail |-> count(cores)]

rnode_avail(l, r) == IF l.up[r] THEN Cardinality(l.ids[r]) ELSE 0

-----------------------------------------------------------------------------
(* Allocation *)

by_rank(l, r, s) == r < s

by_avail(l, r, s) ==
    \/ rnode_avail(l, r) < rnode_avail(l, s)
    \/ rnode_avail(l, r) = rnode_avail(l, s) /\ by_rank(l, r, s)

by_used(l, r, s) ==
    \/ rnode_avail(l, r) > rnode_avail(l, s)
    \/ rnode_avail(l, r) = rnode_avail(l, s) /\ by_rank(l, r, s)

zlistx_sort(l, before(_, _, _)) ==
    SetToSortSeq(Ranks, LAMBDA r, s : before(l, r, s))

\* rnode_alloc takes the lowest ids.
lowest(S, n) ==
    CHOOSE T \in SUBSET S :
        Cardinality(T) = n /\ \A x \in T, y \in S \ T : x < y

\* The cores of n[r] slots on each rank r.
place(l, n, size) ==
    [r \in Ranks |-> lowest(l.ids[r], IF n[r] > 0 THEN n[r] * size ELSE 0)]

\* mutant: counts one slot too few
rlist_alloc_first_fit_short(l, q, slots, size) ==
    LET fit(i) == Cardinality(l.ids[q[i]]) \div size
        left[i \in 0..Len(q)] ==
            IF i = 0 THEN slots
            ELSE left[i - 1] - Min({left[i - 1], fit(i)})
        at(r) == CHOOSE i \in 1..Len(q) : q[i] = r
    IN  IF \/ left[Len(q)] > 1
           \/ \E i \in 1..Len(q) : ~l.up[q[i]] /\ left[i - 1] > 0
          THEN NoCores
          ELSE place(l, [r \in Ranks |-> left[at(r) - 1] - left[at(r)]], size)

\* Slots go to the nodes in the order of q, as many on each as fit; left[i] is
\* what is left after i nodes.  A node that is down ends the search (rnode_alloc
\* fails with EHOSTDOWN, not ENOSPC).
rlist_alloc_first_fit(l, q, slots, size) ==
    LET fit(i) == Cardinality(l.ids[q[i]]) \div size
        left[i \in 0..Len(q)] ==
            IF i = 0 THEN slots
            ELSE left[i - 1] - Min({left[i - 1], fit(i)})
        at(r) == CHOOSE i \in 1..Len(q) : q[i] = r
    IN  IF \/ left[Len(q)] > 0
           \/ \E i \in 1..Len(q) : ~l.up[q[i]] /\ left[i - 1] > 0
          THEN NoCores
          ELSE place(l, [r \in Ranks |-> left[at(r) - 1] - left[at(r)]], size)

\* The first nnodes nodes that are up, from the least used; <<>> if there are
\* not so many.
rlist_get_nnodes(l, nnodes) ==
    LET q == SelectSeq(zlistx_sort(l, by_used), LAMBDA r : l.up[r])
    IN  IF Len(q) < nnodes THEN <<>> ELSE SubSeq(q, 1, nnodes)

\* One slot at a time on the first candidate, which then moves to the end of the
\* list, or leaves it when it has no core left.
rlist_alloc_nnodes(l, nnodes, slots, size) ==
    LET room(n, r) == Cardinality(l.ids[r]) - n[r] * size
        step[k \in 0..slots] ==
            IF k = 0
              THEN [cl |-> rlist_get_nnodes(l, nnodes),
                    n |-> [r \in Ranks |-> 0], ok |-> TRUE]
            ELSE LET s == step[k - 1] IN
              IF ~s.ok \/ s.cl = <<>> \/ room(s.n, Head(s.cl)) < size
                THEN [s EXCEPT !.ok = FALSE]
                ELSE LET n == [s.n EXCEPT ![Head(s.cl)] = @ + 1]
                     IN  [cl |-> IF room(n, Head(s.cl)) = 0 THEN Tail(s.cl)
                                 ELSE Append(Tail(s.cl), Head(s.cl)),
                          n |-> n, ok |-> TRUE]
    IN  IF step[slots].ok THEN place(l, step[slots].n, size) ELSE NoCores

\* The allocation, NoCores if there is none.
rlist_try_alloc(l, mode, req) ==
    CASE req.nnodes > 0 ->
           IF req.nnodes > Cardinality(Ranks) \/ req.slots < req.nnodes
             THEN NoCores
             ELSE rlist_alloc_nnodes(l, req.nnodes, req.slots, req.slot_size)
      [] mode = "worst-fit" ->
           rlist_alloc_first_fit(l, zlistx_sort(l, by_used),
                                 req.slots, req.slot_size)
      [] mode = "best-fit" ->
           rlist_alloc_first_fit(l, zlistx_sort(l, by_avail),
                                 req.slots, req.slot_size)
      [] OTHER ->
           rlist_alloc_first_fit(l, zlistx_sort(l, by_rank),
                                 req.slots, req.slot_size)

\* mutant: compares only the number of cores
rlist_alloc_feasible_count(mode, req) ==
    req.slots * req.slot_size <= count(cores)

rlist_alloc_feasible(mode, req) ==
    rlist_try_alloc(rlist_copy_empty, mode, req) # NoCores

\* Why there is no allocation.
rlist_alloc_errno(l, mode, req) ==
    LET total == req.slots * req.slot_size
        a == rlist_try_alloc(l, mode, req)
    IN  CASE req.slots <= 0 \/ req.slot_size <= 0 \/ req.nnodes < 0 -> "EINVAL"
          [] total > count(cores) -> "EOVERFLOW"
          [] total > l.avail \/ a = NoCores ->
               IF total <= l.avail /\ req.nnodes > 0
                    /\ req.nnodes <= Cardinality(Ranks)
                    /\ req.slots < req.nnodes
                 THEN "EINVAL"
               ELSE IF rlist_alloc_feasible(mode, req) THEN "ENOSPC"
               ELSE "EOVERFLOW"
          [] OTHER -> "0"

-----------------------------------------------------------------------------
(* Changes of the list *)

\* The cores of a are taken by rlist_alloc, all of them on ranks that are up.
rlist_take(l, a) ==
    [l EXCEPT !.ids = [r \in Ranks |-> @[r] \ a[r]],
              !.avail = @ - count(a)]

rlist_free_ok(l, a) == \A r \in Ranks : a[r] \intersect l.ids[r] = {}

rlist_free(l, a) ==
    [l EXCEPT
       !.ids = [r \in Ranks |-> @[r] \union a[r]],
       !.avail = @ + count([r \in Ranks |-> IF l.up[r] THEN a[r] ELSE {}])]

\* rlist_alloc_rnode subtracts the cores whether or not the rank is up.
rlist_set_allocated(l, a) == rlist_take(l, a)

\* mutant: counts the cores of ranks that were up already
rlist_mark_up_again(l, S) ==
    [l EXCEPT
       !.up = [r \in Ranks |-> @[r] \/ r \in S],
       !.avail = @ + count([r \in Ranks |-> IF r \in S
                                              THEN l.ids[r] ELSE {}])]

rlist_mark_up(l, S) ==
    [l EXCEPT
       !.up = [r \in Ranks |-> @[r] \/ r \in S],
       !.avail = @ + count([r \in Ranks |-> IF r \in S /\ ~l.up[r]
                                              THEN l.ids[r] ELSE {}])]

rlist_mark_down(l, S) ==
    [l EXCEPT
       !.up = [r \in Ranks |-> @[r] /\ r \notin S],
       !.avail = @ - count([r \in Ranks |-> IF r \in S /\ l.up[r]
                                              THEN l.ids[r] ELSE {}])]

=============================================================================
