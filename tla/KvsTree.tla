------------------------------ MODULE KvsTree -------------------------------
(***************************************************************************)
(* Directory trees of the KVS (kvstxn.c, lookup.c): how an operation of a  *)
(* transaction is linked into a working copy of the root directory, how    *)
(* the copy is taken apart into blobs, and how a path is walked.  Blobs    *)
(* are content addressed, so a blobref is represented by the blob itself.  *)
(* An operation that meets a directory which is not in the cache reports   *)
(* the missing reference.                                                  *)
(***************************************************************************)
EXTENDS Naturals, Sequences, FiniteSets, SequencesExt, FiniteSetsExt, TLC

CONSTANTS
    BigData      \* values too long to be kept in their directory

-----------------------------------------------------------------------------
(* Tree objects (external: libkvs/treeobj.c) *)

val(d) == [t |-> "val", d |-> d]
valref(refs) == [t |-> "valref", r |-> refs]
dir(entries) == [t |-> "dir", e |-> entries]
dirref(blob) == [t |-> "dirref", r |-> blob]
symlink(path) == [t |-> "symlink", p |-> path]
null == [t |-> "null"]
raw(d) == [t |-> "raw", d |-> d]

EmptyDir == dir(<<>>)

insert_entry(dr, name, x) == dir((name :> x) @@ dr.e)

delete_entry(dr, name) ==
    dir([n \in DOMAIN dr.e \ {name} |-> dr.e[n]])

-----------------------------------------------------------------------------
(* kvstxn_link_dirent *)

\* What linking a dirent gives: the directory, the references that are
\* missing, the path to restart with after a symlink, the blobs for the
\* cache, whether data was appended, and an error.
Linked(dr) ==
    [dir |-> dr, miss |-> <<>>, to |-> <<>>, put |-> <<>>,
     append |-> FALSE, err |-> "none"]

LinkError(dr, e) == [Linked(dr) EXCEPT !.err = e]

\* kvstxn_append: data is appended to a value by turning it into a list of
\* references; the data itself goes to the cache.
kvstxn_append(dr, name, x) ==
    LET new == name \notin DOMAIN dr.e
        entry == dr.e[name]
        List(refs, blobs) ==
            [Linked(insert_entry(dr, name, valref(Append(refs, raw(x.d)))))
                EXCEPT !.put = blobs \o <<raw(x.d)>>, !.append = TRUE]
    IN CASE x.t # "val" -> LinkError(dr, "EPROTO")
         [] x.t = "val" /\ new -> Linked(insert_entry(dr, name, x))
         [] x.t = "val" /\ ~new /\ entry.t = "valref" -> List(entry.r, <<>>)
         [] x.t = "val" /\ ~new /\ entry.t = "val" ->
              List(<<raw(entry.d)>>, <<raw(entry.d)>>)
         [] x.t = "val" /\ ~new /\ entry.t = "symlink" ->
              LinkError(dr, "EOPNOTSUPP")
         [] x.t = "val" /\ ~new /\ entry.t \in {"dir", "dirref"} ->
              LinkError(dr, "EISDIR")

\* The final component of the path.
link_final(dr, name, x, app) ==
    IF x.t = "null" THEN Linked(delete_entry(dr, name))
    ELSE IF app THEN kvstxn_append(dr, name, x)
    ELSE Linked(insert_entry(dr, name, x))

\* One component after the other; valid is the set of blobs in the cache.  A
\* directory that is only referred to is replaced by a copy.
RECURSIVE link_path(_, _, _, _, _)
link_path(valid, dr, path, x, app) ==
    LET name == Head(path)
        new == name \notin DOMAIN dr.e
        entry == dr.e[name]
        Into(sub) ==
            LET l == link_path(valid, sub, Tail(path), x, app)
            IN [l EXCEPT !.dir = insert_entry(dr, name, l.dir)]
    IN IF Len(path) = 1 THEN link_final(dr, name, x, app)
       ELSE CASE new /\ x.t = "null" -> Linked(dr)
              [] new /\ x.t # "null" -> Into(EmptyDir)
              [] ~new /\ entry.t = "dir" -> Into(entry)
              [] ~new /\ entry.t = "dirref" ->
                   IF entry.r \in valid THEN Into(entry.r)
                   ELSE [Linked(dr) EXCEPT !.miss = <<entry.r>>]
              [] ~new /\ entry.t = "symlink" ->
                   [Linked(dr) EXCEPT !.to = entry.p \o Tail(path)]
              [] ~new /\ entry.t \in {"val", "valref"} ->
                   IF x.t = "null" THEN Linked(dr) ELSE Into(EmptyDir)

\* kvstxn_link_dirent: a symlink on the way restarts at the root.
RECURSIVE kvstxn_link_dirent(_, _, _, _, _)
kvstxn_link_dirent(valid, root, path, x, app) ==
    IF path = <<>> THEN LinkError(root, "EINVAL")
    ELSE LET l == link_path(valid, root, path, x, app)
         IN IF l.to = <<>> THEN l
            ELSE kvstxn_link_dirent(valid, l.dir, l.to, x, app)

\* The loop over the operations of a transaction, up to the first error.
apply_ops(valid, root, ops) ==
    LET One(acc, op) ==
            IF acc.err # "none" THEN acc
            ELSE LET l == kvstxn_link_dirent(valid, acc.dir, op.key, op.dirent,
                                             op.append)
                 IN [l EXCEPT !.miss = acc.miss \o l.miss,
                              !.put = acc.put \o l.put,
                              !.append = acc.append \/ l.append]
    IN FoldLeft(One, Linked(root), ops)

-----------------------------------------------------------------------------
(* kvstxn_unroll *)

\* Directories, depth first, and long values become references; put lists
\* the blobs that have to be stored.
RECURSIVE kvstxn_unroll(_)
kvstxn_unroll(dr) ==
    LET One(name, acc) ==
            LET entry == dr.e[name]
                u == kvstxn_unroll(entry)
            IN CASE entry.t = "dir" ->
                      [dir |-> insert_entry(acc.dir, name, dirref(u.dir)),
                       put |-> acc.put \o u.put \o <<u.dir>>]
                 [] entry.t = "val" /\ entry.d \in BigData ->
                      [dir |-> insert_entry(acc.dir, name,
                                            valref(<<raw(entry.d)>>)),
                       put |-> Append(acc.put, raw(entry.d))]
                 [] OTHER -> acc
    IN FoldSet(One, [dir |-> dr, put |-> <<>>], DOMAIN dr.e)

-----------------------------------------------------------------------------
(* walk (lookup.c) *)

\* The position of a lookup: the dirent reached, the blob it was found in, and
\* the path that is left.  st is "walk" while there is more to do, "missing" if
\* a directory has to be loaded first, "noent", or "found".
RECURSIVE walk(_, _, _)
walk(valid, root, at) ==
    LET name == Head(at.path)
        d == at.dirent.r
        entry == d.e[name]
        next == IF entry.t = "symlink"
                THEN [at EXCEPT !.dirent = dirref(root), !.in = null,
                                !.path = entry.p \o Tail(@)]
                ELSE [at EXCEPT !.dirent = entry, !.in = d, !.path = Tail(@)]
    IN IF at.path = <<>> THEN [at EXCEPT !.st = "found"]
       ELSE IF at.dirent.t # "dirref" THEN [at EXCEPT !.st = "noent"]
       ELSE IF d \notin valid THEN [at EXCEPT !.st = "missing"]
       ELSE IF name \notin DOMAIN d.e THEN [at EXCEPT !.st = "noent"]
       ELSE walk(valid, root, next)

-----------------------------------------------------------------------------
(* The reference: what the operations mean.  A tree is a function from    *)
(* paths to directories, values and links, all in one piece.              *)

\* The whole tree below a blob of the store, with a list of blobs as the
\* concatenation of their data.
RECURSIVE Full(_)
Full(dr) ==
    LET Data(entry) == FoldLeft(LAMBDA acc, b : acc \o b.d, <<>>, entry.r)
        Below(n) ==
            LET entry == dr.e[n]
                sub == IF entry.t = "dirref" THEN Full(entry.r) ELSE <<>>
            IN (<<n>> :> CASE entry.t = "dirref" -> EmptyDir
                           [] entry.t = "valref" -> val(Data(entry))
                           [] OTHER -> entry)
               @@ [p \in {<<n>> \o q : q \in DOMAIN sub} |-> sub[Tail(p)]]
    IN FoldSet(LAMBDA n, acc : acc @@ Below(n), <<>>, DOMAIN dr.e)

Above(p) == {SubSeq(p, 1, i) : i \in 1..Len(p) - 1}
Within(tree, p) == {q \in DOMAIN tree : IsPrefix(p, q)}
KeepOnly(tree, paths) == [q \in paths |-> tree[q]]

\* The path with the symlinks on the way followed.
RECURSIVE Resolve(_, _)
Resolve(tree, p) ==
    LET links == {q \in Above(p) \cap DOMAIN tree : tree[q].t = "symlink"}
        q == CHOOSE l \in links : \A m \in links : Len(l) <= Len(m)
    IN IF links = {} THEN p
       ELSE Resolve(tree, tree[q].p \o SubSeq(p, Len(q) + 1, Len(p)))

\* The tree after one operation, or an error.
Meaning(tree, op) ==
    LET p == Resolve(tree, op.key)
        exists == p \in DOMAIN tree
        isDir(q) == q \in DOMAIN tree /\ tree[q].t = "dir"
        Put(x) ==
            (p :> x)
            @@ [q \in Above(p) |-> EmptyDir]
            @@ KeepOnly(tree, DOMAIN tree \ Within(tree, p))
    IN IF op.key = <<>> THEN [tree |-> tree, err |-> "EINVAL"]
       ELSE IF op.dirent.t = "null"
       THEN [tree |-> IF \A q \in Above(p) : isDir(q)
                      THEN KeepOnly(tree, DOMAIN tree \ Within(tree, p))
                      ELSE tree,
             err |-> "none"]
       ELSE IF ~op.append \/ ~exists
       THEN [tree |-> Put(op.dirent), err |-> "none"]
       ELSE CASE tree[p].t = "val" ->
                   [tree |-> Put(val(tree[p].d \o op.dirent.d)),
                    err |-> "none"]
              [] tree[p].t = "symlink" -> [tree |-> tree, err |-> "EOPNOTSUPP"]
              [] tree[p].t = "dir" -> [tree |-> tree, err |-> "EISDIR"]

\* The operations in sequence.
MeaningOf(tree, ops) ==
    FoldLeft(LAMBDA acc, op : IF acc.err # "none" THEN acc
                              ELSE Meaning(acc.tree, op),
             [tree |-> tree, err |-> "none"], ops)

\* What a reader of a path gets.
RECURSIVE ReadMeaning(_, _)
ReadMeaning(tree, path) ==
    LET p == Resolve(tree, path)
    IN IF p \notin DOMAIN tree THEN null
       ELSE IF tree[p].t = "symlink" THEN ReadMeaning(tree, tree[p].p)
       ELSE tree[p]
=============================================================================
