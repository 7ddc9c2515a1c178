------------------------------ MODULE MCKvsTxn ------------------------------
EXTENDS KvsTxn

\* A directory with a list a of values, a directory d with a value b, and a
\* link s to d.
MCroot == dir([a |-> valref(<<raw(<<"x">>)>>),
               d |-> dirref(dir([b |-> val(<<"y">>)])), s |-> symlink(<<"d">>)])
MCroot0 == [n \in Namespaces |-> MCroot]

Put(path, d) == [key |-> path, dirent |-> val(d), append |-> FALSE]
App(path, d) == [key |-> path, dirent |-> val(d), append |-> TRUE]
Unlink(path) == [key |-> path, dirent |-> null, append |-> FALSE]

\* An append that precedes a walk into d; one that fails; one that turns the
\* list a into a directory, so that t1 fails after it, and unlinks through the
\* link; one that makes the same directory d in another namespace; and an
\* append to a key that does not exist.
MCtxn ==
    [t1 |-> [ns |-> "p", no_merge |-> FALSE,
             ops |-> <<App(<<"a">>, <<"z">>), Put(<<"d", "b">>, <<"z">>)>>],
     t2 |-> [ns |-> "p", no_merge |-> FALSE,
             ops |-> <<App(<<"d">>, <<"x">>)>>],
     t3 |-> [ns |-> "p", no_merge |-> FALSE,
             ops |-> <<Put(<<"a", "c">>, <<"x">>), Unlink(<<"s", "b">>)>>],
     t4 |-> [ns |-> "q", no_merge |-> FALSE,
             ops |-> <<Put(<<"d", "b">>, <<"z">>)>>],
     t5 |-> [ns |-> "p", no_merge |-> FALSE,
             ops |-> <<App(<<"c">>, <<"x">>), Put(<<"d", "b">>, <<"z">>)>>]]

MCBigData == {<<"z">>}
MClookup == [l1 |-> [ns |-> "q", path |-> <<"s", "b">>]]
=============================================================================
