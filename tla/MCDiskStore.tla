---------------------------- MODULE MCDiskStore -----------------------------
(***************************************************************************)
(* Instances of DiskStore.  Each member of a Settings set exercises one    *)
(* part of the store, so that their states add up instead of multiplying.  *)
(***************************************************************************)
EXTENDS DiskStore

CONSTANTS r1, r2

MCReaders == {r1, r2}
MCDatabases == {Data, "backup1", "backup2"}

System(partitions) == partitions \union {SystemPartition}

Op(op, path, value) == [op |-> op, path |-> path, value |-> value]

X == Scalar("x")
Y == Scalar("y")

\* Patches at, above and below the partitions /a, /a/b and /a/*.
Patches ==
    {Op("add", <<>>, Field("a", Field("b", X))),
     Op("add", <<"a">>, Field("b", Field("c", X))),
     Op("add", <<"a">>, Field("c", Y)),
     Op("add", <<"a">>, EmptyObject),
     Op("add", <<"b">>, Y),
     Op("add", <<"a", "b">>, Field("c", Y)),
     Op("add", <<"a", "b">>, X),
     Op("add", <<"a", "b", "c">>, Y),
     Op("replace", <<"a", "b">>, Field("b", X)),
     Op("replace", <<"a", "b", "c">>, X),
     Op("remove", <<"a">>, Scalar("null")),
     Op("remove", <<"a", "b">>, Scalar("null")),
     Op("remove", <<"a", "b", "c">>, Scalar("null"))}

Setting(partitions, writes, truncates, reads, faults, n) ==
    [partitions |-> partitions, writes |-> writes, truncates |-> truncates,
     reads |-> reads, faults |-> faults, crashes |-> n]

Few == {Op("add", <<"b">>, Y), Op("remove", <<"b">>, Scalar("null"))}

\* A snapshot bundle with root a, one with root "" and one with two files.
RootA == [roots |-> << <<"a">> >>, updates |-> << [path |-> <<>>, value |-> Field("a", Field("b", X))] >>]
RootAll == [roots |-> << <<>> >>, updates |-> << [path |-> <<"a", "b">>, value |-> Field("c", X)] >>]
Scalars == [roots |-> << <<"a">> >>, updates |-> << [path |-> <<"a">>, value |-> Y] >>]

Layouts == {Setting({System(p)}, Patches, {}, FALSE, FALSE, 0) :
               p \in {{}, {<<"a">>}, {<<"a", "b">>}, {<<"a", Wildcard>>}}}

\* One partition is added by a restart, or a pattern that is there already stays.
Additive ==
    {Setting({System({}), System({<<"a", "b">>}), System({<<"a", "b">>, <<"b">>})},
             Patches, {}, FALSE, FALSE, 2)}

Locks ==
    {Setting({System({<<"a">>})}, Few, {RootA, RootAll, Scalars}, TRUE, TRUE, 1),
     Setting({System({<<"a">>})}, Few, {RootA}, FALSE, FALSE, 2)}

MCSettings == Layouts \union Additive \union Locks

Aborting == {Setting({System({<<"a">>})}, Few, {RootA}, FALSE, FALSE, 0)}

\* /a/b gives way to /a/*.
Replacing == {Setting({System({<<"a", "b">>}), System({<<"a", Wildcard>>})}, Patches, {}, FALSE, FALSE, 1)}

Removing == {Setting({System({})}, Patches, {}, FALSE, FALSE, 0)}
=============================================================================
