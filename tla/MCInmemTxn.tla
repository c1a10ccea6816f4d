---------------------------- MODULE MCInmemTxn ----------------------------
EXTENDS InmemTxn

CONSTANT ArraysOfObjects  \* whether array elements may be objects

x == Scalar("x")
y == Scalar("y")

\* {"a": {"b": x}, "l": [e, y]}, and the empty document.
MCInitialData ==
    {Graft(Field("a", Field("b", x)), <<"l">>,
           ArrayOf(<<IF ArraysOfObjects THEN Field("b", x) ELSE x, y>>)),
     EmptyObject}

Fields == {<<"a">>, <<"a", "b">>, <<"l">>}
Positions == {<<"l", "0">>, <<"l", "1">>, <<"l", "-">>}
Inside == IF ArraysOfObjects THEN {<<"l", "0", "b">>} ELSE {}

Changes(ops, paths, values) ==
    {[op |-> o, path |-> p, value |-> v] : o \in ops, p \in paths, v \in values}

MCWrites ==
    Changes({"add", "replace"}, Fields, {y, Field("b", y), ArrayOf(<<x>>)})
    \union Changes({"add", "replace"}, Positions \union Inside, {y})
    \union Changes({"remove"}, Fields \union Positions \union Inside \union {<<>>},
                   {Scalar("null")})
    \union Changes({"add"}, {<<>>}, {y, EmptyObject})

\* A bundle with the file /a/data.json, one with two conflicting files, one
\* whose roots are a/b and l, and one that owns the whole document.
Bundle(files, base_paths, root_overwrite) ==
    [files |-> files, base_paths |-> base_paths, root_overwrite |-> root_overwrite]
File(path, value) == [path |-> path, value |-> value]

MCTruncates ==
    {Bundle(<<File(<<"a">>, Field("b", y))>>, <<(<<"a">>)>>, FALSE),
     Bundle(<<File(<<"a">>, Field("b", y)), File(<<"a", "b">>, x)>>, <<(<<"a">>)>>, FALSE),
     Bundle(<<File(<<"a", "b">>, y), File(<<>>, Field("l", x))>>,
            <<(<<"a", "b">>), <<"l">>, <<"n">> >>, FALSE),
     Bundle(<<File(<<"l">>, ArrayOf(<<y>>))>>, <<>>, TRUE)}

NoTruncates == {}

MCUniverse ==
    {<<>>} \union {<<k>> : k \in {"a", "l"}}
    \union {<<k, j>> : k \in {"a", "l"}, j \in {"b", "-", "0", "1", "2", "3", "4"}}
    \union {<<"l", j, "b">> : j \in {"0", "1", "2", "3"}}
    \union {<<"a", "b", j>> : j \in {"b", "0"}}
===========================================================================
