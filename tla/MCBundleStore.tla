--------------------------- MODULE MCBundleStore ---------------------------
(***************************************************************************)
(* Two bundle names whose roots are nested, disjoint, moved and overlapping*)
(* between revisions; a delta; bundles that must be refused; API writes at, *)
(* above, below and beside the roots.                                      *)
(***************************************************************************)
EXTENDS BundleStore

X == Scalar("x")
Module(pkg, rule, calls) == [pkg |-> pkg, rule |-> rule, calls |-> calls]
Snapshot(roots, d, mods) ==
    [type |-> "snapshot", roots |-> roots, data |-> d, modules |-> mods, patches |-> <<>>]
Delta(roots, ps) ==
    [type |-> "delta", roots |-> roots, data |-> EmptyObject, modules |-> <<>>, patches |-> ps]
Op(op, path, v) == [op |-> op, path |-> path, value |-> v]

\* Bundle "m" owns /a and moves to /a/b; its policy is called by others.
Wide == Snapshot({<<"a">>}, Field("a", Field("b", X)), "f" :> Module(<<"a">>, "p", {}))
Narrow == Snapshot({<<"a", "b">>}, Field("a", Field("b", Field("c", X))), <<>>)
\* Bundle "n" owns /c and calls m's rule, or owns a root beside or below m's.
Caller == Snapshot({<<"c">>}, EmptyObject, "f" :> Module(<<"c">>, "q", {<<"a", "p">>}))
Beside == Snapshot({<<"a", "c">>, <<"c">>}, Field("a", Field("c", X)), <<>>)
\* Bundle "n" takes over the path of an API rule, or the API rule's package.
Over == Snapshot({<<"d", "r">>}, Field("d", Field("r", X)), <<>>)
Taker == Snapshot({<<"d">>}, Field("d", Field("b", X)), "g" :> Module(<<"d">>, "r", {}))
\* Data outside the roots.
Stray == Snapshot({<<"c">>}, Field("d", X), <<>>)
\* Deltas: one that creates a directory and removes, one that defines data at m's rule.
Grow == Delta({<<"a">>}, <<Op("upsert", <<"a", "d", "e">>, X), Op("remove", <<"a", "b">>, X)>>)
Clash == Delta({<<"a">>}, <<Op("upsert", <<"a", "p">>, X)>>)
\* One that adds its root to an object that another bundle has made.
Joining == Delta({<<"a", "b">>}, <<Op("add", <<"a", "b">>, Field("d", X))>>)

ActivationsMC ==
    {"m" :> Wide, "m" :> Narrow, "m" :> Grow, "m" :> Clash, "m" :> Joining,
     "n" :> Caller, "n" :> Beside, "n" :> Stray, "n" :> Over, "n" :> Taker,
     "m" :> Wide @@ "n" :> Beside, "m" :> Narrow @@ "n" :> Beside}
DataPathsMC == {<<>>, <<"a">>, <<"a", "b">>, <<"a", "b", "c">>, <<"a", "p">>, <<"c">>, <<"d", "r">>}
DataValuesMC == {X, Field("b", X)}
PatchListsMC == {<<Op("add", <<"d">>, EmptyObject), Op("replace", <<"d">>, X)>>,
                 <<Op("add", <<"d">>, X), Op("remove", <<"a", "b">>, X)>>}
ApiPoliciesMC ==
    {[id |-> <<"api", "f">>, module |-> Module(<<"d">>, "r", {})],
     [id |-> <<"api", "f">>, module |-> Module(<<"d">>, "r", {<<"a", "p">>})],
     [id |-> <<"api", "g">>, module |-> Module(<<"a">>, "p", {})],
     [id |-> <<"api", "g">>, module |-> Module(<<"a">>, "b", {})]}

\* A bundle whose root is the whole document.
Whole == Snapshot({<<>>}, Field("a", X), <<>>)
ActivationsWhole == {"m" :> Whole}

\* A client's policy under the id of a module of bundle "m", in a package that a
\* delta makes bundle "n" the owner of.
Owner == Delta({<<"d">>}, <<Op("upsert", <<"d", "e">>, X)>>)
ActivationsIds == {"m" :> Wide, "n" :> Owner}
ApiPoliciesIds == {[id |-> <<"m", "f">>, module |-> Module(<<"d">>, "r", {})]}
=============================================================================
