--------------------------- MODULE MCBundlePlugin ---------------------------
(***************************************************************************)
(* Instances of BundlePlugin.  Bundle "a" is polled from one service with  *)
(* persistence, moved to a service that sends deltas, or dropped; bundle   *)
(* "b" is triggered by hand, or read from a file.                          *)
(***************************************************************************)
EXTENDS BundlePlugin

Source(s, m, p) == [svc |-> s, mode |-> m, persist |-> p]
B(s, v) == [svc |-> s, v |-> v]

A1 == [n \in {"a"} |-> Source("s1", "periodic", TRUE)]
A2 == [n \in {"a"} |-> Source("s2", "periodic", FALSE)]
With(c, n, src) == [m \in DOMAIN c \cup {n} |-> IF m = n THEN src ELSE c[m]]

Manual == Source("s3", "manual", FALSE)
File == Source("s3", "file", FALSE)

Env(boot, configs, v1, v2, v3, bad, n) ==
    [boot |-> boot, configs |-> configs, broken |-> bad, faults |-> n,
     durable |-> FALSE, callers |-> {"t"},
     versions |-> [s \in {"s1", "s2", "s3"} |->
                    IF s = "s1" THEN v1 ELSE IF s = "s2" THEN v2 ELSE v3]]

OnlyB == [n \in {"b"} |-> Manual]
BootManual == With(A1, "b", Manual)
BootFile == With(A1, "b", File)

\* One polled bundle with faults and deltas; a manual or file bundle to which a
\* polled one is added; a bundle that is removed and added again; one whose
\* service stays while its source changes.
Faulty == Env(A1, {A1, A2, <<>>}, 2, 2, 0, {}, 1)
Growing == Env(OnlyB, {BootManual}, 2, 0, 1, {B("s1", 2)}, 0)
FileFirst == Env([n \in {"b"} |-> File], {BootFile}, 1, 0, 1, {}, 0)
Readded == Env(A2, {A2, <<>>}, 0, 2, 0, {}, 0)
Unpersisted == [n \in {"a"} |-> Source("s1", "periodic", FALSE)]
SameService == Env(A1, {Unpersisted}, 1, 0, 0, {}, 0)
\* A manual bundle that is removed, perhaps with its answer under way.
Dropped == Env(OnlyB, {<<>>}, 0, 0, 1, {}, 0)
\* A store that outlives the process, with and without persisted bundles.
OnDisk(e) == [e EXCEPT !.durable = TRUE]
Durable == OnDisk(Env(Unpersisted, {}, 2, 0, 0, {}, 1))
DurablePersisted == OnDisk(Env(A1, {}, 2, 0, 0, {}, 1))
DurableDeltas == OnDisk(Env(A2, {}, 0, 2, 0, {}, 1))
\* A bundle that cannot be persisted, and after it one that does not compile.
BrokenNext == Env(A1, {}, 3, 0, 0, {B("s1", 3)}, 1)
\* Two triggers of one bundle overlap.
Twice == [Env(OnlyB, {}, 0, 0, 2, {}, 0) EXCEPT !.callers = {"t", "u"}]
Polls == {Faulty, Growing, FileFirst, Readded, SameService, Dropped, Durable, DurablePersisted,
          DurableDeltas, BrokenNext, Twice}

\* A manual bundle is removed while its answer is under way; persisting fails.
Removing == {Env(BootManual, {A1}, 1, 0, 1, {}, 0)}
Restarted == {Durable}
Overlapping == {Twice}
\* The same with a service that sends deltas.
TwiceDeltas == [Env([n \in {"b"} |-> Source("s2", "manual", FALSE)], {}, 0, 2, 0, {}, 0)
                    EXCEPT !.callers = {"t", "u"}]
OverlappingDeltas == {TwiceDeltas}
Unsaved == {Env(A1, {A1}, 2, 0, 0, {}, 1)}

S2Deltas == {B("s2", 2)}
=============================================================================
