--------------------------- MODULE DiskPartitions ---------------------------
(***************************************************************************)
(* How storage/disk lays documents out over the keys of a key-value store: *)
(* partition.go, paths.go and the reads and writes of txn.go.              *)
(*                                                                         *)
(* A partition is a path, whose elements may be wildcards.  Everything at  *)
(* or above a partition is split, one key for each child; below, a value   *)
(* is kept whole under one key.  A store `kv` maps keys (paths) to         *)
(* documents.  Values here are objects and scalars; the scalar "null" is   *)
(* what the code's nil is.                                                 *)
(***************************************************************************)
EXTENDS Documents

Wildcard == "*"

(* A node of the partition trie is the set of what is left of the          *)
(* partitions that pass through it; {} is no node.                         *)
Child(node, key) == {Tail(p) : p \in {q \in node : q # <<>> /\ Head(q) = key}}

\* The step of Find: a wildcard is preferred to the key itself.
NextNode(node, key) ==
    IF Child(node, Wildcard) # {} THEN Child(node, Wildcard) ELSE Child(node, key)

\* partitionTrie.Find: how much of path was used, and the node found there.
Find(trie, path) ==
    LET step(f, key) == IF f.node = {} THEN f
                        ELSE [i |-> f.i + 1, node |-> NextNode(f.node, key)]
    IN  FoldLeft(step, [i |-> 0, node |-> trie], path)

\* The node doPartitionWriteMultiple is at when it has gone down path from node: it
\* prefers the key itself to a wildcard.
WriteNode(node, path) ==
    FoldLeft(LAMBDA n, key : IF Child(n, key) # {} THEN Child(n, key)
                             ELSE Child(n, Wildcard), node, path)

HasPrefixWithWildcard(p, other) ==
    /\ Len(other) <= Len(p)
    /\ \A i \in DOMAIN other : Wildcard \in {p[i], other[i]} \/ p[i] = other[i]

IsDisjoint(paths) ==
    \A p, q \in paths : p # q => ~HasPrefixWithWildcard(p, q)

SystemPartition == <<"system", Wildcard>>

\* isMatchedBy: the wildcards of other match anything in p.
IsMatchedBy(p, other) ==
    /\ Len(other) = Len(p)
    /\ \A i \in DOMAIN other : other[i] \in {Wildcard, p[i]}

\* hasWildcard: the part of path before its first wildcard.
BeforeWildcard(path) ==
    SubSeq(path, 1, Min({i - 1 : i \in {j \in DOMAIN path : path[j] = Wildcard}}
                        \union {Len(path)}))

\* Mutant: new partitions are not checked against the data.
ValidatePartitionsByName(kv, old, new) ==
    \A r \in old \ new : \E a \in new \ old : IsMatchedBy(r, a)

\* validatePartitions: a partition may give way to a pattern that matches it, and a
\* new one must not have its data, or an ancestor's, under one key already.
ValidatePartitions(kv, old, new) ==
    LET replacements == {a \in new \ old : \E r \in old \ new : IsMatchedBy(r, a)}
    IN  /\ \A r \in old \ new : \E a \in new \ old : IsMatchedBy(r, a)
        /\ \A a \in (new \ old) \ replacements :
               \A i \in 1..Len(BeforeWildcard(a)) :
                   SubSeq(BeforeWildcard(a), 1, i) \notin DOMAIN kv

-----------------------------------------------------------------------------
(* Reading.                                                                *)

StrictlyBelow(p, q) == IsPrefix(p, q) /\ p # q

\* readMultiple over the whole store: the document the keys make up.
Whole(kv) ==
    LET dirs == UNION {{SubSeq(k, 1, i) : i \in 0..(Len(k) - 1)} : k \in DOMAIN kv}
        add(k, d) == Under(k, kv[k]) @@ d
    IN  FoldSet(add, [q \in dirs \union {<<>>} |-> "obj"], DOMAIN kv)

Read(trie, kv, path) ==
    LET f == Find(trie, path)
        key == SubSeq(path, 1, f.i)
        rest == SubSeq(path, f.i + 1, Len(path))
        below == {k \in DOMAIN kv : StrictlyBelow(path, k)}
    IN  IF f.node # {}
        THEN IF below = {} THEN NoDocument ELSE Sub(Whole(Restrict(kv, below)), path)
        ELSE IF key \notin DOMAIN kv \/ rest \notin DOMAIN kv[key] THEN NoDocument
        ELSE Sub(kv[key], rest)

-----------------------------------------------------------------------------
(* Writing.                                                                *)

\* patch: like a patch of the reference, except that what is missing on the way, or
\* null, is made on the way, whatever the operation.  The documents here have no arrays,
\* and the cases that index, extend or cut one are left out.
PatchValue(d, op, path, v) ==
    LET there(i) == SubSeq(path, 1, i) \in DOMAIN d /\ d[SubSeq(path, 1, i)] # "null"
        deepest == Max({i \in 0..(Len(path) - 1) : i = 0 \/ there(i)})
        base == IF there(0) THEN d ELSE EmptyObject
        made == [q \in {SubSeq(path, 1, i) : i \in (deepest + 1)..(Len(path) - 1)} |-> "obj"]
        value == IF op = "remove" THEN Scalar("null") ELSE v
    IN  IF deepest = Len(path) - 1 /\ there(deepest) THEN Patch(d, op, path, v)
        ELSE IF base[SubSeq(path, 1, deepest)] # "obj" THEN NoDocument
        ELSE Graft(made @@ base, path, value)

\* The keys doPartitionWriteMultiple splits v into, relative to the node's path, and
\* whether it can: what lies at or above a partition must be an object.
SplitKeys(node, v) ==
    {q \in DOMAIN v \ {<<>>} : WriteNode(node, Front(q)) # {} /\ WriteNode(node, q) = {}}

CanSplit(node, v) ==
    \A q \in DOMAIN v : WriteNode(node, q) # {} =>
                          v[q] = "obj" \/ (q # <<>> /\ v[q] = "null")

NoWrite == [ok |-> FALSE, kv |-> << >>]
Written(kv) == [ok |-> TRUE, kv |-> kv]

\* Mutant: the keys below the path are not deleted first.
PartitionWriteKeepsOld(trie, kv, op, path, v) ==
    LET f == Find(trie, path)
        split == {path \o q : q \in SplitKeys(f.node, v)}
        key == SubSeq(path, 1, f.i)
        patched == PatchValue(IF key \in DOMAIN kv THEN kv[key] ELSE NoDocument, op,
                              SubSeq(path, f.i + 1, Len(path)), v)
    IN  IF op = "remove" /\ path = <<>> THEN NoWrite
        ELSE IF f.node # {}
        THEN IF op = "remove"
             THEN Written(Restrict(kv, {k \in DOMAIN kv : ~StrictlyBelow(path, k)}))
             ELSE IF ~CanSplit(f.node, v) THEN NoWrite
             ELSE Written([k \in split |-> Sub(v, Suffix(k, path))] @@ kv)
        ELSE IF key = path
        THEN Written(IF op = "remove" THEN Restrict(kv, DOMAIN kv \ {path})
                     ELSE path :> v @@ kv)
        ELSE IF patched = NoDocument THEN NoWrite
        ELSE Written(key :> patched @@ kv)

\* partitionWrite and the updates Write makes of it.
PartitionWrite(trie, kv, op, path, v) ==
    LET f == Find(trie, path)
        others == Restrict(kv, {k \in DOMAIN kv : ~StrictlyBelow(path, k)})
        split == {path \o q : q \in SplitKeys(f.node, v)}
        key == SubSeq(path, 1, f.i)
        patched == PatchValue(IF key \in DOMAIN kv THEN kv[key] ELSE NoDocument, op,
                              SubSeq(path, f.i + 1, Len(path)), v)
    IN  IF op = "remove" /\ path = <<>> THEN NoWrite
        ELSE IF f.node # {}
        THEN IF op = "remove" THEN Written(others)
             ELSE IF ~CanSplit(f.node, v) THEN NoWrite
             ELSE Written([k \in split |-> Sub(v, Suffix(k, path))] @@ others)
        ELSE IF key = path
        THEN Written(IF op = "remove" THEN Restrict(kv, DOMAIN kv \ {path})
                     ELSE path :> v @@ kv)
        ELSE IF patched = NoDocument THEN NoWrite
        ELSE Written(key :> patched @@ kv)
=============================================================================
