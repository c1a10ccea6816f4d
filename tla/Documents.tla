----------------------------- MODULE Documents -----------------------------
(***************************************************************************)
(* JSON documents and what a patch means for them.                         *)
(*                                                                         *)
(* A document is a function from the paths that exist in it to the kind of *)
(* node found there: "obj", "arr", or a scalar.  A path is a sequence of   *)
(* strings, as storage.Path is; array positions are numerals.  This is the *)
(* reference the stores are compared with: it knows nothing of pending     *)
(* updates, of memory or of partitions.                                    *)
(***************************************************************************)
EXTENDS Lists, Functions, FiniteSets, TLC

Digits == <<"0", "1", "2", "3", "4", "5">>

Itoa(n) == Digits[n + 1]
IsInt(key) == key \in Range(Digits)
Atoi(key) == (CHOOSE i \in DOMAIN Digits : Digits[i] = key) - 1

PatchOps == {"add", "remove", "replace"}

\* The document of a scalar, and the empty object.
Scalar(v) == [q \in {<<>>} |-> v]
EmptyObject == Scalar("obj")

IsContainer(kind) == kind \in {"obj", "arr"}

\* g with the entries of f added and overwritten.
Overlay(f, g) ==
    [x \in DOMAIN f \union DOMAIN g |-> IF x \in DOMAIN f THEN f[x] ELSE g[x]]

-----------------------------------------------------------------------------
Suffix(path, prefix) == SubSeq(path, Len(prefix) + 1, Len(path))

\* The document found at path p of d.
Sub(d, p) ==
    LET below == {q \in DOMAIN d : IsPrefix(p, q)}
    IN  [s \in {Suffix(q, p) : q \in below} |-> d[p \o s]]

\* d without the node at p and everything below it.
Without(d, p) == Restrict(d, {q \in DOMAIN d : ~IsPrefix(p, q)})

\* v with every path moved below p.
Under(p, v) ==
    [q \in {p \o s : s \in DOMAIN v} |-> v[Suffix(q, p)]]

\* d with document v at p.
Graft(d, p, v) == Overlay(Under(p, v), Without(d, p))

\* An object with one field.
Field(k, v) == Graft(EmptyObject, <<k>>, v)

\* The elements of the array at p, and the array with given elements.
Elements(d, p) ==
    LET n == Cardinality({i \in DOMAIN Digits : Append(p, Digits[i]) \in DOMAIN d})
    IN  [i \in 1..n |-> Sub(d, Append(p, Itoa(i - 1)))]

ArrayOf(elems) ==
    FoldLeft(LAMBDA d, i : Graft(d, <<Itoa(i - 1)>>, elems[i]),
             Scalar("arr"), [i \in DOMAIN elems |-> i])

-----------------------------------------------------------------------------
NoDocument == << >>

\* A patch of the elements of an array; NoDocument when it is not valid.
PatchElements(elems, op, key, v) ==
    LET n == Len(elems)
        i == IF key = "-" THEN n + 1 ELSE Atoi(key) + 1
    IN  IF key # "-" /\ ~IsInt(key) THEN NoDocument
        ELSE IF op = "add"
             THEN IF i <= n + 1 THEN ArrayOf(InsertAt(elems, i, v)) ELSE NoDocument
        ELSE IF i > n THEN NoDocument
        ELSE IF op = "remove" THEN ArrayOf(RemoveAt(elems, i))
        ELSE ArrayOf([elems EXCEPT ![i] = v])

\* The document that results from applying a patch to d; NoDocument when the
\* patch is not applicable.
Patch(d, op, path, v) ==
    IF path = <<>>
    THEN IF op = "remove" \/ v[<<>>] # "obj" THEN NoDocument ELSE v
    ELSE LET parent == Front(path)
             kind == IF parent \in DOMAIN d THEN d[parent] ELSE "none"
         IN  IF kind = "obj"
             THEN IF op # "add" /\ path \notin DOMAIN d THEN NoDocument
                  ELSE IF op = "remove" THEN Without(d, path)
                  ELSE Graft(d, path, v)
             ELSE IF kind = "arr"
             THEN LET a == PatchElements(Elements(d, parent), op, Last(path), v)
                  IN  IF a = NoDocument THEN NoDocument ELSE Graft(d, parent, a)
             ELSE NoDocument
=============================================================================
