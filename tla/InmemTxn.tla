------------------------------ MODULE InmemTxn ------------------------------
(***************************************************************************)
(* One write transaction of the in-memory store, storage/inmem/txn.go: the *)
(* list of pending updates, how Write compacts it, how Read looks through  *)
(* it and how Commit applies it.                                           *)
(*                                                                         *)
(* Go maps and slices are references and Apply changes them in place, so   *)
(* the model keeps a heap.  A cell is an object (kids: a function from     *)
(* keys to cells), an array (kids: a sequence of cells) or a scalar.       *)
(***************************************************************************)
EXTENDS Documents

CONSTANTS InitialData,  \* the documents the store may start with
          Writes,       \* the writes a client may issue: [op, path, value]
          Truncates,    \* the bundles it may load: [files, base_paths, root_overwrite]
          Universe,     \* paths that cover every document of the instance
          MaxWrites     \* bound on the number of writes

VARIABLES heap,     \* the cells of Go memory, never reused
          root,     \* store.data
          updates,  \* transaction.updates, from the front of the list
          open,     \* a write transaction is open
          panicked, \* update.Apply has panicked
          err,      \* the error the last Write returned
          n,        \* writes issued so far
          base,     \* the document the last commit left
          expected  \* base patched by each write of this transaction in turn

SeqExt == INSTANCE SequencesExt

vars == <<heap, root, updates, open, panicked, err, n, base, expected>>

Nil == 0

-----------------------------------------------------------------------------
\* Memory.

\* The cell that key leads to from cell r, as one step of ptr.Ptr.
Child(h, r, key) ==
    IF r = Nil THEN Nil
    ELSE IF h[r].kind = "obj" /\ key \in DOMAIN h[r].kids THEN h[r].kids[key]
    ELSE IF h[r].kind = "arr" /\ IsInt(key) /\ Atoi(key) < Len(h[r].kids)
         THEN h[r].kids[Atoi(key) + 1]
    ELSE Nil

\* ptr.Ptr; Nil stands for the not-found error.
Ptr(h, r, path) == FoldLeft(LAMBDA x, key : Child(h, x, key), r, path)

\* The document a cell stands for.
Doc(h, r) ==
    [p \in {q \in Universe : Ptr(h, r, q) # Nil} |-> h[Ptr(h, r, p)].kind]

\* A fresh copy of a document in memory, the result of util.RoundTrip and of
\* a decoder: its cells come after those of h, the root cell first.
Alloc(h, d) ==
    LET paths == <<(<<>>)>> \o SeqExt!SetToSeq(DOMAIN d \ {<<>>})
        ref(p) == Len(h) + (CHOOSE i \in DOMAIN paths : paths[i] = p)
        keys(p) == {k \in {Last(q) : q \in DOMAIN d \ {<<>>}} : Append(p, k) \in DOMAIN d}
        cell(p) ==
            [kind |-> d[p],
             kids |-> IF d[p] = "arr"
                      THEN [i \in 1..Cardinality(keys(p)) |-> ref(Append(p, Itoa(i - 1)))]
                      ELSE [k \in keys(p) |-> ref(Append(p, k))]]
    IN  h \o [i \in DOMAIN paths |-> cell(paths[i])]

\* Mutant: the copy shares everything below its top level.
DeepCopyShallow(h) == h \o h

\* deepcopy.DeepCopy of cell r is cell r + Len(h) of this heap.
DeepCopy(h) ==
    h \o [i \in DOMAIN h |->
             [h[i] EXCEPT !.kids = [k \in DOMAIN @ |-> @[k] + Len(h)]]]

-----------------------------------------------------------------------------
\* update.Apply on the document at r: the heap and the root it returns.  The
\* parent of the path is changed in place; Nil is a panic.
Apply(h, r, u) ==
    IF u.path = <<>> THEN [heap |-> h, root |-> u.value]
    ELSE LET parent == Ptr(h, r, Front(u.path))
             key == Last(u.path)
             set(kids) == [heap |-> [h EXCEPT ![parent].kids = kids], root |-> r]
             panic == [heap |-> h, root |-> Nil]
         IN  IF parent = Nil THEN panic
             ELSE IF u.remove
             THEN IF h[parent].kind # "obj" THEN panic
                  ELSE set(Restrict(h[parent].kids, DOMAIN h[parent].kids \ {key}))
             ELSE IF h[parent].kind = "obj" THEN set((key :> u.value) @@ h[parent].kids)
             ELSE IF h[parent].kind # "arr" THEN [heap |-> h, root |-> r]
             ELSE IF Child(h, parent, key) = Nil THEN panic
             ELSE set([h[parent].kids EXCEPT ![Atoi(key) + 1] = u.value])

Update(path, remove, value) == [path |-> path, remove |-> remove, value |-> value]

\* newUpdate and its two cases.  An update of an array element replaces the
\* whole array by a new slice that shares the elements it keeps.
NewUpdateObject(h, parent, op, path, value) ==
    IF op # "add" /\ Last(path) \notin DOMAIN h[parent].kids
    THEN [heap |-> h, err |-> "not_found"]
    ELSE [heap |-> h, err |-> "none", update |-> Update(path, op = "remove", value)]

NewUpdateArray(h, parent, op, path, value) ==
    LET kids == h[parent].kids
        key == Last(path)
        slice(elems) == [heap |-> Append(h, [kind |-> "arr", kids |-> elems]),
                         err |-> "none",
                         update |-> Update(Front(path), FALSE, Len(h) + 1)]
    IN  IF key = "-" \/ key = Itoa(Len(kids))
        THEN IF op # "add" THEN [heap |-> h, err |-> "invalid_patch"]
             ELSE slice(Append(kids, value))
        ELSE IF Child(h, parent, key) = Nil THEN [heap |-> h, err |-> "not_found"]
        ELSE LET pos == Atoi(key) + 1
             IN  CASE op = "add" -> slice(InsertAt(kids, pos, value))
                   [] op = "remove" -> slice(RemoveAt(kids, pos))
                   [] op = "replace" -> slice([kids EXCEPT ![pos] = value])

NewUpdate(h, r, op, path, value) ==
    LET parent == Ptr(h, r, Front(path))
    IN  IF parent = Nil \/ ~IsContainer(h[parent].kind)
        THEN [heap |-> h, err |-> "not_found"]
        ELSE IF h[parent].kind = "obj" THEN NewUpdateObject(h, parent, op, path, value)
        ELSE NewUpdateArray(h, parent, op, path, value)

-----------------------------------------------------------------------------
\* transaction.Write, after the guard on read transactions.  The loop over the
\* list stops at the first update whose path is a prefix of the new one; until
\* then it drops the updates that the new one masks.
Outcome(h, us, e) == [heap |-> h, updates |-> us, err |-> e]

UpdateRoot(h, us, op, value) ==
    IF op = "remove" \/ h[value].kind # "obj" THEN Outcome(h, us, "invalid_patch")
    ELSE Outcome(h, <<Update(<<>>, FALSE, value)>>, "none")

\* No pending update covers the path: new was made from store.data.
PushFront(us, new) ==
    IF new.err # "none" THEN Outcome(new.heap, us, new.err)
    ELSE Outcome(new.heap, <<new.update>> \o us, "none")

\* A pending update u of an ancestor of the path, at position i, is changed
\* instead: new was made from its value.
Mutate(us, i, new) ==
    LET changed(applied) ==
            Outcome(applied.heap, [us EXCEPT ![i].value = applied.root], "none")
    IN  IF new.err # "none" THEN Outcome(new.heap, us, new.err)
        ELSE changed(Apply(new.heap, us[i].value, new.update))

\* Mutant: the loop visits masked updates without removing them.
KeepMasked(us, path) == us

\* The updates that one at path does not mask.
Unmasked(us, path) == SelectSeq(us, LAMBDA u : ~IsPrefix(path, u.path))

WriteOutcome(h, us, op, path, value) ==
    LET stop == SelectInSeq(us, LAMBDA u : IsPrefix(u.path, path))
        u == us[stop]
        before == Unmasked(IF stop = 0 THEN us ELSE SubSeq(us, 1, stop - 1), path)
        rest == before \o SubSeq(us, stop + 1, Len(us))
        kept == before \o SubSeq(us, stop, Len(us))
    IN  IF path = <<>> THEN UpdateRoot(h, us, op, value)
        ELSE IF stop = 0 THEN PushFront(before, NewUpdate(h, root, op, path, value))
        ELSE IF u.remove /\ (u.path # path \/ op # "add")
        THEN Outcome(h, kept, "not_found")
        ELSE IF u.path = path
        THEN PushFront(rest, NewUpdate(h, root, op, path, value))
        ELSE Mutate(kept, Len(before) + 1,
                    NewUpdate(h, u.value, op, Suffix(path, u.path), value))

\* Mutant: the loop stops at the first update to merge.
BelowFirst(us, path) ==
    LET below == SelectSeq(us, LAMBDA u : IsPrefix(path, u.path))
    IN  IF below = <<>> THEN below ELSE <<Head(below)>>

\* The updates below a path, which Read merges into a copy.
Below(us, path) == SelectSeq(us, LAMBDA u : IsPrefix(path, u.path))

\* transaction.Read: the heap it leaves and the cell it returns, Nil for the
\* not-found error.  Without an update that covers the path, the committed
\* document is copied and the updates below the path are applied to the copy;
\* Apply may panic then.
ReadOutcome(h, us, path) ==
    LET cover == SelectInSeq(us, LAMBDA u : IsPrefix(u.path, path))
        merge == Below(us, path)
        apply(s, u) == IF s.root = Nil THEN s
                       ELSE Apply(s.heap, s.root, [u EXCEPT !.path = Suffix(@, path)])
        data == Ptr(h, root, path)
        copy == [heap |-> DeepCopy(h), root |-> data + Len(h)]
        merged == FoldLeft(apply, copy, merge)
    IN  IF cover # 0
        THEN [heap |-> h, panic |-> FALSE,
              root |-> IF us[cover].remove THEN Nil
                       ELSE Ptr(h, us[cover].value, Suffix(path, us[cover].path))]
        ELSE IF data = Nil \/ merge = <<>>
        THEN [heap |-> h, panic |-> FALSE, root |-> data]
        ELSE [heap |-> merged.heap, panic |-> merged.root = Nil, root |-> merged.root]

\* transaction.Commit: the updates are applied from the front of the list.
CommitOutcome(h, r, us) ==
    LET apply(s, u) == IF s.root = Nil THEN s ELSE Apply(s.heap, s.root, u)
    IN  FoldLeft(apply, [heap |-> h, root |-> r], us)

-----------------------------------------------------------------------------
\* storage.MakeDir: empty objects from the deepest existing prefix down.
MakeDir(h, us, path) ==
    LET exists(i) == ReadOutcome(h, us, SubSeq(path, 1, i)).root # Nil
        isObject(read) == read.heap[read.root].kind = "obj"
        mkdir(s, i) ==
            IF s.err # "none" THEN s
            ELSE WriteOutcome(Alloc(s.heap, EmptyObject), s.updates, "add",
                              SubSeq(path, 1, i), Len(s.heap) + 1)
        below(deepest) ==
            IF deepest > 0 /\ ~isObject(ReadOutcome(h, us, SubSeq(path, 1, deepest)))
            THEN Outcome(h, us, "write_conflict")
            ELSE FoldLeft(mkdir, Outcome(h, us, "none"),
                          [i \in 1..(Len(path) - deepest) |-> deepest + i])
    IN  below(Max({i \in 1..Len(path) : exists(i)} \union {0}))

\* mktree and merge.InterfaceMaps, on documents: two files conflict when they
\* share a node that is not an object in both.
Mktree(path, value) ==
    IF path = <<>> THEN IF value[<<>>] = "obj" THEN value ELSE NoDocument
    ELSE Under(path, value) @@ [p \in {SubSeq(path, 1, i) : i \in 0..(Len(path) - 1)} |-> "obj"]

InterfaceMaps(a, b) ==
    IF \E p \in DOMAIN a \intersect DOMAIN b : a[p] # "obj" \/ b[p] # "obj"
    THEN NoDocument ELSE a @@ b

\* The data files of a bundle merged into one document.
MergedData(files) ==
    LET merge(d, tree) == IF NoDocument \in {d, tree} THEN NoDocument
                          ELSE InterfaceMaps(d, tree)
        add(d, f) == merge(d, Mktree(f.path, f.value))
    IN  FoldLeft(add, EmptyObject, files)

\* lookup: the value at a path that leads through objects only.
Lookup(d, path) ==
    /\ path \in DOMAIN d
    /\ \A i \in 0..(Len(path) - 1) : d[SubSeq(path, 1, i)] = "obj"

\* The data part of store.Truncate: the merged document, loaded at cell r,
\* replaces the root, or what it holds below each base path replaces the value
\* there.
TruncateOutcome(h, us, merged, t) ==
    LET r == Len(h) + 1
        set(s, path) ==
            IF s.err # "none" THEN s
            ELSE WriteOutcome(s.heap, s.updates, "add", path, Ptr(s.heap, r, path))
        write(s, path) ==
            IF s.err # "none" \/ ~Lookup(merged, path) THEN s
            ELSE set(MakeDir(s.heap, s.updates, Front(path)), path)
        loaded == Outcome(Alloc(h, merged), us, "none")
    IN  IF merged = NoDocument THEN Outcome(h, us, "invalid_bundle")
        ELSE IF t.root_overwrite THEN set(loaded, <<>>)
        ELSE FoldLeft(write, loaded, t.base_paths)

\* What Truncate is to do to a document d; NoDocument when a base path leads
\* through something that is not an object or the files conflict.
Truncated(d, merged, t) ==
    LET dirs(p) == {SubSeq(p, 1, i) : i \in 0..(Len(p) - 1)}
        graft(e, p) ==
            IF e = NoDocument \/ p \notin DOMAIN merged THEN e
            ELSE IF \E q \in dirs(p) \intersect DOMAIN e : e[q] # "obj" THEN NoDocument
            ELSE Graft(e @@ [q \in dirs(p) |-> "obj"], p, Sub(merged, p))
    IN  IF merged = NoDocument THEN NoDocument
        ELSE IF t.root_overwrite THEN merged
        ELSE FoldLeft(graft, d, t.base_paths)

-----------------------------------------------------------------------------
Init ==
    /\ \E d \in InitialData :
          /\ heap = Alloc(<<>>, d)
          /\ base = d
    /\ root = 1
    /\ updates = <<>>
    /\ open = FALSE
    /\ panicked = FALSE
    /\ err = "none"
    /\ n = 0
    /\ expected = base

NewTransaction ==
    /\ ~open /\ ~panicked
    /\ open' = TRUE
    /\ updates' = <<>>
    /\ err' = "none"
    /\ expected' = base
    /\ UNCHANGED <<heap, root, panicked, n, base>>

\* The state after an operation with outcome out of a client that meant the
\* document to become d.
Operate(out, d) ==
    /\ open /\ ~panicked /\ err = "none"
    /\ n < MaxWrites
    /\ heap' = out.heap
    /\ updates' = out.updates
    /\ err' = out.err
    /\ expected' = IF d = NoDocument THEN expected ELSE d
    /\ n' = n + 1
    /\ UNCHANGED <<root, open, panicked, base>>

\* Store.Write.  Callers suppress the not-found error of a remove; after any
\* other error they abort the transaction.
Write(w) ==
    LET out == WriteOutcome(Alloc(heap, w.value), updates, w.op, w.path, Len(heap) + 1)
        suppress == w.op = "remove" /\ out.err = "not_found"
    IN  Operate(IF suppress THEN [out EXCEPT !.err = "none"] ELSE out,
                Patch(expected, w.op, w.path, w.value))

Truncate(t) ==
    \E merged \in {MergedData(t.files)} :
        Operate(TruncateOutcome(heap, updates, merged, t), Truncated(expected, merged, t))

\* Store.Read writes to memory only when it merges updates that overlap.
Read(path) ==
    /\ open /\ ~panicked
    /\ heap' = SubSeq(ReadOutcome(heap, updates, path).heap, 1, Len(heap))
    /\ panicked' = ReadOutcome(heap, updates, path).panic
    /\ UNCHANGED <<root, updates, open, err, n, base, expected>>

Commit ==
    LET out == CommitOutcome(heap, root, updates)
    IN  /\ open /\ ~panicked /\ err = "none"
        /\ open' = FALSE
        /\ heap' = out.heap
        /\ panicked' = (out.root = Nil)
        /\ root' = IF out.root = Nil THEN root ELSE out.root
        /\ updates' = <<>>
        /\ base' = expected
        /\ UNCHANGED <<err, n, expected>>

Abort ==
    /\ open /\ ~panicked
    /\ open' = FALSE
    /\ updates' = <<>>
    /\ err' = "none"
    /\ expected' = base
    /\ UNCHANGED <<heap, root, panicked, n, base>>

Next ==
    \/ NewTransaction
    \/ \E w \in Writes : Write(w)
    \/ \E t \in Truncates : Truncate(t)
    \/ \E p \in Universe : Read(p)
    \/ Commit
    \/ Abort

Spec == Init /\ [][Next]_vars

-----------------------------------------------------------------------------
TypeOK ==
    /\ \A i \in DOMAIN heap : \A k \in DOMAIN heap[i].kids : heap[i].kids[k] \in DOMAIN heap
    /\ root \in DOMAIN heap
    /\ heap[root].kind = "obj"
    /\ \A i \in DOMAIN updates :
          /\ updates[i].path \in Seq(STRING)
          /\ updates[i].remove \in BOOLEAN
          /\ updates[i].value \in DOMAIN heap
          /\ updates[i].path = <<>> => heap[updates[i].value].kind = "obj"
    /\ {open, panicked} \subseteq BOOLEAN
    /\ n \in 0..MaxWrites
    /\ \A d \in {base, expected} : d[<<>>] = "obj" /\ DOMAIN d \subseteq Universe

\* "Each write operation compacts the set such that two updates never
\* overlap": no pending update is at or below the path of another one, so the
\* order in which Read and Commit apply them does not matter.
NoOverlap ==
    \A i, j \in DOMAIN updates : i # j => ~IsPrefix(updates[i].path, updates[j].path)

\* A transaction reads its own writes: whatever it wrote, overwrote and removed
\* so far, Read returns at every path what its writes, applied one after the
\* other to the committed document, leave there.
ReadYourWrites ==
    open /\ err = "none" /\ ~panicked =>
        \A p \in Universe :
            LET read == ReadOutcome(heap, updates, p)
            IN  /\ ~read.panic
                /\ (read.root # Nil) <=> (p \in DOMAIN expected)
                /\ read.root # Nil =>
                      \A s \in {Suffix(q, p) : q \in {x \in Universe : IsPrefix(p, x)}} :
                          LET r == Ptr(read.heap, read.root, s)
                          IN  /\ (r # Nil) <=> (p \o s \in DOMAIN expected)
                              /\ r # Nil => read.heap[r].kind = expected[p \o s]

\* "Multi-reader/single-writer concurrency with rollback": store.data is, at
\* every moment, the document the last commit left.  Neither the writes and
\* reads of an open transaction nor its abort show in it, and a commit leaves
\* what the writes amount to; Apply never panics, which would leave both locks
\* of the store held.
CommittedIsExact == ~panicked /\ Doc(heap, root) = base
=============================================================================
