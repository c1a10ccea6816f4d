---------------------------- MODULE BundleStore ----------------------------
(***************************************************************************)
(* What bundles and API clients may do to one store: bundle/store.go and   *)
(* the write handlers of server/server.go.                                 *)
(*                                                                         *)
(* A bundle owns the subtrees named by its manifest's roots: activating it *)
(* erases what is there and writes the bundle's data and policies; the     *)
(* REST handlers refuse to write to a path that a bundle owns.  Rules and  *)
(* base data share one namespace, so every writer also checks that no rule *)
(* is defined where data exists.  Every operation is one write transaction *)
(* of a store with a single writer, hence one step; an operation that      *)
(* fails aborts its transaction and is no step at all.                     *)
(*                                                                         *)
(* A policy is the package it is in, the one rule it defines there and the *)
(* functions (rule paths) its body calls.  A bundle's policies are stored  *)
(* under ids that carry its name (multi-bundle configurations).            *)
(***************************************************************************)
EXTENDS Documents

CONSTANTS
    Activations,  \* what may be activated: functions from bundle names to bundles
    DataPaths,    \* paths the data API is called with
    DataValues,   \* documents it writes
    PatchLists,   \* sequences of patches the data API is sent
    ApiPolicies   \* policies the policy API is sent: [id, module]

VARIABLES
    data,         \* base documents, apart from /system
    policies,     \* id -> policy, as stored
    manifests,    \* name of an active bundle -> the roots of its manifest
    compiler,     \* plugins.Manager.compiler: its modules, and whether it failed
    content       \* history: what the last activation of each bundle put in place

vars == <<data, policies, manifests, compiler, content>>

Path(m) == Append(m.pkg, m.rule)
Names == UNION {DOMAIN B : B \in Activations}

IsDelta(b) == b.type = "delta"

\* Manifest.validateAndInjectDefaults, run when the bundle was read: the roots of
\* one bundle do not overlap, and its policies and patches lie under them.
Validated(b) ==
    /\ \A r, q \in b.roots : r # q => ~IsPrefix(r, q)
    /\ \A f \in DOMAIN b.modules : \E r \in b.roots : IsPrefix(r, b.modules[f].pkg)
    /\ \A i \in DOMAIN b.patches : \E r \in b.roots : IsPrefix(r, b.patches[i].path)

\* Packages and rules are named by sequences of strings.
IsModule(m) == m.pkg \in Seq(STRING) /\ m.rule \in STRING

\* Documents are trees of objects and scalars; arrays are left out, and with them
\* roots and API paths that lead into an array.
IsDocument(d) ==
    /\ d = [q \in DOMAIN d |-> d[q]] /\ <<>> \in DOMAIN d
    /\ \A q \in DOMAIN d :
          /\ q \in Seq(STRING) /\ d[q] # "arr"
          /\ \A i \in 0..(Len(q) - 1) :
                SubSeq(q, 1, i) \in DOMAIN d /\ d[SubSeq(q, 1, i)] = "obj"
ArePatches(ps) ==
    /\ ps \in Seq(Range(ps))
    /\ \A i \in DOMAIN ps : ps[i].path \in Seq(STRING) /\ IsDocument(ps[i].value)
IsBundle(b) ==
    /\ IsFiniteSet(b.roots) /\ \A r \in b.roots : r \in Seq(STRING)
    /\ IsDocument(b.data) /\ ArePatches(b.patches)
    /\ \A f \in DOMAIN b.modules : IsModule(b.modules[f])

\* Bundles are activated one at a time, except that snapshots are activated
\* together when OPA starts: a delta comes alone.
ASSUME ActivationsValid ==
    \A B \in Activations :
        /\ IsFiniteSet(DOMAIN B)
        /\ \A n \in DOMAIN B :
              IsBundle(B[n]) /\ Validated(B[n]) /\ (IsDelta(B[n]) => DOMAIN B = {n})

ASSUME RequestsValid ==
    /\ \A path \in DataPaths : path \in Seq(STRING)
    /\ \A v \in DataValues : IsDocument(v)
    /\ \A ops \in PatchLists :
          ArePatches(ops) /\ \A i \in DOMAIN ops : ops[i].op \in PatchOps

ASSUME ApiPoliciesValid == \A p \in ApiPolicies : IsModule(p.module)

-----------------------------------------------------------------------------
(* Roots.                                                                  *)

\* Mutant: only one of the two directions is compared.
RootPathsOverlapBelow(a, b) == IsPrefix(a, b)

RootPathsOverlap(a, b) == IsPrefix(a, b) \/ IsPrefix(b, a)

RootPathsContain(roots, path) == \E r \in roots : IsPrefix(r, path)

\* The roots every bundle has once B is activated.
AllRoots(B) == Overlay([n \in DOMAIN B |-> B[n].roots], manifests)

HasRootsOverlap(B) ==
    \E n \in DOMAIN B : \E o \in DOMAIN AllRoots(B) \ {n} :
        \E r \in B[n].roots, q \in AllRoots(B)[o] : RootPathsOverlap(r, q)

\* Mutant: paths above a root are not owned.
IsPathOwnedBelow(path, root) == IsPrefix(root, path)

IsPathOwned(path, root) == IsPrefix(root, path) \/ IsPrefix(path, root)

\* checkPathScope: no API write to the document root while there are bundles,
\* nor to a path above or below one of their roots.
InScope(path) ==
    /\ path = <<>> => manifests = <<>>
    /\ \A n \in DOMAIN manifests : \A r \in manifests[n] : ~IsPathOwned(path, r)

-----------------------------------------------------------------------------
(* Documents and policies.                                                 *)

MakeDir(d, path) ==
    LET prefixes == {SubSeq(path, 1, i) : i \in 0..Len(path)}
    IN  IF d = NoDocument \/ \E q \in prefixes \intersect DOMAIN d : d[q] # "obj"
        THEN NoDocument ELSE Overlay(d, [q \in prefixes |-> "obj"])

\* Mutant: a scalar above the path does not count.
NonEmptyExactly(d, path) == path \in DOMAIN d

\* storage.NonEmpty: there is data at path, or a prefix of it is not an object.
NonEmpty(d, path) ==
    \/ path \in DOMAIN d
    \/ \E i \in 1..(Len(path) - 1) :
          SubSeq(path, 1, i) \in DOMAIN d /\ d[SubSeq(path, 1, i)] # "obj"

CheckPathConflicts(modules, d) ==
    \A id \in DOMAIN modules : ~NonEmpty(d, Path(modules[id]))

\* Compiler.Compile, without the conflicts check: no rule inside the extent of
\* another, and every function called is defined.
Compiles(modules) ==
    LET rules == {Path(modules[id]) : id \in DOMAIN modules}
    IN  /\ \A p, q \in rules : IsPrefix(p, q) => p = q
        /\ \A id \in DOMAIN modules : modules[id].calls \subseteq rules

\* Manager.onCommit for a transaction that has no compiler on its context.
OnCommit(ps) ==
    IF ps = policies THEN compiler
    ELSE [modules |-> ps, failed |-> ~Compiles(ps)]

-----------------------------------------------------------------------------
(* Activation and deactivation.                                            *)

\* One patch of a delta bundle.
ApplyPatch(d, p) ==
    LET dir == Front(p.path)
        base == IF p.op = "upsert" /\ dir \notin DOMAIN d THEN MakeDir(d, dir) ELSE d
        op == IF p.op = "upsert" THEN "add" ELSE p.op
    IN  IF d = NoDocument \/ base = NoDocument THEN NoDocument
        ELSE Patch(base, op, p.path, p.value)

ApplyPatches(d, b) == FoldLeft(ApplyPatch, d, b.patches)

\* The document after the deltas among B; the roots of bundles are disjoint, so
\* that Go's order of iteration does not matter.
Patched(B) ==
    FoldSet(LAMBDA n, d : ApplyPatches(d, B[n]), data, {n \in DOMAIN B : IsDelta(B[n])})

\* Mutant: the parent of a root is erased with it.
EraseDataParents(d, roots) ==
    Restrict(d, {q \in DOMAIN d : \A r \in roots \ {<<>>} : ~IsPrefix(Front(r), q)})

\* eraseData leaves a root that is the whole document alone.
EraseData(d, roots) ==
    Restrict(d, {q \in DOMAIN d : \A r \in roots \ {<<>>} : ~IsPrefix(r, q)})

ErasePolicies(ps, roots) ==
    Restrict(ps, {id \in DOMAIN ps : ~RootPathsContain(roots, ps[id].pkg)})

\* doDFS: the data of a bundle lies under its roots, or leads to them.
DoDFS(b) ==
    \A q \in DOMAIN b.data :
        \/ RootPathsContain(b.roots, q)
        \/ b.data[q] = "obj" /\ \E r \in b.roots : IsPrefix(q, r)

\* writeData for one root.
WriteRoot(d, b, r) ==
    IF d = NoDocument \/ r \notin DOMAIN b.data THEN d
    ELSE IF r = <<>> THEN b.data
    ELSE LET made == MakeDir(d, Front(r))
         IN  IF made = NoDocument THEN NoDocument
             ELSE Patch(made, "add", r, Sub(b.data, r))

WriteRoots(d, b) == FoldSet(LAMBDA r, e : WriteRoot(e, b, r), d, b.roots)

WriteData(d, B, names) == FoldSet(LAMBDA n, e : WriteRoots(e, B[n]), d, names)

\* The policies of the bundles `names` under the ids they are stored with.
BundleModules(B, names) ==
    LET ids == UNION {{<<n, f>> : f \in DOMAIN B[n].modules} : n \in names}
    IN  [id \in ids |-> B[id[1]].modules[id[2]]]

\* What lies at or below some roots, and what leads to them.
Below(d, roots) == Restrict(d, {q \in DOMAIN d : RootPathsContain(roots, q)})
Above(d, roots) == Restrict(d, {q \in DOMAIN d : \E r \in roots : IsStrictPrefix(q, r)})

\* What a bundle is to have in place once activated: a snapshot its own data and
\* policies, a delta its patches on top of what its bundle had.
Put(b, n) ==
    IF IsDelta(b)
    THEN LET base == IF n \in DOMAIN content THEN content[n]
                     ELSE [data |-> Below(data, b.roots),
                           modules |-> Restrict(policies, {id \in DOMAIN policies :
                                          RootPathsContain(b.roots, policies[id].pkg)})]
         IN  [base EXCEPT !.data = Below(ApplyPatches(Overlay(@, Above(data, b.roots)), b),
                                          b.roots)]
    ELSE [data |-> Below(b.data, b.roots), modules |-> BundleModules([x \in {n} |-> b], {n})]

-----------------------------------------------------------------------------
(* The operations.                                                         *)

Init ==
    /\ data = EmptyObject
    /\ policies = <<>>
    /\ manifests = <<>>
    /\ compiler = [modules |-> <<>>, failed |-> FALSE]
    /\ content = <<>>

\* Activate: deltas are patched in; what snapshots had and will have is erased;
\* all policies are compiled together; then data and policies are written.  A
\* delta is compiled on the manager's own compiler, a snapshot on a new one, and
\* onCommit makes that compiler the manager's.
Activate(B) ==
    LET deltas == {n \in DOMAIN B : IsDelta(B[n])}
        snapshots == DOMAIN B \ deltas
        patched == Patched(B)
        erase == (UNION {B[n].roots : n \in snapshots})
                 \union (UNION {manifests[n] : n \in snapshots \intersect DOMAIN manifests})
        erased == EraseData(patched, erase)
        remaining == ErasePolicies(policies, erase)
        new == BundleModules(B, snapshots)
        stored == Overlay(new, remaining)
        modules == IF deltas = {} THEN stored ELSE Overlay(stored, compiler.modules)
        written == WriteData(erased, B, snapshots)
    IN  /\ ~HasRootsOverlap(B)
        /\ \A n \in deltas \intersect DOMAIN manifests : B[n].roots = manifests[n]
        /\ patched # NoDocument
        /\ deltas # {} => CheckPathConflicts(compiler.modules, patched) /\ ~compiler.failed
        /\ \A n \in snapshots : DoDFS(B[n])
        /\ Compiles(modules) /\ CheckPathConflicts(modules, erased)
        /\ written # NoDocument
        /\ CheckPathConflicts(modules, written)
        /\ data' = written
        /\ policies' = stored
        /\ manifests' = AllRoots(B)
        /\ compiler' = [modules |-> modules, failed |-> FALSE]
        /\ content' = Overlay([n \in DOMAIN B |-> Put(B[n], n)], content)

\* Deactivate: what bundles no longer configured had is erased; what is left is
\* compiled by onCommit, whose error nobody looks at.
Deactivate(names) ==
    LET erase == UNION {manifests[n] : n \in names}
    IN  /\ data' = EraseData(data, erase)
        /\ policies' = ErasePolicies(policies, erase)
        /\ manifests' = Restrict(manifests, DOMAIN manifests \ names)
        /\ compiler' = OnCommit(policies')
        /\ content' = Restrict(content, DOMAIN content \ names)

\* PUT /v1/data/<path>.
DataPut(path, value) ==
    LET base == IF path \in DOMAIN data THEN data ELSE MakeDir(data, Front(path))
        written == IF base = NoDocument THEN NoDocument ELSE Patch(base, "add", path, value)
    IN  /\ InScope(path)
        /\ written # NoDocument
        /\ CheckPathConflicts(compiler.modules, written)
        /\ data' = written
        /\ UNCHANGED <<policies, manifests, compiler, content>>

WritePatch(d, p) == IF d = NoDocument THEN d ELSE Patch(d, p.op, p.path, p.value)

\* PATCH /v1/data.
DataPatch(ops) ==
    LET written == FoldLeft(WritePatch, data, ops)
    IN  /\ \A i \in DOMAIN ops : InScope(ops[i].path)
        /\ written # NoDocument
        /\ CheckPathConflicts(compiler.modules, written)
        /\ data' = written
        /\ UNCHANGED <<policies, manifests, compiler, content>>

\* DELETE /v1/data/<path>.
DataDelete(path) ==
    /\ InScope(path)
    /\ path # <<>> /\ path \in DOMAIN data
    /\ data' = Without(data, path)
    /\ UNCHANGED <<policies, manifests, compiler, content>>

\* PUT /v1/policies/<id>.
PoliciesPut(id, module) ==
    LET modules == Overlay([x \in {id} |-> module], policies)
    IN  /\ id \in DOMAIN policies => InScope(policies[id].pkg) /\ policies[id] # module
        /\ InScope(module.pkg)
        /\ Compiles(modules) /\ CheckPathConflicts(modules, data)
        /\ policies' = modules
        /\ compiler' = OnCommit(modules)
        /\ UNCHANGED <<data, manifests, content>>

\* Mutant: what is left is not compiled.
PoliciesDeleteUnchecked(id) ==
    LET modules == Restrict(policies, DOMAIN policies \ {id})
    IN  /\ id \in DOMAIN policies
        /\ InScope(policies[id].pkg)
        /\ policies' = modules
        /\ compiler' = OnCommit(modules)
        /\ UNCHANGED <<data, manifests, content>>

\* DELETE /v1/policies/<id>.
PoliciesDelete(id) ==
    LET modules == Restrict(policies, DOMAIN policies \ {id})
    IN  /\ id \in DOMAIN policies
        /\ InScope(policies[id].pkg)
        /\ Compiles(modules)
        /\ policies' = modules
        /\ compiler' = OnCommit(modules)
        /\ UNCHANGED <<data, manifests, content>>

Next ==
    \/ \E B \in Activations : Activate(B)
    \/ \E names \in (SUBSET DOMAIN manifests) \ {{}} : Deactivate(names)
    \/ \E path \in DataPaths : DataDelete(path) \/ \E v \in DataValues : DataPut(path, v)
    \/ \E ops \in PatchLists : DataPatch(ops)
    \/ \E p \in ApiPolicies : PoliciesPut(p.id, p.module)
    \/ \E id \in DOMAIN policies : PoliciesDelete(id)

Spec == Init /\ [][Next]_vars

-----------------------------------------------------------------------------
(* Properties.                                                             *)

\* The store, the manifests and the compiler are of the right shape, and history
\* is kept of exactly the active bundles.
TypeOK ==
    /\ data[<<>>] = "obj"
    /\ \A q \in DOMAIN data : q = <<>> \/ data[Front(q)] = "obj"
    /\ DOMAIN manifests \subseteq Names /\ DOMAIN content = DOMAIN manifests
    /\ compiler.failed \in BOOLEAN

\* hasRootsOverlap: no two active bundles own the same path, whatever sequence of
\* activations with changing roots, removals and batches led there.
RootsDisjoint ==
    \A n, o \in DOMAIN manifests : n # o =>
        \A r \in manifests[n], q \in manifests[o] : ~IsPrefix(r, q)

\* checkPathScope with activateBundles: what an active bundle last put below its
\* roots, data and policies, is there and nothing else is, whatever the API and
\* the other bundles have written since.
BundleIntact ==
    \A n \in DOMAIN manifests :
        /\ Below(data, manifests[n]) = content[n].data
        /\ Restrict(policies, {id \in DOMAIN policies :
              RootPathsContain(manifests[n], policies[id].pkg)}) = content[n].modules

\* CheckPathConflicts at every writer: no rule is defined at a path that base data
\* occupies, nor below a value that is not an object.  Data and rules are written
\* by different handlers, each of which checks what the other has stored.
RulesOffData ==
    \A id \in DOMAIN policies : \A i \in 1..Len(Path(policies[id])) :
        LET prefix == SubSeq(Path(policies[id]), 1, i)
        IN  prefix \in DOMAIN data => i < Len(Path(policies[id])) /\ data[prefix] = "obj"

\* onCommit and activate: the manager's compiler, with which every query runs and
\* every data write is checked, holds exactly the policies of the store.
CompilerIsStore == compiler.modules = policies

\* Every handler compiles what it is about to store: only the removal of a bundle,
\* which does not, can leave the manager with policies that do not compile.
BreaksOnlyByRemoval ==
    compiler'.failed => compiler.failed \/ DOMAIN manifests \ DOMAIN manifests' # {}
OnlyRemovalBreaks == [][BreaksOnlyByRemoval]_vars

\* The bundles a step activates or removes, and the roots they have before or after.
Changed == {n \in DOMAIN manifests \union DOMAIN manifests' :
              ~(/\ n \in DOMAIN manifests \intersect DOMAIN manifests'
                /\ manifests[n] = manifests'[n] /\ content[n] = content'[n])}
ChangedRoots ==
    (UNION {manifests[n] : n \in Changed \intersect DOMAIN manifests})
    \union (UNION {manifests'[n] : n \in Changed \intersect DOMAIN manifests'})

\* eraseBundles and writeDataAndModules: activating or removing bundles leaves the
\* data and the policies that lie outside their old and new roots as they were.
LeavesTheRest ==
    Changed # {} =>
        /\ \A q \in DOMAIN data : ~RootPathsContain(ChangedRoots, q)
              => q \in DOMAIN data' /\ data'[q] = data[q]
        /\ \A id \in DOMAIN policies : ~RootPathsContain(ChangedRoots, policies[id].pkg)
              => id \in DOMAIN policies' /\ policies'[id] = policies[id]
OthersUntouched == [][LeavesTheRest]_vars

\* Deactivate: "This will erase associated data, policies, and the manifest entry
\* from the store."  Once no bundle is active, no data is left at or below a root of
\* a bundle that was removed in this step.
ErasesData ==
    \A n \in DOMAIN manifests \ DOMAIN manifests' :
        \A q \in DOMAIN data' : RootPathsContain(manifests[n], q) => q = <<>>
RemovalErases == [][ErasesData]_vars
=============================================================================
