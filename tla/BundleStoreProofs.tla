------------------------- MODULE BundleStoreProofs --------------------------
(***************************************************************************)
(* For any bundles, API requests and policies: the roots of active bundles *)
(* stay disjoint, the manager's compiler holds the policies of the store,  *)
(* no rule is ever defined where there is base data, and every active      *)
(* bundle keeps exactly what it has put below its roots.                   *)
(***************************************************************************)
EXTENDS BundleWriteProofs

\* The roots of active bundles are disjoint in every reachable state: an activation
\* compares its roots with those of all other bundles, those in its batch included.
THEOREM RootsStayDisjoint == Spec => []RootsDisjoint
<1>1. Init => RootsDisjoint
  BY DEF Init, RootsDisjoint
<1>2. RootsDisjoint /\ [Next]_vars => RootsDisjoint'
  <2> SUFFICES ASSUME RootsDisjoint, [Next]_vars
               PROVE  RootsDisjoint'
    BY Zenon
  <2>1. ASSUME NEW B \in Activations, Activate(B)
        PROVE  RootsDisjoint'
    <3> DEFINE new == [n \in DOMAIN B |-> B[n].roots]
    <3>1. manifests' = AllRoots(B) /\ ~HasRootsOverlap(B)
      BY Zenon, <2>1 DEF Activate
    <3>2. /\ DOMAIN AllRoots(B) = DOMAIN B \union DOMAIN manifests
          /\ \A n \in DOMAIN B : AllRoots(B)[n] = B[n].roots
          /\ \A n \in DOMAIN manifests \ DOMAIN B : AllRoots(B)[n] = manifests[n]
      BY Zenon DEF AllRoots, Overlay
    <3>3. ASSUME NEW n \in DOMAIN manifests', NEW o \in DOMAIN manifests', n # o,
                 NEW r \in manifests'[n], NEW q \in manifests'[o]
          PROVE  ~IsPrefix(r, q)
      <4>1. CASE n \in DOMAIN B
        BY Zenon, <3>1, <3>2, <3>3, <4>1 DEF HasRootsOverlap, RootPathsOverlap
      <4>2. CASE o \in DOMAIN B
        BY Zenon, <3>1, <3>2, <3>3, <4>2 DEF HasRootsOverlap, RootPathsOverlap
      <4>3. CASE n \notin DOMAIN B /\ o \notin DOMAIN B
        BY Zenon, <3>1, <3>2, <3>3, <4>3 DEF RootsDisjoint
      <4> QED BY Zenon, <4>1, <4>2, <4>3
    <3> QED BY <3>3, Zenon DEF RootsDisjoint
  <2>2. ASSUME NEW names \in SUBSET DOMAIN manifests, Deactivate(names)
        PROVE  RootsDisjoint'
    BY <2>2 DEF Deactivate, Restrict, RootsDisjoint
  <2>3. CASE UNCHANGED manifests
    BY <2>3 DEF RootsDisjoint
  <2> QED
    BY <2>1, <2>2, <2>3, ZenonT(60)
    DEF Next, vars, DataDelete, DataPut, DataPatch, PoliciesPut, PoliciesDelete
<1> QED BY <1>1, <1>2, PTL DEF Spec
-----------------------------------------------------------------------------
\* A policy's path is a non-empty sequence of strings.
PoliciesOK ==
    /\ policies = [id \in DOMAIN policies |-> policies[id]]
    /\ \A id \in DOMAIN policies : IsModule(policies[id])

\* The inductive invariant.  A data write is checked against the compiler's modules,
\* a policy write against the stored data; each is of use only because the compiler
\* holds the stored policies.
IInv == PoliciesOK /\ CompilerIsStore /\ CheckPathConflicts(policies, data)

\* The check made with storage.NonEmpty establishes what RulesOffData says.
LEMMA CheckedIsOff ==
    ASSUME PoliciesOK, CheckPathConflicts(policies, data)
    PROVE  RulesOffData
<1> SUFFICES ASSUME NEW id \in DOMAIN policies,
                    NEW i \in 1..Len(Path(policies[id])),
                    SubSeq(Path(policies[id]), 1, i) \in DOMAIN data
             PROVE  /\ i < Len(Path(policies[id]))
                    /\ data[SubSeq(Path(policies[id]), 1, i)] = "obj"
  BY Zenon DEF RulesOffData
<1> DEFINE p == Path(policies[id])
<1>1. p \in Seq(STRING) /\ Len(p) \in Nat
  BY DEF PoliciesOK, IsModule, Path
<1>2. SubSeq(p, 1, Len(p)) = p
  BY <1>1
<1>3. ~NonEmpty(data, p)
  BY Zenon DEF CheckPathConflicts
<1>4. i # Len(p)
  BY <1>2, <1>3, Zenon DEF NonEmpty
<1>5. i \in 1..(Len(p) - 1)
  BY <1>1, <1>4
<1> QED BY SMTT(60), <1>1, <1>3, <1>5 DEF NonEmpty

\* Less data and fewer policies cannot introduce a conflict.
LEMMA FewerConflicts ==
    ASSUME NEW ps, NEW S \in SUBSET DOMAIN ps, NEW d, NEW Q \in SUBSET DOMAIN d,
           CheckPathConflicts(ps, d)
    PROVE  CheckPathConflicts(Restrict(ps, S), Restrict(d, Q))
  BY ZenonT(60) DEF CheckPathConflicts, NonEmpty, Restrict

\* An activation stores what it compiled: the policies that remain and the new ones.
\* A delta compiles on the manager's compiler, whose modules are already stored.
LEMMA ActivateKeeps ==
    ASSUME IInv, NEW B \in Activations, Activate(B)
    PROVE  IInv'
<1> DEFINE deltas == {n \in DOMAIN B : IsDelta(B[n])}
           snapshots == DOMAIN B \ deltas
           erase == (UNION {B[n].roots : n \in snapshots})
                    \union (UNION {manifests[n] : n \in snapshots \intersect DOMAIN manifests})
           remaining == ErasePolicies(policies, erase)
           new == BundleModules(B, snapshots)
           stored == Overlay(new, remaining)
           modules == IF deltas = {} THEN stored ELSE Overlay(stored, compiler.modules)
<1>1. /\ policies' = stored
      /\ compiler' = [modules |-> modules, failed |-> FALSE]
      /\ CheckPathConflicts(modules, data')
  BY Zenon DEF Activate
<1>2. \A id \in DOMAIN new : IsModule(new[id])
  <2> SUFFICES ASSUME NEW id \in DOMAIN new
               PROVE  IsModule(new[id])
    BY Zenon
  <2>1. PICK n \in snapshots : id \in {<<n, f>> : f \in DOMAIN B[n].modules}
    BY Zenon DEF BundleModules
  <2>2. PICK f \in DOMAIN B[n].modules : id = <<n, f>>
    BY Zenon, <2>1
  <2>3. new[id] = B[n].modules[f]
    BY Zenon, <2>2 DEF BundleModules
  <2>4. IsBundle(B[n])
    <3>1. n \in DOMAIN B
      BY Zenon
    <3> QED BY <3>1, ActivationsValid, Zenon
  <2> QED BY <2>2, <2>3, <2>4, Zenon DEF IsBundle
<1>3. \A id \in DOMAIN remaining : id \in DOMAIN policies /\ remaining[id] = policies[id]
  BY Zenon DEF ErasePolicies, Restrict
<1>4. PoliciesOK'
  BY <1>1, <1>2, <1>3, ZenonT(60) DEF IInv, PoliciesOK, Overlay
<1>5. modules = stored
  <2>1. CASE deltas = {}
    BY Zenon, <2>1
  <2>2. CASE deltas # {}
    <3>1. snapshots = {}
      <4>1. PICK n \in DOMAIN B : IsDelta(B[n])
        BY Zenon, <2>2
      <4>2. DOMAIN B = {n}
        BY <4>1, ActivationsValid, ZenonT(60)
      <4> QED BY Zenon, <4>1, <4>2
    <3>2. erase = {} /\ DOMAIN new = {}
      BY Zenon, <3>1 DEF BundleModules
    <3>3. DOMAIN remaining = DOMAIN policies
      BY <3>2, Zenon DEF ErasePolicies, Restrict, RootPathsContain
    <3>4. DOMAIN stored = DOMAIN policies
      BY <3>2, <3>3, ZenonT(60) DEF Overlay
    <3>5. compiler.modules = policies
      BY Zenon DEF IInv, CompilerIsStore
    <3>6. stored = [x \in DOMAIN stored |-> stored[x]]
      BY Zenon DEF Overlay
    <3>7. Overlay(stored, policies) = stored
      BY <3>4, <3>6, Zenon DEF Overlay
    <3> QED BY Zenon, <2>2, <3>5, <3>7
  <2> QED BY Zenon, <2>1, <2>2
<1>6. CompilerIsStore'
  BY Zenon, <1>1, <1>5 DEF CompilerIsStore
<1> QED BY <1>1, <1>4, <1>5, <1>6, Zenon DEF IInv

\* Removing bundles erases data and policies; onCommit reloads what is left.
LEMMA DeactivateKeeps ==
    ASSUME IInv, NEW names \in SUBSET DOMAIN manifests, Deactivate(names)
    PROVE  IInv'
<1> DEFINE erase == UNION {manifests[n] : n \in names}
           S == {id \in DOMAIN policies : ~RootPathsContain(erase, policies[id].pkg)}
           Q == {q \in DOMAIN data : \A r \in erase \ {<<>>} : ~IsPrefix(r, q)}
<1>1. policies' = Restrict(policies, S) /\ data' = Restrict(data, Q)
  BY Zenon DEF Deactivate, ErasePolicies, EraseData
<1>2. PoliciesOK'
  BY Zenon, <1>1 DEF IInv, PoliciesOK, Restrict
<1>3. CheckPathConflicts(policies', data')
  BY <1>1, FewerConflicts, ZenonT(60) DEF IInv
<1>4. CompilerIsStore'
  BY Zenon DEF Deactivate, OnCommit, CompilerIsStore, IInv
<1> QED BY Zenon, <1>2, <1>3, <1>4 DEF IInv

\* The policy handlers: PUT checks the new set of policies against the data, DELETE
\* has nothing to check, and onCommit compiles what is stored.
LEMMA PolicyWritesKeep ==
    ASSUME IInv, NEW id,
           \/ PoliciesDelete(id)
           \/ \E m : IsModule(m) /\ PoliciesPut(id, m)
    PROVE  IInv'
<1>1. CASE PoliciesDelete(id)
  <2> DEFINE S == DOMAIN policies \ {id}
  <2>1. policies' = Restrict(policies, S) /\ UNCHANGED data /\ compiler' = OnCommit(policies')
    BY Zenon, <1>1 DEF PoliciesDelete
  <2>2. PoliciesOK'
    BY Zenon, <2>1 DEF IInv, PoliciesOK, Restrict
  <2>3. CheckPathConflicts(policies', data')
    BY Zenon, <2>1 DEF IInv, CheckPathConflicts, Restrict
  <2>4. CompilerIsStore'
    BY Zenon, <2>1 DEF OnCommit, CompilerIsStore, IInv
  <2> QED BY Zenon, <2>2, <2>3, <2>4 DEF IInv
<1>2. ASSUME NEW m, IsModule(m), PoliciesPut(id, m)
      PROVE  IInv'
  <2>1. /\ policies' = Overlay([x \in {id} |-> m], policies)
        /\ UNCHANGED data
        /\ compiler' = OnCommit(policies')
        /\ CheckPathConflicts(policies', data)
    BY Zenon, <1>2 DEF PoliciesPut
  <2>2. PoliciesOK'
    BY Zenon, <1>2, <2>1 DEF IInv, PoliciesOK, Overlay
  <2>3. CompilerIsStore'
    BY Zenon, <2>1 DEF OnCommit, CompilerIsStore, IInv
  <2> QED BY Zenon, <2>1, <2>2, <2>3 DEF IInv
<1> QED BY Zenon, <1>1, <1>2

\* The data handlers: PUT and PATCH check the document they are about to commit.
LEMMA DataWritesKeep ==
    ASSUME IInv, UNCHANGED <<policies, compiler>>,
           \/ CheckPathConflicts(compiler.modules, data')
           \/ \E path : data' = Without(data, path)
           \/ UNCHANGED data
    PROVE  IInv'
<1>1. PoliciesOK' /\ CompilerIsStore'
  BY Zenon DEF IInv, PoliciesOK, CompilerIsStore
<1>2. CheckPathConflicts(policies, data')
  <2>1. CASE CheckPathConflicts(compiler.modules, data')
    BY Zenon, <2>1 DEF IInv, CompilerIsStore
  <2>2. ASSUME NEW path, data' = Without(data, path)
        PROVE  CheckPathConflicts(policies, data')
    BY <2>2 DEF IInv, CheckPathConflicts, NonEmpty, Without, Restrict
  <2>3. CASE UNCHANGED data
    BY <2>3, Zenon DEF IInv
  <2> QED BY Zenon, <2>1, <2>2, <2>3
<1> QED BY Zenon, <1>1, <1>2 DEF IInv

\* The inductive invariant holds of every behaviour.
THEOREM Inductive == Spec => []IInv
<1>1. Init => IInv
  BY DEF Init, IInv, PoliciesOK, CompilerIsStore, CheckPathConflicts
<1>2. IInv /\ [Next]_vars => IInv'
  <2> SUFFICES ASSUME IInv, [Next]_vars
               PROVE  IInv'
    BY Zenon
  <2>1. ASSUME NEW B \in Activations, Activate(B) PROVE IInv'
    BY Zenon, <2>1, ActivateKeeps
  <2>2. ASSUME NEW names \in SUBSET DOMAIN manifests, Deactivate(names) PROVE IInv'
    BY Zenon, <2>2, DeactivateKeeps
  <2>3. ASSUME NEW path, DataDelete(path) PROVE IInv'
    BY Zenon, <2>3, DataWritesKeep DEF DataDelete
  <2>4. ASSUME NEW path, NEW v, DataPut(path, v) PROVE IInv'
    BY Zenon, <2>4, DataWritesKeep DEF DataPut
  <2>5. ASSUME NEW ops, DataPatch(ops) PROVE IInv'
    BY <2>5, DataWritesKeep, ZenonT(60) DEF DataPatch
  <2>6. ASSUME NEW p \in ApiPolicies, PoliciesPut(p.id, p.module) PROVE IInv'
    BY Zenon, <2>6, PolicyWritesKeep, ApiPoliciesValid
  <2>7. ASSUME NEW id, PoliciesDelete(id) PROVE IInv'
    BY Zenon, <2>7, PolicyWritesKeep
  <2>8. CASE UNCHANGED vars
    BY Zenon, <2>8, DataWritesKeep DEF vars
  <2> QED BY <2>1, <2>2, <2>3, <2>4, <2>5, <2>6, <2>7, <2>8, Zenon DEF Next
<1> QED BY <1>1, <1>2, PTL DEF Spec

\* No rule is ever defined at a path base data occupies or below a value that is not
\* an object, and queries always run with a compiler of the stored policies.
THEOREM RulesStayOffData == Spec => [](RulesOffData /\ CompilerIsStore)
<1>1. IInv => RulesOffData /\ CompilerIsStore
  BY Zenon, CheckedIsOff DEF IInv
<1> QED BY <1>1, Inductive, PTL

\* A step other than the removal of a bundle never leaves the manager with policies
\* that do not compile, unless they did not compile before.
THEOREM RemovalAloneBreaks == Spec => OnlyRemovalBreaks
<1>1. [Next]_vars => [BreaksOnlyByRemoval]_vars
  <2> SUFFICES ASSUME Next, compiler'.failed, ~compiler.failed
               PROVE  DOMAIN manifests \ DOMAIN manifests' # {}
    BY Zenon DEF BreaksOnlyByRemoval
  <2>1. ASSUME NEW B \in Activations, Activate(B) PROVE FALSE
    BY Zenon, <2>1 DEF Activate
  <2>2. ASSUME NEW names \in (SUBSET DOMAIN manifests) \ {{}}, Deactivate(names)
        PROVE  DOMAIN manifests \ DOMAIN manifests' # {}
    BY Zenon, <2>2 DEF Deactivate, Restrict
  <2>3. ASSUME UNCHANGED compiler PROVE FALSE
    BY Zenon, <2>3
  <2>4. ASSUME NEW id, NEW m, PoliciesPut(id, m) PROVE FALSE
    BY <2>4, Zenon DEF PoliciesPut, OnCommit
  <2>5. ASSUME NEW id, PoliciesDelete(id) PROVE FALSE
    BY <2>5, Zenon DEF PoliciesDelete, OnCommit
  <2> QED BY <2>1, <2>2, <2>3, <2>4, <2>5, ZenonT(60) DEF Next, DataDelete, DataPut, DataPatch
<1> QED BY <1>1, PTL DEF Spec, OnlyRemovalBreaks

-----------------------------------------------------------------------------
(* Steps and bundles.                                                      *)

\* BundleIntact for one bundle.
Intact(n) ==
    /\ Below(data, manifests[n]) = content[n].data
    /\ PoliciesUnder(policies, manifests[n]) = content[n].modules

\* It is that for every bundle.
LEMMA IntactAll == BundleIntact <=> \A n \in DOMAIN manifests : Intact(n)
  BY Zenon DEF BundleIntact, Intact, PoliciesUnder

\* Below roots apart from R, what is local to R changes neither data nor policies.
LEMMA Untouched ==
  ASSUME NEW d, NEW e, Tree(d), Tree(e), NEW ps, NEW qs,
         NEW R \in SUBSET Paths, NEW Q \in SUBSET Paths, Apart(Q, R),
         Local(d, e, R), PoliciesLocal(ps, qs, R),
         \A id \in DOMAIN ps : ps[id].pkg \in Paths,
         \A id \in DOMAIN qs : qs[id].pkg \in Paths
  PROVE  Below(d, Q) = Below(e, Q) /\ PoliciesUnder(ps, Q) = PoliciesUnder(qs, Q)
<1>1. ASSUME NEW q \in Paths, RootPathsContain(Q, q) PROVE Equal(d, e, q)
  <2>1. PICK r \in Q : IsPrefix(r, q)
    BY Zenon, <1>1 DEF RootPathsContain
  <2>2. r \in Paths /\ \A t \in R : ~IsPrefix(r, t) /\ ~IsPrefix(t, r)
    BY Zenon DEF Apart
  <2> QED BY Zenon, <2>1, <2>2, LocalSame
<1>2. Below(d, Q) = Below(e, Q)
  BY Zenon, <1>1, BelowSame
<1>3. /\ \A id \in DOMAIN ps : RootPathsContain(Q, ps[id].pkg) => ~RootPathsContain(R, ps[id].pkg)
      /\ \A id \in DOMAIN qs : RootPathsContain(Q, qs[id].pkg) => ~RootPathsContain(R, qs[id].pkg)
  BY Zenon, PackagesApart
<1>4. PoliciesUnder(ps, Q) = PoliciesUnder(qs, Q)
  BY <1>3, PoliciesSame
<1> QED BY Zenon, <1>2, <1>4

\* Stored policies are in packages.
LEMMA PackagePaths == PoliciesOK => \A id \in DOMAIN policies : policies[id].pkg \in Paths
  BY Zenon DEF PoliciesOK, IsModule, Paths

\* A step that is local to R leaves a bundle it does not change and whose roots are apart
\* from R as it was.
LEMMA StaysIntact ==
  ASSUME Shaped, PoliciesOK, PoliciesOK', Tree(data'),
         NEW R \in SUBSET Paths, Local(data, data', R), PoliciesLocal(policies, policies', R),
         NEW n \in DOMAIN manifests, Intact(n), Apart(manifests[n], R),
         manifests'[n] = manifests[n], content'[n] = content[n]
  PROVE  Intact(n)'
<1>1. Tree(data) /\ manifests[n] \in SUBSET Paths
  BY Zenon DEF Shaped
<1>2. \A id \in DOMAIN policies : policies[id].pkg \in Paths
  BY Zenon, PackagePaths
<1>3. \A id \in DOMAIN policies' : policies'[id].pkg \in Paths
  BY Zenon DEF PoliciesOK, IsModule, Paths
<1>4. /\ Below(data, manifests[n]) = Below(data', manifests[n])
      /\ PoliciesUnder(policies, manifests[n]) = PoliciesUnder(policies', manifests[n])
  BY <1>1, <1>2, <1>3, Untouched, SMTT(30)
<1> QED BY Zenon, <1>4 DEF Intact

\* A snapshot is in place after its activation, data and policies, and nothing else is.
LEMMA SnapshotIntact ==
  ASSUME Kept, PoliciesOK', NEW B \in Activations, Activate(B),
         \A n \in DOMAIN B : ~IsDelta(B[n]), NEW n \in DOMAIN B
  PROVE  Intact(n)'
<1> DEFINE R == B[n].roots
           mine == BundleModules([x \in {n} |-> B[n]], {n})
           all == BundleModules(B, DOMAIN B)
<1>1. manifests'[n] = R /\ R \in SUBSET Paths /\ R \subseteq Scope(B)
  BY Zenon, NewRoots, Given DEF Scope, RootsOf
<1>2. content'[n].data = Below(B[n].data, R) /\ content'[n].modules = mine
  <2>1. content' = Overlay([m \in DOMAIN B |-> Put(B[m], m)], content)
    BY Zenon DEF Activate
  <2>2. content'[n] = Put(B[n], n)
    BY Zenon, <2>1 DEF Overlay
  <2>3. Put(B[n], n) = [data |-> Below(B[n].data, R), modules |-> mine]
    BY Zenon DEF Put
  <2> HIDE DEF mine
  <2> QED BY <2>2, <2>3
<1>3. Below(data', R) = Below(B[n].data, R)
  <2>1. Tree(data') /\ Tree(B[n].data) /\ Holds(data', B[n], R)
    BY Zenon, SnapshotsData DEF Kept
  <2>2. \A q \in Paths : RootPathsContain(R, q) => Equal(data', B[n].data, q)
    BY Zenon, <2>1 DEF Holds, RootPathsContain
  <2> QED BY Zenon, <2>1, <2>2, BelowSame
<1>4. /\ \A id \in DOMAIN policies' : RootPathsContain(Scope(B), policies'[id].pkg) => id \in DOMAIN all
      /\ \A id \in DOMAIN all : id \in DOMAIN policies' /\ policies'[id] = all[id]
  BY ActivatePolicies, Zenon DEF Kept
<1>5. /\ \A m \in DOMAIN B : \A f \in DOMAIN B[m].modules :
            <<m, f>> \in DOMAIN all /\ all[<<m, f>>] = B[m].modules[f]
      /\ \A id \in DOMAIN all : \E m \in DOMAIN B : \E f \in DOMAIN B[m].modules : id = <<m, f>>
  BY NewModules
<1>6. /\ \A f \in DOMAIN B[n].modules : <<n, f>> \in DOMAIN mine /\ mine[<<n, f>>] = B[n].modules[f]
      /\ \A id \in DOMAIN mine : \E f \in DOMAIN B[n].modules : id = <<n, f>>
  <2> DEFINE C == [x \in {n} |-> B[n]]
  <2>1. C[n] = B[n] /\ mine = BundleModules(C, {n})
    BY Zenon
  <2> HIDE DEF C, mine
  <2>2. /\ \A m \in {n} : \A f \in DOMAIN C[m].modules :
              <<m, f>> \in DOMAIN mine /\ mine[<<m, f>>] = C[m].modules[f]
        /\ \A id \in DOMAIN mine : \E m \in {n} : \E f \in DOMAIN C[m].modules : id = <<m, f>>
    BY <2>1, NewModules
  <2> QED BY Zenon, <2>1, <2>2
<1>7. mine = [id \in DOMAIN mine |-> mine[id]]
  BY DEF BundleModules
<1> HIDE DEF mine, all
<1>8. ASSUME NEW id \in DOMAIN policies', RootPathsContain(R, policies'[id].pkg)
      PROVE  id \in DOMAIN mine /\ mine[id] = policies'[id]
  <2>1. id \in DOMAIN all
    BY Zenon, <1>1, <1>4, <1>8 DEF RootPathsContain
  <2>2. PICK m \in DOMAIN B : \E f \in DOMAIN B[m].modules : id = <<m, f>>
    BY Zenon, <1>5, <2>1
  <2>f. PICK f \in DOMAIN B[m].modules : id = <<m, f>>
    BY Zenon, <2>2
  <2>3. policies'[id] = B[m].modules[f]
    BY Zenon, <1>4, <1>5, <2>1, <2>f
  <2>4. RootPathsContain(B[m].roots, policies'[id].pkg)
    BY Zenon, <2>3, Given
  <2>5. policies'[id].pkg \in Paths
    BY Zenon DEF PoliciesOK, IsModule, Paths
  <2>6. m = n
    <3> SUFFICES ASSUME m # n PROVE FALSE
      BY Zenon
    <3>1. Apart(B[n].roots, B[m].roots)
      BY Zenon, NewRoots
    <3>2. B[m].roots \in SUBSET Paths
      BY Zenon, Given
    <3> QED BY <1>1, <1>8, <2>4, <2>5, <3>1, <3>2, PackagesApart, Zenon
  <2> QED BY Zenon, <1>6, <2>f, <2>3, <2>6
<1>9. ASSUME NEW id \in DOMAIN mine
      PROVE  id \in DOMAIN policies' /\ RootPathsContain(R, policies'[id].pkg)
  <2>1. PICK f \in DOMAIN B[n].modules : id = <<n, f>>
    BY Zenon, <1>6
  <2>2. id \in DOMAIN policies' /\ policies'[id] = B[n].modules[f]
    BY Zenon, <1>4, <1>5, <2>1
  <2> QED BY ZenonT(60), <2>2, Given
<1>10. PoliciesUnder(policies', R) = mine
  <2> DEFINE u == PoliciesUnder(policies', R)
  <2>1. /\ u = [id \in DOMAIN u |-> u[id]]
        /\ DOMAIN u = {id \in DOMAIN policies' : RootPathsContain(R, policies'[id].pkg)}
        /\ \A id \in DOMAIN u : u[id] = policies'[id]
    BY Zenon DEF PoliciesUnder, Restrict
  <2> HIDE DEF u
  <2>2. DOMAIN u = DOMAIN mine
    BY Zenon, <1>8, <1>9, <2>1
  <2>3. \A id \in DOMAIN mine : u[id] = mine[id]
    BY Zenon, <1>8, <2>1, <2>2
  <2>4. u = mine
    BY <1>7, <2>1, <2>2, <2>3, Zenon
  <2> QED BY Zenon, <2>4 DEF u
<1> QED BY Zenon, <1>1, <1>2, <1>3, <1>10 DEF Intact

\* What lies below some roots together with what leads to them: a tree that agrees with
\* the document there.
LEMMA PartAgrees ==
  ASSUME NEW V, NEW d \in Docs(V), NEW R \in SUBSET Paths, R # {}
  PROVE  /\ Overlay(Below(d, R), Above(d, R)) \in Docs(V)
         /\ Agree(d, Overlay(Below(d, R), Above(d, R)), R)
<1> DEFINE f == Overlay(Below(d, R), Above(d, R))
<1>1. Tree(d) /\ \A q \in DOMAIN d : d[q] \in V
  BY Zenon, InDocs
<1>2. /\ f = [q \in DOMAIN f |-> f[q]]
      /\ DOMAIN f = {q \in DOMAIN d : RootPathsContain(R, q)}
                    \cup {q \in DOMAIN d : \E r \in R : IsStrictPrefix(q, r)}
      /\ \A q \in DOMAIN f : f[q] = d[q]
  BY Zenon DEF Overlay, Below, Above, Restrict
<1>3. ASSUME NEW q \in DOMAIN d, Touches(q, R) PROVE q \in DOMAIN f
  <2>1. PICK r \in R : IsPrefix(r, q) \/ IsPrefix(q, r)
    BY Zenon, <1>3 DEF Touches
  <2>2. CASE IsPrefix(r, q)
    BY Zenon, <1>2, <2>2 DEF RootPathsContain
  <2>3. CASE IsPrefix(q, r) /\ q # r
    BY Zenon, <1>2, <2>3 DEF IsStrictPrefix
  <2>4. CASE q = r
    <3>1. IsPrefix(r, r)
      BY Zenon, PathRefl
    <3> QED BY Zenon, <1>2, <2>4, <3>1 DEF RootPathsContain
  <2> QED BY Zenon, <2>1, <2>2, <2>3, <2>4
<1> HIDE DEF f
<1>4. <<>> \in DOMAIN f
  <2>1. PICK r \in R : r \in Paths
    BY Zenon
  <2>2. Touches(<<>>, R)
    BY Zenon, <2>1, PathRefl DEF Touches
  <2> QED BY Zenon, <1>1, <1>3, <2>2 DEF Tree
<1>5. Tree(f)
  BY Zenon, <1>1, <1>2, <1>4 DEF Tree
<1>6. f \in Docs(V)
  BY Zenon, <1>1, <1>2, <1>5, InDocs
<1>7. Agree(d, f, R)
  <2> SUFFICES ASSUME NEW q \in Paths, Touches(q, R) PROVE Equal(d, f, q)
    BY Zenon DEF Agree
  <2> QED BY Zenon, <1>2, <1>3 DEF Equal
<1> QED BY Zenon, <1>6, <1>7 DEF f

\* Nothing lies below no roots.
LEMMA NoneBelow == \A d, e : Below(d, {}) = Below(e, {})
<1> SUFFICES ASSUME NEW d, NEW e PROVE Below(d, {}) = Below(e, {})
  BY Zenon
<1>1. \A x, q : ~RootPathsContain({}, q)
  BY Zenon DEF RootPathsContain
<1>2. /\ Below(d, {}) = [q \in {} |-> d[q]]
      /\ Below(e, {}) = [q \in {} |-> e[q]]
  BY Zenon, <1>1 DEF Below, Restrict
<1>3. [q \in {} |-> d[q]] = [q \in {} |-> e[q]]
  BY Zenon
<1> QED BY Zenon, <1>2, <1>3

\* What a delta is applied to is what its bundle has in the store.
LEMMA DeltaBase ==
  ASSUME Kept, NEW B \in Activations, Activate(B), NEW n, DOMAIN B = {n}, IsDelta(B[n])
  PROVE  content'[n] =
           [data |-> Below(FoldLeft(ApplyPatch,
                                    Overlay(Below(data, B[n].roots), Above(data, B[n].roots)),
                                    B[n].patches),
                           B[n].roots),
            modules |-> PoliciesUnder(policies, B[n].roots)]
<1> DEFINE R == B[n].roots
           base == IF n \in DOMAIN content THEN content[n]
                   ELSE [data |-> Below(data, R),
                         modules |-> Restrict(policies, {id \in DOMAIN policies :
                                        RootPathsContain(R, policies[id].pkg)})]
<1>1. content'[n] = Put(B[n], n)
  <2>1. content' = Overlay([m \in DOMAIN B |-> Put(B[m], m)], content)
    BY Zenon DEF Activate
  <2> QED BY Zenon, <2>1 DEF Overlay
<1>2. Put(B[n], n) = [base EXCEPT !.data = Below(ApplyPatches(Overlay(@, Above(data, R)), B[n]), R)]
  BY Zenon DEF Put
<1>3. base = [data |-> Below(data, R), modules |-> PoliciesUnder(policies, R)]
  <2>1. CASE n \in DOMAIN content
    <3>1. n \in DOMAIN manifests /\ content[n] = [data |-> content[n].data, modules |-> content[n].modules]
      BY Zenon, <2>1 DEF Kept, Shaped
    <3>2. manifests[n] = R
      <4>1. \A m \in {m \in DOMAIN B : IsDelta(B[m])} \intersect DOMAIN manifests : B[m].roots = manifests[m]
        BY Zenon DEF Activate
      <4> QED BY Zenon, <3>1, <4>1
    <3>3. Intact(n)
      BY Zenon, <3>1, IntactAll DEF Kept
    <3>4. content[n].data = Below(data, R) /\ content[n].modules = PoliciesUnder(policies, R)
      BY Zenon, <3>2, <3>3 DEF Intact
    <3> QED BY <2>1, <3>1, <3>4, Zenon
  <2>2. CASE n \notin DOMAIN content
    BY <2>2, ZenonT(60) DEF PoliciesUnder
  <2> QED BY Zenon, <2>1, <2>2
<1> HIDE DEF base
<1> QED BY Zenon, <1>1, <1>2, <1>3 DEF ApplyPatches

\* A delta's patches are in place on top of what its bundle had.
LEMMA DeltaIntact ==
  ASSUME Kept, NEW B \in Activations, Activate(B), NEW n, DOMAIN B = {n}, IsDelta(B[n])
  PROVE  Intact(n)'
<1> DEFINE R == B[n].roots
           ps == B[n].patches
           f == Overlay(Below(data, R), Above(data, R))
           X == {data, B[n].data} \cup {ps[i].value : i \in DOMAIN ps}
           V == Kinds(X)
<1>1. manifests'[n] = R /\ R \in SUBSET Paths
  <2>1. n \in DOMAIN B
    BY Zenon
  <2> QED BY Zenon, <2>1, NewRoots, Given
<1>2. /\ content'[n].data = Below(FoldLeft(ApplyPatch, f, ps), R)
      /\ content'[n].modules = PoliciesUnder(policies, R)
  <2>1. content'[n] = [data |-> Below(FoldLeft(ApplyPatch, f, ps), R),
                       modules |-> PoliciesUnder(policies, R)]
    BY DeltaBase, Zenon
  <2> HIDE DEF f, ps, R
  <2> QED BY <2>1
<1>3. PoliciesUnder(policies', R) = PoliciesUnder(policies, R)
  <2>1. DOMAIN policies' = DOMAIN policies /\ \A id \in DOMAIN policies : policies'[id] = policies[id]
    BY Zenon, ActivatePolicies DEF Kept
  <2> QED BY <2>1 DEF PoliciesUnder, Restrict
<1>4. data' = FoldLeft(ApplyPatch, data, ps) /\ data' # NoDocument /\ Tree(data)
  BY Zenon, DeltaData DEF Kept, Shaped
<1>5. Below(data', R) = Below(FoldLeft(ApplyPatch, f, ps), R)
  <2>1. CASE R = {}
    BY <2>1, NoneBelow, Zenon
  <2>2. CASE R # {}
    <3>1. /\ ps \in Seq(Range(ps)) /\ \A i \in DOMAIN ps : IsPatch(ps[i], V)
          /\ data \in Docs(V) /\ "obj" \in V
      <4>1. data \in X /\ B[n].data \in X /\ \A i \in DOMAIN ps : ps[i].value \in X
        BY Zenon
      <4>2. IsBundle(B[n])
        BY Zenon, Given
      <4> HIDE DEF X
      <4>3. ps \in Seq(Range(ps)) /\ \A i \in DOMAIN ps : IsPatch(ps[i], V)
        BY <4>1, <4>2, BundleFits, Zenon
      <4>4. data \in Docs(V)
        BY Zenon, <1>4, <4>1, KindsOf
      <4>5. "obj" \in V
        BY Zenon DEF Kinds
      <4> QED BY Zenon, <4>3, <4>4, <4>5
    <3> HIDE DEF V, X
    <3>2. \A i \in DOMAIN ps : RootPathsContain(R, ps[i].path)
      <4>1. n \in DOMAIN B
        BY Zenon
      <4> QED BY <4>1, Given, Zenon DEF Validated, RootPathsContain
    <3>3. f \in Docs(V) /\ Agree(data, f, R)
      BY Zenon, <1>1, <2>2, <3>1, PartAgrees
    <3> HIDE DEF f, ps, R
    <3>4. AgreeOrFail(FoldLeft(ApplyPatch, data, ps), FoldLeft(ApplyPatch, f, ps), R)
      BY <1>1, <3>1, <3>2, <3>3, PatchesAgree, Zenon
    <3>5. Tree(data') /\ Tree(FoldLeft(ApplyPatch, f, ps)) /\ Agree(data', FoldLeft(ApplyPatch, f, ps), R)
      BY <1>4, <3>4, Zenon DEF AgreeOrFail
    <3>6. \A q \in Paths : RootPathsContain(R, q) => Equal(data', FoldLeft(ApplyPatch, f, ps), q)
      BY <3>5, Zenon DEF Agree, Touches, RootPathsContain
    <3> QED BY <3>5, <3>6, BelowSame, Zenon
  <2> QED BY Zenon, <2>1, <2>2
<1> HIDE DEF f, ps, R
<1> QED BY Zenon, <1>1, <1>2, <1>3, <1>5 DEF Intact

\* After an activation the policies stored under the ids of bundles are in packages of
\* active bundles still.
LEMMA ActivateOwned ==
  ASSUME Kept, NEW B \in Activations, Activate(B)
  PROVE  IdsOwned'
<1> SUFFICES ASSUME NEW id \in DOMAIN policies', id \in ModuleIds
             PROVE  /\ id[1] \in DOMAIN manifests'
                    /\ RootPathsContain(manifests'[id[1]], policies'[id].pkg)
  BY Zenon DEF IdsOwned
<1>1. /\ DOMAIN manifests' = DOMAIN B \cup DOMAIN manifests
      /\ \A n \in DOMAIN B : manifests'[n] = B[n].roots
      /\ \A n \in DOMAIN manifests \ DOMAIN B : manifests'[n] = manifests[n]
  BY Zenon, NewRoots
<1>2. IdsOwned
  BY Zenon DEF Kept
<1>3. CASE \A n \in DOMAIN B : ~IsDelta(B[n])
  <2> DEFINE all == BundleModules(B, DOMAIN B)
  <2>1. /\ PoliciesLocal(policies, policies', Scope(B))
        /\ \A i \in DOMAIN policies' : RootPathsContain(Scope(B), policies'[i].pkg) => i \in DOMAIN all
        /\ \A i \in DOMAIN all : i \in DOMAIN policies' /\ policies'[i] = all[i]
    BY <1>2, <1>3, ActivatePolicies, Zenon
  <2>2. CASE RootPathsContain(Scope(B), policies'[id].pkg)
    <3>1. id \in DOMAIN all
      BY Zenon, <2>1, <2>2
    <3>2. PICK n \in DOMAIN B : \E f \in DOMAIN B[n].modules : id = <<n, f>>
      BY <3>1, NewModules
    <3>3. PICK f \in DOMAIN B[n].modules : id = <<n, f>>
      BY Zenon, <3>2
    <3>4. policies'[id] = B[n].modules[f]
      <4>1. all[<<n, f>>] = B[n].modules[f]
        BY NewModules
      <4> QED BY Zenon, <2>1, <3>1, <3>3, <4>1
    <3>5. id[1] = n /\ RootPathsContain(B[n].roots, B[n].modules[f].pkg)
      BY Zenon, <3>3, Given
    <3> QED BY Zenon, <1>1, <3>4, <3>5
  <2>3. CASE ~RootPathsContain(Scope(B), policies'[id].pkg)
    <3>1. id \in DOMAIN policies /\ policies'[id] = policies[id]
      BY Zenon, <2>1, <2>3 DEF PoliciesLocal
    <3>2. id[1] \in DOMAIN manifests /\ RootPathsContain(manifests[id[1]], policies[id].pkg)
      BY Zenon, <1>2, <3>1 DEF IdsOwned
    <3>3. id[1] \notin DOMAIN B
      <4> SUFFICES ASSUME id[1] \in DOMAIN B PROVE FALSE
        BY Zenon
      <4>1. manifests[id[1]] \subseteq Scope(B)
        BY Zenon, <3>2 DEF Scope
      <4> QED BY Zenon, <2>3, <3>1, <3>2, <4>1 DEF RootPathsContain
    <3> QED BY Zenon, <1>1, <3>1, <3>2, <3>3
  <2> QED BY Zenon, <2>2, <2>3
<1>4. CASE \E n \in DOMAIN B : IsDelta(B[n])
  <2>1. DOMAIN policies' = DOMAIN policies /\ \A i \in DOMAIN policies : policies'[i] = policies[i]
    BY <1>2, <1>4, ActivatePolicies, Zenon
  <2>2. id[1] \in DOMAIN manifests /\ RootPathsContain(manifests[id[1]], policies[id].pkg)
    BY Zenon, <1>2, <2>1 DEF IdsOwned
  <2>3. PICK n : DOMAIN B = {n} /\ IsDelta(B[n])
    BY Zenon, <1>4, Given
  <2>4. \A m \in {m \in DOMAIN B : IsDelta(B[m])} \intersect DOMAIN manifests : B[m].roots = manifests[m]
    BY Zenon DEF Activate
  <2>5. manifests'[id[1]] = manifests[id[1]]
    BY <1>1, <2>2, <2>3, <2>4
  <2> QED BY Zenon, <1>1, <2>1, <2>2, <2>5
<1> QED BY Zenon, <1>3, <1>4

\* An activation is local to the roots its bundles have and had, and afterwards every active
\* bundle is in place.
LEMMA ActivateIntact ==
  ASSUME Kept, RootsDisjoint, PoliciesOK, PoliciesOK', NEW B \in Activations, Activate(B)
  PROVE  /\ Kept'
         /\ Local(data, data', Scope(B)) /\ PoliciesLocal(policies, policies', Scope(B))
<1>1. /\ DOMAIN manifests' = DOMAIN B \cup DOMAIN manifests
      /\ \A n \in DOMAIN B : manifests'[n] = B[n].roots
      /\ \A n \in DOMAIN manifests \ DOMAIN B : manifests'[n] = manifests[n]
  BY Zenon, NewRoots
<1>2. /\ DOMAIN content' = DOMAIN B \cup DOMAIN content
      /\ \A n \in DOMAIN B : content'[n] = Put(B[n], n)
      /\ \A n \in DOMAIN content \ DOMAIN B : content'[n] = content[n]
  <2>1. content' = Overlay([m \in DOMAIN B |-> Put(B[m], m)], content)
    BY Zenon DEF Activate
  <2> QED BY Zenon, <2>1 DEF Overlay
<1>3. Shaped /\ IdsOwned /\ Scope(B) \in SUBSET Paths /\ DOMAIN content = DOMAIN manifests
  BY Zenon, ScopePaths DEF Kept, Shaped
<1>4. Tree(data') /\ Local(data, data', Scope(B))
  <2>1. CASE \A n \in DOMAIN B : ~IsDelta(B[n])
    BY Zenon, <1>3, <2>1, SnapshotsData
  <2>2. ASSUME NEW n, DOMAIN B = {n}, IsDelta(B[n])
        PROVE  Tree(data') /\ Local(data, data', Scope(B))
    <3>1. Tree(data') /\ Local(data, data', B[n].roots)
      BY Zenon, <1>3, <2>2, DeltaData DEF Shaped
    <3>2. B[n].roots \subseteq Scope(B)
      BY Zenon, <2>2 DEF Scope, RootsOf
    <3> QED BY Zenon, <3>1, <3>2, LocalMore
  <2> QED BY Zenon, <2>1, <2>2, Given
<1>5. PoliciesLocal(policies, policies', Scope(B))
  BY <1>3, ActivatePolicies, ZenonT(60)
<1>6. ASSUME NEW n \in DOMAIN B
      PROVE  /\ Intact(n)'
             /\ content'[n] = [data |-> content'[n].data, modules |-> content'[n].modules]
  <2>1. CASE \A m \in DOMAIN B : ~IsDelta(B[m])
    <3>1. Intact(n)'
      BY Zenon, <2>1, SnapshotIntact
    <3>2. Put(B[n], n) = [data |-> Below(B[n].data, B[n].roots),
                          modules |-> BundleModules([x \in {n} |-> B[n]], {n})]
      BY <2>1, ZenonT(60) DEF Put
    <3> QED BY Zenon, <1>2, <3>1, <3>2
  <2>2. ASSUME NEW m, DOMAIN B = {m}, IsDelta(B[m])
        PROVE  /\ Intact(n)'
               /\ content'[n] = [data |-> content'[n].data, modules |-> content'[n].modules]
    <3>1. n = m
      BY Zenon, <2>2
    <3>2. Intact(n)'
      BY Zenon, <2>2, <3>1, DeltaIntact
    <3>3. \E x, y : content'[n] = [data |-> x, modules |-> y]
      BY <2>2, <3>1, DeltaBase, ZenonT(60)
    <3> QED BY Zenon, <3>2, <3>3
  <2> QED BY ZenonT(60), <2>1, <2>2, Given
<1>7. ASSUME NEW n \in DOMAIN manifests \ DOMAIN B PROVE Intact(n)'
  <2>1. Apart(manifests[n], Scope(B))
    BY Zenon, ScopeApart
  <2>2. Intact(n)
    BY Zenon, IntactAll DEF Kept
  <2>3. manifests'[n] = manifests[n] /\ content'[n] = content[n]
    BY Zenon, <1>1, <1>2, <1>3
  <2> QED BY <1>3, <1>4, <1>5, <2>1, <2>2, <2>3, StaysIntact
<1>8. BundleIntact'
  <2>1. \A n \in DOMAIN manifests' : Intact(n)'
    BY Zenon, <1>1, <1>6, <1>7
  <2> QED BY Zenon, <2>1 DEF BundleIntact, Intact, PoliciesUnder
<1>9. Shaped'
  <2> SUFFICES ASSUME NEW n \in DOMAIN manifests'
               PROVE  /\ manifests'[n] \in SUBSET Paths
                      /\ content'[n] = [data |-> content'[n].data, modules |-> content'[n].modules]
    BY Zenon, <1>1, <1>2, <1>3, <1>4 DEF Shaped
  <2>1. CASE n \in DOMAIN B
    BY Zenon, <1>1, <1>6, <2>1, Given
  <2>2. CASE n \notin DOMAIN B
    BY Zenon, <1>1, <1>2, <1>3, <2>2 DEF Shaped
  <2> QED BY Zenon, <2>1, <2>2
<1>10. IdsOwned'
  BY Zenon, ActivateOwned
<1> QED BY Zenon, <1>4, <1>5, <1>8, <1>9, <1>10 DEF Kept

\* Removing bundles is local to their roots; the others stay as they are.
LEMMA DeactivateIntact ==
  ASSUME Kept, RootsDisjoint, PoliciesOK, PoliciesOK',
         NEW names \in SUBSET DOMAIN manifests, Deactivate(names)
  PROVE  /\ Kept'
         /\ Local(data, data', UNION {manifests[n] : n \in names})
         /\ PoliciesLocal(policies, policies', UNION {manifests[n] : n \in names})
<1> DEFINE R == UNION {manifests[n] : n \in names}
<1>1. /\ data' = EraseData(data, R) /\ policies' = ErasePolicies(policies, R)
      /\ manifests' = Restrict(manifests, DOMAIN manifests \ names)
      /\ content' = Restrict(content, DOMAIN content \ names)
  BY Zenon DEF Deactivate
<1>2. /\ DOMAIN manifests' = DOMAIN manifests \ names
      /\ \A n \in DOMAIN manifests' : manifests'[n] = manifests[n]
      /\ DOMAIN content' = DOMAIN content \ names
      /\ \A n \in DOMAIN content' : content'[n] = content[n]
  <2> HIDE DEF R
  <2> QED BY Zenon, <1>1 DEF Restrict
<1>3. Shaped /\ IdsOwned /\ Tree(data) /\ DOMAIN content = DOMAIN manifests
  BY Zenon DEF Kept, Shaped
<1>4. R \in SUBSET Paths
  BY Zenon, <1>3 DEF Shaped
<1>5. \A n \in names : manifests[n] \subseteq R
  BY Zenon
<1>6. ASSUME NEW o \in DOMAIN manifests \ names PROVE Apart(manifests[o], R)
  BY Zenon DEF RootsDisjoint, Apart
<1> HIDE DEF R
<1>7. Tree(data') /\ Local(data, data', R)
  BY Zenon, <1>1, <1>3, <1>4, EraseLocal
<1>8. /\ DOMAIN policies' = {id \in DOMAIN policies : ~RootPathsContain(R, policies[id].pkg)}
      /\ \A id \in DOMAIN policies' : policies'[id] = policies[id]
  BY Zenon, <1>1 DEF ErasePolicies, Restrict
<1>9. PoliciesLocal(policies, policies', R)
  BY Zenon, <1>8 DEF PoliciesLocal
<1>10. ASSUME NEW n \in DOMAIN manifests' PROVE Intact(n)'
  <2>1. Intact(n)
    BY Zenon, <1>2, IntactAll DEF Kept
  <2>2. manifests'[n] = manifests[n] /\ content'[n] = content[n] /\ Apart(manifests[n], R)
    BY Zenon, <1>2, <1>3, <1>6
  <2>3. n \in DOMAIN manifests
    BY Zenon, <1>2
  <2> QED BY <1>3, <1>4, <1>7, <1>9, <2>1, <2>2, <2>3, StaysIntact
<1>11. BundleIntact'
  BY Zenon, <1>10 DEF BundleIntact, Intact, PoliciesUnder
<1>12. Shaped'
  BY Zenon, <1>2, <1>3, <1>7 DEF Shaped
<1>13. IdsOwned'
  <2> SUFFICES ASSUME NEW id \in DOMAIN policies', id \in ModuleIds
               PROVE  /\ id[1] \in DOMAIN manifests'
                      /\ RootPathsContain(manifests'[id[1]], policies'[id].pkg)
    BY Zenon DEF IdsOwned
  <2>1. id[1] \in DOMAIN manifests /\ RootPathsContain(manifests[id[1]], policies[id].pkg)
    BY Zenon, <1>3, <1>8 DEF IdsOwned
  <2>2. id[1] \notin names
    BY Zenon, <1>5, <1>8, <2>1 DEF RootPathsContain
  <2> QED BY Zenon, <1>2, <1>8, <2>1, <2>2
<1>14. Kept'
  BY Zenon, <1>11, <1>12, <1>13 DEF Kept
<1> QED BY Zenon, <1>7, <1>9, <1>14 DEF R

-----------------------------------------------------------------------------
(* The API.                                                                *)

\* checkPathScope: a path in scope is apart from the roots of every bundle.
LEMMA ScopeIsApart ==
  ASSUME NEW path, InScope(path), NEW n \in DOMAIN manifests
  PROVE  Apart(manifests[n], {path})
  BY Zenon DEF InScope, IsPathOwned, Apart

\* A write of the data API that is local to paths in scope.
LEMMA DataIntact ==
  ASSUME Kept, PoliciesOK, UNCHANGED <<policies, manifests, content>>,
         NEW R \in SUBSET Paths, \A path \in R : InScope(path),
         Tree(data'), Local(data, data', R)
  PROVE  Kept'
<1>1. Shaped /\ IdsOwned /\ PoliciesOK'
  BY Zenon DEF Kept, PoliciesOK
<1>2. PoliciesLocal(policies, policies', R)
  BY Zenon DEF PoliciesLocal
<1>3. ASSUME NEW n \in DOMAIN manifests' PROVE Intact(n)'
  <2>1. n \in DOMAIN manifests /\ manifests'[n] = manifests[n] /\ content'[n] = content[n]
    BY Zenon
  <2>2. Intact(n)
    BY Zenon, <2>1, IntactAll DEF Kept
  <2>3. Apart(manifests[n], R)
    BY Zenon, <2>1, ScopeIsApart DEF Apart
  <2> QED BY Zenon, <1>1, <1>2, <2>1, <2>2, <2>3, StaysIntact
<1>4. BundleIntact'
  BY Zenon, <1>3 DEF BundleIntact, Intact, PoliciesUnder
<1>5. Shaped' /\ IdsOwned'
  BY Zenon, <1>1 DEF Shaped, IdsOwned
<1> QED BY Zenon, <1>4, <1>5 DEF Kept

\* PUT makes the objects that lead to its path and writes there.
LEMMA DataPutIntact ==
  ASSUME Kept, PoliciesOK, NEW path \in DataPaths, NEW v \in DataValues, DataPut(path, v)
  PROVE  Kept'
<1> DEFINE base == IF path \in DOMAIN data THEN data ELSE MakeDir(data, Front(path))
           V == Kinds({data, v})
<1>1. /\ InScope(path) /\ UNCHANGED <<policies, manifests, content>>
      /\ base # NoDocument /\ data' = Patch(base, "add", path, v) /\ data' # NoDocument
  BY ZenonT(60) DEF DataPut
<1>2. path \in Paths /\ Tree(v) /\ Tree(data)
  BY Zenon, RequestsValid, DocumentIsTree DEF Paths, Kept, Shaped
<1>3. data \in Docs(V) /\ v \in Docs(V) /\ "obj" \in V
  <2>1. data \in Docs(V) /\ v \in Docs(V)
    BY Zenon, <1>2, KindsOf
  <2> QED BY Zenon, <2>1 DEF Kinds
<1> HIDE DEF V
<1>4. base \in Docs(V) /\ Local(data, base, {path})
  <2>1. CASE path \in DOMAIN data
    BY Zenon, <1>3, <2>1, LocalRefl
  <2>2. CASE path \notin DOMAIN data
    BY Zenon, <1>1, <1>2, <1>3, <2>2, MakeDirLocal
  <2> QED BY Zenon, <2>1, <2>2
<1> HIDE DEF base
<1>5. data' \in Docs(V) /\ Local(base, data', {path})
  BY Zenon, <1>1, <1>2, <1>3, <1>4, PatchLocal
<1>6. Tree(data') /\ Local(data, data', {path})
  BY Zenon, <1>4, <1>5, InDocs, LocalTrans
<1>7. {path} \in SUBSET Paths /\ \A p \in {path} : InScope(p)
  BY Zenon, <1>1, <1>2
<1> QED BY <1>1, <1>6, <1>7, DataIntact, Zenon

\* PATCH writes at the paths of its patches.
LEMMA DataPatchIntact ==
  ASSUME Kept, PoliciesOK, NEW ops \in PatchLists, DataPatch(ops)
  PROVE  Kept'
<1> DEFINE X == {data} \cup {ops[i].value : i \in DOMAIN ops}
           V == Kinds(X)
           R == {ops[i].path : i \in DOMAIN ops}
<1>1. /\ \A i \in DOMAIN ops : InScope(ops[i].path)
      /\ UNCHANGED <<policies, manifests, content>>
      /\ data' = FoldLeft(WritePatch, data, ops) /\ data' # NoDocument
  BY Zenon DEF DataPatch
<1>2. /\ ops \in Seq(Range(ops)) /\ Tree(data)
      /\ \A i \in DOMAIN ops : ops[i].path \in Paths /\ ops[i].op \in PatchOps /\ Tree(ops[i].value)
  BY Zenon, RequestsValid, DocumentIsTree DEF ArePatches, Paths, Kept, Shaped
<1>3. data \in Docs(V) /\ "obj" \in V /\ \A i \in DOMAIN ops : ops[i].value \in Docs(V)
  <2>1. data \in X /\ \A i \in DOMAIN ops : ops[i].value \in X
    BY Zenon
  <2> HIDE DEF X
  <2>2. data \in Docs(V) /\ \A i \in DOMAIN ops : ops[i].value \in Docs(V)
    BY Zenon, <1>2, <2>1, KindsOf
  <2>3. "obj" \in V
    BY Zenon DEF Kinds
  <2> QED BY Zenon, <2>2, <2>3
<1> HIDE DEF X, V
<1>4. /\ R \in SUBSET Paths /\ \A path \in R : InScope(path)
      /\ \A i \in DOMAIN ops : IsPatch(ops[i], V) /\ RootPathsContain(R, ops[i].path)
  <2>1. R \in SUBSET Paths /\ \A path \in R : InScope(path)
    BY Zenon, <1>1, <1>2
  <2>2. ASSUME NEW i \in DOMAIN ops
        PROVE  IsPatch(ops[i], V) /\ RootPathsContain(R, ops[i].path)
    <3>1. ops[i].path \in R /\ IsPrefix(ops[i].path, ops[i].path)
      BY Zenon, <1>2, PathRefl
    <3> HIDE DEF R
    <3> QED BY Zenon, <1>2, <1>3, <3>1 DEF IsPatch, RootPathsContain
  <2> QED BY Zenon, <2>1, <2>2
<1> HIDE DEF R
<1>5. data' = FoldLeft(ApplyPatch, data, ops)
  BY <1>1, <1>2, <1>3, <1>4, RequestPatches, Zenon
<1>6. data' \in Docs(V) /\ Local(data, data', R)
  BY <1>1, <1>2, <1>3, <1>4, <1>5, PatchesLocal, Zenon
<1>7. Tree(data')
  BY Zenon, <1>6, InDocs
<1> QED BY <1>1, <1>4, <1>6, <1>7, DataIntact, Zenon

\* DELETE removes what is at its path.
LEMMA DataDeleteIntact ==
  ASSUME Kept, PoliciesOK, NEW path \in DataPaths, DataDelete(path)
  PROVE  Kept'
<1>1. /\ InScope(path) /\ UNCHANGED <<policies, manifests, content>>
      /\ path # <<>> /\ data' = Without(data, path)
  BY Zenon DEF DataDelete
<1>2. path \in Paths /\ Tree(data)
  BY Zenon, RequestsValid DEF Paths, Kept, Shaped
<1>3. Tree(data') /\ \A q \in Paths : ~IsPrefix(path, q) => Equal(data', data, q)
  BY Zenon, <1>1, <1>2, WithoutParts
<1>4. Local(data, data', {path})
  BY Zenon, <1>3 DEF Local, RootPathsContain, Equal
<1>5. {path} \in SUBSET Paths /\ \A p \in {path} : InScope(p)
  BY Zenon, <1>1, <1>2
<1> QED BY <1>1, <1>3, <1>4, <1>5, DataIntact, Zenon

\* A write of the policy API changes one policy, in packages that are in scope, and stores
\* nothing under the id of a bundle's policy.
LEMMA PoliciesIntact ==
  ASSUME Kept, PoliciesOK, PoliciesOK', UNCHANGED <<data, manifests, content>>, NEW id,
         \A x \in DOMAIN policies \ {id} : x \in DOMAIN policies' /\ policies'[x] = policies[x],
         DOMAIN policies' \subseteq DOMAIN policies \cup {id},
         id \in DOMAIN policies => InScope(policies[id].pkg),
         id \in DOMAIN policies' => InScope(policies'[id].pkg) /\ id \notin ModuleIds
  PROVE  Kept'
<1> DEFINE R == {ps[id].pkg : ps \in {x \in {policies, policies'} : id \in DOMAIN x}}
<1>1. R \in SUBSET Paths /\ \A path \in R : InScope(path)
  BY DEF PoliciesOK, IsModule, Paths
<1>2. /\ id \in DOMAIN policies => policies[id].pkg \in R
      /\ id \in DOMAIN policies' => policies'[id].pkg \in R
  BY Zenon
<1> HIDE DEF R
<1>3. PoliciesLocal(policies, policies', R)
  <2>1. \A path \in R : RootPathsContain(R, path)
    BY Zenon, <1>1, PathRefl DEF RootPathsContain
  <2> QED BY Zenon, <1>2, <2>1 DEF PoliciesLocal
<1>4. Local(data, data', R) /\ Tree(data') /\ Shaped /\ IdsOwned
  BY Zenon, LocalRefl DEF Kept, Shaped
<1>5. ASSUME NEW n \in DOMAIN manifests' PROVE Intact(n)'
  <2>1. n \in DOMAIN manifests /\ manifests'[n] = manifests[n] /\ content'[n] = content[n]
    BY Zenon
  <2>2. Intact(n)
    BY Zenon, <2>1, IntactAll DEF Kept
  <2>3. Apart(manifests[n], R)
    BY Zenon, <1>1, <2>1, ScopeIsApart DEF Apart
  <2> QED BY Zenon, <1>1, <1>3, <1>4, <2>1, <2>2, <2>3, StaysIntact
<1>6. BundleIntact'
  BY Zenon, <1>5 DEF BundleIntact, Intact, PoliciesUnder
<1>7. Shaped'
  BY Zenon, <1>4 DEF Shaped
<1>8. IdsOwned'
  BY Zenon, <1>4 DEF IdsOwned
<1> QED BY Zenon, <1>6, <1>7, <1>8 DEF Kept

\* Every step keeps every active bundle in place.
LEMMA StepIntact ==
  ASSUME IdsApart, Kept, RootsDisjoint, IInv, IInv', [Next]_vars
  PROVE  Kept'
<1>1. PoliciesOK /\ PoliciesOK'
  BY Zenon DEF IInv
<1>2. ASSUME NEW B \in Activations, Activate(B) PROVE Kept'
  BY Zenon, <1>1, <1>2, ActivateIntact
<1>3. ASSUME NEW names \in SUBSET DOMAIN manifests, Deactivate(names) PROVE Kept'
  BY Zenon, <1>1, <1>3, DeactivateIntact
<1>4. ASSUME NEW path \in DataPaths, DataDelete(path) PROVE Kept'
  BY Zenon, <1>1, <1>4, DataDeleteIntact
<1>5. ASSUME NEW path \in DataPaths, NEW v \in DataValues, DataPut(path, v) PROVE Kept'
  BY Zenon, <1>1, <1>5, DataPutIntact
<1>6. ASSUME NEW ops \in PatchLists, DataPatch(ops) PROVE Kept'
  BY Zenon, <1>1, <1>6, DataPatchIntact
<1>7. ASSUME NEW p \in ApiPolicies, PoliciesPut(p.id, p.module) PROVE Kept'
  <2>1. /\ policies' = Overlay([x \in {p.id} |-> p.module], policies)
        /\ p.id \in DOMAIN policies => InScope(policies[p.id].pkg)
        /\ InScope(p.module.pkg) /\ UNCHANGED <<data, manifests, content>>
    BY <1>7, Zenon DEF PoliciesPut
  <2>2. p.id \notin ModuleIds
    BY Zenon DEF IdsApart
  <2>3. /\ DOMAIN policies' = DOMAIN policies \cup {p.id} /\ policies'[p.id] = p.module
        /\ \A x \in DOMAIN policies \ {p.id} : x \in DOMAIN policies' /\ policies'[x] = policies[x]
    BY Zenon, <2>1 DEF Overlay
  <2> QED BY Zenon, <1>1, <2>1, <2>2, <2>3, PoliciesIntact
<1>8. ASSUME NEW id \in DOMAIN policies, PoliciesDelete(id) PROVE Kept'
  <2>1. /\ policies' = Restrict(policies, DOMAIN policies \ {id})
        /\ InScope(policies[id].pkg) /\ UNCHANGED <<data, manifests, content>>
    BY <1>8, Zenon DEF PoliciesDelete
  <2>2. /\ DOMAIN policies' = DOMAIN policies \ {id}
        /\ \A x \in DOMAIN policies \ {id} : x \in DOMAIN policies' /\ policies'[x] = policies[x]
    BY Zenon, <2>1 DEF Restrict
  <2> QED BY Zenon, <1>1, <2>1, <2>2, PoliciesIntact
<1>9. CASE UNCHANGED vars
  BY Zenon, <1>9 DEF vars, Kept, Shaped, IdsOwned, BundleIntact
<1> QED BY <1>2, <1>3, <1>4, <1>5, <1>6, <1>7, <1>8, <1>9, ZenonT(30) DEF Next

\* Nothing is active at first.
LEMMA InitIntact == Init => Kept
<1> SUFFICES ASSUME Init PROVE Kept
  BY Zenon
<1>1. Tree(data)
  BY DEF Init, EmptyObject, Scalar, Tree, Paths
<1>2. DOMAIN manifests = {} /\ DOMAIN content = {} /\ DOMAIN policies = {}
  BY DEF Init
<1> QED BY Zenon, <1>1, <1>2 DEF Kept, Shaped, IdsOwned, BundleIntact

\* The inductive invariant holds of every behaviour in which the policies of the API and
\* those of bundles are stored under different ids.
THEOREM KeptInductive == IdsApart /\ Spec => []Kept
<1>1. Init => Kept
  BY Zenon, InitIntact
<1>2. IdsApart /\ Kept /\ RootsDisjoint /\ IInv /\ IInv' /\ [Next]_vars => Kept'
  BY Zenon, StepIntact
<1>3. IdsApart => []IdsApart
  BY Zenon
<1> QED BY <1>1, <1>2, <1>3, RootsStayDisjoint, Inductive, PTL DEF Spec

\* What an active bundle last put below its roots, data and policies, is there and nothing
\* else is, whatever the API and the other bundles have written since.
THEOREM BundlesStayIntact == IdsApart /\ Spec => []BundleIntact
<1>1. Kept => BundleIntact
  BY Zenon DEF Kept
<1> QED BY <1>1, KeptInductive, PTL

\* A step local to roots that bundles have before or after it leaves what lies outside the
\* roots of the bundles it changes as it was: the other bundles are in place before and after.
LEMMA RestStays ==
  ASSUME Kept, Kept', NEW R \in SUBSET Paths, PoliciesOK,
         Local(data, data', R), PoliciesLocal(policies, policies', R),
         \A r \in R : \/ \E n \in DOMAIN manifests : r \in manifests[n]
                      \/ \E n \in DOMAIN manifests' : r \in manifests'[n]
  PROVE  LeavesTheRest
<1>1. Tree(data) /\ Tree(data')
  BY Zenon DEF Kept, Shaped
<1>2. ASSUME NEW q \in Paths, RootPathsContain(R, q), ~RootPathsContain(ChangedRoots, q)
      PROVE  \E n \in DOMAIN manifests \intersect DOMAIN manifests' :
                /\ RootPathsContain(manifests[n], q)
                /\ manifests'[n] = manifests[n] /\ content'[n] = content[n]
  <2>1. PICK r \in R : IsPrefix(r, q)
    BY Zenon, <1>2 DEF RootPathsContain
  <2>2. r \notin ChangedRoots
    BY Zenon, <1>2, <2>1 DEF RootPathsContain
  <2>3. PICK n : \/ n \in DOMAIN manifests /\ r \in manifests[n]
                 \/ n \in DOMAIN manifests' /\ r \in manifests'[n]
    BY Zenon
  <2>4. n \notin Changed
    <3>1. n \in DOMAIN manifests /\ r \in manifests[n] => n \notin Changed
      BY <2>2, Zenon DEF ChangedRoots
    <3>2. n \in DOMAIN manifests' /\ r \in manifests'[n] => n \notin Changed
      BY <2>2, ZenonT(60) DEF ChangedRoots
    <3> QED BY Zenon, <2>3, <3>1, <3>2
  <2>5. /\ n \in DOMAIN manifests \intersect DOMAIN manifests'
        /\ manifests[n] = manifests'[n] /\ content[n] = content'[n]
    BY Zenon, <2>3, <2>4 DEF Changed
  <2>6. RootPathsContain(manifests[n], q)
    BY Zenon, <2>1, <2>3, <2>5 DEF RootPathsContain
  <2> QED BY Zenon, <2>5, <2>6
<1>3. ASSUME NEW n \in DOMAIN manifests \intersect DOMAIN manifests',
             manifests'[n] = manifests[n], content'[n] = content[n]
      PROVE  /\ Below(data, manifests[n]) = Below(data', manifests[n])
             /\ PoliciesUnder(policies, manifests[n]) = PoliciesUnder(policies', manifests[n])
  <2>1. Intact(n)
    BY Zenon, IntactAll DEF Kept
  <2>2. Intact(n)'
    BY Zenon DEF Kept, BundleIntact, Intact, PoliciesUnder
  <2> QED BY Zenon, <1>3, <2>1, <2>2 DEF Intact
<1>4. ASSUME NEW q \in DOMAIN data, ~RootPathsContain(ChangedRoots, q)
      PROVE  q \in DOMAIN data' /\ data'[q] = data[q]
  <2>1. q \in Paths
    BY Zenon, <1>1 DEF Tree
  <2>2. CASE ~RootPathsContain(R, q)
    BY Zenon, <2>1, <2>2 DEF Local, Equal
  <2>3. CASE RootPathsContain(R, q)
    <3>1. PICK n \in DOMAIN manifests \intersect DOMAIN manifests' :
             /\ RootPathsContain(manifests[n], q)
             /\ manifests'[n] = manifests[n] /\ content'[n] = content[n]
      BY Zenon, <1>2, <1>4, <2>1, <2>3
    <3>2. Below(data, manifests[n]) = Below(data', manifests[n])
      BY Zenon, <1>3, <3>1
    <3>3. Equal(data, data', q)
      BY <1>1, <2>1, <3>1, <3>2, BelowSame, Zenon
    <3> QED BY Zenon, <3>3 DEF Equal
  <2> QED BY Zenon, <2>2, <2>3
<1>5. ASSUME NEW id \in DOMAIN policies, ~RootPathsContain(ChangedRoots, policies[id].pkg)
      PROVE  id \in DOMAIN policies' /\ policies'[id] = policies[id]
  <2>1. policies[id].pkg \in Paths
    BY Zenon, PackagePaths
  <2>2. CASE ~RootPathsContain(R, policies[id].pkg)
    BY Zenon, <2>2 DEF PoliciesLocal
  <2>3. CASE RootPathsContain(R, policies[id].pkg)
    <3>1. PICK n \in DOMAIN manifests \intersect DOMAIN manifests' :
             /\ RootPathsContain(manifests[n], policies[id].pkg)
             /\ manifests'[n] = manifests[n] /\ content'[n] = content[n]
      BY Zenon, <1>2, <1>5, <2>1, <2>3
    <3> DEFINE u == PoliciesUnder(policies, manifests[n])
               w == PoliciesUnder(policies', manifests[n])
    <3>2. u = w
      BY Zenon, <1>3, <3>1
    <3>3. id \in DOMAIN u /\ u[id] = policies[id]
      BY Zenon, <3>1 DEF PoliciesUnder, Restrict
    <3>4. id \in DOMAIN w => id \in DOMAIN policies' /\ w[id] = policies'[id]
      BY Zenon DEF PoliciesUnder, Restrict
    <3> HIDE DEF u, w
    <3> QED BY Zenon, <3>2, <3>3, <3>4
  <2> QED BY Zenon, <2>2, <2>3
<1> QED BY <1>4, <1>5, ZenonT(60) DEF LeavesTheRest

\* Activating or removing bundles leaves what lies outside the roots, old and new, of the
\* bundles that change as it was.
THEOREM RestStaysUntouched == IdsApart /\ Spec => OthersUntouched
<1>1. ASSUME IdsApart, Kept, Kept', RootsDisjoint, IInv, IInv', [Next]_vars
      PROVE  [LeavesTheRest]_vars
  <2>1. PoliciesOK /\ PoliciesOK'
    BY Zenon, <1>1 DEF IInv
  <2>2. ASSUME NEW B \in Activations, Activate(B) PROVE LeavesTheRest
    <3>1. /\ Local(data, data', Scope(B)) /\ PoliciesLocal(policies, policies', Scope(B))
          /\ Scope(B) \in SUBSET Paths
      BY Zenon, <1>1, <2>1, <2>2, ActivateIntact, ScopePaths DEF Kept
    <3>2. ASSUME NEW r \in Scope(B)
          PROVE  \/ \E n \in DOMAIN manifests : r \in manifests[n]
                 \/ \E n \in DOMAIN manifests' : r \in manifests'[n]
      <4>1. \A n \in DOMAIN B : n \in DOMAIN manifests' /\ manifests'[n] = B[n].roots
        BY ZenonT(60), <2>2, NewRoots
      <4> QED BY Zenon, <4>1 DEF Scope, RootsOf
    <3> QED BY Zenon, <1>1, <2>1, <3>1, <3>2, RestStays
  <2>3. ASSUME NEW names \in SUBSET DOMAIN manifests, Deactivate(names) PROVE LeavesTheRest
    <3> DEFINE R == UNION {manifests[n] : n \in names}
    <3>1. Local(data, data', R) /\ PoliciesLocal(policies, policies', R)
      BY Zenon, <1>1, <2>1, <2>3, DeactivateIntact
    <3>2. R \in SUBSET Paths /\ \A r \in R : \E n \in DOMAIN manifests : r \in manifests[n]
      BY Zenon, <1>1 DEF Kept, Shaped
    <3> HIDE DEF R
    <3> QED BY Zenon, <1>1, <2>1, <3>1, <3>2, RestStays
  <2>4. CASE UNCHANGED <<manifests, content>>
    <3>1. Changed = {}
      BY Zenon, <2>4 DEF Changed
    <3> QED BY Zenon, <3>1 DEF LeavesTheRest
  <2> QED
    BY <1>1, <2>2, <2>3, <2>4, ZenonT(60)
    DEF Next, vars, DataDelete, DataPut, DataPatch, PoliciesPut, PoliciesDelete
<1>2. IdsApart => []IdsApart
  BY Zenon
<1> QED BY <1>1, <1>2, KeptInductive, RootsStayDisjoint, Inductive, PTL DEF Spec, OthersUntouched
=============================================================================
