------------------------- MODULE BundleWriteProofs --------------------------
(***************************************************************************)
(* What bundles and requests write to a document, and what they leave      *)
(* alone: a patch, the objects made on the way to a path, the loops over   *)
(* patches, roots and bundles, an activation.  Every write is local to the *)
(* paths or roots it is given, and patches depend on nothing outside them. *)
(***************************************************************************)
EXTENDS BundleStore, DataTheorems

-----------------------------------------------------------------------------
(* Documents and patches.                                                  *)

Paths == Seq(STRING)

\* What a step may rely on of the document in the store.
Tree(d) ==
    /\ d = [q \in DOMAIN d |-> d[q]]
    /\ DOMAIN d \subseteq Paths /\ <<>> \in DOMAIN d
    /\ \A q \in DOMAIN d : d[q] # "arr"

\* A document has a root; so a tree is not the result of a patch that failed.
LEMMA TreeIsDocument == \A d : Tree(d) => d # NoDocument
  BY DEF Tree, NoDocument

\* Bundles and requests carry trees.
LEMMA DocumentIsTree == ASSUME NEW d, IsDocument(d) PROVE Tree(d)
  BY Zenon DEF IsDocument, Tree, Paths

\* The prefix order on paths is reflexive, and the empty path leads everywhere.
LEMMA PathRefl == \A p \in Paths : IsPrefix(p, p) /\ IsPrefix(<<>>, p)
  BY Zenon, PrefixRefl DEF Paths
\* It is transitive.
LEMMA PathTrans ==
  \A p, q, t \in Paths : IsPrefix(p, q) /\ IsPrefix(q, t) => IsPrefix(p, t)
  BY PrefixTrans, Zenon DEF Paths
\* The prefixes of one path are ordered.
LEMMA PathTotal ==
  \A p, q, t \in Paths : IsPrefix(p, t) /\ IsPrefix(q, t) => IsPrefix(p, q) \/ IsPrefix(q, p)
  BY PrefixTotal, Zenon DEF Paths
\* The directory of a path leads to it.
LEMMA PathFront == \A p \in Paths : Front(p) \in Paths /\ IsPrefix(Front(p), p)
  BY FrontPrefix, Zenon DEF Paths

\* Only the empty path leads to the empty path.
LEMMA AboveRoot == \A p \in Paths : IsPrefix(p, <<>>) => p = <<>>
<1> SUFFICES ASSUME NEW p \in Paths, IsPrefix(p, <<>>) PROVE p = <<>>
  BY Zenon
<1>1. <<>> \in Seq(STRING) /\ p \in Seq(STRING)
  BY DEF Paths
<1>2. IsPrefix(<<>>, p)
  BY Zenon, <1>1, PrefixRefl
<1> QED BY Zenon, <1>1, <1>2, PrefixAnti

\* Same node, or no node, in both documents.
Equal(d, e, q) == /\ q \in DOMAIN d <=> q \in DOMAIN e
                  /\ q \in DOMAIN d => d[q] = e[q]

\* A document with a subtree replaced: v below p, and d elsewhere.
LEMMA GraftParts ==
  ASSUME NEW d, Tree(d), NEW p \in Paths, NEW v, Tree(v), p # <<>>
  PROVE  /\ Tree(Graft(d, p, v))
         /\ \A q \in Paths : IsPrefix(p, q) =>
               /\ q \in DOMAIN Graft(d, p, v) <=> Suffix(q, p) \in DOMAIN v
               /\ q \in DOMAIN Graft(d, p, v) => Graft(d, p, v)[q] = v[Suffix(q, p)]
         /\ \A q \in Paths : ~IsPrefix(p, q) => Equal(Graft(d, p, v), d, q)
<1> DEFINE U == Under(p, v)
           O == Without(d, p)
           e == Graft(d, p, v)
<1>1. /\ \A q \in Paths : IsPrefix(p, q) => Suffix(q, p) \in Paths /\ p \o Suffix(q, p) = q
      /\ \A s \in Paths : p \o s \in Paths /\ IsPrefix(p, p \o s) /\ Suffix(p \o s, p) = s
  BY Zenon, Behind DEF Paths, Suffix
<1>2. /\ DOMAIN U = {p \o s : s \in DOMAIN v}
      /\ \A q \in DOMAIN U : U[q] = v[Suffix(q, p)]
  BY Zenon DEF Under
<1>3. /\ DOMAIN O = {q \in DOMAIN d : ~IsPrefix(p, q)}
      /\ \A q \in DOMAIN O : O[q] = d[q]
  BY Zenon DEF Without, Restrict
<1>4. /\ e = [q \in DOMAIN e |-> e[q]]
      /\ DOMAIN e = DOMAIN U \cup DOMAIN O
      /\ \A q \in DOMAIN e : e[q] = IF q \in DOMAIN U THEN U[q] ELSE O[q]
  BY Zenon DEF Graft, Overlay
<1> HIDE DEF U, O, e
<1>5. \A q \in DOMAIN U : q \in Paths /\ IsPrefix(p, q) /\ Suffix(q, p) \in DOMAIN v
  <2> SUFFICES ASSUME NEW q \in DOMAIN U
               PROVE  q \in Paths /\ IsPrefix(p, q) /\ Suffix(q, p) \in DOMAIN v
    BY Zenon
  <2>1. PICK s \in DOMAIN v : q = p \o s
    BY <1>2, Zenon
  <2>2. s \in Paths
    BY Zenon DEF Tree
  <2> QED BY <1>1, <2>1, <2>2, Zenon
<1>6. \A q \in Paths : IsPrefix(p, q) =>
         /\ q \in DOMAIN e <=> Suffix(q, p) \in DOMAIN v
         /\ q \in DOMAIN e => e[q] = v[Suffix(q, p)]
  <2> SUFFICES ASSUME NEW q \in Paths, IsPrefix(p, q)
               PROVE  /\ q \in DOMAIN e <=> Suffix(q, p) \in DOMAIN v
                      /\ q \in DOMAIN e => e[q] = v[Suffix(q, p)]
    BY Zenon
  <2>1. q \in DOMAIN U <=> Suffix(q, p) \in DOMAIN v
    BY <1>1, <1>2, <1>5, Zenon
  <2>2. q \notin DOMAIN O
    BY Zenon, <1>3
  <2> QED BY Zenon, <1>2, <1>4, <2>1, <2>2
<1>7. \A q \in Paths : ~IsPrefix(p, q) => Equal(e, d, q)
  BY Zenon, <1>3, <1>4, <1>5 DEF Equal
<1>8. Tree(e)
  <2>1. DOMAIN e \subseteq Paths
    BY Zenon, <1>3, <1>4, <1>5 DEF Tree
  <2>2. <<>> \in DOMAIN e
    <3>1. <<>> \in Paths /\ ~IsPrefix(p, <<>>) /\ <<>> \in DOMAIN d
      BY Zenon, AboveRoot DEF Tree, Paths
    <3> QED BY Zenon, <1>3, <1>4, <3>1
  <2>3. \A q \in DOMAIN e : e[q] # "arr"
    <3>1. \A q \in DOMAIN U : U[q] # "arr"
      BY <1>2, <1>5, Zenon DEF Tree
    <3>2. \A q \in DOMAIN O : O[q] # "arr"
      BY <1>3, Zenon DEF Tree
    <3> QED BY <1>4, <3>1, <3>2, Zenon
  <2> QED BY <1>4, <2>1, <2>2, <2>3, Zenon DEF Tree
<1> QED BY Zenon, <1>6, <1>7, <1>8 DEF e

\* A document with a subtree removed.
LEMMA WithoutParts ==
  ASSUME NEW d, Tree(d), NEW p \in Paths, p # <<>>
  PROVE  /\ Tree(Without(d, p))
         /\ \A q \in Paths : IsPrefix(p, q) => q \notin DOMAIN Without(d, p)
         /\ \A q \in Paths : ~IsPrefix(p, q) => Equal(Without(d, p), d, q)
<1> DEFINE O == Without(d, p)
<1>1. /\ O = [q \in DOMAIN O |-> O[q]]
      /\ DOMAIN O = {q \in DOMAIN d : ~IsPrefix(p, q)}
      /\ \A q \in DOMAIN O : O[q] = d[q]
  BY Zenon DEF Without, Restrict
<1> HIDE DEF O
<1>2. ~IsPrefix(p, <<>>)
  BY Zenon, AboveRoot
<1>3. Tree(O)
  BY <1>1, <1>2, Zenon DEF Tree
<1>4. /\ \A q \in Paths : IsPrefix(p, q) => q \notin DOMAIN O
      /\ \A q \in Paths : ~IsPrefix(p, q) => Equal(O, d, q)
  BY <1>1, Zenon DEF Equal
<1> QED BY Zenon, <1>3, <1>4 DEF O

\* When a patch is applicable, and what it does.
Applicable(d, op, path, v) ==
    IF path = <<>> THEN op # "remove" /\ v[<<>>] = "obj"
    ELSE /\ Front(path) \in DOMAIN d /\ d[Front(path)] = "obj"
         /\ op = "add" \/ path \in DOMAIN d
Applied(d, e, op, path, v) ==
    /\ \A q \in Paths : IsPrefix(path, q) =>
          /\ q \in DOMAIN e <=> op # "remove" /\ Suffix(q, path) \in DOMAIN v
          /\ q \in DOMAIN e => e[q] = v[Suffix(q, path)]
    /\ \A q \in Paths : ~IsPrefix(path, q) => Equal(e, d, q)

\* A patch that is applicable replaces or removes what is at its path; any other fails.
LEMMA PatchParts ==
  ASSUME NEW d, Tree(d), NEW op, NEW path \in Paths, NEW v, Tree(v)
  PROVE  IF Applicable(d, op, path, v)
         THEN Tree(Patch(d, op, path, v)) /\ Applied(d, Patch(d, op, path, v), op, path, v)
         ELSE Patch(d, op, path, v) = NoDocument
<1>1. CASE path = <<>>
  <2>1. Patch(d, op, path, v) = IF op = "remove" \/ v[<<>>] # "obj" THEN NoDocument ELSE v
    BY Zenon, <1>1 DEF Patch
  <2>2. \A q \in Paths : IsPrefix(path, q) /\ Suffix(q, path) = q
    <3> SUFFICES ASSUME NEW q \in Paths PROVE IsPrefix(<<>>, q) /\ SubSeq(q, 0 + 1, Len(q)) = q
      BY Zenon, <1>1 DEF Suffix
    <3>1. q \in Seq(STRING)
      BY Zenon DEF Paths
    <3> QED BY <3>1, PrefixRefl
  <2>3. CASE Applicable(d, op, path, v)
    <3>1. op # "remove" /\ Patch(d, op, path, v) = v
      BY Zenon, <1>1, <2>1, <2>3 DEF Applicable
    <3> QED BY <2>2, <2>3, <3>1, Zenon DEF Applied
  <2>4. CASE ~Applicable(d, op, path, v)
    BY Zenon, <1>1, <2>1, <2>4 DEF Applicable
  <2> QED BY Zenon, <2>3, <2>4
<1>2. CASE path # <<>>
  <2> DEFINE kind == IF Front(path) \in DOMAIN d THEN d[Front(path)] ELSE "none"
  <2>1. kind # "arr"
    BY Zenon DEF Tree
  <2>2. Patch(d, op, path, v) =
          IF kind = "obj"
          THEN IF op # "add" /\ path \notin DOMAIN d THEN NoDocument
               ELSE IF op = "remove" THEN Without(d, path) ELSE Graft(d, path, v)
          ELSE NoDocument
    BY <1>2, <2>1, Zenon DEF Patch
  <2>3. kind = "obj" <=> Front(path) \in DOMAIN d /\ d[Front(path)] = "obj"
    BY Zenon
  <2> HIDE DEF kind
  <2>4. CASE Applicable(d, op, path, v) /\ op = "remove"
    <3>1. Patch(d, op, path, v) = Without(d, path)
      BY Zenon, <1>2, <2>2, <2>3, <2>4 DEF Applicable
    <3> QED BY <1>2, <2>4, <3>1, WithoutParts, Zenon DEF Applied
  <2>5. CASE Applicable(d, op, path, v) /\ op # "remove"
    <3>1. Patch(d, op, path, v) = Graft(d, path, v)
      BY Zenon, <1>2, <2>2, <2>3, <2>5 DEF Applicable
    <3>2. PICK e : e = Graft(d, path, v)
      BY Zenon
    <3>3. /\ Tree(e)
          /\ \A q \in Paths : IsPrefix(path, q) => /\ q \in DOMAIN e <=> Suffix(q, path) \in DOMAIN v
                                                   /\ q \in DOMAIN e => e[q] = v[Suffix(q, path)]
          /\ \A q \in Paths : ~IsPrefix(path, q) => Equal(e, d, q)
      BY <1>2, <3>2, GraftParts
    <3>4. Applied(d, e, op, path, v)
      BY <2>5, <3>3, Zenon DEF Applied
    <3> QED BY <2>5, <3>1, <3>2, <3>3, <3>4, Zenon
  <2>6. CASE ~Applicable(d, op, path, v)
    BY Zenon, <1>2, <2>2, <2>3, <2>6 DEF Applicable
  <2> QED BY Zenon, <2>4, <2>5, <2>6
<1> QED BY Zenon, <1>1, <1>2

\* MakeDir fails at a value that is not an object, and otherwise adds the objects missing.
LEMMA MakeDirParts ==
  ASSUME NEW d, Tree(d), NEW path \in Paths
  PROVE  IF \E q \in DOMAIN d : IsPrefix(q, path) /\ d[q] # "obj"
         THEN MakeDir(d, path) = NoDocument
         ELSE /\ Tree(MakeDir(d, path))
              /\ \A q \in Paths : IF IsPrefix(q, path) THEN /\ q \in DOMAIN MakeDir(d, path)
                                                            /\ MakeDir(d, path)[q] = "obj"
                                  ELSE Equal(MakeDir(d, path), d, q)
<1> DEFINE prefixes == {SubSeq(path, 1, i) : i \in 0..Len(path)}
           e == Overlay(d, [q \in prefixes |-> "obj"])
<1>1. \A q : q \in prefixes <=> q \in Paths /\ IsPrefix(q, path)
  <2>1. path \in Seq(STRING)
    BY Zenon DEF Paths
  <2>2. ASSUME NEW q \in prefixes PROVE q \in Paths /\ IsPrefix(q, path)
    BY Zenon, <2>1, PrefixParts DEF Paths
  <2>3. ASSUME NEW q \in Paths, IsPrefix(q, path) PROVE q \in prefixes
    BY <2>1, <2>3, PrefixParts DEF Paths
  <2> QED BY <2>2, <2>3, Zenon
<1>2. MakeDir(d, path) = IF \E q \in prefixes \cap DOMAIN d : d[q] # "obj" THEN NoDocument ELSE e
  BY TreeIsDocument, Zenon DEF MakeDir
<1> HIDE DEF prefixes
<1>3. /\ e = [q \in DOMAIN e |-> e[q]]
      /\ DOMAIN e = DOMAIN d \cup prefixes
      /\ \A q \in DOMAIN e : e[q] = IF q \in DOMAIN d THEN d[q] ELSE "obj"
  BY Zenon DEF Overlay
<1> HIDE DEF e
<1>4. CASE \E q \in DOMAIN d : IsPrefix(q, path) /\ d[q] # "obj"
  BY Zenon, <1>1, <1>2, <1>4 DEF Tree
<1>5. CASE \A q \in DOMAIN d : IsPrefix(q, path) => d[q] = "obj"
  <2>1. MakeDir(d, path) = e
    BY Zenon, <1>1, <1>2, <1>5
  <2>2. Tree(e)
    BY <1>1, <1>3, Zenon DEF Tree
  <2>3. \A q \in Paths : IF IsPrefix(q, path) THEN q \in DOMAIN e /\ e[q] = "obj"
                         ELSE Equal(e, d, q)
    BY Zenon, <1>1, <1>3, <1>5 DEF Equal
  <2> QED BY <1>5, <2>1, <2>2, <2>3, Zenon
<1> QED BY Zenon, <1>4, <1>5

-----------------------------------------------------------------------------
(* What a write leaves alone.                                              *)

\* Documents whose nodes are of the kinds V: a set, for the folds.
Docs(V) == {d \in UNION {[D -> V] : D \in SUBSET Paths} : Tree(d)}

\* Membership in it.
LEMMA InDocs ==
  ASSUME NEW V, NEW d
  PROVE  d \in Docs(V) <=> Tree(d) /\ \A q \in DOMAIN d : d[q] \in V
<1>1. ASSUME Tree(d), \A q \in DOMAIN d : d[q] \in V PROVE d \in Docs(V)
  <2>1. d \in [DOMAIN d -> V] /\ DOMAIN d \in SUBSET Paths
    BY Zenon, <1>1 DEF Tree
  <2> QED BY <1>1, <2>1, Zenon DEF Docs
<1>2. ASSUME d \in Docs(V) PROVE Tree(d) /\ \A q \in DOMAIN d : d[q] \in V
  <2>1. PICK D \in SUBSET Paths : d \in [D -> V] /\ Tree(d)
    BY <1>2, Zenon DEF Docs
  <2> QED BY Zenon, <2>1
<1> QED BY Zenon, <1>1, <1>2

Leads(q, R) == \E r \in R : IsPrefix(q, r)

\* From d to e nothing changes outside R, except that nodes leading to R may be new.
Local(d, e, R) ==
    \A q \in Paths : ~RootPathsContain(R, q) =>
        Equal(d, e, q) \/ (q \notin DOMAIN d /\ Leads(q, R))

\* No change is local to anything.
LEMMA LocalRefl == \A d, R : Local(d, d, R)
  BY Zenon DEF Local, Equal

\* Two changes local to R make one.
LEMMA LocalTrans ==
  ASSUME NEW d, NEW e, NEW f, NEW R, Local(d, e, R), Local(e, f, R)
  PROVE  Local(d, f, R)
<1> SUFFICES ASSUME NEW q \in Paths, ~RootPathsContain(R, q)
             PROVE  Equal(d, f, q) \/ (q \notin DOMAIN d /\ Leads(q, R))
  BY Zenon DEF Local
<1>1. /\ Equal(d, e, q) \/ (q \notin DOMAIN d /\ Leads(q, R))
      /\ Equal(e, f, q) \/ (q \notin DOMAIN e /\ Leads(q, R))
  BY Zenon DEF Local
<1> QED BY <1>1, Zenon DEF Equal

\* What is local to a path is local to the roots above it.
LEMMA LocalRoots ==
  ASSUME NEW d, NEW e, NEW path \in Paths, NEW R \in SUBSET Paths,
         RootPathsContain(R, path), Local(d, e, {path})
  PROVE  Local(d, e, R)
<1> SUFFICES ASSUME NEW q \in Paths, ~RootPathsContain(R, q)
             PROVE  Equal(d, e, q) \/ (q \notin DOMAIN d /\ Leads(q, R))
  BY Zenon DEF Local
<1>1. PICK r \in R : IsPrefix(r, path)
  BY Zenon DEF RootPathsContain
<1>2. ~IsPrefix(r, q) /\ r \in Paths
  BY Zenon DEF RootPathsContain
<1>3. ~IsPrefix(path, q)
  BY <1>1, <1>2, PathTrans, Zenon
<1>4. Equal(d, e, q) \/ (q \notin DOMAIN d /\ IsPrefix(q, path))
  <2>1. ~RootPathsContain({path}, q)
    BY Zenon, <1>3 DEF RootPathsContain
  <2>2. Equal(d, e, q) \/ (q \notin DOMAIN d /\ Leads(q, {path}))
    BY <2>1, Zenon DEF Local
  <2> QED BY Zenon, <2>2 DEF Leads
<1>5. IsPrefix(q, path) => IsPrefix(q, r)
  BY <1>1, <1>2, PathTotal, Zenon
<1> QED BY Zenon, <1>4, <1>5 DEF Leads

\* Below a root that is neither above nor below R, what is local to R changes nothing.
LEMMA LocalSame ==
  ASSUME NEW d, NEW e, NEW R \in SUBSET Paths, Local(d, e, R), NEW r \in Paths,
         \A t \in R : ~IsPrefix(r, t) /\ ~IsPrefix(t, r),
         NEW q \in Paths, IsPrefix(r, q)
  PROVE  Equal(d, e, q)
<1>1. ~RootPathsContain(R, q)
  BY PathTotal, Zenon DEF RootPathsContain
<1>2. ~Leads(q, R)
  BY PathTrans, Zenon DEF Leads
<1> QED BY <1>1, <1>2, Zenon DEF Local

\* A patch is local to its path.
LEMMA PatchLocal ==
  ASSUME NEW V, NEW d \in Docs(V), NEW v \in Docs(V), NEW op, NEW path \in Paths,
         Patch(d, op, path, v) # NoDocument
  PROVE  Patch(d, op, path, v) \in Docs(V) /\ Local(d, Patch(d, op, path, v), {path})
<1> DEFINE e == Patch(d, op, path, v)
<1>1. Tree(d) /\ Tree(v) /\ (\A q \in DOMAIN d : d[q] \in V) /\ (\A q \in DOMAIN v : v[q] \in V)
  BY Zenon, InDocs
<1>2. Tree(e) /\ Applied(d, e, op, path, v)
  BY Zenon, <1>1, PatchParts
<1> HIDE DEF e
<1>3. \A q \in DOMAIN e : q \in Paths
  BY Zenon, <1>2 DEF Tree
<1>4. \A q \in DOMAIN e : e[q] \in V
  BY <1>1, <1>2, <1>3, Zenon DEF Applied, Equal
<1>5. Local(d, e, {path})
  <2> SUFFICES ASSUME NEW q \in Paths, ~RootPathsContain({path}, q) PROVE Equal(d, e, q)
    BY Zenon DEF Local
  <2>1. ~IsPrefix(path, q)
    BY Zenon DEF RootPathsContain
  <2> QED BY <1>2, <2>1, Zenon DEF Applied, Equal
<1>6. e \in Docs(V)
  BY Zenon, <1>2, <1>4, InDocs
<1> QED BY Zenon, <1>5, <1>6 DEF e

\* Making the directory of a path is local to it.
LEMMA MakeDirLocal ==
  ASSUME NEW V, "obj" \in V, NEW d \in Docs(V), NEW path \in Paths,
         MakeDir(d, Front(path)) # NoDocument
  PROVE  MakeDir(d, Front(path)) \in Docs(V) /\ Local(d, MakeDir(d, Front(path)), {path})
<1> DEFINE dir == Front(path)
           e == MakeDir(d, dir)
<1>1. Tree(d) /\ (\A q \in DOMAIN d : d[q] \in V)
  BY Zenon, InDocs
<1>2. dir \in Paths /\ IsPrefix(dir, path)
  BY Zenon, PathFront
<1> HIDE DEF dir
<1>3. /\ \A q \in DOMAIN d : IsPrefix(q, dir) => d[q] = "obj"
      /\ Tree(e)
      /\ \A q \in Paths : IF IsPrefix(q, dir) THEN q \in DOMAIN e /\ e[q] = "obj"
                          ELSE Equal(e, d, q)
  BY <1>1, <1>2, MakeDirParts, Zenon DEF dir
<1> HIDE DEF e
<1>4. \A q \in DOMAIN e : q \in Paths
  BY Zenon, <1>3 DEF Tree
<1>5. \A q \in DOMAIN e : e[q] \in V
  BY <1>1, <1>3, <1>4, Zenon DEF Equal
<1>6. Local(d, e, {path})
  <2> SUFFICES ASSUME NEW q \in Paths PROVE Equal(d, e, q) \/ (q \notin DOMAIN d /\ IsPrefix(q, path))
    BY Zenon DEF Local, Leads
  <2>1. IsPrefix(q, dir) => IsPrefix(q, path)
    BY <1>2, PathTrans, Zenon
  <2> QED BY <1>3, <2>1, Zenon DEF Equal
<1>7. e \in Docs(V)
  BY Zenon, <1>3, <1>5, InDocs
<1> QED BY Zenon, <1>6, <1>7 DEF e, dir

\* Patches with values of the kinds V.
IsPatch(p, V) == p.path \in Paths /\ p.value \in Docs(V)

\* A patch of a delta is local to its path.
LEMMA ApplyLocal ==
  ASSUME NEW V, "obj" \in V, NEW d \in Docs(V), NEW p, IsPatch(p, V),
         ApplyPatch(d, p) # NoDocument
  PROVE  ApplyPatch(d, p) \in Docs(V) /\ Local(d, ApplyPatch(d, p), {p.path})
<1> DEFINE dir == Front(p.path)
           base == IF p.op = "upsert" /\ dir \notin DOMAIN d THEN MakeDir(d, dir) ELSE d
           op == IF p.op = "upsert" THEN "add" ELSE p.op
           e == Patch(base, op, p.path, p.value)
<1>1. base # NoDocument /\ ApplyPatch(d, p) = e
  BY Zenon DEF ApplyPatch
<1>2. p.path \in Paths /\ p.value \in Docs(V)
  BY Zenon DEF IsPatch
<1>3. base \in Docs(V) /\ Local(d, base, {p.path})
  BY <1>1, <1>2, MakeDirLocal, LocalRefl, Zenon
<1> HIDE DEF base, op
<1>4. e \in Docs(V) /\ Local(base, e, {p.path})
  BY <1>1, <1>2, <1>3, PatchLocal, Zenon
<1> QED BY <1>1, <1>3, <1>4, LocalTrans, Zenon

-----------------------------------------------------------------------------
(* The loops.                                                              *)

\* The documents a sequence of patches goes through, one patch at a time.
PatchRun(it, d, ps) ==
    it = [s \in SUBSET DOMAIN ps |->
            IF s = {} THEN d ELSE ApplyPatch(it[s \ {Max(s)}], ps[Max(s)])]

\* FoldLeft ends where that run ends.
LEMMA PatchesRun ==
  ASSUME NEW V, "obj" \in V, NEW d \in Docs(V) \cup {NoDocument}, NEW ps, ps \in Seq(Range(ps)),
         \A i \in DOMAIN ps : IsPatch(ps[i], V)
  PROVE  \E it : PatchRun(it, d, ps) /\ FoldLeft(ApplyPatch, d, ps) = it[DOMAIN ps]
<1> DEFINE S == DOMAIN ps
           K == Docs(V) \cup {NoDocument}
           C == [s \in SUBSET S |-> Max(s)]
           W == [s \in SUBSET S |-> K]
           g == [x \in (SUBSET S) \X K |-> ApplyPatch(x[2], ps[Max(x[1])])]
           it == CHOOSE h : PatchRun(h, d, ps)
<1>1. FoldLeft(ApplyPatch, d, ps) = it[S]
  BY Zenon DEF FoldLeft, MapThenFoldSet, PatchRun
<1>2. /\ IsFiniteSet(S)
      /\ \A s \in SUBSET S : s # {} => Max(s) \in s
  BY Zenon, LastMember
<1>3. \A x \in K : \A i \in S : ApplyPatch(x, ps[i]) \in K
  <2> SUFFICES ASSUME NEW x \in K, NEW i \in S, ApplyPatch(x, ps[i]) # NoDocument
               PROVE  ApplyPatch(x, ps[i]) \in Docs(V)
    BY Zenon
  <2>1. x # NoDocument
    BY Zenon DEF ApplyPatch
  <2> QED BY <2>1, ApplyLocal, Zenon
<1> HIDE DEF S, K, it
<1>4. \A s \in SUBSET S : \A x \in K : g[<<s, x>>] = ApplyPatch(x, ps[Max(s)])
  BY Zenon
<1>5. \A s \in SUBSET S : C[s] = Max(s) /\ W[s] = K /\ s \ {C[s]} \in SUBSET S
  BY Zenon
<1> HIDE DEF C, W, g
<1>6. d \in W[{}]
  BY Zenon, <1>5 DEF K
<1>7. ASSUME NEW s \in SUBSET S, s # {}
      PROVE  C[s] \in s /\ \A x \in W[s \ {C[s]}] : x \in K /\ g[<<s, x>>] \in W[s]
  <2>1. Max(s) \in s /\ Max(s) \in S
    BY Zenon, <1>2, <1>7
  <2>2. C[s] = Max(s) /\ W[s] = K /\ W[s \ {C[s]}] = K
    BY <1>5, Zenon
  <2>3. ASSUME NEW x \in K PROVE g[<<s, x>>] \in K
    <3>1. g[<<s, x>>] = ApplyPatch(x, ps[Max(s)])
      BY <1>4, Zenon
    <3> QED BY <1>3, <2>1, <3>1, Zenon
  <2> QED BY <2>1, <2>2, <2>3, Zenon
<1>8. Keeps(S, d, C, g, W)
  BY <1>2, <1>6, <1>7, Zenon DEF Keeps
<1>9. PICK h : IsFold(h, S, d, C, g) /\ \A s \in SUBSET S : h[s] \in W[s]
  BY <1>8, FoldExists, Zenon
<1>10. \A s \in SUBSET S : s # {} =>
          /\ C[s] = Max(s)
          /\ g[<<s, h[s \ {Max(s)}]>>] = ApplyPatch(h[s \ {Max(s)}], ps[Max(s)])
  BY <1>4, <1>5, <1>9, Zenon
<1>11. PatchRun(h, d, ps)
  BY <1>9, <1>10, Zenon DEF PatchRun, IsFold, S
<1>12. PatchRun(it, d, ps)
  BY <1>11, Zenon DEF it
<1> QED BY <1>1, <1>12, Zenon DEF S

\* Patches that lie under R are local to R.
LEMMA PatchesLocal ==
  ASSUME NEW V, "obj" \in V, NEW d \in Docs(V), NEW ps, ps \in Seq(Range(ps)),
         NEW R \in SUBSET Paths,
         \A i \in DOMAIN ps : IsPatch(ps[i], V) /\ RootPathsContain(R, ps[i].path),
         FoldLeft(ApplyPatch, d, ps) # NoDocument
  PROVE  /\ FoldLeft(ApplyPatch, d, ps) \in Docs(V)
         /\ Local(d, FoldLeft(ApplyPatch, d, ps), R)
<1> DEFINE S == DOMAIN ps
           C == [s \in SUBSET S |-> Max(s)]
           OK(x) == x # NoDocument => x \in Docs(V) /\ Local(d, x, R)
<1>1. PICK it : PatchRun(it, d, ps) /\ FoldLeft(ApplyPatch, d, ps) = it[S]
  <2>1. d \in Docs(V) \cup {NoDocument}
    BY Zenon
  <2> QED BY <2>1, PatchesRun, Zenon
<1>2. /\ IsFiniteSet(S)
      /\ \A s \in SUBSET S : s # {} => Max(s) \in s
  BY Zenon, LastMember
<1>3. ASSUME NEW x, OK(x), NEW i \in S PROVE OK(ApplyPatch(x, ps[i]))
  <2> SUFFICES ASSUME ApplyPatch(x, ps[i]) # NoDocument
               PROVE  ApplyPatch(x, ps[i]) \in Docs(V) /\ Local(d, ApplyPatch(x, ps[i]), R)
    BY Zenon
  <2>1. x # NoDocument
    BY Zenon DEF ApplyPatch
  <2>2. x \in Docs(V) /\ Local(d, x, R) /\ IsPatch(ps[i], V) /\ RootPathsContain(R, ps[i].path)
    BY <1>3, <2>1, Zenon
  <2>3. ApplyPatch(x, ps[i]) \in Docs(V) /\ Local(x, ApplyPatch(x, ps[i]), {ps[i].path})
    BY <2>2, ApplyLocal, Zenon
  <2>4. Local(x, ApplyPatch(x, ps[i]), R)
    BY <2>2, <2>3, LocalRoots, Zenon DEF IsPatch
  <2> QED BY <2>2, <2>3, <2>4, LocalTrans, Zenon
<1>4. OK(d)
  BY LocalRefl, Zenon
<1>5. /\ it[{}] = d
      /\ \A s \in SUBSET S : s # {} => it[s] = ApplyPatch(it[s \ {Max(s)}], ps[Max(s)])
  BY <1>1, Zenon DEF PatchRun
<1> HIDE DEF S, OK
<1> DEFINE T == {s \in SUBSET S : OK(it[s])}
<1>6. {} \in T
  BY Zenon, <1>4, <1>5
<1>7. \A s \in SUBSET S : s # {} => C[s] \in s /\ (s \ {C[s]} \in T => s \in T)
  <2> SUFFICES ASSUME NEW s \in SUBSET S, s # {}
               PROVE  C[s] \in s /\ (s \ {C[s]} \in T => s \in T)
    BY Zenon
  <2>1. Max(s) \in s /\ Max(s) \in S
    BY Zenon, <1>2
  <2>2. C[s] = Max(s)
    BY Zenon
  <2>3. OK(it[s \ {Max(s)}]) => OK(it[s])
    BY <1>3, <1>5, <2>1, Zenon
  <2> QED BY <2>1, <2>2, <2>3, Zenon
<1>8. S \in T
  <2>1. IsFiniteSet(S)
    BY Zenon, <1>2
  <2> HIDE DEF T, C
  <2> QED BY Zenon, <2>1, <1>6, <1>7, SubsetInduction
<1> QED BY <1>1, <1>8, Zenon DEF OK

\* Paths above or below R.
Touches(q, R) == \E r \in R : IsPrefix(r, q) \/ IsPrefix(q, r)

\* d and f are the same there, or both are the result of a failed patch.
Agree(d, f, R) == \A q \in Paths : Touches(q, R) => Equal(d, f, q)
AgreeOrFail(d, f, R) == \/ d = NoDocument /\ f = NoDocument
                        \/ Tree(d) /\ Tree(f) /\ Agree(d, f, R)

\* All paths above or below a path under R are above or below R.
LEMMA TouchesUnder ==
  ASSUME NEW R \in SUBSET Paths, NEW path \in Paths, RootPathsContain(R, path), NEW q \in Paths,
         IsPrefix(q, path) \/ IsPrefix(path, q)
  PROVE  Touches(q, R)
<1>1. PICK r \in R : IsPrefix(r, path) /\ r \in Paths
  BY Zenon DEF RootPathsContain
<1>2. IsPrefix(r, q) \/ IsPrefix(q, r)
  BY <1>1, PathTrans, PathTotal, Zenon
<1> QED BY <1>2, Zenon DEF Touches

\* A patch under R depends on nothing else.
LEMMA PatchAgrees ==
  ASSUME NEW d, NEW f, NEW R \in SUBSET Paths, Tree(d), Tree(f), Agree(d, f, R),
         NEW op, NEW path \in Paths, RootPathsContain(R, path), NEW v, Tree(v)
  PROVE  AgreeOrFail(Patch(d, op, path, v), Patch(f, op, path, v), R)
<1> DEFINE e == Patch(d, op, path, v)
           g == Patch(f, op, path, v)
<1>1. \A q \in Paths : IsPrefix(q, path) \/ IsPrefix(path, q) => Equal(d, f, q)
  BY TouchesUnder, Zenon DEF Agree
<1>2. Equal(d, f, path) /\ Equal(d, f, Front(path))
  BY <1>1, PathRefl, PathFront, Zenon
<1>3. Applicable(d, op, path, v) <=> Applicable(f, op, path, v)
  BY <1>2, Zenon DEF Applicable, Equal
<1>4. CASE Applicable(d, op, path, v)
  <2>1. Tree(e) /\ Tree(g) /\ Applied(d, e, op, path, v) /\ Applied(f, g, op, path, v)
    BY <1>3, <1>4, PatchParts, Zenon
  <2> HIDE DEF e, g
  <2>2. ASSUME NEW q \in Paths, Touches(q, R) PROVE Equal(e, g, q)
    <3>1. CASE IsPrefix(path, q)
      BY <2>1, <3>1, Zenon DEF Applied, Equal
    <3>2. CASE ~IsPrefix(path, q)
      <4>1. Equal(e, d, q) /\ Equal(g, f, q) /\ Equal(d, f, q)
        BY <2>1, <2>2, <3>2, Zenon DEF Applied, Agree
      <4> QED BY <4>1, Zenon DEF Equal
    <3> QED BY Zenon, <3>1, <3>2
  <2>3. AgreeOrFail(e, g, R)
    BY <2>1, <2>2, Zenon DEF AgreeOrFail, Agree
  <2> QED BY Zenon, <2>3 DEF e, g
<1>5. CASE ~Applicable(d, op, path, v)
  <2>1. e = NoDocument /\ g = NoDocument
    BY <1>3, <1>5, PatchParts, Zenon
  <2> QED BY <2>1, Zenon DEF AgreeOrFail
<1> QED BY Zenon, <1>4, <1>5

\* So does making the directory of a path under R.
LEMMA MakeDirAgrees ==
  ASSUME NEW d, NEW f, NEW R \in SUBSET Paths, Tree(d), Tree(f), Agree(d, f, R),
         NEW path \in Paths, RootPathsContain(R, path)
  PROVE  AgreeOrFail(MakeDir(d, Front(path)), MakeDir(f, Front(path)), R)
<1> DEFINE dir == Front(path)
           e == MakeDir(d, dir)
           g == MakeDir(f, dir)
           Blocked(x) == \E q \in DOMAIN x : IsPrefix(q, dir) /\ x[q] # "obj"
<1>1. dir \in Paths /\ IsPrefix(dir, path)
  BY Zenon, PathFront
<1> HIDE DEF dir
<1>2. \A q \in Paths : IsPrefix(q, dir) => Equal(d, f, q)
  <2> SUFFICES ASSUME NEW q \in Paths, IsPrefix(q, dir) PROVE Equal(d, f, q)
    BY Zenon
  <2>1. IsPrefix(q, path)
    BY <1>1, PathTrans, Zenon
  <2> QED BY <2>1, TouchesUnder, Zenon DEF Agree
<1>3. DOMAIN d \subseteq Paths /\ DOMAIN f \subseteq Paths
  BY Zenon DEF Tree
<1>4. Blocked(d) <=> Blocked(f)
  BY <1>2, <1>3, Zenon DEF Equal
<1>5. CASE Blocked(d)
  <2>1. e = NoDocument /\ g = NoDocument
    BY <1>1, <1>4, <1>5, MakeDirParts, Zenon
  <2> QED BY <2>1, Zenon DEF AgreeOrFail, dir
<1>6. CASE ~Blocked(d)
  <2>1. /\ Tree(e)
        /\ \A q \in Paths : IF IsPrefix(q, dir) THEN q \in DOMAIN e /\ e[q] = "obj"
                            ELSE Equal(e, d, q)
    BY <1>1, <1>6, MakeDirParts, Zenon
  <2>2. /\ Tree(g)
        /\ \A q \in Paths : IF IsPrefix(q, dir) THEN q \in DOMAIN g /\ g[q] = "obj"
                            ELSE Equal(g, f, q)
    BY <1>1, <1>4, <1>6, MakeDirParts, Zenon
  <2> HIDE DEF e, g
  <2>3. ASSUME NEW q \in Paths, Touches(q, R) PROVE Equal(e, g, q)
    <3>1. Equal(d, f, q)
      BY <2>3, Zenon DEF Agree
    <3> QED BY <2>1, <2>2, <3>1, Zenon DEF Equal
  <2>4. AgreeOrFail(e, g, R)
    BY <2>1, <2>2, <2>3, Zenon DEF AgreeOrFail, Agree
  <2> QED BY Zenon, <2>4 DEF e, g, dir
<1> QED BY Zenon, <1>5, <1>6

\* A patch of a delta under R depends on nothing outside R and what leads there.
LEMMA ApplyAgrees ==
  ASSUME NEW d, NEW f, NEW R \in SUBSET Paths, AgreeOrFail(d, f, R),
         NEW p, p.path \in Paths, RootPathsContain(R, p.path), Tree(p.value)
  PROVE  AgreeOrFail(ApplyPatch(d, p), ApplyPatch(f, p), R)
<1> DEFINE path == p.path
           dir == Front(path)
           Base(x) == IF p.op = "upsert" /\ dir \notin DOMAIN x THEN MakeDir(x, dir) ELSE x
           op == IF p.op = "upsert" THEN "add" ELSE p.op
<1>1. CASE d = NoDocument /\ f = NoDocument
  <2>1. ApplyPatch(d, p) = NoDocument /\ ApplyPatch(f, p) = NoDocument
    BY <1>1, Zenon DEF ApplyPatch
  <2> QED BY <2>1, Zenon DEF AgreeOrFail
<1>2. CASE Tree(d) /\ Tree(f) /\ Agree(d, f, R)
  <2>1. d # NoDocument /\ f # NoDocument
    BY Zenon, <1>2, TreeIsDocument
  <2>2. /\ ApplyPatch(d, p) = IF Base(d) = NoDocument THEN NoDocument
                              ELSE Patch(Base(d), op, path, p.value)
        /\ ApplyPatch(f, p) = IF Base(f) = NoDocument THEN NoDocument
                              ELSE Patch(Base(f), op, path, p.value)
    BY <2>1, Zenon DEF ApplyPatch
  <2>3. dir \in Paths /\ IsPrefix(dir, path)
    BY Zenon, PathFront
  <2>4. dir \in DOMAIN d <=> dir \in DOMAIN f
    <3>1. Touches(dir, R)
      BY <2>3, TouchesUnder, Zenon
    <3> QED BY <1>2, <2>3, <3>1, Zenon DEF Agree, Equal
  <2>5. AgreeOrFail(MakeDir(d, dir), MakeDir(f, dir), R)
    BY <1>2, MakeDirAgrees, Zenon
  <2>6. AgreeOrFail(Base(d), Base(f), R)
    BY <1>2, <2>4, <2>5, Zenon DEF AgreeOrFail
  <2>7. PICK bd : bd = Base(d)
    BY Zenon
  <2>8. PICK bf : bf = Base(f)
    BY Zenon
  <2> HIDE DEF Base, op
  <2>9. CASE bd = NoDocument
    <3>1. bf = NoDocument
      BY <2>6, <2>7, <2>8, <2>9, TreeIsDocument, Zenon DEF AgreeOrFail
    <3> QED BY <2>2, <2>7, <2>8, <2>9, <3>1, Zenon DEF AgreeOrFail
  <2>10. CASE bd # NoDocument
    <3>1. Tree(bd) /\ Tree(bf) /\ Agree(bd, bf, R) /\ bf # NoDocument
      BY <2>6, <2>7, <2>8, <2>10, TreeIsDocument, Zenon DEF AgreeOrFail
    <3>2. AgreeOrFail(Patch(bd, op, path, p.value), Patch(bf, op, path, p.value), R)
      BY <3>1, PatchAgrees, Zenon
    <3> QED BY <2>2, <2>7, <2>8, <2>10, <3>1, <3>2, Zenon
  <2> QED BY Zenon, <2>9, <2>10
<1> QED BY <1>1, <1>2, Zenon DEF AgreeOrFail

\* Nor do the patches of a delta together.
LEMMA PatchesAgree ==
  ASSUME NEW V, "obj" \in V, NEW d \in Docs(V), NEW f \in Docs(V), NEW R \in SUBSET Paths,
         Agree(d, f, R), NEW ps, ps \in Seq(Range(ps)),
         \A i \in DOMAIN ps : IsPatch(ps[i], V) /\ RootPathsContain(R, ps[i].path)
  PROVE  AgreeOrFail(FoldLeft(ApplyPatch, d, ps), FoldLeft(ApplyPatch, f, ps), R)
<1> DEFINE S == DOMAIN ps
           C == [s \in SUBSET S |-> Max(s)]
<1>0. d \in Docs(V) \cup {NoDocument} /\ f \in Docs(V) \cup {NoDocument}
  BY Zenon
<1>1. PICK it : PatchRun(it, d, ps) /\ FoldLeft(ApplyPatch, d, ps) = it[S]
  BY <1>0, PatchesRun, Zenon
<1>2. PICK jt : PatchRun(jt, f, ps) /\ FoldLeft(ApplyPatch, f, ps) = jt[S]
  BY <1>0, PatchesRun, Zenon
<1>3. /\ IsFiniteSet(S)
      /\ \A s \in SUBSET S : s # {} => Max(s) \in s
  BY Zenon, LastMember
<1>4. /\ it[{}] = d /\ jt[{}] = f
      /\ \A s \in SUBSET S : s # {} => /\ it[s] = ApplyPatch(it[s \ {Max(s)}], ps[Max(s)])
                                       /\ jt[s] = ApplyPatch(jt[s \ {Max(s)}], ps[Max(s)])
  BY <1>1, <1>2, Zenon DEF PatchRun
<1> DEFINE T == {s \in SUBSET S : AgreeOrFail(it[s], jt[s], R)}
<1>5. {} \in T
  <2>1. Tree(d) /\ Tree(f)
    BY Zenon, InDocs
  <2>2. AgreeOrFail(d, f, R)
    BY <2>1, Zenon DEF AgreeOrFail
  <2> QED BY Zenon, <1>4, <2>2
<1>6. \A s \in SUBSET S : s # {} => C[s] \in s /\ (s \ {C[s]} \in T => s \in T)
  <2> SUFFICES ASSUME NEW s \in SUBSET S, s # {}
               PROVE  C[s] \in s /\ (s \ {C[s]} \in T => s \in T)
    BY Zenon
  <2>1. Max(s) \in s /\ Max(s) \in S
    BY Zenon, <1>3
  <2>2. C[s] = Max(s)
    BY Zenon
  <2>3. ps[Max(s)].path \in Paths /\ RootPathsContain(R, ps[Max(s)].path) /\ Tree(ps[Max(s)].value)
    BY Zenon, <2>1, InDocs DEF IsPatch
  <2>4. AgreeOrFail(it[s \ {Max(s)}], jt[s \ {Max(s)}], R) => AgreeOrFail(it[s], jt[s], R)
    <3> SUFFICES ASSUME AgreeOrFail(it[s \ {Max(s)}], jt[s \ {Max(s)}], R)
                 PROVE  AgreeOrFail(it[s], jt[s], R)
      BY Zenon
    <3>1. /\ it[s] = ApplyPatch(it[s \ {Max(s)}], ps[Max(s)])
          /\ jt[s] = ApplyPatch(jt[s \ {Max(s)}], ps[Max(s)])
      BY <1>4, Zenon
    <3>2. AgreeOrFail(ApplyPatch(it[s \ {Max(s)}], ps[Max(s)]),
                      ApplyPatch(jt[s \ {Max(s)}], ps[Max(s)]), R)
      BY Zenon, <2>3, ApplyAgrees
    <3> QED BY <3>1, <3>2, Zenon
  <2> QED BY <2>1, <2>2, <2>4, Zenon
<1>7. S \in T
  <2>1. IsFiniteSet(S)
    BY Zenon, <1>3
  <2> HIDE DEF T, C, S
  <2> QED BY Zenon, <2>1, <1>5, <1>6, SubsetInduction
<1> QED BY <1>1, <1>2, <1>7, Zenon

-----------------------------------------------------------------------------
(* writeData.                                                              *)

\* The document at a path, node by node.
LEMMA SubParts ==
  ASSUME NEW V, NEW d \in Docs(V), NEW p \in DOMAIN d
  PROVE  /\ p \in Paths /\ Sub(d, p) \in Docs(V)
         /\ \A q \in Paths : IsPrefix(p, q) =>
               /\ Suffix(q, p) \in DOMAIN Sub(d, p) <=> q \in DOMAIN d
               /\ q \in DOMAIN d => Sub(d, p)[Suffix(q, p)] = d[q]
<1> DEFINE e == Sub(d, p)
           below == {q \in DOMAIN d : IsPrefix(p, q)}
<1>1. Tree(d) /\ (\A q \in DOMAIN d : q \in Paths /\ d[q] \in V /\ d[q] # "arr") /\ p \in Paths
  BY InDocs DEF Tree
<1>2. /\ \A q \in Paths : IsPrefix(p, q) => Suffix(q, p) \in Paths /\ p \o Suffix(q, p) = q
      /\ \A s \in Paths : p \o s \in Paths /\ IsPrefix(p, p \o s) /\ Suffix(p \o s, p) = s
  BY Zenon, <1>1, Behind DEF Paths, Suffix
<1>3. /\ e = [s \in DOMAIN e |-> e[s]]
      /\ DOMAIN e = {Suffix(q, p) : q \in below}
      /\ \A s \in DOMAIN e : e[s] = d[p \o s]
  BY Zenon DEF Sub
<1> HIDE DEF e
<1>4. \A s \in DOMAIN e : s \in Paths /\ p \o s \in DOMAIN d /\ e[s] = d[p \o s]
  <2> SUFFICES ASSUME NEW s \in DOMAIN e PROVE s \in Paths /\ p \o s \in DOMAIN d
    BY <1>3, Zenon
  <2>1. PICK q \in below : s = Suffix(q, p)
    BY <1>3, Zenon
  <2> QED BY Zenon, <1>1, <1>2, <2>1
<1>5. \A q \in Paths : IsPrefix(p, q) => /\ Suffix(q, p) \in DOMAIN e <=> q \in DOMAIN d
                                         /\ q \in DOMAIN d => e[Suffix(q, p)] = d[q]
  <2> SUFFICES ASSUME NEW q \in Paths, IsPrefix(p, q)
               PROVE  /\ Suffix(q, p) \in DOMAIN e <=> q \in DOMAIN d
                      /\ q \in DOMAIN d => e[Suffix(q, p)] = d[q]
    BY Zenon
  <2>1. p \o Suffix(q, p) = q
    BY <1>2, Zenon
  <2>2. q \in DOMAIN d => Suffix(q, p) \in DOMAIN e
    BY <1>3, Zenon
  <2>3. Suffix(q, p) \in DOMAIN e => q \in DOMAIN d /\ e[Suffix(q, p)] = d[q]
    BY <1>4, <2>1, Zenon
  <2> QED BY <2>2, <2>3, Zenon
<1>6. <<>> \in DOMAIN e
  <2>1. IsPrefix(p, p)
    BY Zenon, <1>1, PathRefl
  <2>2. Suffix(p, p) = <<>>
    <3>1. <<>> \in Paths /\ p \o <<>> = p
      BY <1>1 DEF Paths
    <3> QED BY Zenon, <1>2, <3>1
  <2> QED BY Zenon, <1>1, <1>5, <2>1, <2>2
<1>7. Tree(e)
  <2>1. DOMAIN e \subseteq Paths /\ \A q \in DOMAIN e : e[q] # "arr"
    BY <1>1, <1>4, Zenon
  <2> QED BY <1>3, <1>6, <2>1, Zenon DEF Tree
<1>8. e \in Docs(V)
  <2>1. \A q \in DOMAIN e : e[q] \in V
    BY <1>1, <1>4, Zenon
  <2> QED BY Zenon, <1>7, <2>1, InDocs
<1> QED BY Zenon, <1>1, <1>5, <1>8 DEF e

\* The data of a bundle, with kinds V.
BundleData(b, V) == /\ b.data \in Docs(V)
                    /\ \A p \in Paths, q \in DOMAIN b.data : IsPrefix(p, q) => p \in DOMAIN b.data
                    /\ b.roots \in SUBSET Paths /\ IsFiniteSet(b.roots)

\* Writing a root is local to it and puts the bundle's data there, when it has any.
LEMMA WriteRootLocal ==
  ASSUME NEW V, "obj" \in V, NEW d \in Docs(V), NEW b, BundleData(b, V), NEW r \in b.roots,
         WriteRoot(d, b, r) # NoDocument
  PROVE  /\ WriteRoot(d, b, r) \in Docs(V) /\ Local(d, WriteRoot(d, b, r), {r})
         /\ r \notin DOMAIN b.data => WriteRoot(d, b, r) = d
         /\ r \in DOMAIN b.data => \A q \in Paths : IsPrefix(r, q) =>
                                      Equal(WriteRoot(d, b, r), b.data, q)
<1>0. b.data \in Docs(V) /\ r \in Paths /\ Tree(d) /\ d # NoDocument
  BY Zenon, InDocs, TreeIsDocument DEF BundleData
<1>1. CASE r \notin DOMAIN b.data
  <2>1. WriteRoot(d, b, r) = d
    BY <1>1, Zenon DEF WriteRoot
  <2> QED BY <1>1, <2>1, LocalRefl, Zenon
<1>2. CASE r \in DOMAIN b.data /\ r = <<>>
  <2>1. WriteRoot(d, b, r) = b.data
    BY <1>0, <1>2, Zenon DEF WriteRoot
  <2>2. Local(d, b.data, {r})
    <3>1. \A q \in Paths : RootPathsContain({r}, q)
      BY Zenon, <1>2, PathRefl DEF RootPathsContain
    <3> QED BY <3>1, Zenon DEF Local
  <2>3. \A q : Equal(b.data, b.data, q)
    BY Zenon DEF Equal
  <2> QED BY <1>0, <1>2, <2>1, <2>2, <2>3, Zenon
<1>3. CASE r \in DOMAIN b.data /\ r # <<>>
  <2> DEFINE made == MakeDir(d, Front(r))
             v == Sub(b.data, r)
             e == Patch(made, "add", r, v)
  <2>1. made # NoDocument /\ WriteRoot(d, b, r) = e
    BY <1>0, <1>3, Zenon DEF WriteRoot
  <2>2. made \in Docs(V) /\ Local(d, made, {r})
    BY <1>0, <2>1, MakeDirLocal, ZenonT(60)
  <2>3. /\ v \in Docs(V)
        /\ \A q \in Paths : IsPrefix(r, q) => /\ Suffix(q, r) \in DOMAIN v <=> q \in DOMAIN b.data
                                              /\ q \in DOMAIN b.data => v[Suffix(q, r)] = b.data[q]
    BY Zenon, <1>0, <1>3, SubParts
  <2> HIDE DEF made, v
  <2>4. e \in Docs(V) /\ Local(made, e, {r})
    BY <1>0, <2>1, <2>2, <2>3, PatchLocal, Zenon
  <2>5. Applied(made, e, "add", r, v)
    <3>1. Tree(made) /\ Tree(v)
      BY Zenon, <2>2, <2>3, InDocs
    <3> QED BY <1>0, <2>1, <3>1, PatchParts, Zenon
  <2> HIDE DEF e
  <2>6. \A q \in Paths : IsPrefix(r, q) => Equal(e, b.data, q)
    <3> SUFFICES ASSUME NEW q \in Paths, IsPrefix(r, q) PROVE Equal(e, b.data, q)
      BY Zenon
    <3>1. /\ q \in DOMAIN e <=> Suffix(q, r) \in DOMAIN v
          /\ q \in DOMAIN e => e[q] = v[Suffix(q, r)]
      BY Zenon, <2>5 DEF Applied
    <3> QED BY <2>3, <3>1, Zenon DEF Equal
  <2>7. Local(d, e, {r})
    BY <2>2, <2>4, LocalTrans, Zenon
  <2> QED BY <1>3, <2>1, <2>4, <2>6, <2>7, Zenon
<1> QED BY Zenon, <1>1, <1>2, <1>3

RootRun(it, d, b) ==
    it = [s \in SUBSET b.roots |->
            IF s = {} THEN d ELSE WriteRoot(it[s \ {Pick(s)}], b, Pick(s))]

\* writeData for one bundle takes its roots one at a time.
LEMMA RootsRun ==
  ASSUME NEW V, "obj" \in V, NEW d \in Docs(V) \cup {NoDocument}, NEW b, BundleData(b, V)
  PROVE  \E it : RootRun(it, d, b) /\ WriteRoots(d, b) = it[b.roots]
<1> DEFINE S == b.roots
           K == Docs(V) \cup {NoDocument}
           C == [s \in SUBSET S |-> Pick(s)]
           W == [s \in SUBSET S |-> K]
           g == [x \in (SUBSET S) \X K |-> WriteRoot(x[2], b, Pick(x[1]))]
           it == CHOOSE h : RootRun(h, d, b)
<1>1. WriteRoots(d, b) = it[S]
  BY Zenon DEF WriteRoots, FoldSet, MapThenFoldSet, RootRun, Pick
<1>2. /\ IsFiniteSet(S)
      /\ \A s \in SUBSET S : s # {} => Pick(s) \in s
  BY Zenon, PickMember DEF BundleData
<1>3. \A x \in K : \A r \in S : WriteRoot(x, b, r) \in K
  <2> SUFFICES ASSUME NEW x \in K, NEW r \in S, WriteRoot(x, b, r) # NoDocument
               PROVE  WriteRoot(x, b, r) \in Docs(V)
    BY Zenon
  <2>1. x # NoDocument
    BY Zenon DEF WriteRoot
  <2> QED BY <2>1, WriteRootLocal, Zenon
<1> HIDE DEF S, K, it
<1>4. \A s \in SUBSET S : \A x \in K : g[<<s, x>>] = WriteRoot(x, b, Pick(s))
  BY Zenon
<1>5. \A s \in SUBSET S : C[s] = Pick(s) /\ W[s] = K /\ s \ {C[s]} \in SUBSET S
  BY Zenon
<1> HIDE DEF C, W, g
<1>6. d \in W[{}]
  BY Zenon, <1>5 DEF K
<1>7. ASSUME NEW s \in SUBSET S, s # {}
      PROVE  C[s] \in s /\ \A x \in W[s \ {C[s]}] : x \in K /\ g[<<s, x>>] \in W[s]
  <2>1. Pick(s) \in s /\ Pick(s) \in S
    BY Zenon, <1>2, <1>7
  <2>2. C[s] = Pick(s) /\ W[s] = K /\ W[s \ {C[s]}] = K
    BY <1>5, Zenon
  <2>3. ASSUME NEW x \in K PROVE g[<<s, x>>] \in K
    <3>1. g[<<s, x>>] = WriteRoot(x, b, Pick(s))
      BY <1>4, Zenon
    <3> QED BY <1>3, <2>1, <3>1, Zenon
  <2> QED BY <2>1, <2>2, <2>3, Zenon
<1>8. Keeps(S, d, C, g, W)
  BY <1>2, <1>6, <1>7, Zenon DEF Keeps
<1>9. PICK h : IsFold(h, S, d, C, g) /\ \A s \in SUBSET S : h[s] \in W[s]
  BY <1>8, FoldExists, Zenon
<1>10. \A s \in SUBSET S : s # {} =>
          /\ C[s] = Pick(s)
          /\ g[<<s, h[s \ {Pick(s)}]>>] = WriteRoot(h[s \ {Pick(s)}], b, Pick(s))
  BY <1>4, <1>5, <1>9, ZenonT(60)
<1>11. RootRun(h, d, b)
  BY <1>9, <1>10, Zenon DEF RootRun, IsFold, S
<1>12. RootRun(it, d, b)
  BY <1>11, Zenon DEF it
<1> QED BY <1>1, <1>12, Zenon DEF S

\* More roots allow more change.
LEMMA LocalMore ==
  ASSUME NEW d, NEW e, NEW R, NEW Q, R \subseteq Q, Local(d, e, R)
  PROVE  Local(d, e, Q)
<1> SUFFICES ASSUME NEW q \in Paths, ~RootPathsContain(Q, q)
             PROVE  Equal(d, e, q) \/ (q \notin DOMAIN d /\ Leads(q, Q))
  BY Zenon DEF Local
<1>1. ~RootPathsContain(R, q) /\ (Leads(q, R) => Leads(q, Q))
  BY Zenon DEF RootPathsContain, Leads
<1> QED BY <1>1, Zenon DEF Local

\* Roots that do not overlap, and a document with nothing below them.
Apart(R, Q) == \A r \in R, q \in Q : ~IsPrefix(r, q) /\ ~IsPrefix(q, r)
Cleared(d, R) == \A r \in R : r # <<>> => \A q \in DOMAIN d : ~IsPrefix(r, q)
Holds(e, b, R) == \A r \in R : \A q \in Paths : IsPrefix(r, q) => Equal(e, b.data, q)

\* Writing one bundle's data where nothing is: it is there, and nothing else changes.
LEMMA WriteRootsLocal ==
  ASSUME NEW V, "obj" \in V, NEW d \in Docs(V), NEW b, BundleData(b, V),
         \A r, q \in b.roots : r # q => ~IsPrefix(r, q),
         Cleared(d, b.roots), WriteRoots(d, b) # NoDocument
  PROVE  /\ WriteRoots(d, b) \in Docs(V)
         /\ Local(d, WriteRoots(d, b), b.roots)
         /\ Holds(WriteRoots(d, b), b, b.roots)
<1> DEFINE S == b.roots
           C == [s \in SUBSET S |-> Pick(s)]
           OK(x, s) == x # NoDocument => x \in Docs(V) /\ Local(d, x, s) /\ Holds(x, b, s)
<1>1. PICK it : RootRun(it, d, b) /\ WriteRoots(d, b) = it[S]
  <2>1. d \in Docs(V) \cup {NoDocument}
    BY Zenon
  <2> QED BY <2>1, RootsRun, Zenon
<1>2. IsFiniteSet(S) /\ S \in SUBSET Paths /\ \A s \in SUBSET S : s # {} => Pick(s) \in s
  BY Zenon, PickMember DEF BundleData
<1>3. ASSUME NEW s \in SUBSET S, NEW c \in s, NEW x, OK(x, s \ {c})
      PROVE  OK(WriteRoot(x, b, c), s)
  <2> SUFFICES ASSUME WriteRoot(x, b, c) # NoDocument
               PROVE  /\ WriteRoot(x, b, c) \in Docs(V) /\ Local(d, WriteRoot(x, b, c), s)
                      /\ Holds(WriteRoot(x, b, c), b, s)
    BY Zenon
  <2> DEFINE y == WriteRoot(x, b, c)
  <2>1. x # NoDocument
    BY Zenon DEF WriteRoot
  <2>2. x \in Docs(V) /\ Local(d, x, s \ {c}) /\ Holds(x, b, s \ {c})
    BY <1>3, <2>1, Zenon
  <2>3. /\ y \in Docs(V) /\ Local(x, y, {c})
        /\ c \notin DOMAIN b.data => y = x
        /\ c \in DOMAIN b.data => \A q \in Paths : IsPrefix(c, q) => Equal(y, b.data, q)
    <3>1. c \in b.roots
      BY Zenon
    <3> QED BY <2>2, <3>1, WriteRootLocal, Zenon
  <2> HIDE DEF y
  <2>4. Local(d, y, s)
    <3>1. s \ {c} \subseteq s /\ {c} \subseteq s
      BY Zenon
    <3>2. Local(d, x, s) /\ Local(x, y, s)
      BY <2>2, <2>3, <3>1, LocalMore, Zenon
    <3> QED BY <3>2, LocalTrans, Zenon
  <2>5. \A r \in s : r \in Paths /\ r \in S
    BY Zenon, <1>2
  <2>6. ASSUME NEW r \in s, NEW q \in Paths, IsPrefix(r, q)
        PROVE  Equal(y, b.data, q)
    <3>1. CASE r # c
      <4>1. \A t \in {c} : ~IsPrefix(r, t) /\ ~IsPrefix(t, r)
        BY Zenon, <2>5, <3>1
      <4>2. {c} \in SUBSET Paths
        BY Zenon, <2>5
      <4>3. Equal(x, y, q)
        BY <2>3, <2>5, <2>6, <4>1, <4>2, LocalSame, Zenon
      <4>4. Equal(x, b.data, q)
        BY Zenon, <2>2, <2>6, <3>1 DEF Holds
      <4> QED BY <4>3, <4>4, Zenon DEF Equal
    <3>2. CASE r = c /\ c \in DOMAIN b.data
      BY <2>3, <2>6, <3>2, Zenon
    <3>3. CASE r = c /\ c \notin DOMAIN b.data
      <4>1. q \notin DOMAIN b.data
        BY <2>5, <2>6, <3>3, Zenon DEF BundleData
      <4>2. c # <<>>
        <5>1. Tree(b.data)
          BY Zenon, InDocs DEF BundleData
        <5> QED BY Zenon, <3>3, <5>1 DEF Tree
      <4>3. q \notin DOMAIN d
        BY <2>5, <2>6, <3>3, <4>2, Zenon DEF Cleared
      <4>4. \A t \in s \ {c} : ~IsPrefix(c, t) /\ ~IsPrefix(t, c)
        BY Zenon, <2>5
      <4>5. s \ {c} \in SUBSET Paths
        BY Zenon, <2>5
      <4>6. Equal(d, x, q)
        BY <2>2, <2>5, <2>6, <3>3, <4>4, <4>5, LocalSame, Zenon
      <4>7. y = x
        BY <2>3, <3>3, Zenon
      <4> QED BY <4>1, <4>3, <4>6, <4>7, Zenon DEF Equal
    <3> QED BY Zenon, <3>1, <3>2, <3>3
  <2>7. Holds(y, b, s)
    BY <2>6, Zenon DEF Holds
  <2> QED BY Zenon, <2>3, <2>4, <2>7 DEF y
<1>4. OK(d, {})
  <2>1. Holds(d, b, {})
    BY Zenon DEF Holds
  <2> QED BY <2>1, LocalRefl, Zenon
<1>5. /\ it[{}] = d
      /\ \A s \in SUBSET S : s # {} => it[s] = WriteRoot(it[s \ {Pick(s)}], b, Pick(s))
  BY <1>1, Zenon DEF RootRun
<1> HIDE DEF S, OK
<1> DEFINE T == {s \in SUBSET S : OK(it[s], s)}
<1>6. {} \in T
  BY Zenon, <1>4, <1>5
<1>7. \A s \in SUBSET S : s # {} => C[s] \in s /\ (s \ {C[s]} \in T => s \in T)
  <2> SUFFICES ASSUME NEW s \in SUBSET S, s # {}
               PROVE  C[s] \in s /\ (s \ {C[s]} \in T => s \in T)
    BY Zenon
  <2>1. Pick(s) \in s
    BY Zenon, <1>2
  <2>2. C[s] = Pick(s)
    BY Zenon
  <2>3. OK(it[s \ {Pick(s)}], s \ {Pick(s)}) => OK(it[s], s)
    BY <1>3, <1>5, <2>1, Zenon
  <2> QED BY <2>1, <2>2, <2>3, Zenon
<1>8. S \in T
  <2> HIDE DEF T, C
  <2> QED BY <1>2, <1>6, <1>7, SubsetInduction, Zenon
<1> QED BY <1>1, <1>8, Zenon DEF OK, S

NameRun(it, d, B, names) ==
    it = [s \in SUBSET names |->
            IF s = {} THEN d ELSE WriteRoots(it[s \ {Pick(s)}], B[Pick(s)])]

\* The roots of the bundles `names` of B.
RootsOf(B, names) == UNION {B[n].roots : n \in names}

\* Bundles that may be written together to d.
Writable(d, B, names, V) ==
    /\ IsFiniteSet(names) /\ d \in Docs(V)
    /\ \A n \in names : BundleData(B[n], V) /\ Cleared(d, B[n].roots)
    /\ \A n \in names : \A r, q \in B[n].roots : r # q => ~IsPrefix(r, q)
    /\ \A n, o \in names : n # o => Apart(B[n].roots, B[o].roots)

\* A bundle's roots are cleared still once others have been written.
LEMMA StillCleared ==
  ASSUME NEW V, NEW d, NEW B, NEW names, Writable(d, B, names, V),
         NEW s \in SUBSET names, NEW n \in names, n \notin s, NEW x \in Docs(V),
         Local(d, x, RootsOf(B, s))
  PROVE  Cleared(x, B[n].roots) /\ Apart(B[n].roots, RootsOf(B, s))
<1>1. /\ RootsOf(B, s) \in SUBSET Paths /\ B[n].roots \in SUBSET Paths
      /\ Cleared(d, B[n].roots) /\ DOMAIN x \subseteq Paths
  <2>1. \A m \in names : B[m].roots \in SUBSET Paths
    BY Zenon DEF Writable, BundleData
  <2>2. RootsOf(B, s) \in SUBSET Paths
    BY Zenon, <2>1 DEF RootsOf
  <2>3. Cleared(d, B[n].roots)
    BY Zenon DEF Writable
  <2>4. DOMAIN x \subseteq Paths
    BY Zenon, InDocs DEF Tree
  <2> QED BY Zenon, <2>1, <2>2, <2>3, <2>4
<1>2. ASSUME NEW r \in B[n].roots, NEW t \in RootsOf(B, s)
      PROVE  ~IsPrefix(r, t) /\ ~IsPrefix(t, r)
  <2>1. PICK m \in s : t \in B[m].roots
    BY Zenon, <1>2 DEF RootsOf
  <2>2. Apart(B[n].roots, B[m].roots)
    BY <2>1, Zenon DEF Writable
  <2> QED BY <1>2, <2>1, <2>2, ZenonT(60) DEF Apart
<1>3. ASSUME NEW r \in B[n].roots, r # <<>>, NEW q \in DOMAIN x, IsPrefix(r, q)
      PROVE  FALSE
  <2>1. Equal(d, x, q)
    BY Zenon, <1>1, <1>2, <1>3, LocalSame
  <2>2. q \in DOMAIN d
    BY <1>3, <2>1, Zenon DEF Equal
  <2> QED BY <1>1, <1>3, <2>2, ZenonT(60) DEF Cleared
<1> QED BY <1>2, <1>3, Zenon DEF Apart, Cleared

\* A failed write stays failed.
LEMMA FailedStays ==
  ASSUME NEW V, "obj" \in V, NEW b, BundleData(b, V)
  PROVE  WriteRoots(NoDocument, b) = NoDocument
<1> DEFINE S == b.roots
           C == [s \in SUBSET S |-> Pick(s)]
<1>1. PICK it : RootRun(it, NoDocument, b) /\ WriteRoots(NoDocument, b) = it[S]
  <2>1. NoDocument \in Docs(V) \cup {NoDocument}
    BY Zenon
  <2> QED BY <2>1, RootsRun, Zenon
<1>2. IsFiniteSet(S) /\ \A s \in SUBSET S : s # {} => Pick(s) \in s
  BY Zenon, PickMember DEF BundleData
<1>3. /\ it[{}] = NoDocument
      /\ \A s \in SUBSET S : s # {} => it[s] = WriteRoot(it[s \ {Pick(s)}], b, Pick(s))
  BY <1>1, Zenon DEF RootRun
<1> HIDE DEF S
<1> DEFINE T == {s \in SUBSET S : it[s] = NoDocument}
<1>4. {} \in T
  BY Zenon, <1>3
<1>5. \A s \in SUBSET S : s # {} => C[s] \in s /\ (s \ {C[s]} \in T => s \in T)
  <2> SUFFICES ASSUME NEW s \in SUBSET S, s # {}
               PROVE  C[s] \in s /\ (s \ {C[s]} \in T => s \in T)
    BY Zenon
  <2>1. Pick(s) \in s
    BY Zenon, <1>2
  <2>2. C[s] = Pick(s)
    BY Zenon
  <2>3. it[s \ {Pick(s)}] = NoDocument => it[s] = NoDocument
    BY <1>3, Zenon DEF WriteRoot
  <2> QED BY <2>1, <2>2, <2>3, Zenon
<1>6. S \in T
  <2> HIDE DEF T, C
  <2> QED BY <1>2, <1>4, <1>5, SubsetInduction, Zenon
<1> QED BY <1>1, <1>6, Zenon

\* Whatever it is given, writing a bundle fails or yields a document.
LEMMA RootsIn ==
  ASSUME NEW V, "obj" \in V, NEW d \in Docs(V) \cup {NoDocument}, NEW b, BundleData(b, V)
  PROVE  WriteRoots(d, b) \in Docs(V) \cup {NoDocument}
<1> DEFINE S == b.roots
           K == Docs(V) \cup {NoDocument}
           C == [s \in SUBSET S |-> Pick(s)]
<1>1. PICK it : RootRun(it, d, b) /\ WriteRoots(d, b) = it[S]
  BY RootsRun, Zenon
<1>2. IsFiniteSet(S) /\ \A s \in SUBSET S : s # {} => Pick(s) \in s
  BY Zenon, PickMember DEF BundleData
<1>3. \A x \in K : \A r \in S : WriteRoot(x, b, r) \in K
  <2> SUFFICES ASSUME NEW x \in K, NEW r \in S, WriteRoot(x, b, r) # NoDocument
               PROVE  WriteRoot(x, b, r) \in Docs(V)
    BY Zenon
  <2>1. x # NoDocument
    BY Zenon DEF WriteRoot
  <2>2. x \in Docs(V)
    BY <2>1, Zenon
  <2> QED BY <2>2, WriteRootLocal, Zenon
<1>4. /\ it[{}] = d
      /\ \A s \in SUBSET S : s # {} => it[s] = WriteRoot(it[s \ {Pick(s)}], b, Pick(s))
  BY <1>1, Zenon DEF RootRun
<1> HIDE DEF S, K
<1> DEFINE T == {s \in SUBSET S : it[s] \in K}
<1>5. {} \in T
  BY Zenon, <1>4 DEF K
<1>6. \A s \in SUBSET S : s # {} => C[s] \in s /\ (s \ {C[s]} \in T => s \in T)
  <2> SUFFICES ASSUME NEW s \in SUBSET S, s # {}
               PROVE  C[s] \in s /\ (s \ {C[s]} \in T => s \in T)
    BY Zenon
  <2>1. Pick(s) \in s /\ Pick(s) \in S
    BY Zenon, <1>2
  <2>2. C[s] = Pick(s)
    BY Zenon
  <2> QED BY <1>3, <1>4, <2>1, <2>2, Zenon
<1>7. S \in T
  <2> HIDE DEF T, C
  <2> QED BY <1>2, <1>5, <1>6, SubsetInduction, Zenon
<1> QED BY <1>1, <1>7, Zenon DEF K

\* writeData takes the bundles one at a time.
LEMMA NamesRun ==
  ASSUME NEW V, "obj" \in V, NEW d, NEW B, NEW names, Writable(d, B, names, V)
  PROVE  \E it : NameRun(it, d, B, names) /\ WriteData(d, B, names) = it[names]
<1> DEFINE K == Docs(V) \cup {NoDocument}
           C == [s \in SUBSET names |-> Pick(s)]
           W == [s \in SUBSET names |-> K]
           g == [x \in (SUBSET names) \X K |-> WriteRoots(x[2], B[Pick(x[1])])]
           it == CHOOSE h : NameRun(h, d, B, names)
<1>1. WriteData(d, B, names) = it[names]
  BY Zenon DEF WriteData, FoldSet, MapThenFoldSet, NameRun, Pick
<1>2. /\ IsFiniteSet(names) /\ d \in K
      /\ \A s \in SUBSET names : s # {} => Pick(s) \in s
  BY Zenon, PickMember DEF Writable
<1>3. \A x \in K : \A n \in names : WriteRoots(x, B[n]) \in K
  BY RootsIn, Zenon DEF Writable
<1> HIDE DEF K, it
<1>4. \A s \in SUBSET names : \A x \in K : g[<<s, x>>] = WriteRoots(x, B[Pick(s)])
  BY Zenon
<1>5. \A s \in SUBSET names : C[s] = Pick(s) /\ W[s] = K /\ s \ {C[s]} \in SUBSET names
  BY Zenon
<1> HIDE DEF C, W, g
<1>6. d \in W[{}]
  BY Zenon, <1>2, <1>5
<1>7. ASSUME NEW s \in SUBSET names, s # {}
      PROVE  C[s] \in s /\ \A x \in W[s \ {C[s]}] : x \in K /\ g[<<s, x>>] \in W[s]
  <2>1. Pick(s) \in s /\ Pick(s) \in names
    BY Zenon, <1>2, <1>7
  <2>2. C[s] = Pick(s) /\ W[s] = K /\ W[s \ {C[s]}] = K
    BY <1>5, Zenon
  <2>3. ASSUME NEW x \in K PROVE g[<<s, x>>] \in K
    <3>1. g[<<s, x>>] = WriteRoots(x, B[Pick(s)])
      BY <1>4, Zenon
    <3> QED BY <1>3, <2>1, <3>1, Zenon
  <2> QED BY <2>1, <2>2, <2>3, Zenon
<1>8. Keeps(names, d, C, g, W)
  BY <1>2, <1>6, <1>7, Zenon DEF Keeps
<1>9. PICK h : IsFold(h, names, d, C, g) /\ \A s \in SUBSET names : h[s] \in W[s]
  BY <1>8, FoldExists, Zenon
<1>10. \A s \in SUBSET names : s # {} =>
          /\ C[s] = Pick(s)
          /\ g[<<s, h[s \ {Pick(s)}]>>] = WriteRoots(h[s \ {Pick(s)}], B[Pick(s)])
  BY <1>4, <1>5, <1>9, Zenon
<1>11. NameRun(h, d, B, names)
  BY <1>9, <1>10, Zenon DEF NameRun, IsFold
<1>12. NameRun(it, d, B, names)
  BY <1>11, Zenon DEF it
<1> QED BY <1>1, <1>12, Zenon

\* Every bundle's data is in place once all are written, and nothing else has changed.
LEMMA WriteDataLocal ==
  ASSUME NEW V, "obj" \in V, NEW d, NEW B, NEW names, Writable(d, B, names, V),
         WriteData(d, B, names) # NoDocument
  PROVE  /\ WriteData(d, B, names) \in Docs(V)
         /\ Local(d, WriteData(d, B, names), RootsOf(B, names))
         /\ \A n \in names : Holds(WriteData(d, B, names), B[n], B[n].roots)
<1> DEFINE C == [s \in SUBSET names |-> Pick(s)]
           OK(x, s) == x # NoDocument => /\ x \in Docs(V) /\ Local(d, x, RootsOf(B, s))
                                         /\ \A n \in s : Holds(x, B[n], B[n].roots)
<1>1. PICK it : NameRun(it, d, B, names) /\ WriteData(d, B, names) = it[names]
  BY NamesRun
<1>2. IsFiniteSet(names) /\ d \in Docs(V) /\ \A s \in SUBSET names : s # {} => Pick(s) \in s
  BY Zenon, PickMember DEF Writable
<1>3. ASSUME NEW s \in SUBSET names, NEW c \in s, NEW x, x \in Docs(V) \cup {NoDocument},
             OK(x, s \ {c})
      PROVE  OK(WriteRoots(x, B[c]), s)
  <2> SUFFICES ASSUME WriteRoots(x, B[c]) # NoDocument
               PROVE  /\ WriteRoots(x, B[c]) \in Docs(V)
                      /\ Local(d, WriteRoots(x, B[c]), RootsOf(B, s))
                      /\ \A n \in s : Holds(WriteRoots(x, B[c]), B[n], B[n].roots)
    BY Zenon
  <2> DEFINE y == WriteRoots(x, B[c])
             u == s \ {c}
  <2>0. /\ c \in names /\ u \in SUBSET names /\ c \notin u
        /\ BundleData(B[c], V) /\ \A r, q \in B[c].roots : r # q => ~IsPrefix(r, q)
    BY Zenon DEF Writable
  <2>1. x # NoDocument
    BY <2>0, FailedStays, Zenon
  <2>2. x \in Docs(V) /\ Local(d, x, RootsOf(B, u)) /\ \A n \in u : Holds(x, B[n], B[n].roots)
    BY <1>3, <2>1, ZenonT(60)
  <2>3. Cleared(x, B[c].roots) /\ Apart(B[c].roots, RootsOf(B, u))
    BY Zenon, <2>0, <2>2, StillCleared
  <2>4. y \in Docs(V) /\ Local(x, y, B[c].roots) /\ Holds(y, B[c], B[c].roots)
    BY <2>0, <2>2, <2>3, WriteRootsLocal, Zenon
  <2> HIDE DEF y
  <2>5. Local(d, y, RootsOf(B, s))
    <3>1. RootsOf(B, u) \subseteq RootsOf(B, s) /\ B[c].roots \subseteq RootsOf(B, s)
      BY Zenon DEF RootsOf
    <3>2. Local(d, x, RootsOf(B, s)) /\ Local(x, y, RootsOf(B, s))
      BY <2>2, <2>4, <3>1, LocalMore, Zenon
    <3> QED BY <3>2, LocalTrans, Zenon
  <2>6. ASSUME NEW n \in u PROVE Holds(y, B[n], B[n].roots)
    <3> SUFFICES ASSUME NEW r \in B[n].roots, NEW q \in Paths, IsPrefix(r, q)
                 PROVE  Equal(y, B[n].data, q)
      BY Zenon DEF Holds
    <3>1. n \in names /\ n # c
      BY Zenon, <2>0, <2>6
    <3>2. B[c].roots \in SUBSET Paths /\ r \in Paths
      BY Zenon, <2>0, <3>1 DEF Writable, BundleData
    <3>3. \A t \in B[c].roots : ~IsPrefix(r, t) /\ ~IsPrefix(t, r)
      BY <2>0, <3>1, Zenon DEF Writable, Apart
    <3>4. Equal(x, y, q)
      BY <2>4, <3>2, <3>3, LocalSame, Zenon
    <3>5. Equal(x, B[n].data, q)
      BY <2>2, <2>6, Zenon DEF Holds
    <3> QED BY <3>4, <3>5, Zenon DEF Equal
  <2>7. \A n \in s : Holds(y, B[n], B[n].roots)
    BY Zenon, <2>4, <2>6
  <2> QED BY Zenon, <2>4, <2>5, <2>7 DEF y
<1>4. OK(d, {})
  BY <1>2, LocalRefl, Zenon
<1>5. /\ it[{}] = d
      /\ \A s \in SUBSET names : s # {} => it[s] = WriteRoots(it[s \ {Pick(s)}], B[Pick(s)])
  BY <1>1, Zenon DEF NameRun
<1>a. \A x \in Docs(V) \cup {NoDocument} : \A n \in names :
         WriteRoots(x, B[n]) \in Docs(V) \cup {NoDocument}
  BY RootsIn, Zenon DEF Writable
<1> HIDE DEF OK
<1> DEFINE T == {s \in SUBSET names : it[s] \in Docs(V) \cup {NoDocument} /\ OK(it[s], s)}
<1>6. {} \in T
  BY Zenon, <1>2, <1>4, <1>5
<1>7. \A s \in SUBSET names : s # {} => C[s] \in s /\ (s \ {C[s]} \in T => s \in T)
  <2> SUFFICES ASSUME NEW s \in SUBSET names, s # {}
               PROVE  C[s] \in s /\ (s \ {C[s]} \in T => s \in T)
    BY Zenon
  <2>1. Pick(s) \in s /\ Pick(s) \in names
    BY Zenon, <1>2
  <2>2. C[s] = Pick(s)
    BY Zenon
  <2> SUFFICES ASSUME s \ {Pick(s)} \in T PROVE s \in T
    BY <2>1, <2>2, Zenon
  <2>3. it[s] = WriteRoots(it[s \ {Pick(s)}], B[Pick(s)])
    BY <1>5, Zenon
  <2>4. it[s] \in Docs(V) \cup {NoDocument}
    BY <1>a, <2>1, <2>3, Zenon
  <2>5. OK(it[s], s)
    BY <1>3, <2>1, <2>3, Zenon
  <2> QED BY <2>4, <2>5, Zenon
<1>8. names \in T
  <2> HIDE DEF T, C
  <2> QED BY <1>2, <1>6, <1>7, SubsetInduction, Zenon
<1> QED BY <1>1, <1>8, Zenon DEF OK

-----------------------------------------------------------------------------
(* Degenerate loops.                                                       *)

\* With nothing to write, writeData writes nothing.
LEMMA WritesNothing == ASSUME NEW d, NEW B PROVE WriteData(d, B, {}) = d
<1> DEFINE h == [s \in SUBSET {} |-> d]
           it == CHOOSE k : NameRun(k, d, B, {})
<1>1. WriteData(d, B, {}) = it[{}]
  BY Zenon DEF WriteData, FoldSet, MapThenFoldSet, NameRun, Pick
<1>2. \A s \in SUBSET {} : s = {}
  BY Zenon
<1>3. h = [s \in SUBSET {} |-> IF s = {} THEN d ELSE WriteRoots(h[s \ {Pick(s)}], B[Pick(s)])]
  BY <1>2, Zenon
<1>4. NameRun(it, d, B, {})
  BY <1>3, Zenon DEF NameRun
<1> HIDE DEF it
<1>5. it[{}] = d
  BY Zenon, <1>4 DEF NameRun
<1> QED BY Zenon, <1>1, <1>5

DeltaRun(it, B, names) ==
    it = [s \in SUBSET names |->
            IF s = {} THEN data ELSE ApplyPatches(it[s \ {Pick(s)}], B[Pick(s)])]

\* An activation applies no delta, or the one delta it consists of.
LEMMA PatchedOnce ==
  ASSUME NEW B
  PROVE  /\ (\A n \in DOMAIN B : ~IsDelta(B[n])) => Patched(B) = data
         /\ \A n : DOMAIN B = {n} /\ IsDelta(B[n]) => Patched(B) = ApplyPatches(data, B[n])
<1> DEFINE names == {n \in DOMAIN B : IsDelta(B[n])}
           it == CHOOSE k : DeltaRun(k, B, names)
<1>1. Patched(B) = it[names]
  BY Zenon DEF Patched, FoldSet, MapThenFoldSet, DeltaRun, Pick
<1> HIDE DEF it
<1>2. CASE \A n \in DOMAIN B : ~IsDelta(B[n])
  <2> DEFINE h == [s \in SUBSET {} |-> data]
  <2>1. names = {} /\ \A s \in SUBSET {} : s = {}
    BY Zenon, <1>2
  <2>2. h = [s \in SUBSET {} |-> IF s = {} THEN data ELSE ApplyPatches(h[s \ {Pick(s)}], B[Pick(s)])]
    BY <2>1, Zenon
  <2>3. DeltaRun(it, B, {})
    BY <2>1, <2>2, Zenon DEF DeltaRun, it
  <2>4. it[{}] = data
    BY Zenon, <2>3 DEF DeltaRun
  <2>5. \A n : DOMAIN B = {n} /\ IsDelta(B[n]) => FALSE
    BY Zenon, <1>2
  <2> QED BY Zenon, <1>1, <2>1, <2>4, <2>5
<1>3. ASSUME NEW n, DOMAIN B = {n}, IsDelta(B[n])
      PROVE  Patched(B) = ApplyPatches(data, B[n])
  <2> DEFINE h == [s \in SUBSET {n} |-> IF s = {} THEN data ELSE ApplyPatches(data, B[n])]
  <2>1. names = {n}
    BY Zenon, <1>3
  <2>2. \A s \in SUBSET {n} : s # {} => s = {n} /\ Pick(s) = n /\ s \ {Pick(s)} = {}
    <3> SUFFICES ASSUME NEW s \in SUBSET {n}, s # {} PROVE s = {n} /\ Pick(s) = n /\ s \ {Pick(s)} = {}
      BY Zenon
    <3>1. s = {n}
      BY Zenon
    <3>2. Pick(s) = n
      BY Zenon, <3>1, PickMember
    <3> QED BY Zenon, <3>1, <3>2
  <2>3. h[{}] = data
    BY Zenon
  <2>4. h = [s \in SUBSET {n} |-> IF s = {} THEN data ELSE ApplyPatches(h[s \ {Pick(s)}], B[Pick(s)])]
    BY <2>2, <2>3, Zenon
  <2>5. DeltaRun(it, B, {n})
    BY <2>1, <2>4, Zenon DEF DeltaRun, it
  <2>6. it[{}] = data
    BY Zenon, <2>5 DEF DeltaRun
  <2>7. it[{n}] = ApplyPatches(it[{}], B[n])
    <3>1. {n} \in SUBSET {n} /\ {n} # {}
      BY Zenon
    <3>2. it[{n}] = ApplyPatches(it[{n} \ {Pick({n})}], B[Pick({n})])
      BY <2>5, <3>1, Zenon DEF DeltaRun
    <3> QED BY <2>2, <3>1, <3>2, Zenon
  <2> QED BY Zenon, <1>1, <2>1, <2>6, <2>7
<1> QED BY Zenon, <1>2, <1>3

WriteRun(it, d, ps) ==
    it = [s \in SUBSET DOMAIN ps |->
            IF s = {} THEN d ELSE WritePatch(it[s \ {Max(s)}], ps[Max(s)])]

\* A PATCH request writes what a delta of its patches would: none of them is an upsert.
LEMMA RequestPatches ==
  ASSUME NEW V, "obj" \in V, NEW d \in Docs(V), NEW ps, ps \in Seq(Range(ps)),
         \A i \in DOMAIN ps : IsPatch(ps[i], V) /\ ps[i].op \in PatchOps
  PROVE  FoldLeft(WritePatch, d, ps) = FoldLeft(ApplyPatch, d, ps)
<1> DEFINE S == DOMAIN ps
           C == [s \in SUBSET S |-> Max(s)]
           jt == CHOOSE k : WriteRun(k, d, ps)
<1>1. PICK it : PatchRun(it, d, ps) /\ FoldLeft(ApplyPatch, d, ps) = it[S]
  <2>1. d \in Docs(V) \cup {NoDocument}
    BY Zenon
  <2> QED BY <2>1, PatchesRun, Zenon
<1>2. FoldLeft(WritePatch, d, ps) = jt[S]
  BY Zenon DEF FoldLeft, MapThenFoldSet, WriteRun
<1>3. /\ IsFiniteSet(S)
      /\ \A s \in SUBSET S : s # {} => Max(s) \in s /\ Max(s) \in S
  BY Zenon, LastMember
<1>4. \A i \in S : \A x : WritePatch(x, ps[i]) = ApplyPatch(x, ps[i])
  <2> SUFFICES ASSUME NEW i \in S, NEW x PROVE WritePatch(x, ps[i]) = ApplyPatch(x, ps[i])
    BY Zenon
  <2>1. ps[i].op # "upsert"
    BY Zenon DEF PatchOps
  <2> QED BY <2>1, Zenon DEF WritePatch, ApplyPatch
<1> HIDE DEF jt
<1>5. WriteRun(it, d, ps)
  <2>1. \A s \in SUBSET S : s # {} => WritePatch(it[s \ {Max(s)}], ps[Max(s)])
                                        = ApplyPatch(it[s \ {Max(s)}], ps[Max(s)])
    BY <1>3, <1>4, Zenon
  <2> QED BY <1>1, <2>1, Zenon DEF WriteRun, PatchRun
<1>6. WriteRun(jt, d, ps)
  BY <1>5, Zenon DEF jt
<1>7. /\ it[{}] = d /\ jt[{}] = d
      /\ \A s \in SUBSET S : s # {} => /\ it[s] = WritePatch(it[s \ {Max(s)}], ps[Max(s)])
                                       /\ jt[s] = WritePatch(jt[s \ {Max(s)}], ps[Max(s)])
  BY <1>5, <1>6, Zenon DEF WriteRun
<1> HIDE DEF S
<1> DEFINE T == {s \in SUBSET S : jt[s] = it[s]}
<1>8. {} \in T
  BY Zenon, <1>7
<1>9. \A s \in SUBSET S : s # {} => C[s] \in s /\ (s \ {C[s]} \in T => s \in T)
  <2> SUFFICES ASSUME NEW s \in SUBSET S, s # {}
               PROVE  C[s] \in s /\ (s \ {C[s]} \in T => s \in T)
    BY Zenon
  <2>1. Max(s) \in s /\ C[s] = Max(s)
    BY <1>3, Zenon
  <2>2. jt[s \ {Max(s)}] = it[s \ {Max(s)}] => jt[s] = it[s]
    BY <1>7, Zenon
  <2> QED BY <2>1, <2>2, Zenon
<1>10. S \in T
  <2> HIDE DEF T, C
  <2> QED BY <1>3, <1>8, <1>9, SubsetInduction, Zenon
<1> QED BY <1>1, <1>2, <1>10, Zenon
-----------------------------------------------------------------------------
(* What bundles have in the store.                                         *)

\* The kinds of node in some documents.
Kinds(X) == {"obj"} \cup UNION {{x[q] : q \in DOMAIN x} : x \in X}

\* A tree has nodes of its own kinds.
LEMMA KindsOf == ASSUME NEW X, NEW x \in X, Tree(x) PROVE x \in Docs(Kinds(X))
<1>1. \A q \in DOMAIN x : x[q] \in Kinds(X)
  BY DEF Kinds
<1> QED BY Zenon, <1>1, InDocs

\* The policies whose package lies under R.
PoliciesUnder(ps, R) ==
    Restrict(ps, {id \in DOMAIN ps : RootPathsContain(R, ps[id].pkg)})

\* From ps to qs no policy whose package lies outside R changes, comes or goes.
PoliciesLocal(ps, qs, R) ==
    /\ \A id \in DOMAIN ps : ~RootPathsContain(R, ps[id].pkg) =>
          id \in DOMAIN qs /\ qs[id] = ps[id]
    /\ \A id \in DOMAIN qs : ~RootPathsContain(R, qs[id].pkg) =>
          id \in DOMAIN ps /\ qs[id] = ps[id]

\* Documents that are equal below R have the same part there, and the converse.
LEMMA BelowSame ==
  ASSUME NEW d, NEW e, NEW R, Tree(d), Tree(e)
  PROVE  Below(d, R) = Below(e, R) <=> \A q \in Paths : RootPathsContain(R, q) => Equal(d, e, q)
<1>1. DOMAIN d \subseteq Paths /\ DOMAIN e \subseteq Paths
  BY Zenon DEF Tree
<1>2. ASSUME NEW x
      PROVE  /\ Below(x, R) = [q \in DOMAIN Below(x, R) |-> Below(x, R)[q]]
             /\ DOMAIN Below(x, R) = {q \in DOMAIN x : RootPathsContain(R, q)}
             /\ \A q \in DOMAIN Below(x, R) : Below(x, R)[q] = x[q]
  BY Zenon DEF Below, Restrict
<1>3. ASSUME Below(d, R) = Below(e, R), NEW q \in Paths, RootPathsContain(R, q)
      PROVE  Equal(d, e, q)
  <2>1. q \in DOMAIN d <=> q \in DOMAIN Below(d, R)
    BY Zenon, <1>2, <1>3
  <2>2. q \in DOMAIN e <=> q \in DOMAIN Below(e, R)
    BY Zenon, <1>2, <1>3
  <2> QED BY <1>2, <1>3, <2>1, <2>2, Zenon DEF Equal
<1>4. ASSUME \A q \in Paths : RootPathsContain(R, q) => Equal(d, e, q)
      PROVE  Below(d, R) = Below(e, R)
  <2>1. \A q \in Paths : RootPathsContain(R, q) => (q \in DOMAIN d <=> q \in DOMAIN e)
                                                   /\ (q \in DOMAIN d => d[q] = e[q])
    BY <1>4, Zenon DEF Equal
  <2>2. DOMAIN Below(d, R) = DOMAIN Below(e, R)
    BY Zenon, <1>1, <1>2, <2>1
  <2>3. \A q \in DOMAIN Below(d, R) : Below(d, R)[q] = Below(e, R)[q]
    BY Zenon, <1>1, <1>2, <2>1, <2>2
  <2> QED BY Zenon, <1>2, <2>2, <2>3
<1> QED BY Zenon, <1>3, <1>4

\* The same for policies.
LEMMA PoliciesSame ==
  ASSUME NEW ps, NEW qs, NEW R, NEW Q,
         \A id \in DOMAIN ps : RootPathsContain(Q, ps[id].pkg) => ~RootPathsContain(R, ps[id].pkg),
         \A id \in DOMAIN qs : RootPathsContain(Q, qs[id].pkg) => ~RootPathsContain(R, qs[id].pkg),
         PoliciesLocal(ps, qs, R)
  PROVE  PoliciesUnder(ps, Q) = PoliciesUnder(qs, Q)
<1> DEFINE I(x) == {id \in DOMAIN x : RootPathsContain(Q, x[id].pkg)}
<1>1. I(ps) = I(qs)
  <2>1. \A id \in I(ps) : id \in I(qs)
    BY Zenon DEF PoliciesLocal
  <2>2. \A id \in I(qs) : id \in I(ps)
    BY Zenon DEF PoliciesLocal
  <2> QED BY Zenon, <2>1, <2>2
<1>2. \A id \in I(ps) : ps[id] = qs[id]
  BY Zenon DEF PoliciesLocal
<1> QED BY Zenon, <1>1, <1>2 DEF PoliciesUnder, Restrict

-----------------------------------------------------------------------------
(* The steps.                                                              *)

\* The ids bundles store their policies under, and those of the API, which are others.
IdsOf(B) == UNION {{<<n, f>> : f \in DOMAIN B[n].modules} : n \in DOMAIN B}
ModuleIds == UNION {IdsOf(B) : B \in Activations}
IdsApart == \A p \in ApiPolicies : p.id \notin ModuleIds

\* A policy stored under a bundle's id is in a package of that bundle, which is active.
IdsOwned ==
    \A id \in DOMAIN policies \cap ModuleIds :
        id[1] \in DOMAIN manifests /\ RootPathsContain(manifests[id[1]], policies[id].pkg)

\* Next to BundleIntact, what its proof needs to know of the state.
Shaped ==
    /\ Tree(data)
    /\ DOMAIN content = DOMAIN manifests
    /\ \A n \in DOMAIN manifests :
          /\ manifests[n] \in SUBSET Paths
          /\ content[n] = [data |-> content[n].data, modules |-> content[n].modules]
Kept == Shaped /\ IdsOwned /\ BundleIntact

\* What an activation may touch: the roots its bundles have and had.
Scope(B) == RootsOf(B, DOMAIN B)
            \cup (UNION {manifests[n] : n \in DOMAIN B \cap DOMAIN manifests})

\* The policies of bundles, one by one.
LEMMA NewModules ==
  ASSUME NEW B, NEW names
  PROVE  /\ \A n \in names : \A f \in DOMAIN B[n].modules :
               /\ <<n, f>> \in DOMAIN BundleModules(B, names)
               /\ BundleModules(B, names)[<<n, f>>] = B[n].modules[f]
         /\ \A id \in DOMAIN BundleModules(B, names) :
               \E n \in names : \E f \in DOMAIN B[n].modules : id = <<n, f>>
<1> DEFINE ids == UNION {{<<n, f>> : f \in DOMAIN B[n].modules} : n \in names}
<1>1. /\ DOMAIN BundleModules(B, names) = ids
      /\ \A id \in ids : BundleModules(B, names)[id] = B[id[1]].modules[id[2]]
  BY Zenon DEF BundleModules
<1>2. ASSUME NEW n \in names, NEW f \in DOMAIN B[n].modules PROVE <<n, f>> \in ids
  <2>1. <<n, f>> \in {<<n, g>> : g \in DOMAIN B[n].modules}
    BY Zenon
  <2> QED BY Zenon, <2>1
<1>3. \A id \in ids : \E n \in names : \E f \in DOMAIN B[n].modules : id = <<n, f>>
  BY Zenon
<1> HIDE DEF ids
<1>4. \A n \in names : \A f \in DOMAIN B[n].modules :
         BundleModules(B, names)[<<n, f>>] = B[n].modules[f]
  BY Zenon, <1>1, <1>2
<1> QED BY <1>1, <1>2, <1>3, <1>4, ZenonT(60)

\* What an activation may be given.
LEMMA Given ==
  ASSUME NEW B \in Activations
  PROVE  /\ IsFiniteSet(DOMAIN B)
         /\ \A n \in DOMAIN B :
               /\ IsBundle(B[n]) /\ Validated(B[n]) /\ B[n].roots \in SUBSET Paths
               /\ \A f \in DOMAIN B[n].modules :
                     /\ <<n, f>> \in ModuleIds
                     /\ RootPathsContain(B[n].roots, B[n].modules[f].pkg)
         /\ (\A n \in DOMAIN B : ~IsDelta(B[n])) \/ \E n : DOMAIN B = {n} /\ IsDelta(B[n])
<1>1. \A n \in DOMAIN B : IsBundle(B[n]) /\ Validated(B[n]) /\ (IsDelta(B[n]) => DOMAIN B = {n})
  BY ActivationsValid, Zenon
<1>2. ASSUME NEW n \in DOMAIN B PROVE B[n].roots \in SUBSET Paths
  BY Zenon, <1>1 DEF IsBundle, Paths
<1>3. ASSUME NEW n \in DOMAIN B, NEW f \in DOMAIN B[n].modules
      PROVE  <<n, f>> \in ModuleIds /\ RootPathsContain(B[n].roots, B[n].modules[f].pkg)
  <2>1. <<n, f>> \in ModuleIds
    <3>1. <<n, f>> \in {<<n, g>> : g \in DOMAIN B[n].modules}
      BY Zenon
    <3>2. <<n, f>> \in IdsOf(B)
      BY Zenon, <3>1 DEF IdsOf
    <3> QED BY Zenon, <3>2 DEF ModuleIds
  <2>2. RootPathsContain(B[n].roots, B[n].modules[f].pkg)
    BY <1>1, Zenon DEF Validated, RootPathsContain
  <2> QED BY Zenon, <2>1, <2>2
<1> QED BY <1>1, <1>2, <1>3, ActivationsValid, Zenon

\* The roots in force after an activation, and that they do not overlap.
LEMMA NewRoots ==
  ASSUME NEW B \in Activations, Activate(B)
  PROVE  /\ DOMAIN manifests' = DOMAIN B \cup DOMAIN manifests
         /\ \A n \in DOMAIN B : manifests'[n] = B[n].roots
         /\ \A n \in DOMAIN manifests \ DOMAIN B : manifests'[n] = manifests[n]
         /\ \A n \in DOMAIN B : \A o \in DOMAIN manifests' :
               n # o => Apart(B[n].roots, manifests'[o])
<1>1. manifests' = AllRoots(B) /\ ~HasRootsOverlap(B)
  BY Zenon DEF Activate
<1>2. /\ DOMAIN AllRoots(B) = DOMAIN B \cup DOMAIN manifests
      /\ \A n \in DOMAIN B : AllRoots(B)[n] = B[n].roots
      /\ \A n \in DOMAIN manifests \ DOMAIN B : AllRoots(B)[n] = manifests[n]
  BY Zenon DEF AllRoots, Overlay
<1>3. ASSUME NEW n \in DOMAIN B, NEW o \in DOMAIN manifests', n # o
      PROVE  Apart(B[n].roots, manifests'[o])
  BY <1>1, <1>3, Zenon DEF HasRootsOverlap, RootPathsOverlap, Apart
<1> QED BY Zenon, <1>1, <1>2, <1>3

\* Roots of a bundle that is not activated are apart from what an activation may touch.
LEMMA ScopeApart ==
  ASSUME RootsDisjoint, NEW B \in Activations, Activate(B), NEW o \in DOMAIN manifests \ DOMAIN B
  PROVE  Apart(manifests[o], Scope(B))
<1> SUFFICES ASSUME NEW r \in manifests[o], NEW t \in Scope(B)
             PROVE  ~IsPrefix(r, t) /\ ~IsPrefix(t, r)
  BY Zenon DEF Apart
<1>1. CASE \E n \in DOMAIN B : t \in B[n].roots
  <2>1. PICK n \in DOMAIN B : t \in B[n].roots
    BY Zenon, <1>1
  <2>2. n # o /\ o \in DOMAIN manifests' /\ manifests'[o] = manifests[o]
    BY Zenon, <2>1, NewRoots
  <2>3. Apart(B[n].roots, manifests'[o])
    BY <2>2, NewRoots, Zenon
  <2> QED BY <2>1, <2>2, <2>3, ZenonT(60) DEF Apart
<1>2. CASE \E n \in DOMAIN B \cap DOMAIN manifests : t \in manifests[n]
  <2>1. PICK n \in DOMAIN B \cap DOMAIN manifests : t \in manifests[n]
    BY Zenon, <1>2
  <2>2. n # o
    BY Zenon, <2>1
  <2> QED BY <2>1, <2>2, Zenon DEF RootsDisjoint
<1> QED BY Zenon, <1>1, <1>2 DEF Scope, RootsOf

\* Packages below roots that are apart from R are not below R.
LEMMA PackagesApart ==
  ASSUME NEW Q \in SUBSET Paths, NEW R \in SUBSET Paths, Apart(Q, R), NEW pkg \in Paths,
         RootPathsContain(Q, pkg)
  PROVE  ~RootPathsContain(R, pkg)
  BY PathTotal, Zenon DEF RootPathsContain, Apart

\* A snapshot's policies replace those under its bundle's roots and no others; a delta has
\* none.
LEMMA ActivatePolicies ==
  ASSUME IdsOwned, NEW B \in Activations, Activate(B)
  PROVE  /\ PoliciesLocal(policies, policies', Scope(B))
         /\ (\A n \in DOMAIN B : ~IsDelta(B[n])) =>
               \A id \in DOMAIN policies' :
                  RootPathsContain(Scope(B), policies'[id].pkg) =>
                     id \in DOMAIN BundleModules(B, DOMAIN B)
         /\ (\A n \in DOMAIN B : ~IsDelta(B[n])) =>
               \A id \in DOMAIN BundleModules(B, DOMAIN B) :
                  id \in DOMAIN policies' /\ policies'[id] = BundleModules(B, DOMAIN B)[id]
         /\ (\E n \in DOMAIN B : IsDelta(B[n])) =>
               DOMAIN policies' = DOMAIN policies /\ \A id \in DOMAIN policies : policies'[id] = policies[id]
<1> DEFINE deltas == {n \in DOMAIN B : IsDelta(B[n])}
           snapshots == DOMAIN B \ deltas
           now == UNION {B[n].roots : n \in snapshots}
           before == UNION {manifests[n] : n \in snapshots \intersect DOMAIN manifests}
           erase == (UNION {B[n].roots : n \in snapshots})
                    \union (UNION {manifests[n] : n \in snapshots \intersect DOMAIN manifests})
           remaining == ErasePolicies(policies, erase)
           new == BundleModules(B, snapshots)
<1>1. policies' = Overlay(new, remaining)
  BY Zenon DEF Activate
<1>2. /\ DOMAIN policies' = DOMAIN new \cup DOMAIN remaining
      /\ \A id \in DOMAIN new : policies'[id] = new[id]
      /\ \A id \in DOMAIN remaining \ DOMAIN new : policies'[id] = remaining[id]
  BY Zenon, <1>1 DEF Overlay
<1>3. /\ DOMAIN remaining = {id \in DOMAIN policies : ~RootPathsContain(erase, policies[id].pkg)}
      /\ \A id \in DOMAIN remaining : remaining[id] = policies[id]
  BY Zenon DEF ErasePolicies, Restrict
<1>5. \A n \in snapshots : n \in DOMAIN B
  BY Zenon
<1> HIDE DEF snapshots
<1>g. erase = now \union before
  BY Zenon
<1>d. /\ now \subseteq RootsOf(B, DOMAIN B)
      /\ snapshots = DOMAIN B => RootsOf(B, DOMAIN B) \subseteq now
  BY Zenon, <1>5 DEF RootsOf
<1>e. /\ before \subseteq UNION {manifests[n] : n \in DOMAIN B \cap DOMAIN manifests}
      /\ snapshots = DOMAIN B =>
            UNION {manifests[n] : n \in DOMAIN B \cap DOMAIN manifests} \subseteq before
  BY Zenon, <1>5
<1>a. ASSUME NEW n \in snapshots, n \in DOMAIN manifests PROVE manifests[n] \subseteq before
  <2>1. n \in snapshots \intersect DOMAIN manifests
    BY Zenon, <1>a
  <2> QED BY Zenon, <2>1
<1>b. \A n \in snapshots : B[n].roots \subseteq now
  BY Zenon
<1> HIDE DEF now, before, erase
<1>4. erase \subseteq Scope(B) /\ (snapshots = DOMAIN B => Scope(B) \subseteq erase)
  BY Zenon, <1>d, <1>e, <1>g DEF Scope
<1>f. now \subseteq erase /\ before \subseteq erase
  BY Zenon, <1>g
<1>c. \A R, S : \A p : R \subseteq S /\ RootPathsContain(R, p) => RootPathsContain(S, p)
  BY Zenon DEF RootPathsContain
<1> HIDE DEF remaining
<1>6. ASSUME NEW id \in DOMAIN new
      PROVE  /\ RootPathsContain(erase, new[id].pkg)
             /\ id \in DOMAIN policies => RootPathsContain(erase, policies[id].pkg)
  <2>1. PICK n \in snapshots : \E f \in DOMAIN B[n].modules : id = <<n, f>>
    BY <1>6, NewModules
  <2>2. PICK f \in DOMAIN B[n].modules : id = <<n, f>>
    BY Zenon, <2>1
  <2>3. new[id] = B[n].modules[f] /\ id \in ModuleIds /\ id[1] = n
    BY SMTT(60), <1>5, <2>2, NewModules, Given
  <2>4. RootPathsContain(B[n].roots, new[id].pkg)
    BY Zenon, <1>5, <2>3, Given
  <2>5. id \in DOMAIN policies => /\ n \in DOMAIN manifests
                                  /\ RootPathsContain(manifests[n], policies[id].pkg)
    BY Zenon, <2>3 DEF IdsOwned
  <2> QED BY <1>a, <1>b, <1>c, <1>f, <2>4, <2>5, Zenon
<1>7. PoliciesLocal(policies, policies', Scope(B))
  <2>1. ASSUME NEW id \in DOMAIN policies, ~RootPathsContain(Scope(B), policies[id].pkg)
        PROVE  id \in DOMAIN policies' /\ policies'[id] = policies[id]
    <3>1. ~RootPathsContain(erase, policies[id].pkg)
      BY <1>4, <1>c, <2>1, Zenon
    <3>2. id \in DOMAIN remaining /\ id \notin DOMAIN new
      BY Zenon, <1>3, <1>6, <3>1
    <3> QED BY Zenon, <1>2, <1>3, <3>2
  <2>2. ASSUME NEW id \in DOMAIN policies', ~RootPathsContain(Scope(B), policies'[id].pkg)
        PROVE  id \in DOMAIN policies /\ policies'[id] = policies[id]
    <3>1. id \notin DOMAIN new
      BY <1>2, <1>4, <1>6, <1>c, <2>2, Zenon
    <3> QED BY Zenon, <1>2, <1>3, <2>2, <3>1
  <2> QED BY <2>1, <2>2, Zenon DEF PoliciesLocal
<1>8. ASSUME \A n \in DOMAIN B : ~IsDelta(B[n])
      PROVE  /\ \A id \in DOMAIN policies' : RootPathsContain(Scope(B), policies'[id].pkg) =>
                   id \in DOMAIN BundleModules(B, DOMAIN B)
             /\ \A id \in DOMAIN BundleModules(B, DOMAIN B) :
                  id \in DOMAIN policies' /\ policies'[id] = BundleModules(B, DOMAIN B)[id]
  <2>1. snapshots = DOMAIN B
    BY Zenon, <1>8 DEF snapshots
  <2>2. new = BundleModules(B, DOMAIN B)
    BY Zenon, <2>1
  <2>3. Scope(B) = erase
    BY Zenon, <1>4, <2>1
  <2> HIDE DEF new
  <2> QED BY Zenon, <1>2, <1>3, <2>2, <2>3
<1>9. ASSUME \E n \in DOMAIN B : IsDelta(B[n])
      PROVE  DOMAIN policies' = DOMAIN policies /\ \A id \in DOMAIN policies : policies'[id] = policies[id]
  <2>1. snapshots = {}
    BY Zenon, <1>9, Given DEF snapshots
  <2>2. erase = {} /\ DOMAIN new = {}
    BY Zenon, <2>1 DEF erase, BundleModules
  <2>3. \A p : ~RootPathsContain(erase, p)
    BY Zenon, <2>2 DEF RootPathsContain
  <2> HIDE DEF new
  <2> QED BY Zenon, <1>2, <1>3, <2>2, <2>3
<1> QED BY Zenon, <1>7, <1>8, <1>9

\* It is a set of paths.
LEMMA ScopePaths ==
  ASSUME Shaped, NEW B \in Activations PROVE Scope(B) \in SUBSET Paths
<1>1. \A n \in DOMAIN B : B[n].roots \subseteq Paths
  BY Zenon, Given
<1>2. \A n \in DOMAIN manifests : manifests[n] \subseteq Paths
  BY Zenon DEF Shaped
<1>3. RootsOf(B, DOMAIN B) \subseteq Paths
  BY Zenon, <1>1 DEF RootsOf
<1>4. UNION {manifests[n] : n \in DOMAIN B \cap DOMAIN manifests} \subseteq Paths
  BY Zenon, <1>2
<1> QED BY Zenon, <1>3, <1>4 DEF Scope

\* Erasing what lies under some roots is local to them, and clears them.
LEMMA EraseLocal ==
  ASSUME NEW d, Tree(d), NEW R \in SUBSET Paths
  PROVE  /\ Tree(EraseData(d, R)) /\ Local(d, EraseData(d, R), R) /\ Cleared(EraseData(d, R), R)
         /\ \A q \in DOMAIN EraseData(d, R) : q \in DOMAIN d /\ EraseData(d, R)[q] = d[q]
<1> DEFINE e == EraseData(d, R)
<1>1. /\ e = [q \in DOMAIN e |-> e[q]]
      /\ DOMAIN e = {q \in DOMAIN d : \A r \in R \ {<<>>} : ~IsPrefix(r, q)}
      /\ \A q \in DOMAIN e : e[q] = d[q]
  BY Zenon DEF EraseData, Restrict
<1> HIDE DEF e
<1>2. Tree(e)
  <2>1. <<>> \in DOMAIN e
    <3>1. ASSUME NEW r \in R \ {<<>>}, IsPrefix(r, <<>>) PROVE FALSE
      <4>1. r = <<>>
        BY Zenon, <3>1, AboveRoot
      <4> QED BY Zenon, <4>1
    <3> QED BY Zenon, <1>1, <3>1 DEF Tree
  <2> QED BY Zenon, <1>1, <2>1 DEF Tree
<1>3. Local(d, e, R)
  <2> SUFFICES ASSUME NEW q \in Paths, ~RootPathsContain(R, q) PROVE Equal(d, e, q)
    BY Zenon DEF Local
  <2>1. \A r \in R \ {<<>>} : ~IsPrefix(r, q)
    BY Zenon DEF RootPathsContain
  <2> QED BY Zenon, <1>1, <2>1 DEF Equal
<1>4. Cleared(e, R)
  BY Zenon, <1>1 DEF Cleared
<1> QED BY Zenon, <1>1, <1>2, <1>3, <1>4 DEF e

\* A bundle as the loops want it.
LEMMA BundleFits ==
  ASSUME NEW b, IsBundle(b), NEW X, b.data \in X,
         \A i \in DOMAIN b.patches : b.patches[i].value \in X
  PROVE  /\ BundleData(b, Kinds(X))
         /\ b.patches \in Seq(Range(b.patches))
         /\ \A i \in DOMAIN b.patches : IsPatch(b.patches[i], Kinds(X))
<1>1. IsDocument(b.data) /\ ArePatches(b.patches) /\ IsFiniteSet(b.roots) /\ b.roots \in SUBSET Paths
  BY Zenon DEF IsBundle, Paths
<1>2. b.data \in Docs(Kinds(X))
  BY Zenon, <1>1, DocumentIsTree, KindsOf
<1>3. ASSUME NEW p \in Paths, NEW q \in DOMAIN b.data, IsPrefix(p, q)
      PROVE  p \in DOMAIN b.data
  <2>1. q \in Seq(STRING) /\ p \in Seq(STRING)
    BY Zenon, <1>1 DEF IsDocument, Paths
  <2>2. Len(p) \in 0..Len(q) /\ p = SubSeq(q, 1, Len(p)) /\ Len(q) \in Nat /\ SubSeq(q, 1, Len(q)) = q
    BY <1>3, <2>1, PrefixParts
  <2>3. CASE Len(p) = Len(q)
    BY Zenon, <2>2, <2>3
  <2>4. CASE Len(p) # Len(q)
    <3>1. Len(p) \in 0..(Len(q) - 1)
      <4>1. \A i, j \in Nat : i \in 0..j /\ i # j => i \in 0..(j - 1)
        OBVIOUS
      <4>2. Len(p) \in Nat /\ Len(q) \in Nat
        BY <2>1
      <4> QED BY <2>2, <2>4, <4>1, <4>2, Zenon
    <3>2. SubSeq(q, 1, Len(p)) \in DOMAIN b.data
      BY <1>1, <3>1, Zenon DEF IsDocument
    <3> QED BY Zenon, <2>2, <3>2
  <2> QED BY Zenon, <2>3, <2>4
<1>4. BundleData(b, Kinds(X))
  BY <1>1, <1>2, <1>3, Zenon DEF BundleData
<1>5. ASSUME NEW i \in DOMAIN b.patches PROVE IsPatch(b.patches[i], Kinds(X))
  <2>1. IsDocument(b.patches[i].value) /\ b.patches[i].path \in Paths
    BY Zenon, <1>1 DEF ArePatches, Paths
  <2>2. b.patches[i].value \in Docs(Kinds(X))
    BY Zenon, <2>1, DocumentIsTree, KindsOf
  <2> QED BY Zenon, <2>1, <2>2 DEF IsPatch
<1> QED BY Zenon, <1>1, <1>4, <1>5 DEF ArePatches

\* Snapshots are in place after their activation, and the data outside the roots they have
\* and had is as it was.
LEMMA SnapshotsData ==
  ASSUME Shaped, NEW B \in Activations, Activate(B), \A n \in DOMAIN B : ~IsDelta(B[n])
  PROVE  /\ Tree(data') /\ Local(data, data', Scope(B))
         /\ \A n \in DOMAIN B : Tree(B[n].data) /\ Holds(data', B[n], B[n].roots)
<1> DEFINE names == DOMAIN B
           X == {data} \cup {B[n].data : n \in names}
                       \cup UNION {{B[n].patches[i].value : i \in DOMAIN B[n].patches} : n \in names}
           V == Kinds(X)
           e == EraseData(data, Scope(B))
<1>1. data' = WriteData(e, B, names) /\ data' # NoDocument
  <2> DEFINE deltas == {n \in DOMAIN B : IsDelta(B[n])}
             snapshots == DOMAIN B \ deltas
             erase == (UNION {B[n].roots : n \in snapshots})
                      \union (UNION {manifests[n] : n \in snapshots \intersect DOMAIN manifests})
  <2>1. /\ data' = WriteData(EraseData(Patched(B), erase), B, snapshots)
        /\ WriteData(EraseData(Patched(B), erase), B, snapshots) # NoDocument
    BY Zenon DEF Activate
  <2>2. snapshots = names /\ Patched(B) = data
    BY Zenon, PatchedOnce
  <2> HIDE DEF snapshots
  <2>3. erase = Scope(B)
    BY <2>2, Zenon DEF Scope, RootsOf
  <2> QED BY <2>1, <2>2, <2>3, Zenon
<1>2. Tree(e) /\ Local(data, e, Scope(B)) /\ Cleared(e, Scope(B))
      /\ \A q \in DOMAIN e : q \in DOMAIN data /\ e[q] = data[q]
  <2>1. Tree(data) /\ Scope(B) \in SUBSET Paths
    BY Zenon, ScopePaths DEF Shaped
  <2> QED BY Zenon, <2>1, EraseLocal
<1> HIDE DEF e
<1>3. "obj" \in V /\ data \in Docs(V)
  <2>1. data \in X /\ Tree(data)
    BY Zenon DEF Shaped
  <2> HIDE DEF X
  <2>2. data \in Docs(V)
    BY Zenon, <2>1, KindsOf
  <2> QED BY Zenon, <2>2 DEF Kinds
<1>4. e \in Docs(V)
  <2>1. \A q \in DOMAIN data : data[q] \in V
    BY Zenon, <1>3, InDocs
  <2> HIDE DEF V
  <2> QED BY Zenon, <1>2, <2>1, InDocs
<1>5. \A n \in names : BundleData(B[n], V)
  <2> SUFFICES ASSUME NEW n \in names PROVE BundleData(B[n], V)
    BY Zenon
  <2>1. B[n].data \in X /\ \A i \in DOMAIN B[n].patches : B[n].patches[i].value \in X
    OBVIOUS
  <2>2. IsBundle(B[n])
    BY Zenon, Given
  <2> HIDE DEF X
  <2> QED BY <2>1, <2>2, BundleFits, ZenonT(60)
<1> HIDE DEF V, X
<1>6. RootsOf(B, names) \subseteq Scope(B) /\ \A n \in names : B[n].roots \subseteq RootsOf(B, names)
  BY Zenon DEF Scope, RootsOf
<1>7. Writable(e, B, names, V)
  <2>1. \A n \in names : Cleared(e, B[n].roots)
    BY Zenon, <1>2, <1>6 DEF Cleared
  <2>2. IsFiniteSet(names) /\ \A n \in names : \A r, q \in B[n].roots : r # q => ~IsPrefix(r, q)
    BY Zenon, Given DEF Validated
  <2>3. ASSUME NEW n \in names, NEW o \in names, n # o
        PROVE  Apart(B[n].roots, B[o].roots)
    BY Zenon, <2>3, NewRoots
  <2> QED BY <1>4, <1>5, <2>1, <2>2, <2>3, Zenon DEF Writable
<1>8. /\ data' \in Docs(V) /\ Local(e, data', RootsOf(B, names))
      /\ \A n \in names : Holds(data', B[n], B[n].roots)
  BY <1>1, <1>3, <1>7, WriteDataLocal, Zenon
<1>9. Local(data, data', Scope(B))
  BY <1>2, <1>6, <1>8, LocalMore, LocalTrans, Zenon
<1>10. Tree(data') /\ \A n \in names : Tree(B[n].data)
  BY Zenon, <1>5, <1>8, InDocs DEF BundleData
<1> QED BY Zenon, <1>8, <1>9, <1>10

\* A delta patches the document and does nothing else to it.
LEMMA DeltaData ==
  ASSUME Tree(data), NEW B \in Activations, Activate(B), NEW n, DOMAIN B = {n}, IsDelta(B[n])
  PROVE  /\ data' = FoldLeft(ApplyPatch, data, B[n].patches) /\ data' # NoDocument
         /\ Tree(data') /\ Local(data, data', B[n].roots)
<1> DEFINE ps == B[n].patches
           X == {data, B[n].data} \cup {ps[i].value : i \in DOMAIN ps}
           V == Kinds(X)
<1>1. Patched(B) = FoldLeft(ApplyPatch, data, ps)
  BY Zenon, PatchedOnce DEF ApplyPatches
<1> DEFINE p == FoldLeft(ApplyPatch, data, ps)
<1>2. p # NoDocument
  BY <1>1, Zenon DEF Activate
<1>3. /\ ps \in Seq(Range(ps)) /\ \A i \in DOMAIN ps : IsPatch(ps[i], V)
      /\ data \in Docs(V) /\ "obj" \in V
  <2>1. data \in X /\ B[n].data \in X /\ \A i \in DOMAIN ps : ps[i].value \in X
    BY Zenon
  <2>2. IsBundle(B[n])
    BY Zenon, Given
  <2> HIDE DEF X
  <2>3. ps \in Seq(Range(ps)) /\ \A i \in DOMAIN ps : IsPatch(ps[i], V)
    BY <2>1, <2>2, BundleFits, Zenon
  <2>4. data \in Docs(V)
    BY Zenon, <2>1, KindsOf
  <2>5. "obj" \in V
    BY Zenon DEF Kinds
  <2> QED BY Zenon, <2>3, <2>4, <2>5
<1> HIDE DEF V, X
<1>4. B[n].roots \in SUBSET Paths /\ \A i \in DOMAIN ps : RootPathsContain(B[n].roots, ps[i].path)
  <2>1. n \in DOMAIN B
    BY Zenon
  <2> QED BY <2>1, Given, Zenon DEF Validated, RootPathsContain
<1> HIDE DEF ps
<1>5. p \in Docs(V) /\ Local(data, p, B[n].roots)
  BY <1>2, <1>3, <1>4, PatchesLocal, Zenon
<1>6. Tree(p)
  BY Zenon, <1>5, InDocs
<1> HIDE DEF p
<1>7. data' = p
  <2> DEFINE deltas == {m \in DOMAIN B : IsDelta(B[m])}
             snapshots == DOMAIN B \ deltas
             erase == (UNION {B[m].roots : m \in snapshots})
                      \union (UNION {manifests[m] : m \in snapshots \intersect DOMAIN manifests})
  <2>1. data' = WriteData(EraseData(Patched(B), erase), B, snapshots)
    BY Zenon DEF Activate
  <2>2. snapshots = {}
    BY Zenon
  <2>3. erase = {}
    BY Zenon, <2>2
  <2>4. data' = EraseData(p, {})
    BY <1>1, <2>1, <2>2, <2>3, WritesNothing, Zenon DEF p, ps
  <2>5. EraseData(p, {}) = p
    BY Zenon, <1>6 DEF EraseData, Restrict, Tree
  <2> QED BY Zenon, <2>4, <2>5
<1> QED BY Zenon, <1>2, <1>5, <1>6, <1>7 DEF p, ps
=============================================================================
