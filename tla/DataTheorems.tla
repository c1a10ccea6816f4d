---------------------------- MODULE DataTheorems ----------------------------
(***************************************************************************)
(* What folds over sets and sequences compute, and prefixes of sequences.  *)
(* The library's induction theorems take an operator; here an induction is *)
(* the absence of a least counterexample.                                  *)
(***************************************************************************)
EXTENDS Lists, Functions, FiniteSetTheorems, SequenceTheorems, TLAPS

\* A set of naturals has a least member.
LEMMA LeastNat ==
  ASSUME NEW T \in SUBSET Nat, T # {}
  PROVE  \E m \in T : \A n \in T : m <= n
<1>1. PICK m \in T : \A n \in T : ~(<<n, m>> \in OpToRel(<, Nat))
  BY Zenon, NatLessThanWellFounded, WFMin
<1>2. \A n \in T : ~(n < m)
  BY <1>1, Zenon DEF OpToRel
<1> QED BY <1>2

\* A set of subsets of a finite set has a minimal member.
LEMMA MinimalSet ==
  ASSUME NEW S, IsFiniteSet(S), NEW C, C \subseteq SUBSET S, C # {}
  PROVE  \E T \in C : \A U \in C : U \subseteq T => U = T
<1>1. C \subseteq FiniteSubsetsOf(S)
  BY FS_Subset DEF FiniteSubsetsOf
<1>2. PICK T \in C : \A U \in C : ~(<<U, T>> \in StrictSubsetOrdering(S))
  BY <1>1, FS_StrictSubsetOrderingWellFounded, WFMin
<1>3. ASSUME NEW U \in C, U \subseteq T, U # T PROVE FALSE
  BY Zenon, <1>2, <1>3 DEF StrictSubsetOrdering
<1> QED BY <1>3

\* What MapThenFoldSet computes: a function on the subsets of S that takes one member at
\* a time.  C picks the member, g is the step, and W what the step keeps.
IsFold(it, S, b, C, g) ==
    it = [s \in SUBSET S |-> IF s = {} THEN b ELSE g[<<s, it[s \ {C[s]}]>>]]
Keeps(S, b, C, g, W) ==
    /\ IsFiniteSet(S)
    /\ \A s \in SUBSET S : s # {} => C[s] \in s
    /\ b \in W[{}]
    /\ \A s \in SUBSET S : s # {} => \A d \in W[s \ {C[s]}] : g[<<s, d>>] \in W[s]

\* There is such a function, and its values stay in W.
LEMMA FoldExists ==
  ASSUME NEW S, NEW b, NEW C, NEW g, NEW W, Keeps(S, b, C, g, W)
  PROVE  \E it : IsFold(it, S, b, C, g) /\ \A s \in SUBSET S : it[s] \in W[s]
<1> USE DEF Keeps
<1> DEFINE F(n) == {s \in SUBSET S : Cardinality(s) <= n}
           Eq(h, n) == h = [s \in F(n) |-> IF s = {} THEN b ELSE g[<<s, h[s \ {C[s]}]>>]]
           Bad == {n \in Nat : ~\E h : Eq(h, n)}
<1>1. \A s \in SUBSET S : /\ IsFiniteSet(s) /\ Cardinality(s) \in Nat
                          /\ Cardinality(s) = 0 <=> s = {}
  BY FS_Subset, FS_CardinalityType, FS_EmptySet
<1>2. \A s \in SUBSET S : s # {} => /\ s \ {C[s]} \in SUBSET S
                                    /\ Cardinality(s \ {C[s]}) = Cardinality(s) - 1
  BY <1>1, FS_RemoveElement, Zenon
<1>3. Bad = {}
  <2> SUFFICES ASSUME Bad # {} PROVE FALSE
    BY Zenon
  <2>1. PICK n \in Bad : \A m \in Bad : n <= m
    BY LeastNat, Zenon
  <2>2. CASE n = 0
    <3> DEFINE h == [s \in F(0) |-> b]
    <3>1. F(0) = {{}}
      BY <1>1
    <3>2. h = [s \in F(0) |-> IF s = {} THEN b ELSE g[<<s, h[s \ {C[s]}]>>]]
      BY <3>1
    <3> QED BY <2>1, <2>2, <3>2, Zenon
  <2>3. CASE n # 0
    <3>1. n - 1 \in Nat /\ n \in Nat /\ ~(n <= n - 1)
      BY <2>3
    <3>2. PICK h : Eq(h, n - 1)
      BY <2>1, <3>1, Zenon
    <3> DEFINE k == [s \in F(n) |-> IF s = {} THEN b ELSE g[<<s, h[s \ {C[s]}]>>]]
    <3>a. \A u \in F(n - 1) : u \in F(n)
      BY <3>1, <1>1
    <3>3. \A u \in F(n - 1) : h[u] = k[u]
      <4> SUFFICES ASSUME NEW u \in F(n - 1) PROVE h[u] = k[u]
        BY Zenon
      <4>1. h[u] = IF u = {} THEN b ELSE g[<<u, h[u \ {C[u]}]>>]
        BY <3>2, Zenon
      <4>2. k[u] = IF u = {} THEN b ELSE g[<<u, h[u \ {C[u]}]>>]
        BY <3>a, Zenon
      <4> QED BY <4>1, <4>2, Zenon
    <3>4. \A s \in F(n) : s # {} => s \ {C[s]} \in F(n - 1)
      BY <1>1, <1>2, <3>1
    <3>5. \A s \in F(n) : s # {} => h[s \ {C[s]}] = k[s \ {C[s]}]
      BY <3>3, <3>4, Zenon
    <3>6. k = [s \in F(n) |-> IF s = {} THEN b ELSE g[<<s, k[s \ {C[s]}]>>]]
      BY <3>5, Zenon
    <3> QED BY <2>1, <3>6, Zenon
  <2> QED BY <2>2, <2>3
<1>4. Cardinality(S) \in Nat /\ F(Cardinality(S)) = SUBSET S
  BY <1>1, FS_Subset
<1>5. PICK it : it = [s \in SUBSET S |-> IF s = {} THEN b ELSE g[<<s, it[s \ {C[s]}]>>]]
  <2>1. PICK h : Eq(h, Cardinality(S))
    BY <1>3, <1>4, Zenon
  <2> HIDE DEF F
  <2> QED BY <1>4, <2>1, Zenon
<1>6. ASSUME NEW s \in SUBSET S, it[s] \notin W[s] PROVE FALSE
  <2> DEFINE Out == {u \in SUBSET S : it[u] \notin W[u]}
  <2>0. Out \subseteq SUBSET S /\ Out # {}
    BY <1>6, Zenon
  <2>1. PICK u \in Out : \A v \in Out : v \subseteq u => v = u
    <3> HIDE DEF Out
    <3> QED BY <2>0, MinimalSet
  <2>2. u # {} /\ C[u] \in u
    BY <1>5, <2>1, Zenon
  <2>3. u \ {C[u]} \in SUBSET S /\ it[u \ {C[u]}] \in W[u \ {C[u]}]
    BY <2>1, <2>2
  <2>4. it[u] = g[<<u, it[u \ {C[u]}]>>]
    BY <1>5, <2>2, Zenon
  <2> QED BY <2>1, <2>2, <2>3, <2>4, Zenon
<1> QED BY <1>5, <1>6, Zenon DEF IsFold

\* A property that each step of a fold keeps holds of its values.
LEMMA FoldStays ==
  ASSUME NEW S, IsFiniteSet(S), NEW it, NEW C, NEW W,
         it[{}] \in W[{}],
         \A s \in SUBSET S : s # {} =>
            C[s] \in s /\ (it[s \ {C[s]}] \in W[s \ {C[s]}] => it[s] \in W[s])
  PROVE  it[S] \in W[S]
<1> DEFINE Out == {u \in SUBSET S : it[u] \notin W[u]}
<1> SUFFICES ASSUME it[S] \notin W[S] PROVE FALSE
  BY Zenon
<1>1. Out \subseteq SUBSET S /\ Out # {}
  BY Zenon
<1>2. PICK u \in Out : \A v \in Out : v \subseteq u => v = u
  <2> HIDE DEF Out
  <2> QED BY <1>1, MinimalSet
<1>3. u # {} /\ C[u] \in u /\ u \in SUBSET S
  BY <1>2, ZenonT(60)
<1>4. u \ {C[u]} \in SUBSET S /\ it[u \ {C[u]}] \in W[u \ {C[u]}]
  BY <1>2, <1>3
<1> QED BY <1>2, <1>3, <1>4, ZenonT(60)

\* What holds of the empty set, and of a set when it holds of the set without a member that
\* C picks, holds of every finite set.
LEMMA SubsetInduction ==
  ASSUME NEW S, IsFiniteSet(S), NEW C, NEW T, {} \in T,
         \A s \in SUBSET S : s # {} => C[s] \in s /\ (s \ {C[s]} \in T => s \in T)
  PROVE  S \in T
<1> DEFINE Out == {u \in SUBSET S : u \notin T}
<1> SUFFICES ASSUME S \notin T PROVE FALSE
  BY Zenon
<1>1. Out \subseteq SUBSET S /\ Out # {}
  BY Zenon
<1>2. PICK u \in Out : \A v \in Out : v \subseteq u => v = u
  <2> HIDE DEF Out
  <2> QED BY <1>1, MinimalSet
<1>3. u # {} /\ C[u] \in u /\ u \in SUBSET S
  <2>1. u \in SUBSET S /\ u \notin T
    BY <1>2
  <2>2. u # {}
    BY <2>1
  <2> QED BY <2>1, <2>2, Zenon
<1>4. u \ {C[u]} \in SUBSET S /\ u \ {C[u]} \subseteq u /\ u \ {C[u]} # u
  BY <1>3
<1>5. u \ {C[u]} \in T
  BY <1>2, <1>4, Zenon
<1> QED BY <1>2, <1>3, <1>5, Zenon

\* Max of a non-empty set of list positions is its greatest member.
LEMMA MaxMember ==
  ASSUME NEW n \in Nat, NEW s \in SUBSET (1..n), s # {}
  PROVE  Max(s) \in s /\ \A y \in s : Max(s) >= y
<1> DEFINE B == {m \in Nat : \A y \in s : m >= y}
<1>1. n \in B
  OBVIOUS
<1>2. PICK m \in B : \A k \in B : m <= k
  <2>1. B \in SUBSET Nat /\ B # {}
    BY <1>1
  <2> HIDE DEF B
  <2> QED BY <2>1, LeastNat
<1>3. m \in s
  <2> SUFFICES ASSUME m \notin s PROVE FALSE
    OBVIOUS
  <2>1. \A y \in s : y \in Nat /\ y >= 1 /\ m >= y /\ y # m
    BY <1>2
  <2>2. PICK y \in s : y >= 1 /\ m >= y
    BY Zenon, <2>1
  <2>3. m \in Nat /\ y \in Nat
    BY <1>2, <2>1
  <2>4. m - 1 \in Nat /\ m - 1 < m
    BY <2>2, <2>3
  <2>5. \A x \in s : m - 1 >= x
    BY <2>1, <2>3
  <2>6. m - 1 \in B
    BY <2>4, <2>5
  <2>7. m <= m - 1
    BY <1>2, <2>6, Zenon
  <2> QED BY <2>3, <2>7
<1>4. \E x \in s : \A y \in s : x >= y
  BY <1>2, <1>3
<1> QED BY Zenon, <1>4 DEF Max

\* The positions of a sequence, and the last of some of them.
LEMMA LastMember ==
  ASSUME NEW A, NEW l \in Seq(A)
  PROVE  IsFiniteSet(DOMAIN l) /\ \A s \in SUBSET DOMAIN l : s # {} => Max(s) \in s
<1>1. DOMAIN l = 1..Len(l) /\ Len(l) \in Nat
  OBVIOUS
<1>2. IsFiniteSet(1..Len(l))
  BY <1>1, FS_Interval
<1>3. \A s \in SUBSET (1..Len(l)) : s # {} => Max(s) \in s
  BY <1>1, MaxMember, Zenon
<1> QED BY <1>1, <1>2, <1>3

Pick(s) == CHOOSE x \in s : TRUE

\* Pick takes a member.
LEMMA PickMember == ASSUME NEW s, s # {} PROVE Pick(s) \in s
  BY DEF Pick

-----------------------------------------------------------------------------
(* Prefixes.                                                               *)

\* A prefix, element by element.
LEMMA PrefixElements ==
  ASSUME NEW A, NEW p \in Seq(A), NEW q \in Seq(A)
  PROVE  IsPrefix(p, q) <=> Len(p) <= Len(q) /\ \A i \in 1..Len(p) : p[i] = q[i]
<1>1. Len(p) \in Nat /\ Len(q) \in Nat
  OBVIOUS
<1>2. SubSeq(p, 1, Len(p)) = p
  OBVIOUS
<1>3. CASE Len(p) <= Len(q)
  <2> DEFINE t == SubSeq(q, 1, Len(p))
  <2>1. t \in Seq(A) /\ Len(t) = Len(p) /\ \A i \in 1..Len(p) : t[i] = q[i]
    BY <1>1, <1>3, SubSeqProperties
  <2> HIDE DEF t
  <2>2. t = p <=> \A i \in 1..Len(p) : p[i] = q[i]
    BY <2>1, SeqEqual
  <2> QED BY <1>2, <1>3, <2>2 DEF IsPrefix, t
<1> QED BY <1>3, Zenon DEF IsPrefix

\* The empty path is a prefix of all, and a path one of itself.
LEMMA PrefixRefl ==
  ASSUME NEW A, NEW p \in Seq(A)
  PROVE  IsPrefix(p, p) /\ IsPrefix(<<>>, p)
<1>1. <<>> \in Seq(A) /\ Len(<<>>) = 0 /\ Len(p) \in Nat
  OBVIOUS
<1>2. IsPrefix(p, p)
  BY <1>1, PrefixElements
<1>3. Len(<<>>) <= Len(p) /\ \A i \in 1..Len(<<>>) : <<>>[i] = p[i]
  BY <1>1
<1>4. IsPrefix(<<>>, p)
  BY <1>1, <1>3, PrefixElements, Zenon
<1> QED BY <1>2, <1>4

\* Prefixes of prefixes are prefixes.
LEMMA PrefixTrans ==
  ASSUME NEW A, NEW p \in Seq(A), NEW q \in Seq(A), NEW t \in Seq(A),
         IsPrefix(p, q), IsPrefix(q, t)
  PROVE  IsPrefix(p, t)
<1>1. Len(p) \in Nat /\ Len(q) \in Nat /\ Len(t) \in Nat
  OBVIOUS
<1> QED BY <1>1, PrefixElements

\* Prefixes of one path are prefixes of each other.
LEMMA PrefixTotal ==
  ASSUME NEW A, NEW p \in Seq(A), NEW q \in Seq(A), NEW t \in Seq(A),
         IsPrefix(p, t), IsPrefix(q, t)
  PROVE  IsPrefix(p, q) \/ IsPrefix(q, p)
<1>1. Len(p) \in Nat /\ Len(q) \in Nat /\ Len(t) \in Nat
  OBVIOUS
<1> QED BY <1>1, PrefixElements

\* Prefixes of each other are equal.
LEMMA PrefixAnti ==
  ASSUME NEW A, NEW p \in Seq(A), NEW q \in Seq(A), IsPrefix(p, q), IsPrefix(q, p)
  PROVE  p = q
<1>1. Len(p) \in Nat /\ Len(q) \in Nat
  OBVIOUS
<1>2. Len(p) = Len(q) /\ \A i \in 1..Len(p) : p[i] = q[i]
  BY <1>1, PrefixElements
<1> QED BY <1>2, SeqEqual

\* The prefixes of a path are its first parts.
LEMMA PrefixParts ==
  ASSUME NEW A, NEW p \in Seq(A)
  PROVE  /\ \A i \in 0..Len(p) : /\ SubSeq(p, 1, i) \in Seq(A) /\ IsPrefix(SubSeq(p, 1, i), p)
                                 /\ Len(SubSeq(p, 1, i)) = i
         /\ \A q \in Seq(A) : IsPrefix(q, p) => Len(q) \in 0..Len(p) /\ q = SubSeq(p, 1, Len(q))
<1>1. Len(p) \in Nat
  OBVIOUS
<1>2. ASSUME NEW i \in 0..Len(p)
      PROVE  SubSeq(p, 1, i) \in Seq(A) /\ IsPrefix(SubSeq(p, 1, i), p) /\ Len(SubSeq(p, 1, i)) = i
  <2> DEFINE t == SubSeq(p, 1, i)
  <2>1. t \in Seq(A) /\ Len(t) = i /\ \A j \in 1..i : t[j] = p[j]
    BY <1>1, SubSeqProperties
  <2> HIDE DEF t
  <2>2. IsPrefix(t, p)
    BY <1>1, <2>1, PrefixElements
  <2> QED BY <2>1, <2>2 DEF t
<1>3. ASSUME NEW q \in Seq(A), IsPrefix(q, p)
      PROVE  Len(q) \in 0..Len(p) /\ q = SubSeq(p, 1, Len(q))
  <2>1. SubSeq(q, 1, Len(q)) = q /\ Len(q) \in Nat
    OBVIOUS
  <2> QED BY <1>1, <1>3, <2>1 DEF IsPrefix
<1> QED BY <1>2, <1>3

\* The front of a path is a prefix, and every prefix but the path itself is one of it.
LEMMA FrontPrefix ==
  ASSUME NEW A, NEW p \in Seq(A)
  PROVE  /\ Front(p) \in Seq(A) /\ IsPrefix(Front(p), p)
         /\ p # <<>> => /\ ~IsPrefix(p, Front(p))
                        /\ \A q \in Seq(A) : IsPrefix(q, p) /\ q # p => IsPrefix(q, Front(p))
<1>1. Len(p) \in Nat
  OBVIOUS
<1>2. CASE p = <<>>
  <2>1. Front(p) = <<>>
    BY <1>2 DEF Front
  <2> QED BY <1>2, <2>1, PrefixRefl
<1>3. CASE p # <<>>
  <2>1. Len(p) >= 1 /\ Len(p) - 1 \in 0..Len(p)
    BY <1>1, <1>3
  <2>2. Front(p) \in Seq(A) /\ IsPrefix(Front(p), p) /\ Len(Front(p)) = Len(p) - 1
    BY <2>1, PrefixParts DEF Front
  <2>3. ~IsPrefix(p, Front(p))
    BY <1>1, <2>2, PrefixElements
  <2>4. ASSUME NEW q \in Seq(A), IsPrefix(q, p), q # p
        PROVE  IsPrefix(q, Front(p))
    <3>1. IsPrefix(q, Front(p)) \/ IsPrefix(Front(p), q)
      BY <2>2, <2>4, PrefixTotal
    <3>2. Len(q) \in Nat /\ Len(q) <= Len(p)
      BY <2>4, PrefixElements
    <3>3. Len(q) # Len(p)
      <4> SUFFICES ASSUME Len(q) = Len(p) PROVE FALSE
        OBVIOUS
      <4>1. \A i \in 1..Len(p) : p[i] = q[i]
        BY <2>4, PrefixElements
      <4> QED BY <2>4, <4>1, SeqEqual
    <3>4. CASE IsPrefix(Front(p), q)
      <4>1. Len(Front(p)) = Len(q)
        BY <1>1, <2>2, <3>2, <3>3, <3>4, PrefixElements
      <4>2. IsPrefix(q, Front(p))
        BY <2>2, <3>4, <4>1, PrefixElements
      <4> QED BY <4>2
    <3> QED BY <3>1, <3>4
  <2> QED BY <2>2, <2>3, <2>4
<1> QED BY <1>2, <1>3

\* A path below p is p and what is behind it.
LEMMA Behind ==
  ASSUME NEW A, NEW p \in Seq(A)
  PROVE  /\ \A q \in Seq(A) : IsPrefix(p, q) =>
               /\ SubSeq(q, Len(p) + 1, Len(q)) \in Seq(A)
               /\ p \o SubSeq(q, Len(p) + 1, Len(q)) = q
         /\ \A s \in Seq(A) : /\ p \o s \in Seq(A) /\ IsPrefix(p, p \o s)
                              /\ SubSeq(p \o s, Len(p) + 1, Len(p \o s)) = s
<1>1. Len(p) \in Nat
  OBVIOUS
<1>2. ASSUME NEW s \in Seq(A)
      PROVE  /\ p \o s \in Seq(A) /\ IsPrefix(p, p \o s)
             /\ SubSeq(p \o s, Len(p) + 1, Len(p \o s)) = s
  <2> DEFINE t == p \o s
             u == SubSeq(t, Len(p) + 1, Len(t))
  <2>1. /\ t \in Seq(A) /\ Len(t) = Len(p) + Len(s) /\ Len(s) \in Nat
        /\ \A i \in 1..(Len(p) + Len(s)) : t[i] = IF i <= Len(p) THEN p[i] ELSE s[i - Len(p)]
    BY ConcatProperties
  <2> HIDE DEF t
  <2>2. IsPrefix(p, t)
    BY <1>1, <2>1, PrefixElements
  <2>3. u \in Seq(A) /\ Len(u) = Len(s) /\ \A i \in 1..Len(s) : u[i] = t[Len(p) + i]
    BY <1>1, <2>1, SubSeqProperties
  <2> HIDE DEF u
  <2>4. \A i \in 1..Len(s) : u[i] = s[i]
    <3> SUFFICES ASSUME NEW i \in 1..Len(s) PROVE u[i] = s[i]
      OBVIOUS
    <3>1. Len(p) + i \in 1..(Len(p) + Len(s)) /\ ~(Len(p) + i <= Len(p)) /\ (Len(p) + i) - Len(p) = i
      BY <1>1, <2>1
    <3>2. t[Len(p) + i] = s[(Len(p) + i) - Len(p)]
      BY <2>1, <3>1, Zenon
    <3> QED BY <2>3, <3>1, <3>2
  <2>5. u = s
    BY <2>3, <2>4, SeqEqual
  <2> QED BY <2>1, <2>2, <2>5 DEF t, u
<1>3. ASSUME NEW q \in Seq(A), IsPrefix(p, q)
      PROVE  /\ SubSeq(q, Len(p) + 1, Len(q)) \in Seq(A)
             /\ p \o SubSeq(q, Len(p) + 1, Len(q)) = q
  <2> DEFINE u == SubSeq(q, Len(p) + 1, Len(q))
             t == p \o u
  <2>1. Len(q) \in Nat /\ Len(p) <= Len(q) /\ \A i \in 1..Len(p) : p[i] = q[i]
    BY <1>3, PrefixElements
  <2>2. u \in Seq(A) /\ Len(u) = Len(q) - Len(p) /\ \A i \in 1..Len(u) : u[i] = q[Len(p) + i]
    BY <1>1, <2>1, SubSeqProperties
  <2> HIDE DEF u
  <2>3. /\ t \in Seq(A) /\ Len(t) = Len(p) + Len(u)
        /\ \A i \in 1..(Len(p) + Len(u)) : t[i] = IF i <= Len(p) THEN p[i] ELSE u[i - Len(p)]
    BY <2>2, ConcatProperties
  <2> HIDE DEF t
  <2>4. Len(t) = Len(q) /\ \A i \in 1..Len(q) : t[i] = q[i]
    BY <1>1, <2>1, <2>2, <2>3
  <2>5. t = q
    BY <2>3, <2>4, SeqEqual
  <2> QED BY <2>2, <2>5 DEF t, u
<1> QED BY <1>2, <1>3
=============================================================================
