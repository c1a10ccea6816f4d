----------------------- MODULE InterQueryCacheProofs ------------------------
(***************************************************************************)
(* Proofs about InterQueryCache: the map, the list and the total agree,    *)
(* insertions stay within the limit and eviction takes the oldest, for any *)
(* keys, sizes, configurations and lengths of the list.                    *)
(*                                                                         *)
(* The loops of the code are folds, and what a fold computes is shown by   *)
(* induction, in the form that a least counterexample does not exist.      *)
(***************************************************************************)
EXTENDS InterQueryCache, DataTheorems

-----------------------------------------------------------------------------
(* Sums.                                                                   *)

Total(f, D) == MapThenSumSet(LAMBDA k : f[k].size, D)
Sums(it, f, D) ==
    it = [s \in SUBSET D |-> IF s = {} THEN 0 ELSE f[Pick(s)].size + it[s \ {Pick(s)}]]
Sized(f, D) == IsFiniteSet(D) /\ \A k \in D : f[k].size \in Nat

\* The sum over a finite set is computed.
LEMMA SumsExist ==
  ASSUME NEW f, NEW D, Sized(f, D)
  PROVE  \E it : Sums(it, f, D) /\ \A s \in SUBSET D : it[s] \in Nat
<1> DEFINE C == [s \in SUBSET D |-> Pick(s)]
           g == [p \in (SUBSET D) \X Nat |-> f[Pick(p[1])].size + p[2]]
           W == [s \in SUBSET D |-> Nat]
<1>1. \A s \in SUBSET D : s # {} => C[s] \in s /\ f[Pick(s)].size \in Nat
  BY Zenon, PickMember DEF Sized
<1>2. \A s \in SUBSET D : \A d \in Nat : g[<<s, d>>] = f[Pick(s)].size + d
  BY Zenon
<1>3. \A s \in SUBSET D : s # {} => \A d \in W[s \ {C[s]}] : g[<<s, d>>] \in W[s]
  <2>1. \A s \in SUBSET D : W[s] = Nat /\ W[s \ {C[s]}] = Nat
    BY Zenon
  <2> HIDE DEF W, g, C
  <2> QED BY <1>1, <1>2, <2>1
<1>4. 0 \in W[{}]
  BY Zenon
<1>5. PICK it : IsFold(it, D, 0, C, g) /\ \A s \in SUBSET D : it[s] \in W[s]
  <2> HIDE DEF C, g, W
  <2>1. Keeps(D, 0, C, g, W)
    BY Zenon, <1>1, <1>3, <1>4 DEF Keeps, Sized
  <2> QED BY Zenon, <2>1, FoldExists
<1>6. \A s \in SUBSET D : it[s] \in Nat
  BY <1>5, Zenon
<1>7. \A s \in SUBSET D : s # {} =>
         /\ C[s] = Pick(s)
         /\ g[<<s, it[s \ {Pick(s)}]>>] = f[Pick(s)].size + it[s \ {Pick(s)}]
  BY Zenon, <1>2, <1>6
<1>8. Sums(it, f, D)
  <2> HIDE DEF C, g, W
  <2> QED BY <1>5, <1>7, Zenon DEF Sums, IsFold
<1> QED BY Zenon, <1>6, <1>8

\* It depends on the sizes only.
LEMMA SumsAgree ==
  ASSUME NEW f, NEW D, NEW h, Sums(h, f, D), NEW e, NEW E, NEW k, Sums(k, e, E),
         NEW U, IsFiniteSet(U), U \subseteq D, U \subseteq E,
         \A x \in U : f[x].size = e[x].size
  PROVE  h[U] = k[U]
<1> SUFFICES ASSUME h[U] # k[U] PROVE FALSE
  BY Zenon
<1> DEFINE Bad == {s \in SUBSET U : h[s] # k[s]}
<1>1. Bad \subseteq SUBSET U /\ Bad # {}
  BY Zenon
<1>2. PICK s \in Bad : \A v \in Bad : v \subseteq s => v = s
  <2> HIDE DEF Bad
  <2> QED BY <1>1, MinimalSet
<1>3. s \in SUBSET D /\ s \in SUBSET E
  BY Zenon, <1>2
<1>4. h[s] = IF s = {} THEN 0 ELSE f[Pick(s)].size + h[s \ {Pick(s)}]
  BY <1>3, Zenon DEF Sums
<1>5. k[s] = IF s = {} THEN 0 ELSE e[Pick(s)].size + k[s \ {Pick(s)}]
  BY <1>3, Zenon DEF Sums
<1>6. s # {} => Pick(s) \in U /\ h[s \ {Pick(s)}] = k[s \ {Pick(s)}]
  BY <1>2, PickMember
<1>7. h[s] = k[s]
  BY Zenon, <1>4, <1>5, <1>6
<1> QED BY Zenon, <1>2, <1>7

\* The total is the value of a running sum over the whole set.
LEMMA TotalSums ==
  ASSUME NEW f, NEW D, Sized(f, D)
  PROVE  \E it : /\ Sums(it, f, D) /\ Total(f, D) = it[D]
                 /\ \A s \in SUBSET D : it[s] \in Nat
<1> DEFINE it == CHOOSE h : Sums(h, f, D)
<1>1. Total(f, D) = it[D]
  BY Zenon DEF Total, MapThenSumSet, MapThenFoldSet, Sums, Pick
<1>2. PICK k : Sums(k, f, D) /\ \A s \in SUBSET D : k[s] \in Nat
  BY Zenon, SumsExist
<1>3. Sums(it, f, D)
  BY Zenon, <1>2
<1>4. ASSUME NEW s \in SUBSET D PROVE it[s] \in Nat
  <2> HIDE DEF it
  <2>1. IsFiniteSet(s) /\ s \subseteq D
    BY Zenon, FS_Subset DEF Sized
  <2>2. it[s] = k[s]
    BY <1>2, <1>3, <2>1, SumsAgree
  <2> QED BY Zenon, <1>2, <2>2
<1> QED BY Zenon, <1>1, <1>3, <1>4

\* Sums over equal sizes are equal.
LEMMA TotalSame ==
  ASSUME NEW f, NEW e, NEW D, Sized(f, D), \A k \in D : f[k].size = e[k].size
  PROVE  Total(f, D) = Total(e, D)
<1>1. PICK h : Sums(h, f, D) /\ Total(f, D) = h[D]
  BY Zenon, TotalSums
<1>2. Sized(e, D)
  BY Zenon DEF Sized
<1>3. PICK k : Sums(k, e, D) /\ Total(e, D) = k[D]
  BY Zenon, <1>2, TotalSums
<1> QED BY <1>1, <1>3, SumsAgree DEF Sized

\* A sum is a natural number, that of no sizes zero, and one more size adds to it,
\* whichever is picked first.
LEMMA TotalOne ==
  ASSUME NEW f, NEW D, Sized(f, D)
  PROVE  /\ Total(f, D) \in Nat
         /\ D = {} => Total(f, D) = 0
         /\ D # {} => Total(f, D) = f[Pick(D)].size + Total(f, D \ {Pick(D)})
<1>1. PICK h : Sums(h, f, D) /\ Total(f, D) = h[D] /\ h[D] \in Nat
  BY Zenon, TotalSums
<1>2. h[D] = IF D = {} THEN 0 ELSE f[Pick(D)].size + h[D \ {Pick(D)}]
  BY <1>1, Zenon DEF Sums
<1> DEFINE R == D \ {Pick(D)}
<1>3. Sized(f, R) /\ IsFiniteSet(R) /\ R \subseteq D
  BY Zenon, FS_Subset DEF Sized
<1>4. PICK k : Sums(k, f, R) /\ Total(f, R) = k[R]
  BY Zenon, <1>3, TotalSums
<1>5. h[R] = k[R]
  <2> HIDE DEF R
  <2> QED BY <1>1, <1>3, <1>4, SumsAgree
<1> QED BY Zenon, <1>1, <1>2, <1>4, <1>5

\* Any entry may be counted last: the total does not depend on the order.
LEMMA TotalAdd ==
  ASSUME NEW f, NEW D, Sized(f, D), NEW y \in D
  PROVE  Total(f, D) = Total(f, D \ {y}) + f[y].size
<1> DEFINE Bad == {s \in SUBSET D : \E x \in s : Total(f, s) # Total(f, s \ {x}) + f[x].size}
<1> SUFFICES ASSUME Bad # {} PROVE FALSE
  BY Zenon
<1>1. IsFiniteSet(D) /\ Bad \subseteq SUBSET D
  BY Zenon DEF Sized
<1>2. PICK s \in Bad : \A v \in Bad : v \subseteq s => v = s
  <2> HIDE DEF Bad
  <2> QED BY <1>1, MinimalSet
<1>3. PICK x \in s : Total(f, s) # Total(f, s \ {x}) + f[x].size
  BY Zenon, <1>2
<1>4. \A v \in SUBSET D : Sized(f, v) /\ Total(f, v) \in Nat
  BY FS_Subset, TotalOne, ZenonT(30) DEF Sized
<1>5. s \in SUBSET D /\ \A k \in D : f[k].size \in Nat
  BY Zenon, <1>2 DEF Sized
<1>6. PICK p : p = Pick(s)
  BY Zenon
<1>7. p \in s /\ Total(f, s) = f[p].size + Total(f, s \ {p})
  BY Zenon, <1>3, <1>4, <1>5, <1>6, TotalOne, PickMember
<1> HIDE DEF Bad
<1>8. p # x
  <2>1. f[x].size \in Nat /\ Total(f, s \ {x}) \in Nat
    BY Zenon, <1>3, <1>4, <1>5
  <2>2. ASSUME p = x PROVE Total(f, s) = f[x].size + Total(f, s \ {x})
    BY <1>7, <2>2, Zenon
  <2>3. f[x].size + Total(f, s \ {x}) = Total(f, s \ {x}) + f[x].size
    BY <2>1
  <2> QED BY <1>3, <2>2, <2>3, Zenon
<1>9. Total(f, s \ {p}) = Total(f, (s \ {p}) \ {x}) + f[x].size
  <2>1. s \ {p} \in SUBSET D /\ s \ {p} \notin Bad /\ x \in s \ {p}
    BY <1>2, <1>3, <1>5, <1>7, <1>8, ZenonT(60)
  <2> QED BY <2>1, Zenon DEF Bad
<1>10. Total(f, s \ {x}) = Total(f, (s \ {x}) \ {p}) + f[p].size
  <2>1. s \ {x} \in SUBSET D /\ s \ {x} \notin Bad /\ p \in s \ {x}
    BY <1>2, <1>3, <1>5, <1>7, <1>8, ZenonT(60)
  <2> QED BY <2>1, Zenon DEF Bad
<1>11. (s \ {x}) \ {p} = (s \ {p}) \ {x}
  BY Zenon
<1>12. Total(f, (s \ {p}) \ {x}) \in Nat /\ f[p].size \in Nat /\ f[x].size \in Nat
  BY Zenon, <1>3, <1>4, <1>5, <1>7
<1> QED BY SMTT(60), <1>3, <1>7, <1>9, <1>10, <1>11, <1>12

-----------------------------------------------------------------------------
(* The list.                                                               *)

\* Removing a key from a list that holds it once keeps the others, in their order.
LEMMA RemoveFirstKeeps ==
  ASSUME NEW l \in Seq(Keys), IsInjective(l), NEW i \in 1..Len(l)
  PROVE  /\ RemoveFirst(l, l[i]) \in Seq(Keys)
         /\ Len(RemoveFirst(l, l[i])) = Len(l) - 1
         /\ \A j \in 1..(Len(l) - 1) :
               RemoveFirst(l, l[i])[j] = IF j < i THEN l[j] ELSE l[j + 1]
<1>1. Len(l) \in Nat /\ DOMAIN l = 1..Len(l)
  OBVIOUS
<1>2. {j \in 1..Len(l) : l[j] = l[i]} = {i}
  BY Zenon, <1>1 DEF IsInjective
<1>3. SelectInSeq(l, LAMBDA v : v = l[i]) = i
  BY <1>2 DEF SelectInSeq, Min
<1>4. RemoveFirst(l, l[i]) = SubSeq(l, 1, i - 1) \o SubSeq(l, i + 1, Len(l))
  BY Zenon, <1>3 DEF RemoveFirst, RemoveAt
<1> PICK n \in Nat : n = Len(l)
  BY Zenon, <1>1
<1> DEFINE a == SubSeq(l, 1, i - 1)
           b == SubSeq(l, i + 1, Len(l))
<1>5. a \in Seq(Keys) /\ Len(a) = i - 1 /\ \A j \in 1..(i - 1) : a[j] = l[j]
  BY <1>1, SubSeqProperties
<1>6. b \in Seq(Keys) /\ Len(b) = Len(l) - i /\ \A j \in 1..(Len(l) - i) : b[j] = l[i + j]
  <2>1. \A j \in (i + 1)..Len(l) : l[j] \in Keys
    BY <1>1
  <2>2. /\ b \in Seq(Keys)
        /\ Len(b) = IF i + 1 <= Len(l) THEN Len(l) - (i + 1) + 1 ELSE 0
        /\ \A j \in 1..(Len(l) - (i + 1) + 1) : b[j] = l[(i + 1) + j - 1]
    BY <1>1, <2>1, SubSeqProperties
  <2> HIDE DEF b
  <2>3. \A j \in 1..(Len(l) - i) : j \in 1..(Len(l) - (i + 1) + 1) /\ (i + 1) + j - 1 = i + j
    BY <1>1
  <2>4. (IF i + 1 <= n THEN n - (i + 1) + 1 ELSE 0) = n - i
    <3>1. i \in Nat /\ i <= n
      OBVIOUS
    <3> QED BY <3>1
  <2>5. Len(b) = Len(l) - i
    BY <2>2, <2>4
  <2> QED BY Zenon, <2>2, <2>3, <2>5
<1> HIDE DEF a, b
<1>7. /\ a \o b \in Seq(Keys)
      /\ Len(a \o b) = Len(l) - 1
      /\ \A j \in 1..(Len(l) - 1) : (a \o b)[j] = IF j <= i - 1 THEN a[j] ELSE b[j - (i - 1)]
  <2>1. /\ a \o b \in Seq(Keys)
        /\ Len(a \o b) = Len(a) + Len(b)
        /\ \A j \in 1..(Len(a) + Len(b)) :
              (a \o b)[j] = IF j <= Len(a) THEN a[j] ELSE b[j - Len(a)]
    BY <1>5, <1>6, ConcatProperties, Zenon
  <2>2. Len(a) = i - 1 /\ Len(b) = Len(l) - i
    BY <1>5, <1>6, Zenon
  <2>3. (i - 1) + (Len(l) - i) = Len(l) - 1
    BY <1>1
  <2>4. Len(a) + Len(b) = Len(l) - 1 /\ Len(a) = i - 1
    BY <2>2, <2>3, ZenonT(60)
  <2> QED BY Zenon, <2>1, <2>4
<1>8. \A j \in 1..(Len(l) - 1) : (a \o b)[j] = IF j < i THEN l[j] ELSE l[j + 1]
  BY <1>1, <1>5, <1>6, <1>7
<1> QED BY Zenon, <1>4, <1>7, <1>8 DEF a, b

\* RemoveFirst takes exactly the given value out of a sequence without duplicates.
LEMMA RemoveFirstRange ==
  ASSUME NEW l \in Seq(Keys), IsInjective(l), NEW k \in Range(l)
  PROVE  /\ RemoveFirst(l, k) \in Seq(Keys)
         /\ IsInjective(RemoveFirst(l, k))
         /\ Range(RemoveFirst(l, k)) = Range(l) \ {k}
<1>1. Len(l) \in Nat /\ DOMAIN l = 1..Len(l)
  OBVIOUS
<1>2. PICK i \in 1..Len(l) : l[i] = k
  BY Zenon, <1>1 DEF Range
<1> DEFINE r == RemoveFirst(l, k)
<1>3. /\ r \in Seq(Keys) /\ Len(r) = Len(l) - 1
      /\ \A j \in 1..(Len(l) - 1) : r[j] = IF j < i THEN l[j] ELSE l[j + 1]
  BY Zenon, <1>2, RemoveFirstKeeps
<1> HIDE DEF r
<1>4. DOMAIN r = 1..(Len(l) - 1)
  BY <1>3
<1>5. IsInjective(r)
  BY SMTT(60), <1>1, <1>3, <1>4 DEF IsInjective
<1>6. \A x : x \in Range(r) => x \in Range(l) \ {k}
  <2> SUFFICES ASSUME NEW j \in 1..(Len(l) - 1) PROVE r[j] \in Range(l) /\ r[j] # k
    BY Zenon, <1>4 DEF Range
  <2>1. PICK m \in 1..Len(l) : r[j] = l[m] /\ m # i
    BY <1>1, <1>3
  <2> QED BY Zenon, <1>1, <1>2, <2>1 DEF Range, IsInjective
<1>7. \A x : x \in Range(l) \ {k} => x \in Range(r)
  <2> SUFFICES ASSUME NEW j \in 1..Len(l), l[j] # k PROVE l[j] \in Range(r)
    BY Zenon, <1>1 DEF Range
  <2>1. CASE j < i
    BY <1>1, <1>3, <1>4, <2>1 DEF Range
  <2>2. CASE j > i
    <3>1. j - 1 \in 1..(Len(l) - 1) /\ ~(j - 1 < i) /\ (j - 1) + 1 = j
      BY <1>1, <2>2
    <3>2. r[j - 1] = l[j]
      BY Zenon, <1>3, <3>1
    <3> QED BY Zenon, <1>4, <3>1, <3>2 DEF Range
  <2> QED BY <1>1, <1>2, <2>1, <2>2
<1> QED BY Zenon, <1>3, <1>5, <1>6, <1>7 DEF r

-----------------------------------------------------------------------------
(* The cache.                                                              *)

Caches == [items : UNION {[D -> Items] : D \in SUBSET Keys}, l : Seq(Keys), usage : Nat]
Good ==
    {c \in Caches : /\ IsInjective(c.l)
                    /\ Range(c.l) = DOMAIN c.items
                    /\ c.usage = Total(c.items, DOMAIN c.items)}

\* What a cache in order is made of.
LEMMA GoodParts ==
  ASSUME NEW c \in Good
  PROVE  /\ c.items \in [DOMAIN c.items -> Items] /\ DOMAIN c.items \subseteq Keys
         /\ c.l \in Seq(Keys) /\ IsInjective(c.l) /\ Range(c.l) = DOMAIN c.items
         /\ c.usage \in Nat /\ c.usage = Total(c.items, DOMAIN c.items)
         /\ Sized(c.items, DOMAIN c.items)
<1>1. /\ c.items \in [DOMAIN c.items -> Items] /\ DOMAIN c.items \subseteq Keys
      /\ c.l \in Seq(Keys) /\ c.usage \in Nat
  BY Zenon DEF Good, Caches
<1>2. IsInjective(c.l) /\ Range(c.l) = DOMAIN c.items
      /\ c.usage = Total(c.items, DOMAIN c.items)
  BY Zenon DEF Good
<1>3. IsFiniteSet(DOMAIN c.items)
  <2>1. Len(c.l) \in Nat /\ c.l \in [1..Len(c.l) -> Keys] /\ DOMAIN c.l = 1..Len(c.l)
    BY <1>1
  <2>2. c.l \in Surjection(1..Len(c.l), Range(c.l))
    BY Zenon, <2>1 DEF Surjection, Range
  <2>3. IsFiniteSet(1..Len(c.l))
    BY <2>1, FS_Interval
  <2> QED BY Zenon, <1>2, <2>2, <2>3, FS_Surjection
<1>4. \A k \in DOMAIN c.items : c.items[k].size \in Nat
  BY <1>1, SizesValid, Zenon DEF Items
<1> QED BY Zenon, <1>1, <1>2, <1>3, <1>4 DEF Sized

\* A list that holds each key of a map once, and the total of the map, are a cache in order.
LEMMA MakesGood ==
  ASSUME NEW D \in SUBSET Keys, NEW I \in [D -> Items], NEW q \in Seq(Keys), NEW u \in Nat,
         IsInjective(q), Range(q) = D, u = Total(I, D)
  PROVE  [items |-> I, l |-> q, usage |-> u] \in Good
<1> DEFINE c == [items |-> I, l |-> q, usage |-> u]
<1>1. c.items = I /\ c.l = q /\ c.usage = u /\ DOMAIN I = D
  BY Zenon
<1>2. I \in UNION {[E -> Items] : E \in SUBSET Keys}
  BY Zenon
<1>3. c \in Caches
  BY Zenon, <1>2 DEF Caches
<1> HIDE DEF c
<1>4. c \in Good
  BY <1>1, <1>3, Zenon DEF Good
<1> QED BY Zenon, <1>4 DEF c

\* What a cache without key k is.
LEMMA DeleteKeeps ==
  ASSUME NEW c \in Good, NEW k
  PROVE  /\ unsafeDelete(c, k) \in Good
         /\ DOMAIN unsafeDelete(c, k).items = DOMAIN c.items \ {k}
         /\ \A j \in DOMAIN c.items \ {k} : unsafeDelete(c, k).items[j] = c.items[j]
         /\ unsafeDelete(c, k).usage <= c.usage
<1>1. CASE k \notin DOMAIN c.items
  <2>1. unsafeDelete(c, k) = c
    BY Zenon, <1>1 DEF unsafeDelete
  <2>2. c.usage <= c.usage
    BY GoodParts
  <2> QED BY Zenon, <1>1, <2>1, <2>2
<1>2. CASE k \in DOMAIN c.items
  <2> DEFINE D == DOMAIN c.items
             R == [x \in D \ {k} |-> c.items[x]]
             q == RemoveFirst(c.l, k)
             u == c.usage - c.items[k].size
  <2>1. unsafeDelete(c, k) = [items |-> R, l |-> q, usage |-> u]
    BY Zenon, <1>2 DEF unsafeDelete, Restrict
  <2>2. q \in Seq(Keys) /\ IsInjective(q) /\ Range(q) = D \ {k}
    BY Zenon, <1>2, GoodParts, RemoveFirstRange
  <2>3. R \in [D \ {k} -> Items] /\ D \ {k} \in SUBSET Keys
    BY Zenon, GoodParts
  <2>4. DOMAIN R = D \ {k} /\ \A j \in D \ {k} : R[j] = c.items[j]
    BY Zenon
  <2>5. Sized(c.items, D \ {k})
    BY GoodParts, FS_Subset, ZenonT(30) DEF Sized
  <2>6. Total(R, D \ {k}) = Total(c.items, D \ {k})
    <3> HIDE DEF D, R
    <3> QED BY <2>4, <2>5, TotalSame DEF Sized
  <2>7. /\ c.usage = Total(c.items, D \ {k}) + c.items[k].size
        /\ Total(c.items, D \ {k}) \in Nat /\ c.items[k].size \in Nat
    <3>1. Sized(c.items, D) /\ k \in D /\ c.usage = Total(c.items, D)
      BY <1>2, GoodParts, Zenon
    <3> HIDE DEF D
    <3>2. Total(c.items, D) = Total(c.items, D \ {k}) + c.items[k].size
      BY Zenon, <3>1, TotalAdd
    <3>3. Total(c.items, D \ {k}) \in Nat
      BY Zenon, <2>5, TotalOne
    <3>4. c.items[k].size \in Nat
      BY Zenon, <3>1 DEF Sized
    <3> QED BY Zenon, <3>1, <3>2, <3>3, <3>4
  <2>8. u = Total(R, D \ {k}) /\ u \in Nat /\ u <= c.usage
    <3> HIDE DEF R, D
    <3> QED BY <2>6, <2>7
  <2> HIDE DEF R, q, u
  <2>9. unsafeDelete(c, k) \in Good
    <3> HIDE DEF D
    <3>1. PICK E : E = D \ {k}
      BY Zenon
    <3>2. /\ E \in SUBSET Keys /\ R \in [E -> Items] /\ q \in Seq(Keys) /\ u \in Nat
          /\ IsInjective(q) /\ Range(q) = E /\ u = Total(R, E)
      BY <2>2, <2>3, <2>8, <3>1, ZenonT(60)
    <3>3. [items |-> R, l |-> q, usage |-> u] \in Good
      BY <3>2, MakesGood, ZenonT(60)
    <3> QED BY <2>1, <3>3, Zenon
  <2> QED BY SMTT(60), <2>1, <2>4, <2>8, <2>9
<1> QED BY Zenon, <1>1, <1>2

\* What a cache with a new value of key k is.
LEMMA PushBackKeeps ==
  ASSUME NEW c \in Good, NEW k \in Keys, NEW item \in Items
  PROVE  /\ PushBack(c, k, item) \in Good
         /\ DOMAIN PushBack(c, k, item).items = DOMAIN c.items \cup {k}
         /\ PushBack(c, k, item).usage <= c.usage + item.size
         /\ Last(PushBack(c, k, item).l) = k
<1> DEFINE d == unsafeDelete(c, k)
           D == DOMAIN d.items
           I == Put(d.items, k, item)
           q == Append(d.l, k)
           u == d.usage + item.size
<1>1. PushBack(c, k, item) = [items |-> I, l |-> q, usage |-> u]
  BY Zenon DEF PushBack
<1>2. d \in Good /\ D = DOMAIN c.items \ {k} /\ d.usage <= c.usage
  BY Zenon, DeleteKeeps
<1> HIDE DEF d
<1>3. /\ d.items \in [D -> Items] /\ D \subseteq Keys
      /\ d.l \in Seq(Keys) /\ IsInjective(d.l) /\ Range(d.l) = D
      /\ d.usage \in Nat /\ d.usage = Total(d.items, D) /\ Sized(d.items, D)
  BY Zenon, <1>2, GoodParts
<1>4. I = [x \in D \cup {k} |-> IF x = k THEN item ELSE d.items[x]]
  BY Zenon DEF Put
<1>5. I \in [D \cup {k} -> Items] /\ D \cup {k} \in SUBSET Keys
  BY Zenon, <1>3, <1>4
<1>6. /\ DOMAIN I = D \cup {k} /\ I[k] = item
      /\ \A x \in D : x # k /\ I[x] = d.items[x]
  BY Zenon, <1>2, <1>4
<1> HIDE DEF I
<1>7. item.size \in Nat
  BY Zenon, SizesValid DEF Items
<1>8. Sized(I, D \cup {k}) /\ Sized(I, D)
  <2>1. IsFiniteSet(D) /\ IsFiniteSet(D \cup {k})
    BY ZenonT(60), <1>3, FS_AddElement DEF Sized
  <2>2. \A x \in D \cup {k} : I[x].size \in Nat
    BY Zenon, <1>3, <1>6, <1>7 DEF Sized
  <2> QED BY Zenon, <2>1, <2>2 DEF Sized
<1>9. Total(I, D) = d.usage
  BY SMTT(60), <1>3, <1>6, <1>8, TotalSame
<1>10. (D \cup {k}) \ {k} = D
  BY Zenon, <1>6
<1>11. Total(I, D \cup {k}) = Total(I, D) + item.size
  <2>1. k \in D \cup {k}
    BY Zenon
  <2>2. Total(I, D \cup {k}) = Total(I, (D \cup {k}) \ {k}) + I[k].size
    BY Zenon, <1>8, <2>1, TotalAdd
  <2> QED BY Zenon, <1>6, <1>10, <2>2
<1>12. u = Total(I, D \cup {k}) /\ u \in Nat /\ u <= c.usage + item.size
  <2>1. c.usage \in Nat
    BY Zenon, GoodParts
  <2> QED BY SMTT(60), <1>2, <1>3, <1>7, <1>9, <1>11, <2>1
<1>13. /\ q \in Seq(Keys) /\ IsInjective(q) /\ Range(q) = D \cup {k} /\ Last(q) = k
  <2>1. Len(d.l) \in Nat /\ DOMAIN d.l = 1..Len(d.l)
    BY <1>3
  <2>2. /\ q \in Seq(Keys) /\ Len(q) = Len(d.l) + 1 /\ q[Len(d.l) + 1] = k
        /\ \A i \in 1..Len(d.l) : q[i] = d.l[i]
    BY <1>3, AppendProperties
  <2> HIDE DEF q
  <2>3. DOMAIN q = 1..(Len(d.l) + 1)
    BY <2>2
  <2>4. \A i \in 1..Len(d.l) : d.l[i] # k
    BY Zenon, <1>3, <1>6, <2>1 DEF Range
  <2>5. IsInjective(q)
    <3>1. \A i, j \in 1..Len(d.l) : d.l[i] = d.l[j] => i = j
      BY Zenon, <1>3, <2>1 DEF IsInjective
    <3>2. \A i \in 1..(Len(d.l) + 1) : i \in 1..Len(d.l) \/ i = Len(d.l) + 1
      BY <2>1
    <3>3. \A i, j \in 1..(Len(d.l) + 1) : q[i] = q[j] => i = j
      BY <2>2, <2>4, <3>1, <3>2, ZenonT(60)
    <3> QED BY Zenon, <2>3, <3>3 DEF IsInjective
  <2>6. Range(q) = Range(d.l) \cup {k}
    BY <2>1, <2>2, <2>3 DEF Range
  <2> QED BY Zenon, <1>3, <2>2, <2>5, <2>6 DEF Last
<1> HIDE DEF q, u
<1>14. PushBack(c, k, item) \in Good
  BY ZenonT(60), <1>1, <1>5, <1>12, <1>13, MakesGood
<1>15. D \cup {k} = DOMAIN c.items \cup {k}
  BY Zenon, <1>2
<1> QED BY SMTT(60), <1>1, <1>6, <1>12, <1>13, <1>14, <1>15

-----------------------------------------------------------------------------
(* The loops.                                                              *)

EvictStep(d, k, size, limit) == IF d.usage + size > limit THEN unsafeDelete(d, k) ELSE d
Evicts(it, c, size, limit) ==
    it = [s \in SUBSET DOMAIN c.l |->
            IF s = {} THEN c ELSE EvictStep(it[s \ {Max(s)}], c.l[Max(s)], size, limit)]

\* What every turn of Evict's loop keeps holds when it ends.
LEMMA EvictStays ==
  ASSUME NEW c \in Good, NEW size, NEW limit, NEW W,
         \A s \in SUBSET DOMAIN c.l : W[s] \subseteq Good,
         c \in W[{}],
         \A s \in SUBSET DOMAIN c.l : s # {} =>
            \A d \in W[s \ {Max(s)}] : EvictStep(d, c.l[Max(s)], size, limit) \in W[s]
  PROVE  Evict(c, size, limit) \in W[DOMAIN c.l]
<1> DEFINE S == DOMAIN c.l
           C == [s \in SUBSET S |-> Max(s)]
           g == [p \in (SUBSET S) \X Good |-> EvictStep(p[2], c.l[Max(p[1])], size, limit)]
           it == CHOOSE h : Evicts(h, c, size, limit)
<1>1. Evict(c, size, limit) = it[S]
  BY Zenon DEF Evict, FoldLeft, MapThenFoldSet, Evicts, EvictStep
<1>2. S = 1..Len(c.l) /\ Len(c.l) \in Nat
  BY GoodParts
<1>3. IsFiniteSet(S)
  BY <1>2, FS_Interval
<1> HIDE DEF S
<1>4. \A s \in SUBSET S : s # {} => Max(s) \in s /\ C[s] = Max(s)
  <2> SUFFICES ASSUME NEW s \in SUBSET S, s # {} PROVE Max(s) \in s /\ C[s] = Max(s)
    BY Zenon
  <2>1. Max(s) \in s
    BY Zenon, <1>2, MaxMember
  <2>2. C[s] = Max(s)
    BY Zenon
  <2> QED BY Zenon, <2>1, <2>2
<1>5. \A s \in SUBSET S : \A d \in Good :
         g[<<s, d>>] = EvictStep(d, c.l[Max(s)], size, limit)
  BY Zenon
<1> HIDE DEF C, g
<1>6. \A s \in SUBSET S : s # {} => \A d \in W[s \ {Max(s)}] :
         d \in Good /\ g[<<s, d>>] \in W[s]
  BY <1>5, Zenon DEF S
<1>7. Keeps(S, c, C, g, W)
  BY Zenon, <1>3, <1>4, <1>6 DEF Keeps
<1>8. PICK h : IsFold(h, S, c, C, g) /\ \A s \in SUBSET S : h[s] \in W[s]
  BY Zenon, <1>7, FoldExists
<1>9. \A s \in SUBSET S : s # {} => /\ C[s] = Max(s)
                                    /\ g[<<s, h[s \ {Max(s)}]>>]
                                         = EvictStep(h[s \ {Max(s)}], c.l[Max(s)], size, limit)
  BY <1>4, <1>5, <1>6, <1>8, ZenonT(60)
<1>10. Evicts(h, c, size, limit)
  BY <1>8, <1>9, Zenon DEF Evicts, IsFold, S
<1>11. Evicts(it, c, size, limit)
  BY <1>10, Zenon
<1> HIDE DEF it
<1>12. it[{}] = c
  BY <1>11, Zenon DEF Evicts
<1>13. \A s \in SUBSET S : s # {} =>
          it[s] = EvictStep(it[s \ {Max(s)}], c.l[Max(s)], size, limit)
  BY <1>11, Zenon DEF Evicts, S
<1>14. ASSUME NEW s \in SUBSET S, s # {}, it[s \ {C[s]}] \in W[s \ {C[s]}]
       PROVE  it[s] \in W[s]
  <2>1. C[s] = Max(s) /\ it[s] = EvictStep(it[s \ {Max(s)}], c.l[Max(s)], size, limit)
    BY <1>4, <1>13, <1>14, ZenonT(60)
  <2>2. it[s \ {Max(s)}] \in W[s \ {Max(s)}]
    BY <1>14, <2>1, ZenonT(60)
  <2> QED BY <1>14, <2>1, <2>2, ZenonT(60) DEF S
<1>15. it[S] \in W[S]
  <2>1. \A s \in SUBSET S : s # {} =>
           C[s] \in s /\ (it[s \ {C[s]}] \in W[s \ {C[s]}] => it[s] \in W[s])
    BY <1>4, <1>14, Zenon
  <2> QED BY ZenonT(60), <1>3, <1>12, <2>1, FoldStays
<1> QED BY Zenon, <1>1, <1>15 DEF S

\* The first n entries have been looked at: the first m of them are gone and the others
\* are there, and unless all n are gone the new value fits.
Back(c, m) == {c.l[i] : i \in (m + 1)..Len(c.l)}
Evicted(c, size, limit, d, n) ==
    \E m \in 0..n : DOMAIN d.items = Back(c, m) /\ (m < n => d.usage + size <= limit)

\* The entries behind m but not the one right behind it are those behind m + 1.
LEMMA BackStep ==
  ASSUME NEW c \in Good, NEW n \in 1..Len(c.l)
  PROVE  Back(c, n - 1) \ {c.l[n]} = Back(c, n)
<1>1. /\ c.l \in Seq(Keys) /\ Len(c.l) \in Nat /\ DOMAIN c.l = 1..Len(c.l)
      /\ \A i, j \in DOMAIN c.l : c.l[i] = c.l[j] => i = j
  BY GoodParts DEF IsInjective
<1>2. (n - 1) + 1 = n /\ n \in Nat
  OBVIOUS
<1>3. \A i : i \in n..Len(c.l) <=> i = n \/ i \in (n + 1)..Len(c.l)
  BY <1>1
<1>4. \A i \in (n + 1)..Len(c.l) : c.l[i] # c.l[n]
  BY <1>1
<1> QED BY <1>2, <1>3, <1>4, ZenonT(60) DEF Back

\* A turn of the loop takes the next entry when the new value does not fit yet.
LEMMA EvictTurn ==
  ASSUME NEW c \in Good, NEW size \in Nat, NEW limit \in Int, NEW n \in 1..Len(c.l),
         NEW d \in Good, Evicted(c, size, limit, d, n - 1)
  PROVE  Evicted(c, size, limit, EvictStep(d, c.l[n], size, limit), n)
<1>1. n \in Nat /\ n - 1 \in Nat /\ d.usage \in Nat
  BY GoodParts
<1>2. PICK m \in 0..(n - 1) : /\ DOMAIN d.items = Back(c, m)
                              /\ m < n - 1 => d.usage + size <= limit
  BY Zenon DEF Evicted
<1>3. CASE d.usage + size > limit
  <2>1. EvictStep(d, c.l[n], size, limit) = unsafeDelete(d, c.l[n])
    BY Zenon, <1>3 DEF EvictStep
  <2>2. m = n - 1
    BY SMTT(60), <1>1, <1>2, <1>3
  <2>3. DOMAIN unsafeDelete(d, c.l[n]).items = DOMAIN d.items \ {c.l[n]}
    BY Zenon, DeleteKeeps
  <2>4. DOMAIN unsafeDelete(d, c.l[n]).items = Back(c, n)
    BY Zenon, <1>2, <2>2, <2>3, BackStep
  <2>5. n \in 0..n /\ ~(n < n)
    BY <1>1
  <2> QED BY <2>1, <2>4, <2>5, ZenonT(60) DEF Evicted
<1>4. CASE ~(d.usage + size > limit)
  <2>1. EvictStep(d, c.l[n], size, limit) = d
    BY Zenon, <1>4 DEF EvictStep
  <2>2. d.usage + size <= limit /\ m \in 0..n
    BY <1>1, <1>4
  <2> QED BY <1>2, <2>1, <2>2, ZenonT(60) DEF Evicted
<1> QED BY Zenon, <1>3, <1>4

\* Evict leaves a cache whose accounts are right and that holds the youngest entries of
\* the one it is given.
LEMMA EvictKeeps ==
  ASSUME NEW c \in Good, NEW size \in Nat, NEW limit \in Int
  PROVE  /\ Evict(c, size, limit) \in Good
         /\ Evicted(c, size, limit, Evict(c, size, limit), Len(c.l))
<1> DEFINE S == DOMAIN c.l
           N == 0..Len(c.l)
           W == [s \in SUBSET S |->
                   {d \in Good : \A n \in N : s = 1..n => Evicted(c, size, limit, d, n)}]
<1>1. Len(c.l) \in Nat /\ S = 1..Len(c.l) /\ c.l \in Seq(Keys) /\ Range(c.l) = DOMAIN c.items
  BY GoodParts
<1>2. \A s \in SUBSET S : W[s] \subseteq Good
  BY Zenon
<1>3. c \in W[{}]
  <2>1. \A n \in N : {} = 1..n => n = 0
    BY <1>1
  <2>2. DOMAIN c.items = Back(c, 0)
    BY <1>1 DEF Back, Range
  <2>3. Evicted(c, size, limit, c, 0)
    BY <2>2 DEF Evicted
  <2> QED BY Zenon, <2>1, <2>3
<1>4. ASSUME NEW s \in SUBSET S, s # {}, NEW d \in W[s \ {Max(s)}]
      PROVE  EvictStep(d, c.l[Max(s)], size, limit) \in W[s]
  <2>1. d \in Good /\ s \ {Max(s)} \in SUBSET S
    BY Zenon, <1>4
  <2>2. EvictStep(d, c.l[Max(s)], size, limit) \in Good
    BY Zenon, <2>1, DeleteKeeps DEF EvictStep
  <2>3. ASSUME NEW n \in N, s = 1..n
        PROVE  Evicted(c, size, limit, EvictStep(d, c.l[Max(s)], size, limit), n)
    <3>1. n \in Nat /\ n \in 1..Len(c.l)
      BY SMTT(60), <1>1, <1>4, <2>3
    <3>2. Max(s) \in 1..n /\ Max(s) >= n
      <4>1. s \in SUBSET (1..n) /\ n \in s
        BY <2>3, <3>1
      <4>2. Max(s) \in s /\ \A y \in s : Max(s) >= y
        BY Zenon, <1>4, <3>1, <4>1, MaxMember
      <4> QED BY Zenon, <2>3, <4>1, <4>2
    <3>3. Max(s) = n
      BY <3>1, <3>2
    <3>4. s \ {Max(s)} = 1..(n - 1) /\ n - 1 \in N
      BY SMTT(60), <1>1, <2>3, <3>1, <3>3
    <3>5. Evicted(c, size, limit, d, n - 1)
      BY <1>4, <2>1, <3>4, ZenonT(60)
    <3> QED BY Zenon, <2>1, <3>1, <3>3, <3>5, EvictTurn
  <2> QED BY <2>2, <2>3, ZenonT(60)
<1>5. Len(c.l) \in N
  BY <1>1
<1>6. Evict(c, size, limit) \in W[S]
  <2> HIDE DEF W
  <2> QED BY ZenonT(60), <1>2, <1>3, <1>4, EvictStays
<1> QED BY <1>1, <1>5, <1>6, ZenonT(60)

\* Evict makes room: with the new value the cache is within the limit.
LEMMA EvictFits ==
  ASSUME NEW c \in Good, NEW size \in Nat, NEW limit \in Int, size <= limit
  PROVE  Evict(c, size, limit).usage + size <= limit
<1> DEFINE e == Evict(c, size, limit)
<1>1. PICK m \in 0..Len(c.l) : /\ DOMAIN e.items = Back(c, m)
                               /\ m < Len(c.l) => e.usage + size <= limit
  BY EvictKeeps, Zenon DEF Evicted
<1>2. Len(c.l) \in Nat /\ e \in Good
  <2>1. e \in Good
    BY EvictKeeps, Zenon
  <2> HIDE DEF e
  <2> QED BY <2>1, GoodParts
<1>3. CASE m = Len(c.l)
  <2>1. Back(c, m) = {}
    BY <1>2, <1>3 DEF Back
  <2> HIDE DEF e
  <2>2. e.usage = Total(e.items, {}) /\ Sized(e.items, {})
    BY ZenonT(60), <1>1, <1>2, <2>1, GoodParts
  <2>3. Total(e.items, {}) = 0
    BY Zenon, <2>2, TotalOne
  <2>4. e.usage + size <= limit
    BY <2>2, <2>3
  <2> QED BY Zenon, <2>4 DEF e
<1> QED BY <1>1, <1>2, <1>3

CleanStep(d, k) == IF Expired(d.items[k]) THEN unsafeDelete(d, k) ELSE d
Cleans(it, c) ==
    it = [s \in SUBSET DOMAIN c.l |->
            IF s = {} THEN c ELSE CleanStep(it[s \ {Max(s)}], c.l[Max(s)])]

\* cleanStaleValues leaves a cache whose accounts are right, and no more than there was.
LEMMA CleanKeeps ==
  ASSUME NEW c \in Good
  PROVE  cleanStaleValues(c) \in Good /\ cleanStaleValues(c).usage <= c.usage
<1> DEFINE S == DOMAIN c.l
           V == {d \in Good : d.usage <= c.usage}
           W == [s \in SUBSET S |-> V]
           C == [s \in SUBSET S |-> Max(s)]
           g == [p \in (SUBSET S) \X V |-> CleanStep(p[2], c.l[Max(p[1])])]
           it == CHOOSE h : Cleans(h, c)
<1>1. cleanStaleValues(c) = it[S]
  BY Zenon DEF cleanStaleValues, FoldLeft, MapThenFoldSet, Cleans, CleanStep
<1>2. S = 1..Len(c.l) /\ Len(c.l) \in Nat /\ c.usage \in Nat
  BY GoodParts
<1>3. IsFiniteSet(S)
  BY <1>2, FS_Interval
<1>4. \A d \in V : \A k : CleanStep(d, k) \in V
  <2> SUFFICES ASSUME NEW d \in V, NEW k PROVE CleanStep(d, k) \in V
    BY Zenon
  <2>1. /\ d \in Good /\ d.usage \in Nat /\ d.usage <= c.usage
        /\ unsafeDelete(d, k) \in Good /\ unsafeDelete(d, k).usage <= d.usage
    BY Zenon, DeleteKeeps, GoodParts
  <2>2. unsafeDelete(d, k).usage \in Nat
    BY Zenon, <2>1, GoodParts
  <2>3. unsafeDelete(d, k).usage <= c.usage
    BY SMTT(60), <1>2, <2>1, <2>2
  <2> QED BY Zenon, <2>1, <2>3 DEF CleanStep
<1>5. c \in V
  BY <1>2
<1> HIDE DEF S, V
<1>6. \A s \in SUBSET S : W[s] = V
  BY Zenon
<1>7. \A s \in SUBSET S : s # {} => Max(s) \in s /\ C[s] = Max(s)
  <2> SUFFICES ASSUME NEW s \in SUBSET S, s # {} PROVE Max(s) \in s /\ C[s] = Max(s)
    BY Zenon
  <2>1. Max(s) \in s
    BY <1>2, MaxMember, Zenon
  <2>2. C[s] = Max(s)
    BY Zenon
  <2> QED BY Zenon, <2>1, <2>2
<1>8. \A s \in SUBSET S : \A d \in V : g[<<s, d>>] = CleanStep(d, c.l[Max(s)])
  BY Zenon
<1> HIDE DEF C, g, W
<1>9. \A s \in SUBSET S : s # {} => s \ {C[s]} \in SUBSET S
  BY Zenon
<1>10. Keeps(S, c, C, g, W)
  BY SMTT(60), <1>3, <1>4, <1>5, <1>6, <1>7, <1>8, <1>9 DEF Keeps
<1>11. PICK h : IsFold(h, S, c, C, g) /\ \A s \in SUBSET S : h[s] \in W[s]
  BY Zenon, <1>10, FoldExists
<1>12. \A s \in SUBSET S : s # {} =>
          /\ C[s] = Max(s)
          /\ g[<<s, h[s \ {Max(s)}]>>] = CleanStep(h[s \ {Max(s)}], c.l[Max(s)])
  <2> SUFFICES ASSUME NEW s \in SUBSET S, s # {}
               PROVE  g[<<s, h[s \ {Max(s)}]>>] = CleanStep(h[s \ {Max(s)}], c.l[Max(s)])
    BY <1>7, Zenon
  <2>1. s \ {Max(s)} \in SUBSET S
    BY Zenon
  <2>2. h[s \ {Max(s)}] \in V
    BY Zenon, <1>6, <1>11, <2>1
  <2> QED BY <1>8, <2>2, ZenonT(60)
<1>13. Cleans(h, c)
  BY <1>11, <1>12, ZenonT(60) DEF Cleans, IsFold, S
<1>14. Cleans(it, c)
  BY <1>13, ZenonT(60)
<1> HIDE DEF it
<1>15. it[{}] = c
  BY <1>14, Zenon DEF Cleans
<1>16. \A s \in SUBSET S : s # {} => it[s] = CleanStep(it[s \ {Max(s)}], c.l[Max(s)])
  BY <1>14, Zenon DEF Cleans, S
<1>17. \A s \in SUBSET S : s # {} =>
          C[s] \in s /\ (it[s \ {C[s]}] \in W[s \ {C[s]}] => it[s] \in W[s])
  <2> SUFFICES ASSUME NEW s \in SUBSET S, s # {}, it[s \ {C[s]}] \in W[s \ {C[s]}]
               PROVE  it[s] \in W[s]
    BY <1>7, Zenon
  <2>1. it[s \ {C[s]}] \in V
    BY Zenon, <1>6, <1>9
  <2>2. it[s] = CleanStep(it[s \ {C[s]}], c.l[C[s]])
    BY <1>7, <1>16, Zenon
  <2> QED BY <1>4, <1>6, <2>1, <2>2, ZenonT(60)
<1>18. it[S] \in W[S]
  <2>1. it[{}] \in W[{}]
    BY Zenon, <1>5, <1>6, <1>15
  <2> QED BY Zenon, <1>3, <1>17, <2>1, FoldStays
<1> QED BY <1>1, <1>6, <1>18, ZenonT(60) DEF V

\* The limit is a number.
LEMMA LimitNumber == config \in Configs => Limit(config) \in Int
<1> SUFFICES ASSUME config \in Configs PROVE Limit(config) \in Int
  BY Zenon
<1>1. config.threshold \in 0..100 /\ config.max \in Int
  BY Zenon, ConfigsValid
<1>2. PICK q : q = (config.threshold + 99) \div 100
  BY Zenon
<1>3. q \in Int
  BY <1>1, <1>2
<1>4. q * config.max \in Int
  BY <1>1, <1>3
<1> QED BY <1>2, <1>4, ZenonT(60) DEF Limit

\* An insertion keeps the accounts right, and grows the cache within the limit only.
LEMMA InsertKeeps ==
  ASSUME NEW c \in Good, NEW k \in Keys, NEW item \in Items, config \in Configs
  PROVE  /\ unsafeInsert(c, k, item) \in Good
         /\ Limit(config) > 0 /\ c.usage < unsafeInsert(c, k, item).usage
               => unsafeInsert(c, k, item).usage <= Limit(config)
<1>1. Limit(config) \in Int /\ item.size \in Nat /\ c.usage \in Nat
  BY ZenonT(60), LimitNumber, SizesValid, GoodParts DEF Items
<1>2. PICK L : L = Limit(config)
  BY Zenon
<1>3. CASE L <= 0
  <2>1. unsafeInsert(c, k, item) = PushBack(c, k, item)
    BY Zenon, <1>2, <1>3 DEF unsafeInsert
  <2>2. ~(L > 0)
    BY SMTT(60), <1>1, <1>2, <1>3
  <2> QED BY Zenon, <1>2, <2>1, <2>2, PushBackKeeps
<1>4. CASE ~(L <= 0) /\ item.size > L
  <2>1. unsafeInsert(c, k, item) = c
    BY Zenon, <1>2, <1>4 DEF unsafeInsert
  <2> QED BY <1>1, <2>1
<1>5. CASE ~(L <= 0) /\ ~(item.size > L)
  <2>1. PICK e : e = Evict(c, item.size, L)
    BY Zenon
  <2>2. unsafeInsert(c, k, item) = PushBack(e, k, item)
    BY Zenon, <1>2, <1>5, <2>1 DEF unsafeInsert
  <2>3. item.size <= L /\ L \in Int
    BY <1>1, <1>2, <1>5
  <2>4. e \in Good /\ e.usage + item.size <= L
    BY ZenonT(60), <1>1, <2>1, <2>3, EvictKeeps, EvictFits
  <2>5. e.usage \in Nat
    BY Zenon, <2>4, GoodParts
  <2>6. /\ PushBack(e, k, item) \in Good
        /\ PushBack(e, k, item).usage <= e.usage + item.size
    BY Zenon, <2>4, PushBackKeeps
  <2>7. PushBack(e, k, item).usage \in Nat
    BY Zenon, <2>6, GoodParts
  <2>8. PushBack(e, k, item).usage <= L
    BY SMTT(60), <1>1, <2>3, <2>4, <2>5, <2>6, <2>7
  <2> QED BY Zenon, <1>2, <2>2, <2>6, <2>8
<1> QED BY Zenon, <1>3, <1>4, <1>5

\* An insertion that drops an entry has dropped all the entries before it, but for the
\* key it inserts.
LEMMA InsertFIFO ==
  ASSUME NEW c \in Good, NEW k \in Keys, NEW item \in Items, config \in Configs,
         NEW i \in DOMAIN c.l, NEW j \in DOMAIN c.l, i < j,
         c.l[j] \notin DOMAIN unsafeInsert(c, k, item).items,
         c.l[i] \in DOMAIN unsafeInsert(c, k, item).items
  PROVE  c.l[i] = Last(unsafeInsert(c, k, item).l)
<1>1. Limit(config) \in Int /\ item.size \in Nat
  BY ZenonT(60), LimitNumber, SizesValid DEF Items
<1>2. /\ c.l \in Seq(Keys) /\ Len(c.l) \in Nat /\ DOMAIN c.l = 1..Len(c.l)
      /\ \A x, y \in DOMAIN c.l : c.l[x] = c.l[y] => x = y
      /\ c.l[j] \in DOMAIN c.items
  BY GoodParts DEF IsInjective, Range
<1>3. PICK L : L = Limit(config)
  BY Zenon
<1>4. unsafeInsert(c, k, item) # c
  BY <1>2, Zenon
<1>5. unsafeInsert(c, k, item) # PushBack(c, k, item)
  <2>1. DOMAIN PushBack(c, k, item).items = DOMAIN c.items \cup {k}
    BY Zenon, PushBackKeeps
  <2> QED BY Zenon, <1>2, <2>1
<1>6. PICK e : e = Evict(c, item.size, L)
  BY Zenon
<1>7. unsafeInsert(c, k, item) = PushBack(e, k, item)
  BY <1>3, <1>4, <1>5, <1>6, ZenonT(60) DEF unsafeInsert
<1>8. PICK m \in 0..Len(c.l) : e \in Good /\ DOMAIN e.items = Back(c, m)
  <2>1. e \in Good /\ Evicted(c, item.size, L, e, Len(c.l))
    BY Zenon, <1>1, <1>3, <1>6, EvictKeeps
  <2> QED BY <2>1, ZenonT(60) DEF Evicted
<1>9. /\ DOMAIN PushBack(e, k, item).items = Back(c, m) \cup {k}
      /\ Last(PushBack(e, k, item).l) = k
  BY SMTT(60), <1>8, PushBackKeeps
<1>10. c.l[i] \notin Back(c, m)
  <2> SUFFICES ASSUME NEW x \in (m + 1)..Len(c.l), c.l[i] = c.l[x] PROVE FALSE
    BY Zenon DEF Back
  <2>1. x = i
    BY <1>2
  <2>2. j \in (m + 1)..Len(c.l)
    BY <1>2, <2>1
  <2>3. c.l[j] \in Back(c, m)
    BY <2>2, Zenon DEF Back
  <2> QED BY Zenon, <1>7, <1>9, <2>3
<1> QED BY <1>7, <1>9, <1>10

-----------------------------------------------------------------------------
(* The cache.                                                              *)

IInv == TypeOK /\ cache \in Good

\* The empty cache is in order.
LEMMA InitOK == Init => IInv
<1> SUFFICES ASSUME Init PROVE IInv
  BY Zenon
<1> DEFINE I == cache.items
<1>1. cache.items = <<>> /\ cache.l = <<>> /\ cache.usage = 0
  BY Zenon DEF Init, newCache
<1>2. DOMAIN <<>> = {} /\ <<>> \in [{} -> Items] /\ <<>> \in Seq(Keys)
  BY EmptySeq
<1>3. Sized(<<>>, {})
  BY Zenon, FS_EmptySet DEF Sized
<1>4. Total(<<>>, {}) = 0
  BY ZenonT(60), <1>3, TotalOne
<1>5. IsInjective(<<>>) /\ Range(<<>>) = {}
  BY Zenon, <1>2 DEF IsInjective, Range
<1>6. cache \in Good
  BY ZenonT(60), <1>2, <1>4, <1>5, MakesGood DEF Init, newCache
<1>7. TypeOK
  BY SMTT(60), <1>1, <1>2, MaxTimeValid DEF Init, TypeOK, Times, CleanerStates
<1> QED BY Zenon, <1>6, <1>7 DEF IInv

\* A good cache has the type of the cache.
LEMMA GoodTyped ==
  ASSUME NEW c \in Good
  PROVE  /\ \E D \in SUBSET Keys : c.items \in [D -> Items]
         /\ c.l \in Seq(Keys) /\ c.usage \in Nat
  BY GoodParts, Zenon

\* Every step keeps the cache in order.
LEMMA NextOK == IInv /\ [Next]_vars => IInv'
<1> SUFFICES ASSUME IInv, [Next]_vars PROVE IInv'
  BY Zenon
<1>1. cache \in Good /\ config \in Configs /\ now \in Times /\ cleaner \in CleanerStates
  BY Zenon DEF IInv, TypeOK
<1>2. cache' \in Good => (\E D \in SUBSET Keys : cache'.items \in [D -> Items])
                          /\ cache'.l \in Seq(Keys) /\ cache'.usage \in Nat
  BY GoodTyped, ZenonT(60)
<1> SUFFICES /\ cache' \in Good /\ config' \in Configs /\ now' \in Times
             /\ cleaner' \in CleanerStates
  <2>1. TypeOK' <=> /\ \E D \in SUBSET Keys : cache'.items \in [D -> Items]
                    /\ cache'.l \in Seq(Keys) /\ cache'.usage \in Nat
                    /\ config' \in Configs /\ now' \in Times /\ cleaner' \in CleanerStates
    BY Zenon DEF TypeOK, Items, Times, CleanerStates
  <2>2. (cache \in Good)' <=> cache' \in Good
    BY Zenon
  <2> QED BY <1>2, <2>1, <2>2, ZenonT(60) DEF IInv
<1>3. CASE Inserting
  <2>1. PICK k \in Keys, size \in Sizes, e \in Times : InsertWithExpiry(k, size, e)
    BY Zenon, <1>3 DEF Inserting
  <2>2. [size |-> size, expiresAt |-> e] \in Items
    BY Zenon DEF Items
  <2>3. cache' \in Good
    BY Zenon, <1>1, <2>1, <2>2, InsertKeeps DEF InsertWithExpiry
  <2> QED BY Zenon, <1>1, <2>1, <2>3 DEF InsertWithExpiry
<1>4. ASSUME NEW k \in Keys, Delete(k)
      PROVE  cache' \in Good /\ UNCHANGED <<config, now, cleaner>>
  BY Zenon, <1>1, <1>4, DeleteKeeps DEF Delete
<1>5. CASE UpdateConfig
  BY Zenon, <1>1, <1>5 DEF UpdateConfig
<1>6. CASE CleanUp
  BY Zenon, <1>1, <1>6, CleanKeeps DEF CleanUp, CleanerStates
<1>7. CASE RearmTicker
  BY Zenon, <1>1, <1>7 DEF RearmTicker, CleanerStates
<1>8. CASE Cancelled
  BY Zenon, <1>1, <1>8 DEF Cancelled, CleanerStates
<1>9. CASE Tick
  BY SMTT(60), <1>1, <1>9, MaxTimeValid DEF Tick, Times
<1>10. CASE UNCHANGED vars
  BY Zenon, <1>1, <1>10 DEF vars
<1> QED BY Zenon, <1>1, <1>3, <1>4, <1>5, <1>6, <1>7, <1>8, <1>9, <1>10 DEF Next

\* The inductive invariant: the cache struct is typed, its list holds every key of its map
\* once, and usage is the total size of the entries of the map.
THEOREM CacheInOrder == Spec => []IInv
<1> QED BY InitOK, NextOK, PTL DEF Spec

\* The type invariant, for all keys, sizes and configurations; usage is never negative.
THEOREM CacheTyped == Spec => []TypeOK
<1>1. IInv => TypeOK
  BY Zenon DEF IInv
<1> QED BY CacheInOrder, <1>1, PTL

\* The map, the list and the running total agree after any mix of insertions,
\* replacements, evictions, deletions, clean-ups and changes of the configuration.
THEOREM AccountsAgree == Spec => []Accounting
<1>1. IInv => Accounting
  BY Zenon DEF IInv, Good, Total, Accounting
<1> QED BY CacheInOrder, <1>1, PTL

\* A step that makes the cache grow leaves it within the limit in force: unsafeInsert
\* evicts enough whatever UpdateConfig did before.
THEOREM GrowthIsBounded == Spec => GrowthWithinLimit
<1>1. IInv /\ [Next]_vars => [InsertionFits]_vars
  <2> SUFFICES ASSUME IInv, Next PROVE InsertionFits
    BY Zenon
  <2>1. cache \in Good /\ cache.usage \in Nat /\ config \in Configs
    BY Zenon DEF IInv, TypeOK
  <2>2. CASE Inserting
    <3>1. PICK k \in Keys, size \in Sizes, e \in Times : InsertWithExpiry(k, size, e)
      BY Zenon, <2>2 DEF Inserting
    <3>2. [size |-> size, expiresAt |-> e] \in Items
      BY Zenon DEF Items
    <3> QED BY Zenon, <2>1, <3>1, <3>2, InsertKeeps DEF InsertWithExpiry, InsertionFits
  <2>3. ASSUME NEW k \in Keys, Delete(k) PROVE InsertionFits
    <3>1. cache' \in Good /\ cache'.usage <= cache.usage
      BY Zenon, <2>1, <2>3, DeleteKeeps DEF Delete
    <3>2. cache'.usage \in Nat
      BY Zenon, <3>1, GoodTyped
    <3> QED BY SMTT(60), <2>1, <3>1, <3>2 DEF InsertionFits
  <2>4. CASE CleanUp
    <3>1. cache' \in Good /\ cache'.usage <= cache.usage
      BY Zenon, <2>1, <2>4, CleanKeeps DEF CleanUp
    <3>2. cache'.usage \in Nat
      BY Zenon, <3>1, GoodTyped
    <3> QED BY SMTT(60), <2>1, <3>1, <3>2 DEF InsertionFits
  <2>5. CASE UpdateConfig \/ RearmTicker \/ Cancelled \/ Tick
    BY SMTT(60), <2>1, <2>5 DEF UpdateConfig, RearmTicker, Cancelled, Tick, InsertionFits
  <2> QED BY Zenon, <2>2, <2>3, <2>4, <2>5 DEF Next
<1> QED BY CacheInOrder, <1>1, PTL DEF Spec, GrowthWithinLimit

\* An insertion never drops an entry and keeps one that was inserted before it: forced
\* eviction takes the entries from the front of the list.
THEOREM EvictsOldestFirst == Spec => EvictionIsFIFO
<1>1. IInv /\ [Next]_vars => [OldestEvicted]_vars
  <2> SUFFICES ASSUME IInv, NewerLeavesFirst, Inserting PROVE FALSE
    BY Zenon DEF OldestEvicted
  <2>1. cache \in Good /\ config \in Configs
    BY Zenon DEF IInv, TypeOK
  <2>2. PICK i \in DOMAIN cache.l, j \in DOMAIN cache.l :
               /\ i < j
               /\ cache.l[j] \notin DOMAIN cache'.items
               /\ cache.l[i] \in DOMAIN cache'.items
               /\ cache.l[i] # Last(cache'.l)
    BY Zenon DEF NewerLeavesFirst
  <2>3. PICK k \in Keys, size \in Sizes, e \in Times : InsertWithExpiry(k, size, e)
    BY Zenon DEF Inserting
  <2>4. PICK item \in Items : cache' = unsafeInsert(cache, k, item)
    BY Zenon, <2>3 DEF InsertWithExpiry, Items
  <2> QED BY Zenon, <2>1, <2>2, <2>4, InsertFIFO
<1> QED BY CacheInOrder, <1>1, PTL DEF Spec, EvictionIsFIFO
=============================================================================
