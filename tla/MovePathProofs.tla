---------------------------- MODULE MovePathProofs ----------------------------
(***************************************************************************)
(* Theorems about MovePath, for every number of requests, all paths and    *)
(* all trees.                                                              *)
(***************************************************************************)
EXTENDS MovePath, SequenceTheorems, TLAPS

Names == UNION {{p[k] : k \in DOMAIN p} : p \in Paths}
Moved(q, s, d) == s \o Suffix(q, d)

-----------------------------------------------------------------------------
(* Paths. *)

LEMMA PathsAreSeqs == \A p \in Paths : p \in Seq(Names) /\ p # <<>> /\ Len(p) \in Nat \ {0}
<1>1. ASSUME NEW p \in Paths PROVE p \in Seq(Names)
  <2>1. PICK S : S = {p[k] : k \in DOMAIN p}
    OBVIOUS
  <2>2. p \in Seq(S) /\ S \subseteq Names
    BY <2>1, PathsAssumption DEF Names
  <2> QED BY <2>2, SeqMonotonic
<1> QED BY <1>1, PathsAssumption, EmptySeq

\* Being a prefix, told name by name.
LEMMA PrefixIs ==
  ASSUME NEW S, NEW s \in Seq(S), NEW t \in Seq(S)
  PROVE  IsPrefix(s, t) <=> Len(s) <= Len(t) /\ \A i \in 1 .. Len(s) : s[i] = t[i]
<1>1. SubSeq(s, 1, Len(s)) = s
  BY SubSeqFull
<1>2. ASSUME Len(s) <= Len(t)
      PROVE  SubSeq(t, 1, Len(s)) \in Seq(S) /\ Len(SubSeq(t, 1, Len(s))) = Len(s)
             /\ \A i \in 1 .. Len(s) : SubSeq(t, 1, Len(s))[i] = t[i]
  <2>1. \A i \in 1 .. Len(s) : t[i] \in S
    BY <1>2, LenProperties, ElementOfSeq
  <2>2. PICK n \in Nat : n = Len(s)
    BY LenProperties
  <2>3. \A i \in 1 .. n : t[i] \in S
    BY <2>1, <2>2
  <2>4. /\ SubSeq(t, 1, n) \in Seq(S)
        /\ Len(SubSeq(t, 1, n)) = IF 1 <= n THEN n - 1 + 1 ELSE 0
        /\ \A i \in 1 .. n - 1 + 1 : SubSeq(t, 1, n)[i] = t[1 + i - 1]
    BY <2>3, SubSeqProperties, 1 \in Int
  <2> QED BY <2>2, <2>4
<1>3. ASSUME Len(s) <= Len(t), \A i \in 1 .. Len(s) : s[i] = t[i] PROVE s = SubSeq(t, 1, Len(s))
  BY <1>2, <1>3, SeqEqual
<1> QED BY <1>1, <1>2, <1>3 DEF IsPrefix

LEMMA PrefixOrder ==
  ASSUME NEW S, NEW s \in Seq(S), NEW t \in Seq(S), NEW u \in Seq(S)
  PROVE  /\ IsPrefix(s, s)
         /\ IsPrefix(s, t) /\ IsPrefix(t, u) => IsPrefix(s, u)
         /\ IsPrefix(s, t) /\ IsPrefix(t, s) => s = t
         /\ IsPrefix(s, u) /\ IsPrefix(t, u) => IsPrefix(s, t) \/ IsPrefix(t, s)
<1>1. Len(s) \in Nat /\ Len(t) \in Nat /\ Len(u) \in Nat
  BY LenProperties
<1>2. IsPrefix(s, s)
  BY <1>1, PrefixIs
<1>3. IsPrefix(s, t) /\ IsPrefix(t, u) => IsPrefix(s, u)
  BY <1>1, PrefixIs
<1>4. IsPrefix(s, t) /\ IsPrefix(t, s) => s = t
  BY <1>1, PrefixIs, SeqEqual
<1>5. IsPrefix(s, u) /\ IsPrefix(t, u) => IsPrefix(s, t) \/ IsPrefix(t, s)
  BY <1>1, PrefixIs
<1> QED BY <1>2, <1>3, <1>4, <1>5

\* A sequence is its prefix and what follows it.
LEMMA PrefixSplits ==
  ASSUME NEW S, NEW s \in Seq(S), NEW t \in Seq(S), IsPrefix(s, t)
  PROVE  Suffix(t, s) \in Seq(S) /\ s \o Suffix(t, s) = t
<1>1. PICK m \in Nat, n \in Nat : m = Len(s) /\ n = Len(t)
  BY LenProperties
<1>2. m <= n /\ s = SubSeq(t, 1, m)
  BY <1>1, SubSeqFull DEF IsPrefix
<1>3. \A i \in m + 1 .. n : t[i] \in S
  BY <1>1, ElementOfSeq
<1>4. SubSeq(t, m + 1, n) \in Seq(S)
  BY <1>3, SubSeqProperties, m + 1 \in Int
<1>5. SubSeq(t, 1, m) \o SubSeq(t, m + 1, n) = SubSeq(t, 1, n)
  <2>1. 1 \in 1 .. Len(t) + 1 /\ m \in 1 - 1 .. Len(t) /\ n \in m .. Len(t)
    BY <1>1, <1>2
  <2> QED BY <2>1, ConcatAdjacentSubSeq
<1> QED BY <1>1, <1>2, <1>4, <1>5, SubSeqFull DEF Suffix

LEMMA ConcatIs ==
  ASSUME NEW S, NEW s \in Seq(S), NEW x \in Seq(S)
  PROVE  s \o x \in Seq(S) /\ IsPrefix(s, s \o x) /\ Suffix(s \o x, s) = x
<1>1. s \o x \in Seq(S) /\ Len(s \o x) = Len(s) + Len(x) /\ Len(s) \in Nat /\ Len(x) \in Nat
      /\ \A i \in 1 .. Len(s) + Len(x) : (s \o x)[i] = IF i <= Len(s) THEN s[i] ELSE x[i - Len(s)]
  BY ConcatProperties, LenProperties
<1>2. IsPrefix(s, s \o x)
  <2>1. PICK t \in Seq(S) : t = s \o x
    BY <1>1
  <2>2. \A i \in 1 .. Len(s) : i \in 1 .. Len(s) + Len(x) /\ i <= Len(s)
    BY <1>1
  <2>3. Len(s) <= Len(t) /\ \A i \in 1 .. Len(s) : s[i] = t[i]
    BY <1>1, <2>1, <2>2
  <2>4. IsPrefix(s, t)
    BY <2>3, PrefixIs
  <2> QED BY <2>1, <2>4
<1>3. Suffix(s \o x, s) \in Seq(S) /\ s \o Suffix(s \o x, s) = s \o x
  BY <1>1, <1>2, PrefixSplits
<1> QED BY <1>1, <1>2, <1>3, ConcatSimplifications

LEMMA ConcatPrefix ==
  ASSUME NEW S, NEW s \in Seq(S), NEW x \in Seq(S), NEW y \in Seq(S)
  PROVE  IsPrefix(s \o x, s \o y) <=> IsPrefix(x, y)
<1>1. PICK k \in Nat, m \in Nat, n \in Nat : k = Len(s) /\ m = Len(x) /\ n = Len(y)
  BY LenProperties
<1>2. PICK v \in Seq(S), w \in Seq(S) : v = s \o x /\ w = s \o y
  BY ConcatProperties
<1>3. /\ Len(v) = k + m /\ \A i \in 1 .. k + m : v[i] = IF i <= k THEN s[i] ELSE x[i - k]
      /\ Len(w) = k + n /\ \A i \in 1 .. k + n : w[i] = IF i <= k THEN s[i] ELSE y[i - k]
  BY <1>1, <1>2, ConcatProperties
<1>4. IsPrefix(v, w) <=> k + m <= k + n /\ \A i \in 1 .. k + m : v[i] = w[i]
  <2>1. IsPrefix(v, w) <=> Len(v) <= Len(w) /\ \A i \in 1 .. Len(v) : v[i] = w[i]
    <3>1. v \in Seq(S) /\ w \in Seq(S)
      BY <1>2
    <3> QED BY <3>1, PrefixIs
  <2> QED BY <1>3, <2>1
<1>5. IsPrefix(x, y) <=> m <= n /\ \A i \in 1 .. m : x[i] = y[i]
  <2>1. IsPrefix(x, y) <=> Len(x) <= Len(y) /\ \A i \in 1 .. Len(x) : x[i] = y[i]
    BY PrefixIs
  <2> QED BY <1>1, <2>1
<1>6. ASSUME m <= n, \A i \in 1 .. m : x[i] = y[i], NEW i \in 1 .. k + m PROVE v[i] = w[i]
  <2>1. (i <= k \/ i - k \in 1 .. m) /\ i \in 1 .. k + n
    BY <1>6
  <2> QED BY <1>3, <1>6, <2>1
<1>7. ASSUME m <= n, \A i \in 1 .. k + m : v[i] = w[i], NEW i \in 1 .. m PROVE x[i] = y[i]
  <2>1. k + i \in 1 .. k + m /\ k + i \in 1 .. k + n /\ ~(k + i <= k) /\ (k + i) - k = i
    BY <1>7
  <2> QED BY <1>3, <1>7, <2>1
<1>8. k + m <= k + n <=> m <= n
  OBVIOUS
<1> QED BY <1>2, <1>4, <1>5, <1>6, <1>7, <1>8

\* The paths are ordered as a forest, in which what comes before a path are its parents.
LEMMA PathOrder ==
  ASSUME NEW p \in Paths, NEW q \in Paths, NEW r \in Paths
  PROVE  /\ IsPrefix(p, p)
         /\ IsPrefix(p, q) /\ IsPrefix(q, r) => IsPrefix(p, r)
         /\ IsPrefix(p, q) /\ IsPrefix(q, p) => p = q
         /\ IsPrefix(p, r) /\ IsPrefix(q, r) => IsPrefix(p, q) \/ IsPrefix(q, p)
<1>1. p \in Seq(Names) /\ q \in Seq(Names) /\ r \in Seq(Names)
  BY PathsAreSeqs
<1> QED BY <1>1, PrefixOrder

LEMMA PathsClosed ==
  ASSUME NEW p \in Paths, NEW q \in Seq(Names), q # <<>>, IsPrefix(q, p)
  PROVE  q \in Paths /\ q \in Prefixes(p)
<1>1. Len(q) \in Nat /\ Len(p) \in Nat /\ Len(q) <= Len(p) /\ q = SubSeq(p, 1, Len(q))
  BY PathsAreSeqs, LenProperties, SubSeqFull DEF IsPrefix
<1>2. q \in Prefixes(p)
  <2>1. PICK l \in Nat : l = Len(q)
    BY <1>1
  <2>2. q = SubSeq(p, 1, l) /\ l \in 0 .. Len(p)
    BY <1>1, <2>1
  <2> QED BY <2>2 DEF Prefixes
<1> QED BY <1>2, PathsAssumption

LEMMA ParentsAre ==
  ASSUME NEW p \in Paths
  PROVE  /\ Parents(p) \subseteq Paths
         /\ \A q \in Paths : q \in Parents(p) <=> q # p /\ IsPrefix(q, p)
<1>1. Parents(p) \subseteq Paths
  BY PathsAssumption DEF Parents
<1>2. ASSUME NEW q \in Paths, q # p, IsPrefix(q, p) PROVE q \in Parents(p)
  BY <1>2, PathsAreSeqs, PathsClosed DEF Parents
<1>3. ASSUME NEW q \in Parents(p) PROVE q # p /\ IsPrefix(q, p)
  <2>1. PICK l \in 0 .. Len(p) : q = SubSeq(p, 1, l)
    BY DEF Parents, Prefixes
  <2>2. p \in Seq(Names) /\ Len(p) \in Nat
    BY PathsAreSeqs
  <2>3. \A i \in 1 .. l : p[i] \in Names
    BY <2>2, ElementOfSeq
  <2>4. Len(q) = IF 1 <= l THEN l - 1 + 1 ELSE 0
    BY <2>1, <2>3, SubSeqProperties, 1 \in Int, l \in Int
  <2>5. Len(q) = l
    BY <2>4
  <2>6. SubSeq(q, 1, Len(q)) = q
    BY <1>1, PathsAreSeqs, SubSeqFull
  <2> QED BY <2>1, <2>2, <2>5, <2>6 DEF IsPrefix, Parents
<1> QED BY <1>1, <1>2, <1>3

\* Where a path below d was or will be below s.
LEMMA MovedIs ==
  ASSUME NEW s \in Paths, NEW d \in Paths, NEW q \in Below(d)
  PROVE  /\ q \in Paths /\ IsPrefix(d, q)
         /\ Moved(q, s, d) \in Seq(Names) /\ IsPrefix(s, Moved(q, s, d)) /\ Moved(q, s, d) # <<>>
         /\ d \o Suffix(q, d) = q /\ Suffix(q, d) \in Seq(Names)
<1>1. q \in Paths /\ IsPrefix(d, q) /\ q \in Seq(Names) /\ s \in Seq(Names) /\ d \in Seq(Names)
  BY PathsAreSeqs DEF Below
<1>2. Suffix(q, d) \in Seq(Names) /\ d \o Suffix(q, d) = q
  BY <1>1, PrefixSplits
<1>3. s \o Suffix(q, d) \in Seq(Names) /\ IsPrefix(s, s \o Suffix(q, d))
  BY <1>1, <1>2, ConcatIs
<1>4. s \o Suffix(q, d) # <<>>
  BY <1>1, <1>2, PathsAreSeqs, ConcatEqualIffEmpty
<1> QED BY <1>1, <1>2, <1>3, <1>4 DEF Moved

LEMMA MovedStart ==
  ASSUME NEW s \in Paths, NEW d \in Paths
  PROVE  d \in Below(d) /\ Moved(d, s, d) = s
<1>1. d \in Below(d)
  BY PathOrder DEF Below
<1>2. s \in Seq(Names) /\ d \in Seq(Names)
  BY PathsAreSeqs
<1>3. Suffix(d, d) \in Seq(Names) /\ d \o Suffix(d, d) = d
  BY <1>1, MovedIs
<1>4. Suffix(d, d) = <<>>
  BY <1>2, <1>3, ConcatEqualIffEmpty
<1> QED BY <1>1, <1>2, <1>4, ConcatEmptySeq DEF Moved

LEMMA MovedOrder ==
  ASSUME NEW s \in Paths, NEW d \in Paths, NEW p \in Below(d), NEW q \in Below(d)
  PROVE  IsPrefix(Moved(p, s, d), Moved(q, s, d)) <=> IsPrefix(p, q)
<1>1. s \in Seq(Names) /\ d \in Seq(Names)
  BY PathsAreSeqs
<1>2. PICK x \in Seq(Names) : x = Suffix(p, d)
  BY MovedIs
<1>3. PICK y \in Seq(Names) : y = Suffix(q, d)
  BY MovedIs
<1>4. d \o x = p /\ d \o y = q
  BY <1>2, <1>3, MovedIs
<1>5. IsPrefix(d \o x, d \o y) <=> IsPrefix(x, y)
  BY <1>1, ConcatPrefix
<1>6. IsPrefix(s \o x, s \o y) <=> IsPrefix(x, y)
  BY <1>1, ConcatPrefix
<1> QED BY <1>2, <1>3, <1>4, <1>5, <1>6 DEF Moved

\* With a path its parents have come along, and there is no other way back.
LEMMA MovedParents ==
  ASSUME NEW s \in Paths, NEW d \in Paths, NEW p \in Below(d), NEW q \in Below(d),
         Moved(p, s, d) \in Paths, IsPrefix(q, p), q # p
  PROVE  Moved(q, s, d) \in Paths /\ Moved(q, s, d) \in Parents(Moved(p, s, d))
<1>1. PICK v, w : v = Moved(q, s, d) /\ w = Moved(p, s, d)
  OBVIOUS
<1>2. v \in Seq(Names) /\ v # <<>> /\ w \in Paths
  BY <1>1, MovedIs
<1>3. IsPrefix(v, w)
  BY <1>1, MovedOrder
<1>4. v \in Paths
  BY <1>2, <1>3, PathsClosed
<1>5. v # w
  <2>1. SUFFICES ASSUME v = w PROVE FALSE
    OBVIOUS
  <2>2. IsPrefix(w, v)
    BY <1>3, <2>1
  <2>3. IsPrefix(p, q)
    BY <1>1, <2>2, MovedOrder
  <2>4. p \in Paths /\ q \in Paths
    BY MovedIs
  <2> QED BY <2>3, <2>4, PathOrder
<1> QED BY <1>1, <1>2, <1>3, <1>4, <1>5, ParentsAre

LEMMA MovedBack ==
  ASSUME NEW s \in Paths, NEW d \in Paths, NEW p \in Below(s), Moved(p, d, s) \in Paths
  PROVE  Moved(p, d, s) \in Below(d) /\ Moved(Moved(p, d, s), s, d) = p
<1>1. d \in Seq(Names)
  BY PathsAreSeqs
<1>2. PICK x \in Seq(Names) : x = Suffix(p, s)
  BY MovedIs
<1>3. s \o x = p /\ d \o x \in Paths /\ Moved(p, d, s) = d \o x
  BY <1>2, MovedIs DEF Moved
<1>4. IsPrefix(d, d \o x) /\ Suffix(d \o x, d) = x
  BY <1>1, ConcatIs
<1> QED BY <1>3, <1>4 DEF Moved, Below

-----------------------------------------------------------------------------
(* Trees. *)

IsTree(T) == T = [p \in Paths |-> T[p]] /\ WellFormed(T)
NoFileAbove(T, d) == \A q \in Parents(d) : ~IsFile(T, q)

LEMMA TreeHas ==
  ASSUME NEW T, IsTree(T), NEW p \in Paths, NEW q \in Paths, T[p] # None, IsPrefix(q, p), q # p
  PROVE  T[q] = Dir
BY ParentsAre DEF IsTree, WellFormed

\* To be shown of a tree: a path that is there has its parents, which are directories.
LEMMA TreeIs ==
  ASSUME NEW T, T = [p \in Paths |-> T[p]],
         \A p, q \in Paths : T[p] # None /\ IsPrefix(q, p) /\ q # p => T[q] = Dir
  PROVE  IsTree(T)
BY ParentsAre DEF IsTree, WellFormed

LEMMA DeletedTree ==
  ASSUME NEW T, IsTree(T), NEW d \in Paths
  PROVE  /\ IsTree(Deleted(T, d))
         /\ \A q \in Paths : Deleted(T, d)[q] = IF IsPrefix(d, q) THEN None ELSE T[q]
<1>1. PICK V : V = Deleted(T, d)
  OBVIOUS
<1>2. V = [q \in Paths |-> V[q]] /\ \A q \in Paths : V[q] = IF IsPrefix(d, q) THEN None ELSE T[q]
  BY <1>1 DEF Deleted, Below
<1>3. ASSUME NEW p \in Paths, NEW q \in Paths, V[p] # None, IsPrefix(q, p), q # p
      PROVE  V[q] = Dir
  <2>1. ~IsPrefix(d, p) /\ T[p] # None
    BY <1>2, <1>3
  <2>2. ~IsPrefix(d, q)
    BY <1>3, <2>1, PathOrder
  <2>3. T[q] = Dir
    BY <1>3, <2>1, TreeHas
  <2> QED BY <1>2, <2>2, <2>3
<1>4. IsTree(V)
  BY <1>2, <1>3, TreeIs
<1> QED BY <1>1, <1>2, <1>4

LEMMA MadeTree ==
  ASSUME NEW T, IsTree(T), NEW d \in Paths, NoFileAbove(T, d)
  PROVE  /\ IsTree(Made(T, d))
         /\ \A q \in Paths : q # d /\ IsPrefix(q, d) => Made(T, d)[q] = Dir
         /\ \A q \in Paths : ~(q # d /\ IsPrefix(q, d)) => Made(T, d)[q] = T[q]
         /\ \A q \in Paths : T[q] # None => Made(T, d)[q] = T[q]
         /\ \A q \in Paths : IsFile(Made(T, d), q) <=> IsFile(T, q)
<1>1. PICK U : U = Made(T, d)
  OBVIOUS
<1>2. /\ U = [q \in Paths |-> U[q]]
      /\ \A q \in Paths : U[q] = IF q # d /\ IsPrefix(q, d) /\ T[q] = None THEN Dir ELSE T[q]
  BY <1>1, ParentsAre DEF Made
<1>3. \A q \in Paths : q # d /\ IsPrefix(q, d) => U[q] = Dir
  BY <1>2, ParentsAre DEF NoFileAbove, IsFile
<1>4. ASSUME NEW p \in Paths, NEW q \in Paths, U[p] # None, IsPrefix(q, p), q # p
      PROVE  U[q] = Dir
  <2>1. CASE p # d /\ IsPrefix(p, d)
    <3>1. IsPrefix(q, d) /\ q # d
      BY <1>4, <2>1, PathOrder
    <3> QED BY <1>3, <3>1
  <2>2. CASE ~(p # d /\ IsPrefix(p, d))
    <3>1. T[q] = Dir
      BY <1>2, <1>4, <2>2, TreeHas
    <3> QED BY <1>2, <3>1
  <2> QED BY <2>1, <2>2
<1>5. IsTree(U)
  BY <1>2, <1>4, TreeIs
<1>6. \A q \in Paths : IsFile(U, q) <=> IsFile(T, q)
  BY <1>2, ParentsAre DEF NoFileAbove, IsFile
<1> QED BY <1>1, <1>2, <1>3, <1>5, <1>6

LEMMA GraftedIs ==
  ASSUME NEW U, NEW T, NEW s \in Paths, NEW d \in Paths
  PROVE  /\ Grafted(U, T, s, d) = [q \in Paths |-> Grafted(U, T, s, d)[q]]
         /\ \A q \in Paths : ~IsPrefix(d, q) => Grafted(U, T, s, d)[q] = U[q]
         /\ \A q \in Below(d) : Grafted(U, T, s, d)[q] =
                IF Moved(q, s, d) \in Paths THEN T[Moved(q, s, d)] ELSE None
BY DEF Grafted, Below, Moved

LEMMA GraftedTree ==
  ASSUME NEW U, NEW T, IsTree(U), IsTree(T), NEW s \in Paths, NEW d \in Paths,
         \A q \in Paths : q # d /\ IsPrefix(q, d) => U[q] = Dir
  PROVE  IsTree(Grafted(U, T, s, d))
<1>1. PICK G : G = Grafted(U, T, s, d)
  OBVIOUS
<1>2. /\ G = [q \in Paths |-> G[q]] /\ \A q \in Paths : ~IsPrefix(d, q) => G[q] = U[q]
      /\ \A q \in Below(d) : G[q] = IF Moved(q, s, d) \in Paths THEN T[Moved(q, s, d)] ELSE None
  BY <1>1 DEF Grafted, Below, Moved
<1>3. ASSUME NEW p \in Paths, NEW q \in Paths, G[p] # None, IsPrefix(q, p), q # p
      PROVE  G[q] = Dir
  <2>1. CASE ~IsPrefix(d, p)
    <3>1. ~IsPrefix(d, q)
      BY <1>3, <2>1, PathOrder
    <3>2. U[q] = Dir
      BY <1>2, <1>3, <2>1, TreeHas
    <3> QED BY <1>2, <3>1, <3>2
  <2>2. CASE IsPrefix(d, p) /\ IsPrefix(d, q)
    <3>1. p \in Below(d) /\ q \in Below(d)
      BY <2>2 DEF Below
    <3>2. PICK v, w : v = Moved(q, s, d) /\ w = Moved(p, s, d)
      OBVIOUS
    <3>3. w \in Paths /\ T[w] # None
      BY <1>2, <1>3, <3>1, <3>2
    <3>4. v \in Paths /\ v \in Parents(w)
      BY <1>3, <3>1, <3>2, <3>3, MovedParents
    <3>5. T[v] = Dir
      BY <3>3, <3>4 DEF IsTree, WellFormed
    <3> QED BY <1>2, <3>1, <3>2, <3>4, <3>5
  <2>3. CASE IsPrefix(d, p) /\ ~IsPrefix(d, q)
    <3>1. IsPrefix(q, d) /\ q # d
      BY <1>3, <2>3, PathOrder
    <3>2. U[q] = Dir
      BY <3>1
    <3> QED BY <1>2, <2>3, <3>2
  <2> QED BY <2>1, <2>2, <2>3
<1>4. IsTree(G)
  BY <1>2, <1>3, TreeIs
<1> QED BY <1>1, <1>4

-----------------------------------------------------------------------------
(* What the adapter does, one case after the other. *)

\* A source that goes to e, the destination or a name in it.
Goes(T, s, d, e) ==
    /\ T[s] # None /\ ~IsPrefix(s, d) /\ NoFileAbove(T, d) /\ Room(T, s, e)
    /\ IsPrefix(d, e) /\ ~IsPrefix(s, e) /\ (T[d] = None => e = d)
    /\ \A q \in Paths : q # e /\ IsPrefix(q, e) => Made(T, d)[q] = Dir

Outcome(T, s, d, r) ==
    \/ r.tree = T /\ r.answer \in {"404", "409"}
    \/ NoFileAbove(T, d) /\ r.tree = Made(T, d) /\ r.answer \in {"400", "409", "500"}
    \/ \E e \in Paths : Goes(T, s, d, e) /\ r = Renamed(Made(T, d), s, e)

CopyOutcome(T, s, d, overwrite, r) ==
    \/ r.tree = T /\ r.answer \in {"404", "409"}
    \/ /\ NoFileAbove(T, d)
       /\ \/ r.tree = Made(T, d) /\ r.answer = "409"
          \/ /\ Made(T, d)[d] # None => overwrite
             /\ \/ r.tree = Deleted(Made(T, d), d) /\ r.answer \in {"404", "500"}
                \/ /\ Deleted(Made(T, d), d)[s] # None /\ Room(Deleted(Made(T, d), d), s, d)
                   /\ r = Result(Grafted(Deleted(Made(T, d), d), Deleted(Made(T, d), d), s, d), "done")

LEMMA AppendParents ==
  ASSUME NEW d \in Paths, NEW x \in Names, Append(d, x) \in Paths
  PROVE  /\ IsPrefix(d, Append(d, x))
         /\ \A q \in Paths : IsPrefix(q, Append(d, x)) /\ q # Append(d, x) => IsPrefix(q, d)
<1>1. PICK n \in Nat : n = Len(d)
  BY PathsAreSeqs
<1>2. PICK e \in Seq(Names) : e = Append(d, x)
  BY PathsAreSeqs
<1>3. d \in Seq(Names)
  BY PathsAreSeqs
<1>4. Len(e) = n + 1 /\ \A i \in 1 .. n : e[i] = d[i]
  BY <1>1, <1>2, <1>3, AppendProperties
<1>5. IsPrefix(d, e)
  <2>1. Len(d) <= Len(e) /\ \A i \in 1 .. Len(d) : d[i] = e[i]
    BY <1>1, <1>4
  <2> QED BY <1>3, <2>1, PrefixIs
<1>6. ASSUME NEW q \in Paths, IsPrefix(q, e), q # e PROVE IsPrefix(q, d)
  <2>1. q \in Seq(Names) /\ Len(q) \in Nat
    BY PathsAreSeqs
  <2>2. Len(q) <= n + 1 /\ \A i \in 1 .. Len(q) : q[i] = e[i]
    BY <1>4, <1>6, <2>1, PrefixIs
  <2>3. Len(q) # n + 1
    BY <1>4, <1>6, <2>1, <2>2, SeqEqual
  <2>4. Len(q) <= Len(d) /\ \A i \in 1 .. Len(q) : q[i] = d[i]
    BY <1>1, <1>4, <2>1, <2>2, <2>3
  <2> QED BY <1>3, <2>1, <2>4, PrefixIs
<1> QED BY <1>2, <1>5, <1>6

\* Nothing is in the way of a source that goes to the destination itself.
LEMMA GoesThere ==
  ASSUME NEW T, IsTree(T), NEW s \in Paths, NEW d \in Paths, s # d, T[s] # None,
         NoFileAbove(T, d), ~(Inside(s, d) \/ ~Room(T, s, d))
  PROVE  Goes(T, s, d, d)
<1>1. ~IsPrefix(s, d) /\ IsPrefix(d, d)
  BY PathOrder DEF Inside
<1>2. \A q \in Paths : q # d /\ IsPrefix(q, d) => Made(T, d)[q] = Dir
  BY MadeTree
<1> QED BY <1>1, <1>2 DEF Goes

LEMMA MoveOutcome ==
  ASSUME NEW T, IsTree(T), NEW s \in Paths, NEW d \in Paths, s # d
  PROVE  Outcome(T, s, d, AdapterMove(T, s, d))
<1>1. PICK U, into, r : U = Made(T, d) /\ into = Append(d, Last(s)) /\ r = AdapterMove(T, s, d)
  OBVIOUS
<1>2. CASE T[s] = None
  BY <1>2 DEF AdapterMove, Outcome, Result
<1>3. CASE T[s] # None /\ ~NoFileAbove(T, d)
  BY <1>3 DEF AdapterMove, Outcome, Result, NoFileAbove
<1>4. CASE T[s] # None /\ NoFileAbove(T, d) /\ (Inside(s, d) \/ ~Room(T, s, d))
  BY <1>4 DEF AdapterMove, Outcome, Result, NoFileAbove
<1>5. CASE T[s] # None /\ NoFileAbove(T, d) /\ ~(Inside(s, d) \/ ~Room(T, s, d)) /\ Replaceable(U, s, d)
  <2>1. r = Renamed(U, s, d)
    BY <1>1, <1>5 DEF AdapterMove, NoFileAbove
  <2>2. Goes(T, s, d, d)
    BY <1>5, GoesThere
  <2> QED BY <1>1, <2>1, <2>2 DEF Outcome
<1>6. CASE T[s] # None /\ NoFileAbove(T, d) /\ ~(Inside(s, d) \/ ~Room(T, s, d)) /\ ~Replaceable(U, s, d)
  <2>1. CASE IsFile(U, d) \/ into \notin Paths \/ ~Room(T, s, into) \/ U[into] # None
    <3>1. r.tree = U /\ r.answer \in {"409", "500"}
      BY <1>1, <1>6, <2>1 DEF AdapterMove, NoFileAbove, Result
    <3> QED BY <1>1, <1>6, <3>1 DEF Outcome
  <2>2. CASE ~IsFile(U, d) /\ into \in Paths /\ Room(T, s, into) /\ U[into] = None
    <3>1. r = Renamed(U, s, into)
      BY <1>1, <1>6, <2>2 DEF AdapterMove, NoFileAbove
    <3>2. Last(s) \in Names
      BY PathsAreSeqs, ElementOfSeq DEF Last
    <3>3. IsPrefix(d, into) /\ \A q \in Paths : IsPrefix(q, into) /\ q # into => IsPrefix(q, d)
      BY <1>1, <2>2, <3>2, AppendParents
    <3>4. ~IsPrefix(s, d)
      BY <1>6 DEF Inside
    <3>5. U[d] = Dir
      BY <1>6, <2>2 DEF Replaceable, IsFile
    <3>6. U[d] = T[d] /\ \A q \in Paths : T[q] # None => U[q] = T[q]
      BY <1>1, <1>6, MadeTree
    <3>7. ~IsPrefix(s, into)
      BY <1>6, <2>2, <3>3, <3>4, <3>6
    <3>8. \A q \in Paths : q # into /\ IsPrefix(q, into) => U[q] = Dir
      BY <1>1, <1>6, <3>3, <3>5, MadeTree
    <3>9. T[d] = None => into = d
      BY <1>6, <3>5, <3>6, PathOrder DEF Replaceable
    <3>10. Goes(T, s, d, into)
      BY <1>1, <1>6, <2>2, <3>3, <3>4, <3>7, <3>8, <3>9 DEF Goes
    <3> QED BY <1>1, <2>2, <3>1, <3>10 DEF Outcome
  <2> QED BY <2>1, <2>2
<1> QED BY <1>2, <1>3, <1>4, <1>5, <1>6

LEMMA RenameOutcome ==
  ASSUME NEW T, IsTree(T), NEW s \in Paths, NEW d \in Paths, s # d
  PROVE  Outcome(T, s, d, AdapterRename(T, s, d))
<1>1. PICK U, r : U = Made(T, d) /\ r = AdapterRename(T, s, d)
  OBVIOUS
<1>2. CASE T[s] = None
  BY <1>2 DEF AdapterRename, Outcome, Result
<1>3. CASE T[s] # None /\ ~NoFileAbove(T, d)
  BY <1>3 DEF AdapterRename, Outcome, Result, NoFileAbove
<1>4. CASE T[s] # None /\ NoFileAbove(T, d) /\ (Inside(s, d) \/ ~Room(T, s, d))
  BY <1>4 DEF AdapterRename, Outcome, Result, NoFileAbove
<1>5. CASE T[s] # None /\ NoFileAbove(T, d) /\ ~(Inside(s, d) \/ ~Room(T, s, d)) /\ Replaceable(U, s, d)
  <2>1. r = Renamed(U, s, d)
    BY <1>1, <1>5 DEF AdapterRename, NoFileAbove
  <2>2. Goes(T, s, d, d)
    BY <1>5, GoesThere
  <2> QED BY <1>1, <2>1, <2>2 DEF Outcome
<1>6. CASE T[s] # None /\ NoFileAbove(T, d) /\ ~(Inside(s, d) \/ ~Room(T, s, d)) /\ ~Replaceable(U, s, d)
  <2>1. r.tree = U /\ r.answer \in {"400", "500"}
    BY <1>1, <1>6 DEF AdapterRename, NoFileAbove, Result
  <2> QED BY <1>1, <1>6, <2>1 DEF Outcome
<1> QED BY <1>2, <1>3, <1>4, <1>5, <1>6

LEMMA CopyOutcomes ==
  ASSUME NEW T, IsTree(T), NEW s \in Paths, NEW d \in Paths, s # d, NEW overwrite \in BOOLEAN
  PROVE  CopyOutcome(T, s, d, overwrite, AdapterCopy(T, s, d, overwrite))
<1>1. PICK U, V, r : U = Made(T, d) /\ V = Deleted(U, d) /\ r = AdapterCopy(T, s, d, overwrite)
  OBVIOUS
<1>2. CASE T[s] = None \/ ~NoFileAbove(T, d)
  BY <1>2 DEF AdapterCopy, CopyOutcome, Result, NoFileAbove
<1>3. CASE T[s] # None /\ NoFileAbove(T, d) /\ U[d] # None /\ ~overwrite
  <2>1. r.tree = U /\ r.answer = "409"
    BY <1>1, <1>3 DEF AdapterCopy, Result, NoFileAbove
  <2> QED BY <1>1, <1>3, <2>1 DEF CopyOutcome
<1>4. CASE T[s] # None /\ NoFileAbove(T, d) /\ ~(U[d] # None /\ ~overwrite) /\ (V[s] = None \/ ~Room(V, s, d))
  <2>1. r.tree = V /\ r.answer \in {"404", "500"}
    BY <1>1, <1>4 DEF AdapterCopy, Result, NoFileAbove
  <2> QED BY <1>1, <1>4, <2>1 DEF CopyOutcome
<1>5. CASE T[s] # None /\ NoFileAbove(T, d) /\ ~(U[d] # None /\ ~overwrite) /\ V[s] # None /\ Room(V, s, d)
  <2>1. r = Result(Grafted(V, V, s, d), "done")
    BY <1>1, <1>5 DEF AdapterCopy, NoFileAbove
  <2> QED BY <1>1, <1>5, <2>1 DEF CopyOutcome
<1> QED BY <1>2, <1>3, <1>4, <1>5

\* What goes to e is there, and all else stays.
LEMMA RenamedTree ==
  ASSUME NEW T, IsTree(T), NEW s \in Paths, NEW d \in Paths, NEW e \in Paths, Goes(T, s, d, e),
         NEW R, R = Renamed(Made(T, d), s, e).tree
  PROVE  /\ IsTree(R)
         /\ \A q \in Paths : ~IsPrefix(e, q) =>
                R[q] = IF IsPrefix(s, q) THEN None ELSE Made(T, d)[q]
         /\ \A q \in Below(e) : R[q] = IF Moved(q, s, e) \in Paths THEN Made(T, d)[Moved(q, s, e)] ELSE None
         /\ \A p \in Below(s) : T[p] # None => \E q \in Below(e) : R[q] = T[p]
<1>1. PICK U, V : U = Made(T, d) /\ V = Deleted(U, s)
  OBVIOUS
<1>2. IsTree(U) /\ \A q \in Paths : T[q] # None => U[q] = T[q]
  BY <1>1, MadeTree DEF Goes
<1>3. IsTree(V) /\ \A q \in Paths : V[q] = IF IsPrefix(s, q) THEN None ELSE U[q]
  BY <1>1, <1>2, DeletedTree
<1>4. R = Grafted(V, U, s, e)
  BY <1>1 DEF Renamed, Result
<1>5. \A q \in Paths : q # e /\ IsPrefix(q, e) => V[q] = Dir
  <2>1. ASSUME NEW q \in Paths, q # e, IsPrefix(q, e) PROVE V[q] = Dir
    <3>1. ~IsPrefix(s, q)
      BY <2>1, PathOrder DEF Goes
    <3>2. U[q] = Dir
      BY <1>1, <2>1 DEF Goes
    <3> QED BY <1>3, <3>1, <3>2
  <2> QED BY <2>1
<1>6. IsTree(R)
  BY <1>2, <1>3, <1>4, <1>5, GraftedTree
<1>7. \A q \in Paths : ~IsPrefix(e, q) => R[q] = V[q]
  BY <1>4 DEF Grafted, Below
<1>8. \A q \in Below(e) : R[q] = IF Moved(q, s, e) \in Paths THEN U[Moved(q, s, e)] ELSE None
  BY <1>4 DEF Grafted, Below, Moved
<1>9. ASSUME NEW p \in Below(s), T[p] # None PROVE \E q \in Below(e) : R[q] = T[p]
  <2>1. PICK q : q = Moved(p, e, s)
    OBVIOUS
  <2>2. q \in Paths
    BY <1>9, <2>1 DEF Goes, Room, Moved
  <2>3. q \in Below(e) /\ Moved(q, s, e) = p /\ p \in Paths
    BY <2>1, <2>2, MovedBack, MovedIs
  <2>4. R[q] = U[p]
    BY <1>8, <2>3
  <2> QED BY <1>2, <1>9, <2>3, <2>4
<1> QED BY <1>1, <1>3, <1>6, <1>7, <1>8, <1>9

LEMMA RenamedThere ==
  ASSUME NEW T, IsTree(T), NEW s \in Paths, NEW d \in Paths, NEW e \in Paths, Goes(T, s, d, e), e = d,
         NEW R, R = Renamed(Made(T, d), s, e).tree
  PROVE  /\ IsTree(R)
         /\ \A q \in Paths : ~IsPrefix(d, q) =>
                R[q] = IF IsPrefix(s, q) THEN None ELSE Made(T, d)[q]
         /\ \A q \in Below(d) : R[q] = IF Moved(q, s, d) \in Paths THEN Made(T, d)[Moved(q, s, d)] ELSE None
BY RenamedTree

\* What is copied is there twice, and what was at the destination is not.
LEMMA CopiedTree ==
  ASSUME NEW T, IsTree(T), NEW s \in Paths, NEW d \in Paths, NoFileAbove(T, d),
         NEW V, V = Deleted(Made(T, d), d), V[s] # None,
         NEW R, R = Grafted(V, V, s, d)
  PROVE  /\ IsTree(R)
         /\ \A q \in Paths : ~IsPrefix(d, q) => R[q] = Made(T, d)[q]
         /\ \A q \in Below(d) : R[q] = IF Moved(q, s, d) \in Paths THEN V[Moved(q, s, d)] ELSE None
<1>1. PICK U : U = Made(T, d)
  OBVIOUS
<1>2. IsTree(U) /\ \A q \in Paths : q # d /\ IsPrefix(q, d) => U[q] = Dir
  BY <1>1, MadeTree
<1>3. IsTree(V) /\ \A q \in Paths : V[q] = IF IsPrefix(d, q) THEN None ELSE U[q]
  BY <1>1, <1>2, DeletedTree
<1>4. \A q \in Paths : q # d /\ IsPrefix(q, d) => V[q] = Dir
  BY <1>2, <1>3, PathOrder
<1>5. IsTree(R)
  BY <1>3, <1>4, GraftedTree
<1>6. \A q \in Paths : ~IsPrefix(d, q) => R[q] = V[q]
  BY DEF Grafted, Below
<1>7. \A q \in Below(d) : R[q] = IF Moved(q, s, d) \in Paths THEN V[Moved(q, s, d)] ELSE None
  BY DEF Grafted, Below, Moved
<1> QED BY <1>1, <1>3, <1>5, <1>6, <1>7

\* A move or a rename leaves a tree, and loses nothing but what was at the destination and
\* below it.
LEMMA OutcomeKeeps ==
  ASSUME NEW T, IsTree(T), NEW s \in Paths, NEW d \in Paths, NEW r, Outcome(T, s, d, r)
  PROVE  /\ IsTree(r.tree) /\ r.answer \in {"done", "400", "404", "409", "500"}
         /\ \A p \in Paths : IsFile(T, p) /\ ~IsPrefix(d, p) => T[p] \in Contents(r.tree)
<1>1. CASE r.tree = T /\ r.answer \in {"404", "409"}
  BY <1>1 DEF Contents
<1>2. CASE NoFileAbove(T, d) /\ r.tree = Made(T, d) /\ r.answer \in {"400", "409", "500"}
  <2>1. IsTree(r.tree) /\ \A q \in Paths : T[q] # None => r.tree[q] = T[q]
    BY <1>2, MadeTree
  <2> QED BY <1>2, <2>1 DEF Contents, IsFile
<1>3. ASSUME NEW e \in Paths, Goes(T, s, d, e), r = Renamed(Made(T, d), s, e) PROVE
         /\ IsTree(r.tree) /\ r.answer \in {"done", "400", "404", "409", "500"}
         /\ \A p \in Paths : IsFile(T, p) /\ ~IsPrefix(d, p) => T[p] \in Contents(r.tree)
  <2>1. PICK R : R = r.tree
    OBVIOUS
  <2>2. R = Renamed(Made(T, d), s, e).tree /\ r.answer = "done"
    BY <1>3, <2>1 DEF Renamed, Result
  <2>3. /\ IsTree(R)
        /\ \A q \in Paths : ~IsPrefix(e, q) => R[q] = IF IsPrefix(s, q) THEN None ELSE Made(T, d)[q]
        /\ \A p \in Below(s) : T[p] # None => \E q \in Below(e) : R[q] = T[p]
    <3>1. Goes(T, s, d, e) /\ R = Renamed(Made(T, d), s, e).tree
      BY <1>3, <2>2
    <3>2. /\ IsTree(R)
          /\ \A q \in Paths : ~IsPrefix(e, q) => R[q] = IF IsPrefix(s, q) THEN None ELSE Made(T, d)[q]
          /\ \A q \in Below(e) : R[q] = IF Moved(q, s, e) \in Paths THEN Made(T, d)[Moved(q, s, e)] ELSE None
          /\ \A p \in Below(s) : T[p] # None => \E q \in Below(e) : R[q] = T[p]
      BY <3>1, RenamedTree
    <3> QED BY <3>2
  <2>4. ASSUME NEW p \in Paths, IsFile(T, p), ~IsPrefix(d, p) PROVE T[p] \in Contents(R)
    <3>1. CASE IsPrefix(s, p)
      <4>1. PICK q \in Paths : R[q] = T[p]
        BY <2>3, <2>4, <3>1 DEF Below, IsFile
      <4> QED BY <2>4, <4>1 DEF Contents, IsFile
    <3>2. CASE ~IsPrefix(s, p)
      <4>1. ~IsPrefix(e, p)
        BY <1>3, <2>4, PathOrder DEF Goes
      <4>2. R[p] = T[p]
        BY <1>3, <2>3, <2>4, <3>2, <4>1, MadeTree DEF Goes, IsFile
      <4> QED BY <2>4, <4>2 DEF Contents, IsFile
    <3> QED BY <3>1, <3>2
  <2> QED BY <2>1, <2>2, <2>3, <2>4
<1> QED BY <1>1, <1>2, <1>3 DEF Outcome

LEMMA CopyKeeps ==
  ASSUME NEW T, IsTree(T), NEW s \in Paths, NEW d \in Paths, NEW overwrite \in BOOLEAN,
         NEW r, CopyOutcome(T, s, d, overwrite, r)
  PROVE  /\ IsTree(r.tree) /\ r.answer \in {"done", "400", "404", "409", "500"}
         /\ \A p \in Paths : IsFile(T, p) /\ ~IsPrefix(d, p) => T[p] \in Contents(r.tree)
<1>1. CASE r.tree = T /\ r.answer \in {"404", "409"}
  BY <1>1 DEF Contents
<1>2. CASE NoFileAbove(T, d) /\ ~(r.tree = T /\ r.answer \in {"404", "409"})
  <2>1. PICK U, V, R : U = Made(T, d) /\ V = Deleted(U, d) /\ R = r.tree
    OBVIOUS
  <2>2. IsTree(U) /\ \A q \in Paths : T[q] # None => U[q] = T[q]
    BY <1>2, <2>1, MadeTree
  <2>3. IsTree(V) /\ \A q \in Paths : V[q] = IF IsPrefix(d, q) THEN None ELSE U[q]
    BY <2>1, <2>2, DeletedTree
  <2>4. /\ r.answer \in {"done", "400", "404", "409", "500"}
        /\ R = U \/ R = V \/ (V[s] # None /\ R = Grafted(V, V, s, d))
    BY <1>2, <2>1 DEF CopyOutcome, Result
  <2>5. IsTree(R) /\ \A q \in Paths : ~IsPrefix(d, q) => R[q] = U[q]
    <3>1. CASE R = U \/ R = V
      BY <2>2, <2>3, <3>1
    <3>2. CASE V[s] # None /\ R = Grafted(V, V, s, d)
      <4>1. V = Deleted(Made(T, d), d)
        BY <2>1
      <4> QED BY <1>2, <2>1, <3>2, <4>1, CopiedTree
    <3> QED BY <2>4, <3>1, <3>2
  <2> QED BY <2>1, <2>2, <2>4, <2>5 DEF Contents, IsFile
<1> QED BY <1>1, <1>2 DEF CopyOutcome

-----------------------------------------------------------------------------
(* What a request does that nobody interferes with: it found S, and its     *)
(* adapter is called with T.                                                *)

Found(S, d) == IF S[d] # None THEN Deleted(S, d) ELSE S

Kept(T, a, answer, S) ==
    /\ answer = "done" => T = Promised(S, a)
    /\ ~a.overwrite => /\ Contents(S) \subseteq Contents(T)
                       /\ answer # "done" => Files(T) = Files(S)

LEMMA FoundIs ==
  ASSUME NEW S, IsTree(S), NEW d \in Paths
  PROVE  /\ IsTree(Found(S, d)) /\ Found(S, d)[d] = None
         /\ \A q \in Paths : ~IsPrefix(d, q) => Found(S, d)[q] = S[q]
         /\ \A q \in Paths : IsPrefix(d, q) => Found(S, d)[q] = None
<1>1. ASSUME NEW q \in Paths, S[d] = None, IsPrefix(d, q) PROVE S[q] = None
  BY <1>1, DirAssumption, TreeHas
<1> QED BY <1>1, DeletedTree, PathOrder DEF Found

LEMMA PromisedIs ==
  ASSUME NEW S, IsTree(S), NEW a, a.src \in Paths, a.dst \in Paths, NoFileAbove(S, a.dst)
  PROVE  LET s == a.src  d == a.dst IN
         /\ Promised(S, a) = [q \in Paths |-> Promised(S, a)[q]]
         /\ \A q \in Paths : ~IsPrefix(d, q) =>
                Promised(S, a)[q] = IF a.op # "copy" /\ IsPrefix(s, q) THEN None ELSE Made(S, d)[q]
         /\ \A q \in Below(d) : Promised(S, a)[q] =
                IF Moved(q, s, d) \in Paths THEN S[Moved(q, s, d)] ELSE None
<1>1. PICK s \in Paths, d \in Paths : s = a.src /\ d = a.dst
  OBVIOUS
<1>2. PICK U, W, X : /\ U = Made(S, d) /\ W = Deleted(U, d)
                     /\ X = IF a.op = "copy" THEN W ELSE Deleted(W, s)
  OBVIOUS
<1>3. NoFileAbove(S, d)
  BY <1>1
<1>4. IsTree(U)
  BY <1>2, <1>3, MadeTree
<1>5. IsTree(W) /\ \A q \in Paths : W[q] = IF IsPrefix(d, q) THEN None ELSE U[q]
  BY <1>2, <1>4, DeletedTree
<1>6. \A q \in Paths : Deleted(W, s)[q] = IF IsPrefix(s, q) THEN None ELSE W[q]
  BY <1>5, DeletedTree
<1>7. \A q \in Paths : ~IsPrefix(d, q) => X[q] = IF a.op # "copy" /\ IsPrefix(s, q) THEN None ELSE U[q]
  BY <1>2, <1>5, <1>6
<1>8. Promised(S, a) = Grafted(X, S, s, d)
  BY <1>1, <1>2 DEF Promised
<1>9. PICK P : P = Promised(S, a)
  OBVIOUS
<1>10. /\ P = [q \in Paths |-> P[q]] /\ \A q \in Paths : ~IsPrefix(d, q) => P[q] = X[q]
       /\ \A q \in Below(d) : P[q] = IF Moved(q, s, d) \in Paths THEN S[Moved(q, s, d)] ELSE None
  BY <1>8, <1>9 DEF Grafted, Below, Moved
<1> QED BY <1>1, <1>2, <1>7, <1>9, <1>10

\* The parents of the destination are made of what was found as of what is there.
LEMMA FoundMade ==
  ASSUME NEW S, IsTree(S), NEW d \in Paths, NoFileAbove(Found(S, d), d)
  PROVE  /\ NoFileAbove(S, d)
         /\ \A q \in Paths : ~IsPrefix(d, q) => Made(Found(S, d), d)[q] = Made(S, d)[q]
<1>1. ASSUME NEW q \in Parents(d) PROVE Found(S, d)[q] = S[q] /\ q \in Paths
  BY ParentsAre, PathOrder, FoundIs
<1>2. NoFileAbove(S, d)
  BY <1>1 DEF NoFileAbove, IsFile
<1>3. \A q \in Paths : ~IsPrefix(d, q) => Made(Found(S, d), d)[q] = Made(S, d)[q]
  BY FoundIs DEF Made
<1> QED BY <1>2, <1>3

\* A failure that leaves the parents of the destination leaves every file.
LEMMA FilesLeft ==
  ASSUME NEW S, IsTree(S), NEW U, IsTree(U), \A q \in Paths : IsFile(U, q) <=> IsFile(S, q),
         \A q \in Paths : S[q] # None => U[q] = S[q]
  PROVE  Contents(S) \subseteq Contents(U) /\ Files(U) = Files(S)
<1>1. \A q \in Paths : IsFile(S, q) => U[q] = S[q] /\ IsFile(U, q)
  BY DEF IsFile
<1> QED BY <1>1 DEF Contents, Files

LEMMA MoveRight ==
  ASSUME NEW S, IsTree(S), NEW a, a.src \in Paths, a.dst \in Paths, a.op # "copy", a.src # a.dst,
         S[a.dst] # None => a.overwrite, NEW r, Outcome(Found(S, a.dst), a.src, a.dst, r)
  PROVE  Kept(r.tree, a, r.answer, S)
<1>1. PICK s \in Paths, d \in Paths : s = a.src /\ d = a.dst
  OBVIOUS
<1>2. PICK T : T = Found(S, d)
  OBVIOUS
<1>3. /\ IsTree(T) /\ T[d] = None /\ \A q \in Paths : ~IsPrefix(d, q) => T[q] = S[q]
      /\ \A q \in Paths : IsPrefix(d, q) => T[q] = None
  <2>1. /\ IsTree(Found(S, d)) /\ Found(S, d)[d] = None
        /\ \A q \in Paths : ~IsPrefix(d, q) => Found(S, d)[q] = S[q]
        /\ \A q \in Paths : IsPrefix(d, q) => Found(S, d)[q] = None
    BY FoundIs
  <2> QED BY <1>2, <2>1
<1>4. ~a.overwrite => T = S
  BY <1>1, <1>2 DEF Found
<1>5. Outcome(T, s, d, r)
  BY <1>1, <1>2
<1>6. ~a.overwrite => Contents(S) \subseteq Contents(r.tree)
  <2>1. \A p \in Paths : IsFile(T, p) /\ ~IsPrefix(d, p) => T[p] \in Contents(r.tree)
    BY <1>3, <1>5, OutcomeKeeps
  <2>2. \A p \in Paths : IsFile(T, p) => ~IsPrefix(d, p)
    BY <1>3 DEF IsFile
  <2> QED BY <1>4, <2>1, <2>2 DEF Contents
<1>7. CASE r.tree = T /\ r.answer \in {"404", "409"}
  BY <1>4, <1>6, <1>7 DEF Kept
<1>8. CASE NoFileAbove(T, d) /\ r.tree = Made(T, d) /\ r.answer \in {"400", "409", "500"}
  <2>1. PICK U : U = Made(T, d)
    OBVIOUS
  <2>2. IsTree(U) /\ (\A q \in Paths : IsFile(U, q) <=> IsFile(T, q)) /\ \A q \in Paths : T[q] # None => U[q] = T[q]
    BY <1>3, <1>8, <2>1, MadeTree
  <2>3. Files(U) = Files(T)
    BY <1>3, <2>2, FilesLeft
  <2> QED BY <1>4, <1>6, <1>8, <2>1, <2>3 DEF Kept
<1>9. ASSUME NEW e \in Paths, Goes(T, s, d, e), r = Renamed(Made(T, d), s, e) PROVE Kept(r.tree, a, r.answer, S)
  <2>1. e = d /\ NoFileAbove(T, d) /\ ~IsPrefix(s, d) /\ T[s] # None
    BY <1>3, <1>9 DEF Goes
  <2>2. PICK R, U : R = r.tree /\ U = Made(T, d)
    OBVIOUS
  <2>3. Goes(T, s, d, e) /\ R = Renamed(Made(T, d), s, e).tree
    BY <1>9, <2>2
  <2>4. /\ IsTree(R)
        /\ \A q \in Paths : ~IsPrefix(d, q) => R[q] = IF IsPrefix(s, q) THEN None ELSE Made(T, d)[q]
        /\ \A q \in Below(d) : R[q] = IF Moved(q, s, d) \in Paths THEN Made(T, d)[Moved(q, s, d)] ELSE None
    BY <1>1, <1>3, <2>1, <2>3, RenamedThere
  <2>5. /\ NoFileAbove(S, d)
        /\ \A q \in Paths : ~IsPrefix(d, q) => Made(T, d)[q] = Made(S, d)[q]
    BY <1>2, <2>1, FoundMade
  <2>6. PICK P : P = Promised(S, a)
    OBVIOUS
  <2>7. /\ P = [q \in Paths |-> P[q]]
        /\ \A q \in Paths : ~IsPrefix(d, q) => P[q] = IF IsPrefix(s, q) THEN None ELSE Made(S, d)[q]
        /\ \A q \in Below(d) : P[q] = IF Moved(q, s, d) \in Paths THEN S[Moved(q, s, d)] ELSE None
    BY <1>1, <2>5, <2>6, PromisedIs
  <2>8. ASSUME NEW g \in Paths, IsPrefix(s, g) PROVE Made(T, d)[g] = S[g]
    <3>1. ~(g # d /\ IsPrefix(g, d))
      BY <2>1, <2>8, PathOrder
    <3>2. Made(T, d)[g] = T[g]
      BY <1>3, <2>1, <3>1, MadeTree
    <3>3. ~IsPrefix(d, s)
      BY <1>3, <2>1
    <3>4. ~IsPrefix(d, g)
      BY <2>1, <2>8, <3>3, PathOrder
    <3> QED BY <1>3, <3>2, <3>4
  <2>9. ASSUME NEW q \in Paths PROVE R[q] = P[q]
    <3>1. CASE ~IsPrefix(d, q)
      BY <2>4, <2>5, <2>7, <3>1
    <3>2. CASE IsPrefix(d, q)
      <4>1. q \in Below(d) /\ IsPrefix(s, Moved(q, s, d))
        BY <3>2, MovedIs DEF Below
      <4>2. Moved(q, s, d) \in Paths => Made(T, d)[Moved(q, s, d)] = S[Moved(q, s, d)]
        BY <2>8, <4>1
      <4> QED BY <2>4, <2>7, <4>1, <4>2
    <3> QED BY <3>1, <3>2
  <2>10. R = P
    BY <2>4, <2>7, <2>9 DEF IsTree
  <2>11. r.answer = "done"
    BY <1>9 DEF Renamed, Result
  <2> QED BY <1>6, <2>2, <2>6, <2>10, <2>11 DEF Kept
<1> QED BY <1>5, <1>7, <1>8, <1>9 DEF Outcome

LEMMA CopyRight ==
  ASSUME NEW S, IsTree(S), NEW a, a.src \in Paths, a.dst \in Paths, a.op = "copy", a.src # a.dst,
         ~Inside(a.src, a.dst), a.overwrite \in BOOLEAN, S[a.dst] # None => a.overwrite,
         NEW r, CopyOutcome(Found(S, a.dst), a.src, a.dst, a.overwrite, r)
  PROVE  Kept(r.tree, a, r.answer, S)
<1>1. PICK s \in Paths, d \in Paths : s = a.src /\ d = a.dst
  OBVIOUS
<1>2. PICK T : T = Found(S, d)
  OBVIOUS
<1>3. /\ IsTree(T) /\ T[d] = None /\ \A q \in Paths : ~IsPrefix(d, q) => T[q] = S[q]
      /\ \A q \in Paths : IsPrefix(d, q) => T[q] = None
  <2>1. /\ IsTree(Found(S, d)) /\ Found(S, d)[d] = None
        /\ \A q \in Paths : ~IsPrefix(d, q) => Found(S, d)[q] = S[q]
        /\ \A q \in Paths : IsPrefix(d, q) => Found(S, d)[q] = None
    BY FoundIs
  <2> QED BY <1>2, <2>1
<1>4. ~a.overwrite => T = S
  BY <1>1, <1>2 DEF Found
<1>5. CopyOutcome(T, s, d, a.overwrite, r)
  BY <1>1, <1>2
<1>6. ~a.overwrite => Contents(S) \subseteq Contents(r.tree)
  <2>1. PICK o \in BOOLEAN : o = a.overwrite
    OBVIOUS
  <2>2. CopyOutcome(T, s, d, o, r)
    BY <1>5, <2>1
  <2>3. \A p \in Paths : IsFile(T, p) /\ ~IsPrefix(d, p) => T[p] \in Contents(r.tree)
    BY <1>3, <2>2, CopyKeeps
  <2>4. \A p \in Paths : IsFile(T, p) => ~IsPrefix(d, p)
    BY <1>3 DEF IsFile
  <2> QED BY <1>4, <2>3, <2>4 DEF Contents
<1>7. CASE r.tree = T /\ r.answer \in {"404", "409"}
  BY <1>4, <1>6, <1>7 DEF Kept
<1>8. CASE NoFileAbove(T, d) /\ ~(r.tree = T /\ r.answer \in {"404", "409"})
  <2>1. PICK U, V, R : U = Made(T, d) /\ V = Deleted(U, d) /\ R = r.tree
    OBVIOUS
  <2>2. /\ IsTree(U) /\ (\A q \in Paths : IsFile(U, q) <=> IsFile(T, q))
        /\ \A q \in Paths : T[q] # None => U[q] = T[q]
        /\ \A q \in Paths : ~(q # d /\ IsPrefix(q, d)) => U[q] = T[q]
    BY <1>3, <1>8, <2>1, MadeTree
  <2>3. IsTree(V) /\ \A q \in Paths : V[q] = IF IsPrefix(d, q) THEN None ELSE U[q]
    BY <2>1, <2>2, DeletedTree
  <2>4. \/ R = U /\ r.answer = "409"
        \/ R = V /\ r.answer \in {"404", "500"}
        \/ V[s] # None /\ R = Grafted(V, V, s, d) /\ r.answer = "done"
    BY <1>5, <1>8, <2>1 DEF CopyOutcome, Result
  <2>5. \A q \in Paths : IsPrefix(d, q) => U[q] = None
    BY <1>3, <2>2, PathOrder
  <2>6. CASE r.answer # "done"
    <3>1. R = U
      <4>1. \A q \in Paths : V[q] = U[q]
        BY <2>3, <2>5
      <4> QED BY <2>2, <2>3, <2>4, <2>6, <4>1 DEF IsTree
    <3>2. Files(U) = Files(T)
      BY <1>3, <2>2, FilesLeft
    <3> QED BY <1>4, <1>6, <2>1, <2>6, <3>1, <3>2 DEF Kept
  <2>7. CASE V[s] # None /\ R = Grafted(V, V, s, d) /\ r.answer = "done"
    <3>1. V = Deleted(Made(T, d), d)
      BY <2>1
    <3>2. /\ IsTree(R) /\ \A q \in Paths : ~IsPrefix(d, q) => R[q] = Made(T, d)[q]
          /\ \A q \in Below(d) : R[q] = IF Moved(q, s, d) \in Paths THEN V[Moved(q, s, d)] ELSE None
      BY <1>3, <1>8, <2>7, <3>1, CopiedTree
    <3>3. /\ NoFileAbove(S, d)
          /\ \A q \in Paths : ~IsPrefix(d, q) => Made(T, d)[q] = Made(S, d)[q]
      BY <1>2, <1>8, FoundMade
    <3>4. PICK P : P = Promised(S, a)
      OBVIOUS
    <3>5. /\ P = [q \in Paths |-> P[q]]
          /\ \A q \in Paths : ~IsPrefix(d, q) => P[q] = Made(S, d)[q]
          /\ \A q \in Below(d) : P[q] = IF Moved(q, s, d) \in Paths THEN S[Moved(q, s, d)] ELSE None
      BY <1>1, <3>3, <3>4, PromisedIs
    <3>6. ~IsPrefix(s, d) /\ ~IsPrefix(d, s)
      BY <1>1, <2>3, <2>7 DEF Inside
    <3>7. ASSUME NEW g \in Paths, IsPrefix(s, g) PROVE V[g] = S[g]
      <4>1. ~IsPrefix(d, g) /\ ~IsPrefix(g, d)
        BY <3>6, <3>7, PathOrder
      <4> QED BY <1>3, <2>2, <2>3, <4>1
    <3>8. ASSUME NEW q \in Paths PROVE R[q] = P[q]
      <4>1. CASE ~IsPrefix(d, q)
        BY <3>2, <3>3, <3>5, <4>1
      <4>2. CASE IsPrefix(d, q)
        <5>1. q \in Below(d) /\ IsPrefix(s, Moved(q, s, d))
          BY <4>2, MovedIs DEF Below
        <5>2. Moved(q, s, d) \in Paths => V[Moved(q, s, d)] = S[Moved(q, s, d)]
          BY <3>7, <5>1
        <5> QED BY <3>2, <3>5, <5>1, <5>2
      <4> QED BY <4>1, <4>2
    <3>9. R = P
      BY <3>2, <3>5, <3>8 DEF IsTree
    <3> QED BY <1>6, <2>1, <2>7, <3>4, <3>9 DEF Kept
  <2> QED BY <2>4, <2>6, <2>7
<1> QED BY <1>5, <1>7, <1>8 DEF CopyOutcome

-----------------------------------------------------------------------------
(* The inductive invariant.                                                 *)

Answers == {"", "done", "noop", "400", "404", "409", "500"}
Idle == [pc |-> "idle", answer |-> ""]
Asked == [ask : Ask, pc : {"delete", "act", "answered"}, answer : Answers]

Typed ==
    /\ IsTree(tree)
    /\ DOMAIN saw = Requests /\ \A i \in Requests : IsTree(saw[i])
    /\ DOMAIN request = Requests /\ \A i \in Requests : request[i] = Idle \/ request[i] \in Asked
    /\ solo \in [Requests -> BOOLEAN]

\* Where request r stands that found S and that nobody has interfered with.
Stands(T, r, S) ==
    /\ r.pc = "delete" => T = S /\ S[r.ask.dst] # None /\ r.ask.overwrite
    /\ r.pc = "act" => T = Found(S, r.ask.dst) /\ (S[r.ask.dst] # None => r.ask.overwrite)
    /\ r.pc = "answered" => Kept(T, r.ask, r.answer, S)

Alone == \A i \in Requests : solo[i] => Stands(tree, request[i], saw[i])

IInv == Typed /\ Alone

LEMMA Begins == Init => IInv
<1> SUFFICES ASSUME Init PROVE IInv
  OBVIOUS
<1>1. IsTree(tree)
  BY TreesAssumption DEF Init, IsTree
<1>2. \A i \in Requests : request[i] = Idle /\ saw[i] = tree /\ solo[i] = FALSE
  BY DEF Init, Idle
<1>3. DOMAIN saw = Requests /\ DOMAIN request = Requests /\ solo \in [Requests -> BOOLEAN]
  BY DEF Init
<1> QED BY <1>1, <1>2, <1>3 DEF IInv, Typed, Alone

\* What is asked is an ask.
LEMMA AskedIs ==
  ASSUME Typed, NEW i \in Requests, request[i].pc # "idle"
  PROVE  /\ request[i] \in Asked /\ DOMAIN request[i] = {"ask", "pc", "answer"}
         /\ request[i].ask \in Ask /\ request[i].ask.src \in Paths /\ request[i].ask.dst \in Paths
         /\ request[i].ask.op \in {"move", "rename", "copy"} /\ request[i].ask.overwrite \in BOOLEAN
         /\ request[i].ask.op = "copy" => ~Inside(request[i].ask.src, request[i].ask.dst)
<1>1. request[i] \in Asked
  <2>1. Idle.pc = "idle"
    BY DEF Idle
  <2> QED BY <2>1 DEF Typed
<1>2. request[i].ask \in Ask /\ DOMAIN request[i] = {"ask", "pc", "answer"}
  BY <1>1 DEF Asked
<1> QED BY <1>1, <1>2, AskAssumption

\* A step of request i that leaves a tree.
LEMMA StepStays ==
  ASSUME IInv, NEW i \in Requests, IsTree(tree'),
         DOMAIN request' = Requests, \A j \in Requests : j # i => request'[j] = request[j],
         request'[i] \in Asked, UNCHANGED saw, Acted(i),
         solo[i] => Stands(tree', request'[i], saw[i])
  PROVE  IInv'
<1>1. solo' \in [Requests -> BOOLEAN] /\ \A j \in Requests : solo'[j] => solo[j] /\ (j = i \/ tree' = tree)
  BY DEF Acted, IInv, Typed
<1>2. Typed'
  <2>1. \A j \in Requests : request'[j] = Idle \/ request'[j] \in Asked
    BY DEF IInv, Typed
  <2>2. \A j \in Requests : IsTree(saw'[j])
    BY DEF IInv, Typed
  <2>3. DOMAIN saw' = Requests
    BY DEF IInv, Typed
  <2> QED BY <1>1, <2>1, <2>2, <2>3 DEF Typed
<1>3. ASSUME NEW j \in Requests, solo'[j] PROVE Stands(tree', request'[j], saw'[j])
  <2>1. CASE j = i
    BY <1>1, <1>3, <2>1
  <2>2. CASE j # i
    BY <1>1, <1>3, <2>2 DEF IInv, Alone
  <2> QED BY <2>1, <2>2
<1> QED BY <1>2, <1>3 DEF IInv, Alone, Stands, Kept, Found

\* What an adapter's call answers, and why nothing is lost that should not be.
ActsAsAsked(i, r) ==
    LET a == request[i].ask IN
    \/ a.op # "copy" /\ Outcome(tree, a.src, a.dst, r)
    \/ a.op = "copy" /\ CopyOutcome(tree, a.src, a.dst, a.overwrite, r)

LEMMA ActSteps ==
  ASSUME Typed, NEW i \in Requests, Move(i) \/ Rename(i) \/ Copy(i)
  PROVE  \E r : ActsAsAsked(i, r) /\ Act(i, request[i].ask.op, r)
<1>1. PICK a, s, d, o : a = request[i].ask /\ s = a.src /\ d = a.dst /\ o = a.overwrite
  OBVIOUS
<1>2. /\ request[i].pc = "act" /\ s # d /\ s \in Paths /\ d \in Paths /\ o \in BOOLEAN
      /\ IsTree(tree)
  BY <1>1, AskedIs DEF Move, Rename, Copy, Act, Typed
<1>3. CASE Move(i)
  <2>1. Outcome(tree, s, d, AdapterMove(tree, s, d))
    BY <1>2, MoveOutcome
  <2>2. Act(i, "move", AdapterMove(tree, s, d)) /\ a.op = "move"
    BY <1>1, <1>3 DEF Move, Act
  <2> QED BY <1>1, <2>1, <2>2 DEF ActsAsAsked
<1>4. CASE Rename(i)
  <2>1. Outcome(tree, s, d, AdapterRename(tree, s, d))
    BY <1>2, RenameOutcome
  <2>2. Act(i, "rename", AdapterRename(tree, s, d)) /\ a.op = "rename"
    BY <1>1, <1>4 DEF Rename, Act
  <2> QED BY <1>1, <2>1, <2>2 DEF ActsAsAsked
<1>5. CASE Copy(i)
  <2>1. CopyOutcome(tree, s, d, o, AdapterCopy(tree, s, d, o))
    BY <1>2, CopyOutcomes
  <2>2. Act(i, "copy", AdapterCopy(tree, s, d, o)) /\ a.op = "copy"
    BY <1>1, <1>5 DEF Copy, Act
  <2> QED BY <1>1, <2>1, <2>2 DEF ActsAsAsked
<1> QED BY <1>3, <1>4, <1>5

LEMMA ActKeeps ==
  ASSUME Typed, NEW i \in Requests, NEW r, ActsAsAsked(i, r), Act(i, request[i].ask.op, r)
  PROVE  /\ IsTree(r.tree) /\ r.answer \in Answers
         /\ \A p \in Paths : IsFile(tree, p) /\ ~IsPrefix(request[i].ask.dst, p) => tree[p] \in Contents(r.tree)
<1>1. PICK a, s, d, o : a = request[i].ask /\ s = a.src /\ d = a.dst /\ o = a.overwrite
  OBVIOUS
<1>2. /\ request[i].pc = "act" /\ s # d /\ s \in Paths /\ d \in Paths /\ o \in BOOLEAN
      /\ IsTree(tree)
  BY <1>1, AskedIs DEF Act, Typed
<1>3. Outcome(tree, s, d, r) \/ CopyOutcome(tree, s, d, o, r)
  BY <1>1 DEF ActsAsAsked
<1>4. /\ IsTree(r.tree) /\ r.answer \in {"done", "400", "404", "409", "500"}
      /\ \A p \in Paths : IsFile(tree, p) /\ ~IsPrefix(d, p) => tree[p] \in Contents(r.tree)
  <2>1. CASE Outcome(tree, s, d, r)
    BY <1>2, <2>1, OutcomeKeeps
  <2>2. CASE CopyOutcome(tree, s, d, o, r)
    BY <1>2, <2>2, CopyKeeps
  <2> QED BY <1>3, <2>1, <2>2
<1> QED BY <1>1, <1>4 DEF Answers

LEMMA ActStays ==
  ASSUME IInv, NEW i \in Requests, NEW r, ActsAsAsked(i, r), Act(i, request[i].ask.op, r)
  PROVE  IInv'
<1>1. PICK a, q, S : a = request[i].ask /\ q = request[i] /\ S = saw[i]
  OBVIOUS
<1>2. /\ Typed /\ request[i].pc = "act" /\ a.src # a.dst /\ tree' = r.tree
      /\ Answer(i, r.answer) /\ Acted(i) /\ UNCHANGED saw
  BY <1>1 DEF IInv, Act
<1>3. /\ q \in Asked /\ DOMAIN q = {"ask", "pc", "answer"} /\ a \in Ask /\ a.src \in Paths /\ a.dst \in Paths
      /\ a.op \in {"move", "rename", "copy"} /\ a.overwrite \in BOOLEAN
      /\ a.op = "copy" => ~Inside(a.src, a.dst)
  BY <1>1, <1>2, AskedIs
<1>4. IsTree(r.tree) /\ r.answer \in Answers
  BY <1>2, ActKeeps
<1>5. /\ DOMAIN request' = Requests /\ \A j \in Requests : j # i => request'[j] = request[j]
      /\ request'[i] = [q EXCEPT !.pc = "answered", !.answer = r.answer]
  BY <1>1, <1>2 DEF Answer, Typed
<1>6. request'[i] \in Asked /\ request'[i].pc = "answered" /\ request'[i].answer = r.answer /\ request'[i].ask = a
  BY <1>1, <1>3, <1>4, <1>5 DEF Asked
<1>7. ASSUME solo[i] PROVE Stands(tree', request'[i], saw[i])
  <2>1. /\ tree = Found(S, a.dst) /\ (S[a.dst] # None => a.overwrite) /\ IsTree(S)
    BY <1>1, <1>2, <1>7 DEF IInv, Alone, Stands, Typed
  <2>2. Kept(r.tree, a, r.answer, S)
    <3>1. CASE a.op # "copy"
      <4>1. Outcome(Found(S, a.dst), a.src, a.dst, r)
        BY <1>1, <2>1, <3>1 DEF ActsAsAsked
      <4> QED BY <1>2, <1>3, <2>1, <3>1, <4>1, MoveRight
    <3>2. CASE a.op = "copy"
      <4>1. CopyOutcome(Found(S, a.dst), a.src, a.dst, a.overwrite, r)
        BY <1>1, <2>1, <3>2 DEF ActsAsAsked
      <4> QED BY <1>2, <1>3, <2>1, <3>2, <4>1, CopyRight
    <3> QED BY <3>1, <3>2
  <2> QED BY <1>1, <1>2, <1>6, <2>2 DEF Stands
<1>8. IsTree(tree')
  BY <1>2, <1>4
<1> QED BY <1>2, <1>5, <1>6, <1>7, <1>8, StepStays

LEMMA PreDeleteStays ==
  ASSUME IInv, NEW i \in Requests, PreDelete(i)
  PROVE  IInv'
<1>1. PICK a, q, S : a = request[i].ask /\ q = request[i] /\ S = saw[i]
  OBVIOUS
<1>2. /\ Typed /\ request[i].pc = "delete" /\ tree' = Deleted(tree, a.dst)
      /\ request' = [request EXCEPT ![i].pc = "act"] /\ Acted(i) /\ UNCHANGED saw
  BY <1>1 DEF IInv, PreDelete
<1>3. q \in Asked /\ DOMAIN q = {"ask", "pc", "answer"} /\ a.dst \in Paths
  BY <1>1, <1>2, AskedIs
<1>4. /\ DOMAIN request' = Requests /\ \A j \in Requests : j # i => request'[j] = request[j]
      /\ request'[i] = [q EXCEPT !.pc = "act"]
  BY <1>1, <1>2 DEF Typed
<1>5. request'[i] \in Asked /\ request'[i].pc = "act" /\ request'[i].ask = a
  BY <1>1, <1>3, <1>4 DEF Asked
<1>6. IsTree(tree')
  BY <1>2, <1>3, DeletedTree DEF Typed
<1>7. ASSUME solo[i] PROVE Stands(tree', request'[i], saw[i])
  <2>1. tree = S /\ S[a.dst] # None /\ a.overwrite
    BY <1>1, <1>2, <1>7 DEF IInv, Alone, Stands
  <2> QED BY <1>1, <1>2, <1>5, <2>1 DEF Stands, Found
<1> QED BY <1>2, <1>4, <1>5, <1>6, <1>7, StepStays

LEMMA NoopStays ==
  ASSUME IInv, NEW i \in Requests, Noop(i)
  PROVE  IInv'
<1>1. PICK a, q, S : a = request[i].ask /\ q = request[i] /\ S = saw[i]
  OBVIOUS
<1>2. /\ Typed /\ request[i].pc = "act" /\ Answer(i, "noop") /\ UNCHANGED <<tree, saw, solo>>
  BY <1>1 DEF IInv, Noop
<1>3. q \in Asked /\ DOMAIN q = {"ask", "pc", "answer"} /\ a.dst \in Paths
  BY <1>1, <1>2, AskedIs
<1>4. /\ DOMAIN request' = Requests /\ \A j \in Requests : j # i => request'[j] = request[j]
      /\ request'[i] = [q EXCEPT !.pc = "answered", !.answer = "noop"]
  BY <1>1, <1>2 DEF Answer, Typed
<1>5. request'[i] \in Asked /\ request'[i].pc = "answered" /\ request'[i].answer = "noop" /\ request'[i].ask = a
  BY <1>1, <1>3, <1>4 DEF Asked, Answers
<1>6. ASSUME solo[i] PROVE Stands(tree', request'[i], saw[i])
  <2>1. tree = Found(S, a.dst) /\ (S[a.dst] # None => a.overwrite) /\ IsTree(S)
    BY <1>1, <1>2, <1>6 DEF IInv, Alone, Stands, Typed
  <2>2. ~a.overwrite => tree = S
    BY <2>1 DEF Found
  <2> QED BY <1>1, <1>2, <1>5, <2>2 DEF Stands, Kept
<1>7. Acted(i) /\ IsTree(tree')
  BY <1>2 DEF Acted, Typed
<1> QED BY <1>2, <1>4, <1>5, <1>6, <1>7, StepStays

LEMMA LookStays ==
  ASSUME IInv, NEW i \in Requests, Look(i)
  PROVE  IInv'
<1>1. PICK a \in Ask : request' = [request EXCEPT ![i] =
            IF tree[a.dst] # None /\ ~a.overwrite
            THEN [ask |-> a, pc |-> "answered", answer |-> "409"]
            ELSE [ask |-> a, pc |-> IF tree[a.dst] # None THEN "delete" ELSE "act", answer |-> ""]]
  BY DEF Look
<1>2. saw' = [saw EXCEPT ![i] = tree] /\ solo' = [solo EXCEPT ![i] = TRUE] /\ tree' = tree /\ Typed
  BY DEF Look, IInv
<1>3. /\ DOMAIN request' = Requests /\ \A j \in Requests : j # i => request'[j] = request[j]
      /\ request'[i] = IF tree[a.dst] # None /\ ~a.overwrite
                       THEN [ask |-> a, pc |-> "answered", answer |-> "409"]
                       ELSE [ask |-> a, pc |-> IF tree[a.dst] # None THEN "delete" ELSE "act", answer |-> ""]
  BY <1>1, <1>2 DEF Typed
<1>4. /\ DOMAIN saw' = Requests /\ saw'[i] = tree /\ \A j \in Requests : j # i => saw'[j] = saw[j]
  BY <1>2 DEF Typed
<1>5. solo' \in [Requests -> BOOLEAN] /\ \A j \in Requests : j # i => solo'[j] = solo[j]
  BY <1>2 DEF Typed
<1>6. request'[i] \in Asked
  BY <1>1, <1>3 DEF Asked, Answers
<1>7. Typed'
  <2>1. \A j \in Requests : request'[j] = Idle \/ request'[j] \in Asked
    BY <1>2, <1>3, <1>6 DEF Typed
  <2>2. IsTree(tree') /\ \A j \in Requests : IsTree(saw'[j])
    BY <1>2, <1>4 DEF Typed
  <2> QED BY <1>3, <1>4, <1>5, <2>1, <2>2 DEF Typed
<1>8. ASSUME NEW j \in Requests, solo'[j] PROVE Stands(tree', request'[j], saw'[j])
  <2>1. CASE j # i
    BY <1>2, <1>3, <1>4, <1>5, <1>8, <2>1 DEF IInv, Alone
  <2>2. CASE j = i
    <3>1. PICK r, S : r = request'[i] /\ S = tree
      OBVIOUS
    <3>2. CASE tree[a.dst] # None /\ ~a.overwrite
      <4>1. r.pc = "answered" /\ r.answer = "409" /\ r.ask = a
        BY <1>3, <3>1, <3>2
      <4>2. Stands(S, r, S)
        BY <4>1 DEF Stands, Kept
      <4> QED BY <1>2, <1>4, <2>2, <3>1, <4>2
    <3>3. CASE ~(tree[a.dst] # None /\ ~a.overwrite)
      <4>1. r = [ask |-> a, pc |-> IF S[a.dst] # None THEN "delete" ELSE "act", answer |-> ""]
        BY <1>3, <3>1, <3>3
      <4>2. r.pc = (IF S[a.dst] # None THEN "delete" ELSE "act") /\ r.ask = a
        BY <4>1
      <4>3. S[a.dst] # None => a.overwrite
        BY <3>1, <3>3
      <4>4. Stands(S, r, S)
        BY <4>2, <4>3 DEF Stands, Found
      <4> QED BY <1>2, <1>4, <2>2, <3>1, <4>4
    <3> QED BY <3>2, <3>3
  <2> QED BY <2>1, <2>2
<1> QED BY <1>7, <1>8 DEF IInv, Alone, Stands, Kept, Found

LEMMA Stays ==
  ASSUME IInv, [Next]_vars
  PROVE  IInv'
<1>1. CASE UNCHANGED vars
  <2>1. tree' = tree /\ request' = request /\ saw' = saw /\ solo' = solo
    BY <1>1 DEF vars
  <2>2. Typed'
    <3>1. /\ DOMAIN saw' = Requests /\ DOMAIN request' = Requests /\ solo' \in [Requests -> BOOLEAN]
          /\ IsTree(tree')
      BY <2>1 DEF IInv, Typed
    <3>2. \A i \in Requests : IsTree(saw'[i]) /\ (request'[i] = Idle \/ request'[i] \in Asked)
      BY <2>1 DEF IInv, Typed
    <3> QED BY <3>1, <3>2 DEF Typed
  <2>3. \A i \in Requests : solo'[i] => Stands(tree', request'[i], saw'[i])
    BY <2>1 DEF IInv, Alone
  <2> QED BY <2>2, <2>3 DEF IInv, Alone, Stands, Kept, Found
<1>2. ASSUME NEW i \in Requests, Move(i) \/ Rename(i) \/ Copy(i) PROVE IInv'
  BY <1>2, ActSteps, ActStays DEF IInv
<1>3. ASSUME NEW i \in Requests, Look(i) \/ PreDelete(i) \/ Noop(i) PROVE IInv'
  BY <1>3, LookStays, PreDeleteStays, NoopStays
<1> QED BY <1>1, <1>2, <1>3 DEF Next

LEMMA Serves == ASSUME IInv PROVE AloneIsExact
<1>1. TypeOK
  <2>1. DOMAIN tree = Paths /\ WellFormed(tree)
    BY DEF IInv, Typed, IsTree
  <2>2. ASSUME NEW i \in Requests
        PROVE  /\ request[i].pc \in {"idle", "delete", "act", "answered"}
               /\ request[i].answer \in {"", "done", "noop", "400", "404", "409", "500"}
    <3>1. request[i] = Idle \/ request[i] \in Asked
      BY DEF IInv, Typed
    <3>2. Idle.pc = "idle" /\ Idle.answer = ""
      BY DEF Idle
    <3>3. \A q \in Asked : q.pc \in {"delete", "act", "answered"} /\ q.answer \in Answers
      BY DEF Asked
    <3> QED BY <3>1, <3>2, <3>3 DEF Answers
  <2> QED BY <2>1, <2>2 DEF TypeOK, IInv, Typed
<1>2. SoloExact
  BY DEF IInv, Alone, Stands, Kept, SoloExact, Answered
<1>3. UnaskedLosesNothing
  BY DEF IInv, Alone, Stands, Kept, UnaskedLosesNothing, Answered
<1> QED BY <1>1, <1>2, <1>3 DEF AloneIsExact

\* A request's own step is the only one that changes where it stands.
LEMMA LosesThere ==
  ASSUME IInv, [Next]_vars, NEW i \in Requests, request'[i] # request[i], request[i].pc # "idle",
         NEW p \in Paths, IsFile(tree, p), tree[p] \notin Contents(tree')
  PROVE  IsPrefix(request[i].ask.dst, p)
<1>1. PICK k \in Requests : Look(k) \/ PreDelete(k) \/ Noop(k) \/ Move(k) \/ Rename(k) \/ Copy(k)
  BY DEF Next, vars
<1>2. k = i
  BY <1>1 DEF Look, PreDelete, Noop, Move, Rename, Copy, Act, Answer, IInv, Typed
<1>3. Typed
  BY DEF IInv
<1>4. CASE Look(i) \/ Noop(i)
  BY <1>4 DEF Look, Noop, Contents
<1>5. CASE PreDelete(i)
  <2>1. PICK d : d = request[i].ask.dst
    OBVIOUS
  <2>2. d \in Paths /\ IsTree(tree) /\ tree' = Deleted(tree, d)
    BY <1>3, <1>5, <2>1, AskedIs DEF PreDelete, Typed
  <2>3. \A q \in Paths : Deleted(tree, d)[q] = IF IsPrefix(d, q) THEN None ELSE tree[q]
    BY <2>2, DeletedTree
  <2>4. ~IsPrefix(d, p) => tree'[p] = tree[p]
    BY <2>2, <2>3
  <2> QED BY <2>1, <2>4 DEF Contents, IsFile
<1>6. CASE Move(i) \/ Rename(i) \/ Copy(i)
  <2>1. PICK r : ActsAsAsked(i, r) /\ Act(i, request[i].ask.op, r)
    BY <1>3, <1>6, ActSteps
  <2>2. tree' = r.tree
    BY <2>1 DEF Act
  <2> QED BY <1>3, <2>1, <2>2, ActKeeps DEF Contents
<1> QED BY <1>1, <1>2, <1>4, <1>5, <1>6

-----------------------------------------------------------------------------
\* transfer.py: whatever the paths, the trees, the contents and the requests, a request to
\* move, rename or copy that nobody interferes with and that answers success has put just
\* its source at its destination, and one without overwrite loses nothing and, if it fails,
\* changes no file (AloneIsExact).
THEOREM AloneExact == Spec => []AloneIsExact
<1>1. Init => IInv
  BY Begins
<1>2. IInv /\ [Next]_vars => IInv'
  BY Stays
<1>3. IInv => AloneIsExact
  BY Serves
<1> QED BY <1>1, <1>2, <1>3, PTL DEF Spec

\* transfer.py: whoever else runs, the only content a step of a request destroys was at its
\* destination or below it (LossAtDestination).
THEOREM LossStaysThere == Spec => LossAtDestination
<1>1. Init => IInv
  BY Begins
<1>2. IInv /\ [Next]_vars => IInv'
  BY Stays
<1>3. IInv /\ [Next]_vars =>
        [\A i \in Requests : request'[i] # request[i] /\ request[i].pc # "idle" =>
            \A p \in Paths : IsFile(tree, p) /\ tree[p] \notin Contents(tree') =>
                IsPrefix(request[i].ask.dst, p)]_vars
  BY LosesThere
<1> QED BY <1>1, <1>2, <1>3, PTL DEF Spec, LossAtDestination
=============================================================================
