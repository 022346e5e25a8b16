--------------------------- MODULE RoutingProofs ---------------------------
(***************************************************************************)
(* Theorems about Routing, for any rules, documents and paths: the rules   *)
(* of a site do what their text says, and the walks of its clients are     *)
(* short and end at what was asked for.                                    *)
(*                                                                         *)
(* The operators on rules go over sequences (FlattenSeq, a sort).  What    *)
(* they yield is shown by induction, which the library's theorems state    *)
(* for operators; here it is stated for sets, from the fact that the       *)
(* finite sets are well-founded.                                           *)
(***************************************************************************)
EXTENDS Routing, FiniteSetTheorems, WellFoundedInduction, SequenceTheorems,
        TLAPS

----------------------------------------------------------------------------
(* Induction *)

\* Every non-empty set of naturals has a least one.
LEMMA Least ==
    ASSUME NEW T \in SUBSET Nat, T # {}
    PROVE  \E n \in T : \A m \in T : n <= m
<1> DEFINE R == StrictSubsetOrdering(Nat)
           F == {1 .. n : n \in T}
<1>1. /\ F \subseteq FiniteSubsetsOf(Nat)
      /\ F # {}
    <2>1. F \subseteq FiniteSubsetsOf(Nat)
        BY FS_Interval DEF FiniteSubsetsOf
    <2> QED BY <2>1
<1>2. IsWellFoundedOn(R, FiniteSubsetsOf(Nat))
    BY FS_StrictSubsetOrderingWellFounded
<1> HIDE DEF F, R
<1>3. PICK x \in F : \A y \in F : ~ (<<y, x>> \in R)
    BY <1>1, <1>2, WFMin
<1>4. PICK n \in T : x = 1 .. n
    BY <1>3 DEF F
<1>5. ASSUME NEW m \in T, m < n PROVE FALSE
    <2>1. 1 .. m \in F
        BY DEF F
    <2>2. 1 .. m \subseteq 1 .. n /\ n \in 1 .. n /\ n \notin 1 .. m
        BY <1>5
    <2>3. <<1 .. m, x>> \in R
        BY <1>4, <2>2 DEF R, StrictSubsetOrdering
    <2> QED BY <1>3, <2>1, <2>3
<1> QED BY <1>5

\* A set with 0 and with the successor of each of its numbers has all of them.
LEMMA Induction ==
    ASSUME NEW S, 0 \in S, \A n \in Nat : n \in S => n + 1 \in S
    PROVE  Nat \subseteq S
<1> SUFFICES ASSUME Nat \ S # {} PROVE FALSE
    OBVIOUS
<1>1. PICK n \in Nat \ S : \A m \in Nat \ S : n <= m
    BY Least
<1>2. n # 0 /\ n - 1 \in Nat
    BY <1>1
<1>3. n - 1 \in S
    BY <1>1, <1>2
<1> QED BY <1>1, <1>2, <1>3

----------------------------------------------------------------------------
(* Sequences *)

\* The recursion that FlattenSeq goes by.
Flattening(f, s, n) ==
    f = [i \in 1 .. n |-> IF i = 1 THEN s[i] ELSE f[i - 1] \o s[i]]

\* There is one, which is what FlattenSeq chooses.
LEMMA FlatteningExists ==
    ASSUME NEW s, NEW n \in Nat
    PROVE  \E f : Flattening(f, s, n)
<1> DEFINE S == {k \in Nat : \E f : Flattening(f, s, k)}
<1>1. 0 \in S
    <2> DEFINE f == [i \in 1 .. 0 |-> s]
    <2>1. Flattening(f, s, 0)
        BY DEF Flattening
    <2> QED BY <2>1
<1>2. ASSUME NEW k \in Nat, k \in S PROVE k + 1 \in S
    <2>1. PICK f : Flattening(f, s, k)
        BY <1>2
    <2> DEFINE g == [i \in 1 .. (k + 1) |->
                        IF i = 1 THEN s[i] ELSE f[i - 1] \o s[i]]
    <2>2. ASSUME NEW i \in 1 .. (k + 1), i # 1 PROVE g[i - 1] = f[i - 1]
        <3>1. i - 1 \in 1 .. k /\ i - 1 \in 1 .. (k + 1)
            BY <2>2
        <3> QED BY <2>1, <3>1 DEF Flattening
    <2>3. Flattening(g, s, k + 1)
        BY <2>2 DEF Flattening
    <2> QED BY <2>3
<1> HIDE DEF S
<1>3. n \in S
    BY <1>1, <1>2, Induction
<1> QED BY <1>3 DEF S

\* One path out of parts that are none of them empty.
LEMMA Flattened ==
    ASSUME NEW S, NEW s \in Seq(Seq(S) \ {<<>>}), s # <<>>
    PROVE  FlattenSeq(s) \in Seq(S) \ {<<>>}
<1> DEFINE T == Seq(S) \ {<<>>}
           n == Len(s)
           f == CHOOSE g : Flattening(g, s, n)
<1>1. n \in Nat /\ n > 0 /\ \A i \in 1 .. n : s[i] \in T
    BY EmptySeq, LenProperties, ElementOfSeq
<1>2. FlattenSeq(s) = f[n]
    BY <1>1 DEF FlattenSeq, Flattening
<1>3. Flattening(f, s, n)
    BY <1>1, FlatteningExists
<1>4. \A a, b \in T : a \o b \in T
    BY ConcatProperties, ConcatEqualIffEmpty, EmptySeq, LenProperties
<1> HIDE DEF T, n, f
<1> DEFINE G == {k \in Nat : k + 1 \in 1 .. n => f[k + 1] \in T}
<1>5. 0 \in G
    BY <1>1, <1>3 DEF Flattening
<1>6. ASSUME NEW k \in Nat, k \in G PROVE k + 1 \in G
    <2> SUFFICES ASSUME k + 2 \in 1 .. n PROVE f[k + 2] \in T
        BY <1>6
    <2>1. k + 1 \in 1 .. n /\ k + 2 # 1 /\ (k + 2) - 1 = k + 1
        BY <1>1
    <2>2. f[k + 2] = f[k + 1] \o s[k + 2]
        BY <1>3, <2>1 DEF Flattening
    <2> QED BY <1>1, <1>4, <1>6, <2>1, <2>2
<1>7. n - 1 \in G
    <2> HIDE DEF G
    <2> QED BY <1>1, <1>5, <1>6, Induction
<1> QED BY <1>1, <1>2, <1>7 DEF T
----------------------------------------------------------------------------
(* The sort of finish() *)

Ruling == [segs: Seq(Segs), to: Target]

\* n places, counted from 1 or from 0.
LEMMA Places ==
    ASSUME NEW n \in Nat
    PROVE  /\ IsFiniteSet(1 .. n) /\ Cardinality(1 .. n) = n
           /\ IsFiniteSet(0 .. (n - 1)) /\ Cardinality(0 .. (n - 1)) = n
<1>1. /\ IsFiniteSet(1 .. n)
      /\ Cardinality(1 .. n) = IF 1 > n THEN 0 ELSE n - 1 + 1
    BY FS_Interval
<1>2. 0 \in Int /\ n - 1 \in Int
    OBVIOUS
<1>3. /\ IsFiniteSet(0 .. (n - 1))
      /\ Cardinality(0 .. (n - 1)) = IF 0 > n - 1 THEN 0 ELSE (n - 1) - 0 + 1
    BY <1>2, FS_Interval
<1> QED BY <1>1, <1>3

\* Of two rules one is ahead of the other, and what is ahead of it is ahead of
\* both: no two have as many ahead of them.
LEMMA Ranks ==
    ASSUME NEW s \in Seq(Ruling), NEW i \in DOMAIN s, NEW j \in DOMAIN s, i # j
    PROVE  /\ i \in Ahead(s, j) \/ j \in Ahead(s, i)
           /\ i \in Ahead(s, j) =>
                 Cardinality(Ahead(s, i)) < Cardinality(Ahead(s, j))
           /\ IsFiniteSet(Ahead(s, i))
           /\ Cardinality(Ahead(s, i)) \in 0 .. (Len(s) - 1)
<1>1. /\ Len(s) \in Nat /\ DOMAIN s = 1 .. Len(s)
      /\ \A k \in DOMAIN s : s[k] \in Ruling
    BY LenProperties, ElementOfSeq
<1>2. \A k \in DOMAIN s : Len(s[k].segs) \in Nat
    BY <1>1, LenProperties DEF Ruling
<1>3. IsFiniteSet(DOMAIN s) /\ Cardinality(DOMAIN s) = Len(s)
    BY <1>1, Places
<1>4. ASSUME NEW k \in DOMAIN s
      PROVE  /\ Ahead(s, k) \subseteq DOMAIN s \ {k} /\ IsFiniteSet(Ahead(s, k))
             /\ Cardinality(Ahead(s, k)) \in 0 .. (Len(s) - 1)
    <2>1. Ahead(s, k) \subseteq DOMAIN s \ {k}
        BY <1>1, <1>2 DEF Ahead
    <2>2. IsFiniteSet(DOMAIN s \ {k}) /\ Cardinality(DOMAIN s \ {k}) = Len(s) - 1
        BY <1>3, FS_RemoveElement
    <2>3. IsFiniteSet(Ahead(s, k)) /\ Cardinality(Ahead(s, k)) <= Len(s) - 1
        BY <2>1, <2>2, FS_Subset
    <2>4. Cardinality(Ahead(s, k)) \in Nat
        BY <2>3, FS_CardinalityType
    <2> QED BY <1>1, <2>1, <2>3, <2>4
<1>5. i \in Ahead(s, j) \/ j \in Ahead(s, i)
    BY <1>1, <1>2 DEF Ahead
<1>6. ASSUME i \in Ahead(s, j)
      PROVE  Cardinality(Ahead(s, i)) < Cardinality(Ahead(s, j))
    <2>1. Ahead(s, i) \subseteq Ahead(s, j) \ {i}
        BY <1>1, <1>2, <1>6 DEF Ahead
    <2>2. /\ IsFiniteSet(Ahead(s, j) \ {i})
          /\ Cardinality(Ahead(s, j) \ {i}) = Cardinality(Ahead(s, j)) - 1
        BY <1>4, <1>6, FS_RemoveElement
    <2>3. Cardinality(Ahead(s, i)) <= Cardinality(Ahead(s, j)) - 1
        BY <2>1, <2>2, FS_Subset
    <2>4. Cardinality(Ahead(s, i)) \in Nat /\ Cardinality(Ahead(s, j)) \in Nat
        BY <1>4, FS_CardinalityType
    <2> QED BY <2>3, <2>4
<1> QED BY <1>4, <1>5, <1>6

\* Every place has a rule.
LEMMA Placed ==
    ASSUME NEW s \in Seq(Ruling), NEW k \in DOMAIN s
    PROVE  Place(s, k) \in DOMAIN s /\ Cardinality(Ahead(s, Place(s, k))) = k - 1
<1>1. Len(s) \in Nat /\ DOMAIN s = 1 .. Len(s)
    BY LenProperties
<1>2. IsFiniteSet(DOMAIN s) /\ Cardinality(DOMAIN s) = Len(s)
    BY <1>1, Places
<1> DEFINE T == (0 .. (Len(s) - 1)) \ {k - 1}
           f == [i \in DOMAIN s |-> Cardinality(Ahead(s, i))]
<1>3. IsFiniteSet(T) /\ Cardinality(T) = Len(s) - 1
    <2>1. /\ IsFiniteSet(0 .. (Len(s) - 1))
          /\ Cardinality(0 .. (Len(s) - 1)) = Len(s)
        BY <1>1, Places
    <2>2. k - 1 \in 0 .. (Len(s) - 1)
        BY <1>1
    <2> QED BY <2>1, <2>2, FS_RemoveElement
<1>4. \E i \in DOMAIN s : Cardinality(Ahead(s, i)) = k - 1
    <2> SUFFICES ASSUME \A i \in DOMAIN s : Cardinality(Ahead(s, i)) # k - 1
                 PROVE  FALSE
        OBVIOUS
    <2>1. CASE Len(s) = 1
        <3>1. DOMAIN s = {1} /\ k = 1 /\ Ahead(s, 1) = {}
            <4>1. DOMAIN s = {1} /\ k = 1
                BY <1>1, <2>1
            <4>2. s[1] \in Ruling
                BY <1>1, <2>1, ElementOfSeq
            <4>3. Len(s[1].segs) \in Nat
                BY <4>2, LenProperties DEF Ruling
            <4> QED BY <4>1, <4>3 DEF Ahead
        <3>2. Cardinality(Ahead(s, 1)) = 0
            BY <3>1, FS_EmptySet
        <3> QED BY <3>1, <3>2
    <2>2. CASE Len(s) # 1
        <3>1. ASSUME NEW i \in DOMAIN s
              PROVE  Cardinality(Ahead(s, i)) \in 0 .. (Len(s) - 1)
            <4>1. PICK j \in DOMAIN s : i # j
                BY <1>1, <2>2
            <4> QED BY <4>1, Ranks
        <3>2. f \in [DOMAIN s -> T]
            BY <3>1
        <3> HIDE DEF T, f
        <3>3. Cardinality(T) < Cardinality(DOMAIN s)
            BY <1>1, <1>2, <1>3
        <3>4. PICK i, j \in DOMAIN s : i # j /\ f[i] = f[j]
            BY <1>2, <1>3, <3>2, <3>3, FS_PigeonHole
        <3>5. Cardinality(Ahead(s, i)) = Cardinality(Ahead(s, j))
            BY <3>4 DEF f
        <3>6. Cardinality(Ahead(s, i)) \in Nat /\ Cardinality(Ahead(s, j)) \in Nat
            BY <1>1, <3>1
        <3>7. i \in Ahead(s, j) \/ j \in Ahead(s, i)
            BY <3>4, Ranks
        <3>8. /\ i \in Ahead(s, j) =>
                    Cardinality(Ahead(s, i)) < Cardinality(Ahead(s, j))
              /\ j \in Ahead(s, i) =>
                    Cardinality(Ahead(s, j)) < Cardinality(Ahead(s, i))
            BY <3>4, Ranks
        <3> QED BY <3>5, <3>6, <3>7, <3>8
    <2> QED BY <2>1, <2>2
<1> QED BY <1>4 DEF Place

\* finish() keeps to the rules there are and leaves none out, the longest first.
LEMMA SortedRules ==
    ASSUME NEW s \in Seq(Ruling)
    PROVE  /\ Sorted(s) \in Seq(Ruling) /\ DOMAIN Sorted(s) = DOMAIN s
           /\ \A k \in DOMAIN s : \E i \in DOMAIN s : Sorted(s)[k] = s[i]
           /\ \A i \in DOMAIN s : \E k \in DOMAIN s : Sorted(s)[k] = s[i]
           /\ \A k, l \in DOMAIN s :
                 k < l => Len(Sorted(s)[l].segs) <= Len(Sorted(s)[k].segs)
<1>1. /\ Len(s) \in Nat /\ DOMAIN s = 1 .. Len(s)
      /\ \A k \in DOMAIN s : s[k] \in Ruling
    BY LenProperties, ElementOfSeq
<1>2. \A k \in DOMAIN s : Len(s[k].segs) \in Nat
    BY <1>1, LenProperties DEF Ruling
<1>3. \A k \in DOMAIN s : /\ Place(s, k) \in DOMAIN s
                          /\ Cardinality(Ahead(s, Place(s, k))) = k - 1
    BY Placed
<1>4. \A k \in DOMAIN s : Sorted(s)[k] = s[Place(s, k)]
    BY DEF Sorted
<1>5. Sorted(s) \in Seq(Ruling) /\ DOMAIN Sorted(s) = DOMAIN s
    <2>1. DOMAIN Sorted(s) = DOMAIN s
        BY DEF Sorted
    <2>2. Sorted(s) \in [1 .. Len(s) -> Ruling]
        BY <1>1, <1>3 DEF Sorted
    <2> QED BY <1>1, <2>1, <2>2, SeqDef
<1>6. ASSUME NEW i \in DOMAIN s PROVE \E k \in DOMAIN s : Sorted(s)[k] = s[i]
    <2> DEFINE k == Cardinality(Ahead(s, i)) + 1
    <2>1. k \in DOMAIN s
        <3>1. CASE \A j \in DOMAIN s : j = i
            <4>1. Len(s) = 1 /\ i = 1
                <5>1. 1 \in DOMAIN s /\ Len(s) \in DOMAIN s
                    BY <1>1
                <5> QED BY <3>1, <5>1
            <4>2. Ahead(s, i) = {}
                BY <1>1, <1>2, <3>1 DEF Ahead
            <4> QED BY <1>1, <4>1, <4>2, FS_EmptySet
        <3>2. ASSUME NEW j \in DOMAIN s, j # i PROVE k \in DOMAIN s
            <4>1. Cardinality(Ahead(s, i)) \in 0 .. (Len(s) - 1)
                BY <3>2, Ranks
            <4> QED BY <1>1, <4>1
        <3> QED BY <3>1, <3>2
    <2>2. Place(s, k) = i
        <3> SUFFICES ASSUME Place(s, k) # i PROVE FALSE
            OBVIOUS
        <3> DEFINE j == Place(s, k)
        <3>1. j \in DOMAIN s /\ Cardinality(Ahead(s, j)) = k - 1
            BY <1>3, <2>1
        <3> HIDE DEF j
        <3>2. /\ i \in Ahead(s, j) \/ j \in Ahead(s, i)
              /\ i \in Ahead(s, j) =>
                    Cardinality(Ahead(s, i)) < Cardinality(Ahead(s, j))
              /\ j \in Ahead(s, i) =>
                    Cardinality(Ahead(s, j)) < Cardinality(Ahead(s, i))
              /\ Cardinality(Ahead(s, i)) \in 0 .. (Len(s) - 1)
            BY <3>1, Ranks DEF j
        <3> QED BY <1>1, <3>1, <3>2
    <2> QED BY <1>4, <2>1, <2>2
<1>7. ASSUME NEW k \in DOMAIN s, NEW l \in DOMAIN s, k < l
      PROVE  Len(Sorted(s)[l].segs) <= Len(Sorted(s)[k].segs)
    <2> DEFINE i == Place(s, k)
               j == Place(s, l)
    <2>1. /\ i \in DOMAIN s /\ Cardinality(Ahead(s, i)) = k - 1
          /\ j \in DOMAIN s /\ Cardinality(Ahead(s, j)) = l - 1
          /\ Sorted(s)[k] = s[i] /\ Sorted(s)[l] = s[j]
        BY <1>3, <1>4
    <2> HIDE DEF i, j
    <2>2. i # j
        BY <1>1, <1>7, <2>1
    <2>3. /\ i \in Ahead(s, j) \/ j \in Ahead(s, i)
          /\ j \in Ahead(s, i) =>
                Cardinality(Ahead(s, j)) < Cardinality(Ahead(s, i))
        BY <2>1, <2>2, Ranks
    <2>4. i \in Ahead(s, j)
        BY <1>1, <1>7, <2>1, <2>3
    <2> QED BY <1>2, <2>1, <2>4 DEF Ahead
<1> QED BY <1>1, <1>3, <1>4, <1>5, <1>6, <1>7
----------------------------------------------------------------------------
(* Paths *)

\* A prefix of a path is shorter than it, and something remains behind it.
LEMMA Prefixed ==
    ASSUME NEW s \in Seq(Segs), NEW p \in Paths, IsStrictPrefix(s, p)
    PROVE  /\ Len(s) < Len(p) /\ Remainder(s, p) \in Paths
           /\ \A i \in 1 .. Len(s) : p[i] = s[i]
<1>1. /\ Len(s) \in Nat /\ Len(p) \in Nat /\ p \in Seq(Segs)
      /\ \A i \in 1 .. Len(p) : p[i] \in Segs
      /\ \A i \in 1 .. Len(s) : s[i] \in Segs
    BY LenProperties, ElementOfSeq DEF Paths
<1>2. Len(s) <= Len(p) /\ SubSeq(s, 1, Len(s)) = SubSeq(p, 1, Len(s)) /\ s # p
    BY DEF IsStrictPrefix, IsPrefix
<1>3. SubSeq(s, 1, Len(s)) = s /\ SubSeq(p, 1, Len(p)) = p
    BY <1>1, SubSeqFull
<1>4. Len(s) < Len(p)
    BY <1>1, <1>2, <1>3
<1>5. \A i \in 1 .. Len(s) : SubSeq(p, 1, Len(s))[i] = p[i]
    <2>1. 1 \in Int /\ Len(s) \in Int /\ \A i \in 1 .. Len(s) : p[i] \in Segs
        BY <1>1, <1>4
    <2>2. \A i \in 1 .. (Len(s) - 1 + 1) :
             SubSeq(p, 1, Len(s))[i] = p[1 + i - 1]
        BY <2>1, SubSeqProperties
    <2> QED BY <1>1, <2>2
<1>6. Remainder(s, p) \in Paths
    <2>1. /\ Len(s) + 1 \in Int /\ Len(p) \in Int /\ Len(s) + 1 <= Len(p)
          /\ \A i \in (Len(s) + 1) .. Len(p) : p[i] \in Segs
        BY <1>1, <1>4
    <2>2. /\ Remainder(s, p) \in Seq(Segs)
          /\ Len(Remainder(s, p)) = Len(p) - (Len(s) + 1) + 1
        BY <2>1, SubSeqProperties DEF Remainder
    <2>3. Len(Remainder(s, p)) # 0
        BY <1>1, <1>4, <2>2
    <2> QED BY <2>2, <2>3, EmptySeq DEF Paths
<1> QED BY <1>2, <1>3, <1>4, <1>5, <1>6

\* What $1 stands for is a path, and so is what a target expands to.
LEMMA Expanded ==
    ASSUME NEW t \in Target, NEW p \in Paths, NEW cap \in Paths
    PROVE  Expand(t, p, cap) \in Paths
<1> DEFINE M == Segs \cup {Whole, Capture}
           e == [i \in DOMAIN t.toks |->
                    CASE t.toks[i] = Whole   -> p
                      [] t.toks[i] = Capture -> cap
                      [] OTHER               -> <<t.toks[i]>>]
<1>1. t.toks \in Seq(M) \ {<<>>}
    BY DEF Target
<1> HIDE DEF M
<1>2. /\ Len(t.toks) \in Nat \ {0} /\ DOMAIN t.toks = 1 .. Len(t.toks)
      /\ \A i \in DOMAIN t.toks : t.toks[i] \in M
    BY <1>1, LenProperties, EmptySeq, ElementOfSeq
<1>3. ASSUME NEW i \in DOMAIN t.toks PROVE e[i] \in Paths
    <2>1. CASE t.toks[i] = Whole \/ t.toks[i] = Capture
        BY <2>1
    <2>2. CASE t.toks[i] # Whole /\ t.toks[i] # Capture
        <3>1. t.toks[i] \in Segs
            BY <1>2, <2>2 DEF M
        <3>2. <<t.toks[i]>> \in Paths
            BY <3>1 DEF Paths
        <3> QED BY <2>2, <3>2
    <2> QED BY <2>1, <2>2
<1>4. e \in [1 .. Len(t.toks) -> Paths]
    BY <1>2, <1>3
<1> HIDE DEF e
<1>5. e \in Seq(Paths) /\ e # <<>>
    <2>1. e \in Seq(Paths)
        BY <1>2, <1>4, SeqDef
    <2>2. Len(e) = Len(t.toks)
        BY <1>2, <1>4, <2>1, LenProperties
    <2> QED BY <1>2, <2>1, <2>2, EmptySeq
<1>6. FlattenSeq(e) \in Paths
    BY <1>5, Flattened DEF Paths
<1> QED BY <1>6 DEF Expand, e

\* Rules as their types have them.
RulesTyped(rs) ==
    /\ DOMAIN rs.exact \subseteq Paths
    /\ \A p \in DOMAIN rs.exact : rs.exact[p] \in Target
    /\ rs.prefix \in Seq(Ruling)
    /\ rs.all \in Target \cup {None}

\* A path is resolved to the target of a rule that matches it, an exact one
\* before the first prefix, and that before the catch-all.
LEMMA Resolved ==
    ASSUME NEW rs, RulesTyped(rs), NEW p \in Paths
    PROVE  LET hits == {i \in DOMAIN rs.prefix :
                           IsStrictPrefix(rs.prefix[i].segs, p)}
               r    == Resolve(rs, p)
           IN  /\ r # None => r.to \in Target /\ r.path \in Paths
               /\ p \in DOMAIN rs.exact =>
                     r = [to |-> rs.exact[p],
                          path |-> Expand(rs.exact[p], p, NoCapture)]
               /\ p \notin DOMAIN rs.exact /\ hits # {} =>
                     \E i \in hits : /\ r.to = rs.prefix[i].to
                                     /\ \A j \in hits : i <= j
               /\ p \notin DOMAIN rs.exact /\ hits = {} =>
                     r = None \/ r.to = rs.all
<1> DEFINE hits == {i \in DOMAIN rs.prefix : IsStrictPrefix(rs.prefix[i].segs, p)}
           k    == CHOOSE i \in hits : \A j \in hits : i <= j
<1>1. /\ Len(rs.prefix) \in Nat /\ DOMAIN rs.prefix = 1 .. Len(rs.prefix)
      /\ \A i \in DOMAIN rs.prefix : rs.prefix[i] \in Ruling
    BY LenProperties, ElementOfSeq DEF RulesTyped
<1>2. NoCapture \in Paths /\ AllOf(p) \in Paths
    <2>1. End \in Segs
        BY ConstantsAssumption DEF ConstantsAssumption
    <2>2. <<End>> \in Seq(Segs) /\ <<End>> # <<>> /\ p \in Seq(Segs)
        BY <2>1 DEF Paths
    <2>3. AllOf(p) \in Seq(Segs) /\ AllOf(p) # <<>>
        BY <2>2, ConcatProperties, ConcatEqualIffEmpty DEF AllOf
    <2> QED BY <2>2, <2>3 DEF NoCapture, Paths
<1>3. ASSUME hits # {} PROVE k \in hits /\ \A j \in hits : k <= j
    <2>1. hits \in SUBSET Nat
        BY <1>1
    <2> HIDE DEF hits
    <2>2. \E i \in hits : \A j \in hits : i <= j
        BY <1>3, <2>1, Least
    <2> QED BY <2>2
<1>4. CASE p \in DOMAIN rs.exact
    <2>1. Resolve(rs, p) = [to |-> rs.exact[p],
                            path |-> Expand(rs.exact[p], p, NoCapture)]
        BY <1>4 DEF Resolve
    <2>2. rs.exact[p] \in Target /\ Expand(rs.exact[p], p, NoCapture) \in Paths
        BY <1>2, <1>4, Expanded DEF RulesTyped
    <2> QED BY <1>4, <2>1, <2>2
<1>5. CASE p \notin DOMAIN rs.exact /\ hits # {}
    <2>1. k \in hits /\ \A j \in hits : k <= j
        BY <1>3, <1>5
    <2>2. Resolve(rs, p) =
             [to |-> rs.prefix[k].to,
              path |-> Expand(rs.prefix[k].to, p, Remainder(rs.prefix[k].segs, p))]
        BY <1>5 DEF Resolve
    <2> HIDE DEF k
    <2>3. rs.prefix[k].to \in Target /\ rs.prefix[k].segs \in Seq(Segs)
        BY <1>1, <2>1 DEF Ruling
    <2>4. Remainder(rs.prefix[k].segs, p) \in Paths
        BY <2>1, <2>3, Prefixed
    <2>5. Resolve(rs, p).path \in Paths
        BY <2>2, <2>3, <2>4, Expanded
    <2> QED BY <1>5, <2>1, <2>2, <2>3, <2>5
<1>6. CASE p \notin DOMAIN rs.exact /\ hits = {} /\ rs.all # None
    <2>1. Resolve(rs, p) = [to |-> rs.all, path |-> Expand(rs.all, p, AllOf(p))]
        BY <1>6 DEF Resolve
    <2>2. rs.all \in Target /\ Expand(rs.all, p, AllOf(p)) \in Paths
        BY <1>2, <1>6, Expanded DEF RulesTyped
    <2> QED BY <1>6, <2>1, <2>2
<1>7. CASE p \notin DOMAIN rs.exact /\ hits = {} /\ rs.all = None
    <2>1. Resolve(rs, p) = None
        BY <1>7 DEF Resolve
    <2> QED BY <1>7, <2>1
<1> QED BY <1>4, <1>5, <1>6, <1>7
----------------------------------------------------------------------------
(* Names and what becomes of them *)

\* No segment is in an encoded spelling.
Plain(p) == \A i \in DOMAIN p : ~p[i].enc

\* What is in a path, and what is in front of its last segment.
LEMMA PathParts ==
    ASSUME NEW p \in Paths
    PROVE  /\ Len(p) \in Nat \ {0} /\ DOMAIN p = 1 .. Len(p)
           /\ \A i \in DOMAIN p : p[i] \in Segs
           /\ Last(p) = p[Len(p)] /\ Last(p) \in Segs
           /\ Front(p) \in Seq(Segs) /\ Len(Front(p)) = Len(p) - 1
           /\ DOMAIN Front(p) = 1 .. (Len(p) - 1)
           /\ \A i \in 1 .. (Len(p) - 1) : Front(p)[i] = p[i]
<1>1. /\ Len(p) \in Nat \ {0} /\ DOMAIN p = 1 .. Len(p)
      /\ \A i \in DOMAIN p : p[i] \in Segs
    BY LenProperties, ElementOfSeq, EmptySeq DEF Paths
<1>2. Last(p) = p[Len(p)] /\ Last(p) \in Segs
    BY <1>1 DEF Last
<1>3. /\ 1 \in Int /\ Len(p) - 1 \in Int
      /\ \A i \in 1 .. (Len(p) - 1) : p[i] \in Segs
    BY <1>1
<1>4. /\ Front(p) \in Seq(Segs)
      /\ Len(Front(p)) = IF 1 <= Len(p) - 1 THEN Len(p) - 1 - 1 + 1 ELSE 0
      /\ \A i \in 1 .. (Len(p) - 1 - 1 + 1) : Front(p)[i] = p[1 + i - 1]
    BY <1>3, SubSeqProperties DEF Front
<1>5. Len(Front(p)) = Len(p) - 1 /\ \A i \in 1 .. (Len(p) - 1) : Front(p)[i] = p[i]
    <2>1. Len(Front(p)) = Len(p) - 1
        <3> DEFINE n == Len(p)
                   m == Len(Front(p))
        <3>1. n \in Nat \ {0} /\ m = IF 1 <= n - 1 THEN n - 1 - 1 + 1 ELSE 0
            BY <1>1, <1>4
        <3> HIDE DEF n, m
        <3>2. m = n - 1
            BY <3>1
        <3> QED BY <3>2 DEF n, m
    <2>2. \A i \in 1 .. (Len(p) - 1) : i \in 1 .. (Len(p) - 1 - 1 + 1) /\ 1 + i - 1 = i
        BY <1>1
    <2> QED BY <1>4, <2>1, <2>2
<1>6. DOMAIN Front(p) = 1 .. (Len(p) - 1)
    BY <1>4, <1>5, LenProperties
<1> QED BY <1>1, <1>2, <1>4, <1>5, <1>6

\* What is appended to a sequence is its last, and the sequence its front.
LEMMA Appended ==
    ASSUME NEW s \in Seq(Segs), NEW e \in Segs
    PROVE  /\ Append(s, e) \in Paths /\ Len(Append(s, e)) = Len(s) + 1
           /\ Last(Append(s, e)) = e /\ Front(Append(s, e)) = s
           /\ \A i \in 1 .. Len(s) : Append(s, e)[i] = s[i]
<1>1. Len(s) \in Nat /\ s \in Seq(Segs)
    BY LenProperties
<1>2. /\ Append(s, e) \in Seq(Segs) /\ Append(s, e) # <<>>
      /\ Len(Append(s, e)) = Len(s) + 1
      /\ \A i \in 1 .. Len(s) : Append(s, e)[i] = s[i]
      /\ Append(s, e)[Len(s) + 1] = e
    BY AppendProperties
<1>3. Append(s, e) \in Paths
    BY <1>2 DEF Paths
<1>4. /\ Front(Append(s, e)) \in Seq(Segs) /\ Len(Front(Append(s, e))) = Len(s)
      /\ \A i \in 1 .. Len(s) : Front(Append(s, e))[i] = s[i]
    <2> DEFINE q == Append(s, e)
    <2>1. /\ Front(q) \in Seq(Segs) /\ Len(Front(q)) = Len(q) - 1
          /\ \A i \in 1 .. (Len(q) - 1) : Front(q)[i] = q[i]
        BY <1>3, PathParts
    <2>2. Len(q) - 1 = Len(s)
        BY <1>1, <1>2
    <2> QED BY <1>2, <2>1, <2>2
<1>5. Front(Append(s, e)) = s
    BY <1>4, SeqEqual
<1>6. Last(Append(s, e)) = e
    BY <1>2 DEF Last
<1> QED BY <1>2, <1>3, <1>5, <1>6

\* A path is its front and its last segment.
LEMMA Rejoined ==
    ASSUME NEW p \in Paths
    PROVE  Append(Front(p), Last(p)) = p
<1>1. /\ Len(p) \in Nat \ {0} /\ DOMAIN p = 1 .. Len(p)
      /\ Last(p) = p[Len(p)] /\ Last(p) \in Segs
      /\ Front(p) \in Seq(Segs) /\ Len(Front(p)) = Len(p) - 1
      /\ \A i \in 1 .. (Len(p) - 1) : Front(p)[i] = p[i]
    BY PathParts
<1> DEFINE q == Append(Front(p), Last(p))
<1>2. /\ q \in Paths /\ Len(q) = Len(p) /\ q[Len(p)] = Last(p)
      /\ \A i \in 1 .. (Len(p) - 1) : q[i] = p[i]
    <2>1. /\ q \in Paths /\ Len(q) = Len(Front(p)) + 1
          /\ \A i \in 1 .. Len(Front(p)) : q[i] = Front(p)[i]
          /\ Last(q) = Last(p)
        BY <1>1, Appended
    <2> QED BY <1>1, <2>1 DEF Last
<1> HIDE DEF q
<1>3. \A i \in 1 .. Len(p) : q[i] = p[i]
    BY <1>1, <1>2
<1>4. q \in Seq(Segs) /\ p \in Seq(Segs)
    BY <1>2 DEF Paths
<1>5. q = p
    BY <1>2, <1>3, <1>4, SeqEqual
<1> QED BY <1>5 DEF q

\* The name of the segment after a final slash.
NoName == ""

\* What the model takes for granted of segments.
LEMMA Segments ==
    /\ End \in Segs /\ End.n = NoName /\ ~End.html /\ ~End.enc /\ ProbeSeg \in Segs
    /\ ~Index.enc /\ Index.html /\ Index.n = "index" /\ Index # End
    /\ \A s \in Segs :
          /\ s = [n |-> s.n, html |-> s.html, enc |-> s.enc]
          /\ s.n \in STRING /\ s.html \in BOOLEAN /\ s.enc \in BOOLEAN
          /\ [s EXCEPT !.enc = FALSE] \in Segs
          /\ [s EXCEPT !.enc = FALSE, !.html = FALSE] \in Segs
<1>1. /\ End \in Segs /\ End.n = NoName /\ ~End.html /\ ~End.enc /\ ProbeSeg \in Segs
    BY ConstantsAssumption DEF ConstantsAssumption, NoName
<1>2. ~Index.enc /\ Index.html /\ Index.n = "index" /\ Index # End
    <2>1. ~Index.enc /\ Index.html /\ Index.n = "index"
        BY DEF Index
    <2> QED BY <1>1, <2>1
<1>3. ASSUME NEW s \in Segs
      PROVE  /\ s = [n |-> s.n, html |-> s.html, enc |-> s.enc]
             /\ s.n \in STRING /\ s.html \in BOOLEAN /\ s.enc \in BOOLEAN
             /\ [s EXCEPT !.enc = FALSE] \in Segs
             /\ [s EXCEPT !.enc = FALSE, !.html = FALSE] \in Segs
    BY ConstantsAssumption DEF ConstantsAssumption
<1> QED BY <1>1, <1>2, <1>3

\* Decoding a path changes the spelling of its segments, and only once.
LEMMA Decoded ==
    ASSUME NEW p \in Paths
    PROVE  /\ Decode(p) \in Paths /\ Len(Decode(p)) = Len(p)
           /\ \A i \in DOMAIN p : Decode(p)[i] = [p[i] EXCEPT !.enc = FALSE]
           /\ Plain(Decode(p))
           /\ Plain(p) => Decode(p) = p
<1>1. /\ Len(p) \in Nat \ {0} /\ DOMAIN p = 1 .. Len(p)
      /\ \A i \in DOMAIN p : p[i] \in Segs
    BY PathParts
<1>2. \A i \in DOMAIN p : Decode(p)[i] = [p[i] EXCEPT !.enc = FALSE]
    BY DEF Decode
<1>3. Decode(p) \in [1 .. Len(p) -> Segs]
    BY <1>1, Segments DEF Decode
<1>4. Decode(p) \in Seq(Segs)
    BY <1>1, <1>3, SeqDef
<1>5. Len(Decode(p)) = Len(p)
    <2>1. DOMAIN Decode(p) = 1 .. Len(p) /\ DOMAIN Decode(p) = 1 .. Len(Decode(p))
          /\ Len(Decode(p)) \in Nat
        BY <1>3, <1>4, LenProperties
    <2> QED BY <1>1, <2>1
<1>6. Decode(p) \in Paths
    BY <1>1, <1>4, <1>5, EmptySeq DEF Paths
<1>7. Plain(Decode(p))
    <2>1. ASSUME NEW i \in DOMAIN p PROVE ~Decode(p)[i].enc
        <3>1. p[i] = [n |-> p[i].n, html |-> p[i].html, enc |-> p[i].enc]
            BY <1>1, Segments
        <3>2. ~[p[i] EXCEPT !.enc = FALSE].enc
            BY <3>1
        <3> QED BY <1>2, <3>2
    <2>2. DOMAIN Decode(p) = DOMAIN p
        BY DEF Decode
    <2> QED BY <2>1, <2>2 DEF Plain
<1>8. ASSUME Plain(p) PROVE Decode(p) = p
    <2>1. ASSUME NEW i \in 1 .. Len(p) PROVE Decode(p)[i] = p[i]
        <3>1. ~p[i].enc /\ p[i] = [n |-> p[i].n, html |-> p[i].html, enc |-> p[i].enc]
              /\ p[i].enc \in BOOLEAN
            BY <1>1, <1>8, Segments DEF Plain
        <3>2. [p[i] EXCEPT !.enc = FALSE] = p[i]
            BY <3>1
        <3> QED BY <1>1, <1>2, <3>2
    <2>2. p \in Seq(Segs)
        BY DEF Paths
    <2> QED BY <1>4, <1>5, <2>1, <2>2, SeqEqual
<1> QED BY <1>2, <1>5, <1>6, <1>7, <1>8
\* A directory path: its segments and the final slash.
LEMMA Directory ==
    ASSUME NEW s \in Seq(Segs), Plain(s)
    PROVE  /\ Dir(s) \in Paths /\ Plain(Dir(s)) /\ Len(Dir(s)) = Len(s) + 1
           /\ Last(Dir(s)) = End /\ Front(Dir(s)) = s
           /\ \A i \in 1 .. Len(s) : Dir(s)[i] = s[i]
<1>1. /\ Dir(s) \in Paths /\ Len(Dir(s)) = Len(s) + 1
      /\ Last(Dir(s)) = End /\ Front(Dir(s)) = s
      /\ \A i \in 1 .. Len(s) : Dir(s)[i] = s[i]
    BY Appended, Segments DEF Dir
<1>2. /\ Len(s) \in Nat /\ DOMAIN s = 1 .. Len(s)
      /\ DOMAIN Dir(s) = 1 .. (Len(s) + 1) /\ Dir(s)[Len(s) + 1] = End
    <2>1. Dir(s) \in Seq(Segs)
        BY <1>1 DEF Paths
    <2> QED BY <1>1, <2>1, LenProperties DEF Last
<1>3. ASSUME NEW i \in 1 .. (Len(s) + 1) PROVE ~Dir(s)[i].enc
    <2>1. CASE i = Len(s) + 1
        BY <1>2, <2>1, Segments
    <2>2. CASE i \in 1 .. Len(s)
        BY <1>1, <1>2, <2>2 DEF Plain
    <2> QED BY <1>2, <2>1, <2>2
<1> QED BY <1>1, <1>2, <1>3 DEF Plain

\* A segment is known by its name and its spelling.
Segment == [n: STRING, html: BOOLEAN, enc: BOOLEAN]

\* Segments that agree in all three are the same.
LEMMA SameSegment ==
    ASSUME NEW s \in Segment, NEW t \in Segment,
           s.n = t.n, s.html = t.html, s.enc = t.enc
    PROVE  s = t
BY DEF Segment

\* A segment in another spelling, with ".html" and without.
LEMMA Respelt ==
    ASSUME NEW s \in Segment
    PROVE  /\ LET t == [s EXCEPT !.enc = FALSE, !.html = FALSE]
              IN  t \in Segment /\ t.n = s.n /\ t.html = FALSE /\ t.enc = FALSE
           /\ LET t == [s EXCEPT !.html = FALSE]
              IN  t \in Segment /\ t.n = s.n /\ t.html = FALSE /\ t.enc = s.enc
           /\ LET t == [s EXCEPT !.html = TRUE]
              IN  t \in Segment /\ t.n = s.n /\ t.html = TRUE /\ t.enc = s.enc
BY DEF Segment

\* What is decoded before the last segment is decoded.
LEMMA PlainParts ==
    ASSUME NEW p \in Paths, Plain(p)
    PROVE  /\ Plain(Front(p)) /\ ~Last(p).enc /\ Bare(p) \in Segs
           /\ Bare(p).n = Last(p).n /\ ~Bare(p).enc /\ ~Bare(p).html
           /\ Last(p).html => Html(Bare(p)) = Last(p)
           /\ Plain(Append(Front(p), Bare(p)))
<1>1. /\ Len(p) \in Nat \ {0} /\ DOMAIN p = 1 .. Len(p)
      /\ Last(p) = p[Len(p)] /\ Last(p) \in Segs
      /\ Front(p) \in Seq(Segs) /\ Len(Front(p)) = Len(p) - 1
      /\ DOMAIN Front(p) = 1 .. (Len(p) - 1)
      /\ \A i \in 1 .. (Len(p) - 1) : Front(p)[i] = p[i]
    BY PathParts
<1>2. Plain(Front(p))
    BY <1>1 DEF Plain
<1>3. ~Last(p).enc
    BY <1>1 DEF Plain
<1> DEFINE l == Last(p)
<1>4. /\ l \in Segment /\ l.enc = FALSE
      /\ [l EXCEPT !.enc = FALSE, !.html = FALSE] \in Segs
    BY <1>1, <1>3, Segments, ConstantsAssumption DEF ConstantsAssumption, Segment
<1>5. Bare(p) = [l EXCEPT !.html = FALSE]
    BY DEF Bare
<1> HIDE DEF l
<1>6. Bare(p) \in Segment /\ Bare(p).n = l.n /\ Bare(p).html = FALSE /\ Bare(p).enc = FALSE
    <2> DEFINE t == [l EXCEPT !.html = FALSE]
    <2>1. t \in Segment /\ t.n = l.n /\ t.html = FALSE /\ t.enc = l.enc
        BY <1>4, Respelt
    <2> HIDE DEF t
    <2>2. t.enc = FALSE /\ Bare(p) = t
        BY <1>4, <1>5, <2>1 DEF t
    <2> QED BY <2>1, <2>2
<1>7. Bare(p) = [l EXCEPT !.enc = FALSE, !.html = FALSE]
    <2> DEFINE t == [l EXCEPT !.enc = FALSE, !.html = FALSE]
    <2>1. t \in Segment /\ t.n = l.n /\ t.html = FALSE /\ t.enc = FALSE
        BY <1>4, Respelt
    <2> HIDE DEF t
    <2>2. Bare(p) = t
        BY <1>6, <2>1, SameSegment
    <2> QED BY <2>2 DEF t
<1>8. Bare(p) \in Segs
    BY <1>4, <1>7
<1>9. l.html => Html(Bare(p)) = l
    <2> HAVE l.html
    <2> DEFINE t == Html(Bare(p))
    <2>1. t \in Segment /\ t.n = l.n /\ t.html = TRUE /\ t.enc = FALSE
        BY <1>6, Respelt DEF Html
    <2>2. t.html = l.html
        BY <1>4, <2>1 DEF Segment
    <2> HIDE DEF t
    <2>3. t = l
        BY <1>4, <2>1, <2>2, SameSegment
    <2> QED BY <2>3 DEF t
<1>10. Plain(Append(Front(p), Bare(p)))
    <2> DEFINE q == Append(Front(p), Bare(p))
    <2>1. /\ q \in Paths /\ Len(q) = Len(Front(p)) + 1 /\ Last(q) = Bare(p)
          /\ \A i \in 1 .. Len(Front(p)) : q[i] = Front(p)[i]
        BY <1>1, <1>8, Appended
    <2>2. DOMAIN q = 1 .. Len(q) /\ Last(q) = q[Len(q)]
        BY <2>1, PathParts
    <2> HIDE DEF q
    <2>3. ASSUME NEW i \in 1 .. Len(q) PROVE ~q[i].enc
        <3>1. CASE i = Len(q)
            BY <1>6, <2>1, <2>2, <3>1
        <3>2. CASE i \in 1 .. (Len(p) - 1)
            BY <1>1, <1>2, <2>1, <3>2 DEF Plain
        <3>3. Len(q) = Len(p) - 1 + 1 /\ Len(p) \in Nat
            BY <1>1, <2>1
        <3>4. i = Len(q) \/ i \in 1 .. (Len(p) - 1)
            BY <3>3
        <3> QED BY <3>1, <3>2, <3>4
    <2>4. Plain(q)
        BY <2>2, <2>3 DEF Plain
    <2> QED BY <2>4 DEF q
<1> QED BY <1>2, <1>3, <1>6, <1>8, <1>9, <1>10 DEF l

\* An ".html" path is folded into a directory path, and nothing else is.
LEMMA Folded ==
    ASSUME NEW p \in Paths, Plain(p), canonical_form(p) # None
    PROVE  LET c == canonical_form(p)
           IN  /\ Last(p).html
               /\ c = Dir(IF Last(p) = Index THEN Front(p)
                                             ELSE Append(Front(p), Bare(p)))
               /\ c \in Paths /\ Plain(c) /\ Last(c) = End
<1>1. /\ Front(p) \in Seq(Segs) /\ Last(p) \in Segs
    BY PathParts
<1>2. /\ Plain(Front(p)) /\ Bare(p) \in Segs /\ Plain(Append(Front(p), Bare(p)))
    BY PlainParts
<1>3. Append(Front(p), Bare(p)) \in Seq(Segs)
    BY <1>1, <1>2, AppendProperties
<1>4. Last(p).html
    BY DEF canonical_form
<1>5. canonical_form(p) = Dir(IF Last(p) = Index THEN Front(p)
                                                 ELSE Append(Front(p), Bare(p)))
    BY <1>4 DEF canonical_form, ToDir
<1> QED BY <1>1, <1>2, <1>3, <1>4, <1>5, Directory

\* There is nothing to fold in a directory path.
LEMMA NothingToFold ==
    ASSUME NEW p, Last(p) = End
    PROVE  canonical_form(p) = None
BY Segments DEF canonical_form

\* What is below ".well-known/acme-challenge" has it for its first segment.
LEMMA Acme ==
    ASSUME NEW p \in Paths
    PROVE  IsStrictPrefix(<<AcmeDir>>, p) <=> Len(p) >= 2 /\ p[1] = AcmeDir
<1> DEFINE S == Segs \cup {AcmeDir}
           a == <<AcmeDir>>
<1>1. /\ Len(p) \in Nat \ {0} /\ \A i \in 1 .. Len(p) : p[i] \in S
      /\ p \in Seq(S)
    <2>1. /\ Len(p) \in Nat \ {0} /\ DOMAIN p = 1 .. Len(p)
          /\ \A i \in DOMAIN p : p[i] \in Segs
        BY PathParts
    <2>2. p \in Seq(S)
        BY SeqMonotonic DEF Paths
    <2> QED BY <2>1, <2>2
<1>2. a \in Seq(S) /\ Len(a) = 1 /\ a[1] = AcmeDir
    OBVIOUS
<1> HIDE DEF S, a
<1>3. SubSeq(a, 1, 1) = a
    BY <1>2, SubSeqFull
<1>4. SubSeq(p, 1, 1) \in Seq(S) /\ Len(SubSeq(p, 1, 1)) = 1 /\ SubSeq(p, 1, 1)[1] = p[1]
    <2>1. 1 \in Int /\ \A i \in 1 .. 1 : p[i] \in S
        BY <1>1
    <2>2. /\ SubSeq(p, 1, 1) \in Seq(S)
          /\ Len(SubSeq(p, 1, 1)) = IF 1 <= 1 THEN 1 - 1 + 1 ELSE 0
          /\ \A i \in 1 .. (1 - 1 + 1) : SubSeq(p, 1, 1)[i] = p[1 + i - 1]
        BY <2>1, SubSeqProperties
    <2> QED BY <2>2
<1>5. SubSeq(p, 1, 1) = a <=> p[1] = AcmeDir
    <2>1. ASSUME p[1] = AcmeDir PROVE SubSeq(p, 1, 1) = a
        <3>1. \A i \in 1 .. Len(a) : SubSeq(p, 1, 1)[i] = a[i]
            BY <1>2, <1>4, <2>1
        <3> QED BY <1>2, <1>4, <3>1, SeqEqual
    <2> QED BY <1>2, <1>4, <2>1
<1>6. ASSUME p[1] = AcmeDir PROVE p # a <=> Len(p) >= 2
    <2>1. ASSUME Len(p) = 1 PROVE p = a
        <3>1. \A i \in 1 .. Len(p) : p[i] = a[i]
            BY <1>2, <1>6, <2>1
        <3> QED BY <1>1, <1>2, <2>1, <3>1, SeqEqual
    <2> QED BY <1>1, <1>2, <2>1
<1>7. IsStrictPrefix(a, p) <=> Len(p) >= 2 /\ p[1] = AcmeDir
    BY <1>1, <1>2, <1>3, <1>5, <1>6 DEF IsStrictPrefix, IsPrefix
<1> QED BY <1>7 DEF a
\* Documents of a root with no directory named "*.html", none of them named
\* like the challenge directory.  A name before ".html" is never empty, since
\* build_cache leaves hidden files out.
Ordinary(c) ==
    \A d \in c : /\ d[1].n # AcmeDir.n
                 /\ \A i \in 1 .. Len(d) : /\ d[i].n # NoName
                                           /\ i < Len(d) => ~d[i].html

\* What is in a path with an index behind it.
LEMMA Indexed ==
    ASSUME NEW s \in Seq(Segs)
    PROVE  /\ Len(Append(s, Index)) = Len(s) + 1 /\ Len(s) \in Nat
           /\ \A i \in 1 .. Len(s) : Append(s, Index)[i] = s[i]
<1> DEFINE S == Segs \cup {Index}
<1>1. s \in Seq(S) /\ Index \in S
    BY SeqMonotonic
<1>2. Len(s) \in Nat
    BY LenProperties
<1> HIDE DEF S
<1> QED BY <1>1, <1>2, AppendProperties

\* A directory with an index is found, and is no challenge.
LEMMA IndexStays ==
    ASSUME NEW c, Ordinary(c), NEW p \in Paths, Last(p) = End,
           Append(Front(p), Index) \in c
    PROVE  Find(c, p) # {} /\ ~IsStrictPrefix(<<AcmeDir>>, p)
<1>1. Find(c, p) # {}
    BY DEF Find
<1>2. ASSUME Len(p) >= 2, p[1] = AcmeDir PROVE FALSE
    <2>1. /\ Len(p) \in Nat /\ Front(p) \in Seq(Segs) /\ Len(Front(p)) = Len(p) - 1
          /\ \A i \in 1 .. (Len(p) - 1) : Front(p)[i] = p[i]
        BY PathParts
    <2>2. 1 \in 1 .. (Len(p) - 1)
        BY <1>2, <2>1
    <2>3. Append(Front(p), Index)[1] = AcmeDir
        BY <1>2, <2>1, <2>2, Indexed
    <2> QED BY <2>3 DEF Ordinary
<1> QED BY <1>1, <1>2, Acme

\* The directory path of a page, without its slash and with ".html", is the page.
LEMMA Unfolded ==
    ASSUME NEW a \in Paths, Plain(a), Last(a).html, Last(a).n # NoName
    PROVE  LET q == Append(Front(a), Bare(a))
           IN  /\ Trimmed(Dir(q)) = q /\ q # <<>>
               /\ Flat(q) = a /\ ~Last(q).html
<1> DEFINE q == Append(Front(a), Bare(a))
           p == Dir(q)
           I == {i \in 1 .. Len(p) : p[i] # End}
<1>1. /\ Front(a) \in Seq(Segs) /\ Bare(a) \in Segs /\ Bare(a) # End /\ Plain(q)
      /\ ~Bare(a).html /\ Html(Bare(a)) = Last(a)
    BY PathParts, PlainParts, Segments
<1>2. q \in Paths /\ Last(q) = Bare(a) /\ Front(q) = Front(a)
    BY <1>1, Appended
<1>3. q # <<>> /\ q \in Seq(Segs) /\ Len(q) \in Nat \ {0} /\ q[Len(q)] = Bare(a)
    BY <1>2, PathParts DEF Paths
<1>4. Flat(q) = a
    BY <1>1, <1>2, Rejoined DEF Flat
<1> HIDE DEF q
<1>5. /\ p \in Paths /\ Len(p) = Len(q) + 1 /\ Last(p) = End
      /\ \A i \in 1 .. Len(q) : p[i] = q[i]
    BY <1>1, <1>3, Directory
<1> HIDE DEF p
<1>6. Len(q) \in I /\ \A i \in I : i <= Len(q)
    <2>1. p[Len(q) + 1] = End
        BY <1>5 DEF Last
    <2>2. p[Len(q)] # End
        BY <1>1, <1>3, <1>5
    <2> QED BY <1>3, <1>5, <2>1, <2>2
<1>7. SelectLastInSeq(p, LAMBDA s : s # End) = Len(q)
    <2>1. Max(I) = Len(q)
        <3>1. I \subseteq Nat
            BY <1>3, <1>5
        <3> HIDE DEF I
        <3>2. \A i \in I : (\A j \in I : i >= j) <=> i = Len(q)
            BY <1>3, <1>6, <3>1
        <3> QED BY <1>6, <3>2 DEF Max
    <2> QED BY <1>6, <2>1 DEF SelectLastInSeq
<1>8. SubSeq(p, 1, Len(q)) = q
    <2>1. 1 \in Int /\ Len(q) \in Int /\ 1 <= Len(q) /\ \A i \in 1 .. Len(q) : p[i] \in Segs
        BY <1>3, <1>5, ElementOfSeq
    <2>2. /\ SubSeq(p, 1, Len(q)) \in Seq(Segs)
          /\ Len(SubSeq(p, 1, Len(q))) = IF 1 <= Len(q) THEN Len(q) - 1 + 1 ELSE 0
          /\ \A i \in 1 .. (Len(q) - 1 + 1) : SubSeq(p, 1, Len(q))[i] = p[1 + i - 1]
        BY <2>1, SubSeqProperties
    <2>3. Len(q) - 1 + 1 = Len(q) /\ \A i \in 1 .. Len(q) : 1 + i - 1 = i
        BY <1>3
    <2>4. \A i \in 1 .. Len(q) : SubSeq(p, 1, Len(q))[i] = q[i]
        BY <1>5, <2>2, <2>3
    <2> QED BY <1>3, <2>1, <2>2, <2>3, <2>4, SeqEqual
<1>9. Trimmed(p) = q
    BY <1>7, <1>8 DEF Trimmed
<1> QED BY <1>1, <1>2, <1>3, <1>4, <1>9 DEF p, q

\* Where an ".html" path is folded to, there is what there is at the path.
LEMMA FoldStays ==
    ASSUME NEW c, Ordinary(c), NEW a \in Paths, Plain(a),
           canonical_form(a) # None, ~IsStrictPrefix(<<AcmeDir>>, a),
           \/ IsStrictPrefix(<<AcmeDir>>, canonical_form(a))
           \/ Find(c, canonical_form(a)) = {}
    PROVE  Find(c, a) = {} /\ ~DirIndex(c, a)
<1> DEFINE p == canonical_form(a)
           q == Append(Front(a), Bare(a))
<1>1. /\ Last(a).html /\ p \in Paths /\ Last(p) = End
      /\ p = Dir(IF Last(a) = Index THEN Front(a) ELSE q)
    BY Folded
<1>2. /\ Len(a) \in Nat \ {0} /\ Last(a) = a[Len(a)] /\ Last(a) \in Segs
      /\ Front(a) \in Seq(Segs) /\ Len(Front(a)) = Len(a) - 1
      /\ \A i \in 1 .. (Len(a) - 1) : Front(a)[i] = a[i]
    BY PathParts
<1>3. Len(p) >= 2 => Len(p) \in Nat /\ (IsStrictPrefix(<<AcmeDir>>, p) <=> p[1] = AcmeDir)
    BY <1>1, Acme, PathParts
<1>4. ~(Len(a) >= 2 /\ a[1] = AcmeDir)
    BY Acme
<1>5. IsStrictPrefix(<<AcmeDir>>, p) => Len(p) >= 2 /\ p[1] = AcmeDir
    BY <1>1, Acme
<1>6. ASSUME a \in c PROVE FALSE
    <2>1. CASE Last(a) = Index
        <3>1. p = Dir(Front(a)) /\ Plain(Front(a))
            BY <1>1, <2>1, PlainParts
        <3>2. /\ Front(p) = Front(a) /\ Len(p) = Len(Front(a)) + 1
              /\ \A i \in 1 .. Len(Front(a)) : p[i] = Front(a)[i]
            BY <1>2, <3>1, Directory
        <3>3. Append(Front(p), Index) = a
            BY <2>1, <3>2, Rejoined
        <3> HIDE DEF p
        <3>4. Find(c, p) # {} /\ ~IsStrictPrefix(<<AcmeDir>>, p)
            BY <1>1, <1>6, <3>3, IndexStays
        <3> QED BY <3>4 DEF p
    <2>2. CASE Last(a) # Index
        <3>1. /\ Bare(a) \in Segs /\ Bare(a).n = Last(a).n /\ Plain(q)
            BY PlainParts
        <3>2. Last(a).n # NoName
            BY <1>2, <1>6 DEF Ordinary
        <3>3. /\ q \in Seq(Segs) /\ Len(q) = Len(a) /\ Last(q) = Bare(a)
              /\ \A i \in 1 .. (Len(a) - 1) : q[i] = a[i]
            <4>1. /\ q \in Paths /\ Len(q) = Len(Front(a)) + 1 /\ Last(q) = Bare(a)
                  /\ \A i \in 1 .. Len(Front(a)) : q[i] = Front(a)[i]
                BY <1>2, <3>1, Appended
            <4> QED BY <1>2, <4>1 DEF Paths
        <3>4. /\ Trimmed(p) = q /\ q # <<>> /\ Flat(q) = a /\ ~Last(q).html
            BY <1>1, <2>2, <3>2, Unfolded
        <3>5. Find(c, p) # {}
            BY <1>1, <1>6, <3>4 DEF Find, Fallback
        <3>6. /\ Len(p) = Len(q) + 1 /\ \A i \in 1 .. Len(q) : p[i] = q[i]
            BY <1>1, <2>2, <3>1, <3>3, Directory
        <3> HIDE DEF p, q
        <3>7. ASSUME p[1] = AcmeDir PROVE FALSE
            <4>1. q[1] = AcmeDir
                BY <1>2, <3>3, <3>6, <3>7
            <4>2. CASE Len(a) = 1
                <5>1. a[1].n = AcmeDir.n
                    BY <1>2, <3>1, <3>3, <4>1, <4>2 DEF Last
                <5> QED BY <1>6, <5>1 DEF Ordinary
            <4>3. CASE Len(a) # 1
                BY <1>2, <1>4, <3>3, <4>1, <4>3
            <4> QED BY <4>2, <4>3
        <3> QED BY <1>5, <3>5, <3>7 DEF p
    <2> QED BY <2>1, <2>2
<1>7. Last(a) # End
    BY <1>1, Segments
<1>8. Find(c, a) = {}
    BY <1>1, <1>6, <1>7 DEF Find, Fallback
<1>9. ASSUME Append(a, Index) \in c PROVE FALSE
    <2> DEFINE d == Append(a, Index)
    <2>1. Len(d) = Len(a) + 1 /\ d[Len(a)] = Last(a)
        <3>1. a \in Seq(Segs) /\ Len(a) \in 1 .. Len(a)
            BY <1>2 DEF Paths
        <3> QED BY <1>2, <3>1, Indexed
    <2>2. Len(a) \in 1 .. Len(d) /\ Len(a) < Len(d)
        BY <1>2, <2>1
    <2> HIDE DEF d
    <2> QED BY <1>1, <1>9, <2>1, <2>2 DEF Ordinary, d
<1> QED BY <1>8, <1>9 DEF DirIndex
----------------------------------------------------------------------------
(* The rules of a site *)

\* Rules as push() lets them in: none loops for every path it matches.
Accepted(rs) ==
    /\ RulesTyped(rs)
    /\ rs = [exact |-> rs.exact, prefix |-> rs.prefix, all |-> rs.all]
    /\ \A p \in DOMAIN rs.exact :
          ~LoopsForever(rs.exact[p], [kind |-> "exact", segs |-> p])
    /\ \A i \in DOMAIN rs.prefix :
          ~LoopsForever(rs.prefix[i].to, [kind |-> "prefix", segs |-> rs.prefix[i].segs])
    /\ rs.all # None => ~LoopsForever(rs.all, [kind |-> "all", segs |-> <<>>])

\* Rules as finish() leaves them.
LongestFirst(rs) ==
    \A k, l \in DOMAIN rs.prefix :
       k < l => Len(rs.prefix[l].segs) <= Len(rs.prefix[k].segs)

\* A site without rules has accepted rules, and no path is redirected by them.
LEMMA Unruled ==
    /\ Accepted(NoRules)
    /\ \A p : Resolve(NoRules, p) = None
<1>1. NoRules.exact = <<>> /\ NoRules.prefix = <<>> /\ NoRules.all = None
    BY DEF NoRules
<1>2. DOMAIN NoRules.exact = {} /\ DOMAIN NoRules.prefix = {} /\ NoRules.prefix \in Seq(Ruling)
    BY <1>1
<1>3. NoRules = [exact |-> NoRules.exact, prefix |-> NoRules.prefix, all |-> NoRules.all]
    BY DEF NoRules
<1>4. RulesTyped(NoRules)
    BY <1>1, <1>2 DEF RulesTyped
<1>5. Accepted(NoRules)
    BY <1>1, <1>2, <1>3, <1>4 DEF Accepted
<1>6. ASSUME NEW p PROVE Resolve(NoRules, p) = None
    BY <1>1, <1>2 DEF Resolve
<1> QED BY <1>5, <1>6

\* A line that push() does not refuse is a rule more.
LEMMA Pushed ==
    ASSUME NEW rs, Accepted(rs), NEW line \in Line, ~Refused(rs, line)
    PROVE  Accepted(Push(rs, line))
<1> DEFINE p == line.pattern
           t == line.target
           new == Push(rs, line)
<1>1. /\ p \in Pattern /\ t \in Target /\ ~LoopsForever(t, p)
    <2>1. p \in Pattern \cup {Malformed} /\ t \in Target \cup {Malformed}
        BY DEF Line
    <2> QED BY <2>1 DEF Refused
<1>2. RulesTyped(rs) /\ rs = [exact |-> rs.exact, prefix |-> rs.prefix, all |-> rs.all]
    BY DEF Accepted
<1>3. CASE p.kind = "all"
    <2>1. new = [rs EXCEPT !.all = t]
        BY <1>3 DEF Push
    <2> HIDE DEF t, p
    <2>2. /\ new.exact = rs.exact /\ new.prefix = rs.prefix /\ new.all = t
          /\ new = [exact |-> new.exact, prefix |-> new.prefix, all |-> new.all]
        <3> HIDE DEF new
        <3> QED BY <1>2, <2>1
    <2>3. p = [kind |-> "all", segs |-> <<>>]
        BY <1>1, <1>3 DEF Pattern
    <2> HIDE DEF new
    <2>4. RulesTyped(new)
        BY <1>1, <1>2, <2>2 DEF RulesTyped
    <2>5. Accepted(new)
        BY <1>1, <2>2, <2>3, <2>4 DEF Accepted
    <2> QED BY <2>5 DEF new
<1>4. CASE p.kind = "prefix"
    <2> DEFINE r == [segs |-> p.segs, to |-> t]
    <2>1. new = [rs EXCEPT !.prefix = Append(@, r)]
        BY <1>4 DEF Push
    <2>2. p = [kind |-> "prefix", segs |-> p.segs] /\ p.segs \in Seq(Segs)
        BY <1>1, <1>4 DEF Pattern
    <2>3. r \in Ruling /\ r.segs = p.segs /\ r.to = t
        BY <1>1, <2>2 DEF Ruling
    <2> HIDE DEF t, p, r
    <2>4. /\ new.exact = rs.exact /\ new.prefix = Append(rs.prefix, r) /\ new.all = rs.all
          /\ new = [exact |-> new.exact, prefix |-> new.prefix, all |-> new.all]
        <3> HIDE DEF new
        <3> QED BY <1>2, <2>1
    <2> HIDE DEF new
    <2>5. /\ rs.prefix \in Seq(Ruling) /\ Len(rs.prefix) \in Nat
          /\ DOMAIN rs.prefix = 1 .. Len(rs.prefix)
        BY <1>2, LenProperties DEF RulesTyped
    <2>6. /\ new.prefix \in Seq(Ruling) /\ Len(new.prefix) = Len(rs.prefix) + 1
          /\ \A i \in 1 .. Len(rs.prefix) : new.prefix[i] = rs.prefix[i]
          /\ new.prefix[Len(rs.prefix) + 1] = r
        BY <2>3, <2>4, <2>5, AppendProperties
    <2>7. DOMAIN new.prefix = 1 .. (Len(rs.prefix) + 1)
        BY <2>6, LenProperties
    <2>8. ASSUME NEW i \in DOMAIN new.prefix
          PROVE  ~LoopsForever(new.prefix[i].to,
                               [kind |-> "prefix", segs |-> new.prefix[i].segs])
        <3>1. CASE i \in 1 .. Len(rs.prefix)
            BY <2>5, <2>6, <3>1 DEF Accepted
        <3>2. CASE i = Len(rs.prefix) + 1
            BY <1>1, <2>2, <2>3, <2>6, <3>2
        <3> QED BY <2>5, <2>7, <3>1, <3>2
    <2>9. RulesTyped(new)
        BY <1>2, <2>4, <2>6 DEF RulesTyped
    <2>10. Accepted(new)
        BY <2>4, <2>8, <2>9 DEF Accepted
    <2> QED BY <2>10 DEF new
<1>5. CASE p.kind = "exact"
    <2> DEFINE x == [q \in DOMAIN rs.exact \cup {p.segs} |->
                        IF q = p.segs THEN t ELSE rs.exact[q]]
    <2>1. new = [rs EXCEPT !.exact = x]
        BY <1>5 DEF Push
    <2>2. p = [kind |-> "exact", segs |-> p.segs] /\ p.segs \in Paths
        BY <1>1, <1>5 DEF Pattern
    <2> HIDE DEF t, p
    <2>3. /\ DOMAIN x = DOMAIN rs.exact \cup {p.segs}
          /\ \A q \in DOMAIN x : x[q] = IF q = p.segs THEN t ELSE rs.exact[q]
        OBVIOUS
    <2> HIDE DEF x
    <2>4. /\ new.exact = x /\ new.prefix = rs.prefix /\ new.all = rs.all
          /\ new = [exact |-> new.exact, prefix |-> new.prefix, all |-> new.all]
        <3> HIDE DEF new
        <3> QED BY <1>2, <2>1
    <2> HIDE DEF new
    <2>5. RulesTyped(new)
        BY <1>1, <1>2, <2>2, <2>3, <2>4 DEF RulesTyped
    <2>6. \A q \in DOMAIN new.exact :
             ~LoopsForever(new.exact[q], [kind |-> "exact", segs |-> q])
        BY <1>1, <2>2, <2>3, <2>4 DEF Accepted
    <2>7. Accepted(new)
        BY <2>4, <2>5, <2>6 DEF Accepted
    <2> QED BY <2>7 DEF new
<1>6. p.kind \in {"all", "prefix", "exact"}
    BY <1>1 DEF Pattern
<1> QED BY <1>3, <1>4, <1>5, <1>6

\* finish() leaves the same rules, the longest prefix first.
LEMMA Finished ==
    ASSUME NEW rs, Accepted(rs)
    PROVE  Accepted(Finish(rs)) /\ LongestFirst(Finish(rs))
<1> DEFINE new == Finish(rs)
           s   == rs.prefix
           z   == Sorted(s)
<1>1. /\ RulesTyped(rs) /\ s \in Seq(Ruling)
      /\ rs = [exact |-> rs.exact, prefix |-> s, all |-> rs.all]
    BY DEF Accepted, RulesTyped
<1>2. /\ z \in Seq(Ruling) /\ DOMAIN z = DOMAIN s
      /\ \A k \in DOMAIN s : \E i \in DOMAIN s : z[k] = s[i]
      /\ \A k, l \in DOMAIN s : k < l => Len(z[l].segs) <= Len(z[k].segs)
    BY <1>1, SortedRules
<1>3. new = [rs EXCEPT !.prefix = z]
    BY DEF Finish
<1> HIDE DEF z, new
<1>4. /\ new.exact = rs.exact /\ new.prefix = z /\ new.all = rs.all
      /\ new = [exact |-> new.exact, prefix |-> new.prefix, all |-> new.all]
    BY <1>1, <1>3
<1>5. RulesTyped(new)
    BY <1>1, <1>2, <1>4 DEF RulesTyped
<1>6. ASSUME NEW k \in DOMAIN z
      PROVE  ~LoopsForever(z[k].to, [kind |-> "prefix", segs |-> z[k].segs])
    <2>1. PICK i \in DOMAIN s : z[k] = s[i]
        BY <1>2
    <2> QED BY <2>1 DEF Accepted
<1>7. Accepted(new)
    BY <1>4, <1>5, <1>6 DEF Accepted
<1>8. LongestFirst(new)
    BY <1>2, <1>4 DEF LongestFirst
<1> QED BY <1>7, <1>8 DEF new

\* What the text of the rules says is what they do.
LEMMA TextKept ==
    ASSUME Accepted(rules), LongestFirst(rules)
    PROVE  RulesKept
<1>1. /\ RulesTyped(rules) /\ Len(rules.prefix) \in Nat
      /\ DOMAIN rules.prefix = 1 .. Len(rules.prefix)
      /\ \A i \in DOMAIN rules.prefix : rules.prefix[i] \in Ruling
    BY LenProperties, ElementOfSeq DEF Accepted, RulesTyped
<1>2. \A i \in DOMAIN rules.prefix : Len(rules.prefix[i].segs) \in Nat
    BY <1>1, LenProperties DEF Ruling
<1>3. MostSpecificWins
    <2> SUFFICES ASSUME NEW p \in Asked
                 PROVE  LET r == Resolve(rules, p)
                            H == {i \in DOMAIN rules.prefix :
                                     IsStrictPrefix(rules.prefix[i].segs, p)}
                        IN  CASE p \in DOMAIN rules.exact -> r.to = rules.exact[p]
                              [] p \notin DOMAIN rules.exact /\ H # {} ->
                                    \E i \in H : /\ r.to = rules.prefix[i].to
                                                 /\ \A j \in H : Len(rules.prefix[j].segs)
                                                            <= Len(rules.prefix[i].segs)
                              [] OTHER -> r = None \/ r.to = rules.all
        BY DEF MostSpecificWins
    <2> DEFINE r == Resolve(rules, p)
               H == {i \in DOMAIN rules.prefix : IsStrictPrefix(rules.prefix[i].segs, p)}
    <2>1. p \in Paths
        BY ConstantsAssumption DEF ConstantsAssumption
    <2>2. /\ p \in DOMAIN rules.exact =>
                r = [to |-> rules.exact[p], path |-> Expand(rules.exact[p], p, NoCapture)]
          /\ p \notin DOMAIN rules.exact /\ H # {} =>
                \E i \in H : r.to = rules.prefix[i].to /\ \A j \in H : i <= j
          /\ p \notin DOMAIN rules.exact /\ H = {} => r = None \/ r.to = rules.all
        BY <1>1, <2>1, Resolved
    <2>3. H \subseteq DOMAIN rules.prefix
        OBVIOUS
    <2> HIDE DEF r, H
    <2>4. ASSUME p \notin DOMAIN rules.exact, H # {}
          PROVE  \E i \in H : /\ r.to = rules.prefix[i].to
                              /\ \A j \in H : Len(rules.prefix[j].segs)
                                                 <= Len(rules.prefix[i].segs)
        <3>1. PICK i \in H : r.to = rules.prefix[i].to /\ \A j \in H : i <= j
            BY <2>2, <2>4
        <3>2. ASSUME NEW j \in H
              PROVE  Len(rules.prefix[j].segs) <= Len(rules.prefix[i].segs)
            <4>1. i = j \/ i < j
                BY <1>1, <2>3, <3>1
            <4> QED BY <1>2, <2>3, <4>1 DEF LongestFirst
        <3> QED BY <3>1, <3>2
    <2>5. p \in DOMAIN rules.exact => r.to = rules.exact[p]
        BY <2>2
    <2> QED BY <2>2, <2>4, <2>5 DEF r, H
<1>4. NoTotalLoop
    <2>1. ASSUME NEW p \in DOMAIN rules.exact
          PROVE  LET r == Resolve(rules, p) IN r.to.url \/ r.path # p
        <3>1. p \in Paths
            BY <1>1 DEF RulesTyped
        <3>2. Resolve(rules, p) = [to   |-> rules.exact[p],
                                   path |-> Expand(rules.exact[p], p, NoCapture)]
            BY <1>1, <3>1, Resolved
        <3>3. ~LoopsForever(rules.exact[p], [kind |-> "exact", segs |-> p])
            BY DEF Accepted
        <3>4. rules.exact[p].url \/ Expand(rules.exact[p], p, NoCapture) # p
            BY <3>3 DEF LoopsForever, ProbePath, ProbeCap
        <3> QED BY <3>2, <3>4
    <2>2. ASSUME NEW i \in DOMAIN rules.prefix
          PROVE  LET t == rules.prefix[i].to
                 IN  t.url \/ \E s \in Segs : LET p == Append(rules.prefix[i].segs, s)
                                              IN  Expand(t, p, <<s>>) # p
        <3>1. ~LoopsForever(rules.prefix[i].to,
                            [kind |-> "prefix", segs |-> rules.prefix[i].segs])
            BY DEF Accepted
        <3> QED BY <3>1, Segments DEF LoopsForever, ProbePath, ProbeCap
    <2>3. ASSUME rules.all # None
          PROVE  rules.all.url \/ \E s \in Segs : Expand(rules.all, <<s>>, AllOf(<<s>>)) # <<s>>
        <3>1. ~LoopsForever(rules.all, [kind |-> "all", segs |-> <<>>])
            BY <2>3 DEF Accepted
        <3>2. Append(<<>>, ProbeSeg) = <<ProbeSeg>>
            OBVIOUS
        <3> QED BY <3>1, <3>2, Segments DEF LoopsForever, ProbePath, ProbeCap
    <2> QED BY <2>1, <2>2, <2>3 DEF NoTotalLoop
<1> QED BY <1>3, <1>4 DEF RulesKept
----------------------------------------------------------------------------
(* The walk of a client *)

Walking == pc \in {"request", "answered"}

\* What every variable holds, and what the rules of the site are.
Typed ==
    /\ TypeOK
    /\ cache \in Caches \cup {None}
    /\ path \in Paths /\ asked \in Paths /\ Plain(asked)
    /\ Accepted(rules)
    /\ Live => LongestFirst(rules)

\* What a request has, by what sent the client there.  No redirect is left to
\* the upgrade to HTTPS after one that was the upgrade too, and none to folding
\* after one that led to a directory or was made when there was nothing to fold.
Walked ==
    /\ ~Walking => by = "client"
    /\ pc # "answered" => answer = "none"
    /\ tls = (flaws.sni # None)
    /\ by \in {"rule", "canonical", "directory"} => tls \/ ~force_ssl
    /\ by = "upgrade" => tls
    /\ by \in {"canonical", "directory"} => Last(path) = End /\ Plain(path)
    /\ by = "upgrade" /\ canonical_urls => canonical_form(Decode(path)) = None

\* Where a redirect that is no rule leads.
LeadsFrom(p, why) ==
    /\ why # "rule"
    /\ why = "upgrade"   => Decode(p) = asked
    /\ why = "canonical" => /\ canonical_form(asked) # None
                            /\ p = canonical_form(asked)
    /\ why = "directory" => Append(Front(p), Index) \in Docs

\* There is nothing at a path.
Nothing(p) == Find(Docs, p) = {} /\ ~DirIndex(Docs, p)
Unflawed   == \E s \in {"ours", None} : flaws = [Flawless EXCEPT !.sni = s]

\* How the path of the request comes from the path that was asked for.
Related ==
    /\ AcmeDirect
    /\ Walking /\ by = "client" => Decode(path) = asked
    /\ Walking /\ rules = NoRules => LeadsFrom(path, by)
    /\ answer = "not_found" /\ Unflawed => IsAcme(path) \/ Nothing(Decode(path))

IInv == Typed /\ Walked /\ Related

\* A challenge that was asked for is asked for in every spelling.
LEMMA AcmeSpelling ==
    ASSUME NEW p \in Paths, NEW a \in Paths, Plain(a), Decode(p) = a
    PROVE  IsAcme(p) <=> IsAcme(a)
<1>1. Decode(a) = a
    BY Decoded
<1> QED BY <1>1 DEF IsAcme

\* A site starts with no rules, and with a client that has asked for nothing.
LEMMA InitInv == Init => IInv
<1> SUFFICES ASSUME Init PROVE IInv
    OBVIOUS
<1>1. /\ lines \in Seq(Line) /\ rules = NoRules /\ pc = "config"
      /\ cache \in Caches \cup {None} /\ tls = FALSE /\ force_ssl \in BOOLEAN
      /\ canonical_urls \in BOOLEAN /\ keep = FALSE
      /\ flaws = Flawless /\ path = <<End>> /\ asked = <<End>>
      /\ by = "client" /\ answer = "none" /\ query = "none"
    BY ConstantsAssumption DEF Init, ConstantsAssumption
<1>2. /\ path \in Paths /\ path[1] = End /\ Len(path) = 1
    <2>1. End \in Segs
        BY Segments
    <2>2. <<End>> \in Seq(Segs) /\ <<End>>[1] = End /\ Len(<<End>>) = 1 /\ <<End>> # <<>>
        BY <2>1
    <2> QED BY <1>1, <2>2 DEF Paths
<1>3. Plain(asked)
    <2>1. DOMAIN asked = 1 .. 1 /\ asked[1] = End
        BY <1>1
    <2>2. ~End.enc
        BY Segments
    <2> QED BY <2>1, <2>2 DEF Plain
<1>4. flaws \in Request /\ flaws.sni = None
    BY <1>1 DEF Flawless, Request
<1>5. TypeOK
    <2>1. path # <<>> /\ \A i \in DOMAIN path : path[i] \in Segs
        BY <1>2, PathParts DEF Paths
    <2> QED BY <1>1, <1>4, <2>1 DEF TypeOK
<1>6. Typed
    BY <1>1, <1>2, <1>3, <1>5, Unruled DEF Typed, Live
<1>7. Walked
    BY <1>1, <1>4 DEF Walked, Walking
<1>8. Related
    BY <1>1 DEF Related, Walking, AcmeDirect
<1> QED BY <1>6, <1>7, <1>8 DEF IInv

\* A request that is answered where it is keeps to the invariant, if a challenge
\* is not sent away and a 404 is given for what is not there.
LEMMA EndKeeps ==
    ASSUME IInv, pc = "request", NEW a, NEW k \in BOOLEAN, End_(a, k),
           a \in {"bad_request", "not_found", "method_not_allowed",
                  "elsewhere", "left", "ok"},
           a = "left" => ~IsAcme(path),
           a = "not_found" /\ Unflawed => IsAcme(path) \/ Nothing(Decode(path))
    PROVE  IInv'
<1>1. /\ answer' = a /\ keep' = k /\ pc' = "answered"
      /\ UNCHANGED <<lines, rules, force_ssl, canonical_urls, cache,
                     tls, flaws, path, query, by, asked>>
    BY DEF End_, site, req
<1>2. Typed'
    <2>1. TypeOK'
        BY <1>1 DEF IInv, Typed, TypeOK
    <2> QED BY <1>1, <2>1 DEF IInv, Typed, Live
<1>3. Walked'
    BY <1>1 DEF IInv, Walked, Walking
<1>4. AcmeDirect'
    <2> SUFFICES ASSUME IsAcme(asked) PROVE by = "client" /\ a # "left"
        BY <1>1 DEF AcmeDirect
    <2>1. by = "client" /\ Decode(path) = asked
        BY DEF IInv, Related, AcmeDirect, Walking
    <2>2. IsAcme(path)
        BY <2>1, AcmeSpelling DEF IInv, Typed
    <2> QED BY <2>1, <2>2
<1>5. (answer = "not_found" /\ Unflawed => IsAcme(path) \/ Nothing(Decode(path)))'
    BY <1>1 DEF Unflawed, Nothing, Docs
<1>6. Related'
    BY <1>1, <1>4, <1>5 DEF IInv, Related, Walking, LeadsFrom, Docs
<1> QED BY <1>2, <1>3, <1>6 DEF IInv

\* So does one that is redirected, if no challenge is and the path that it is
\* sent to is as the redirect's kind demands.
LEMMA FollowKeeps ==
    ASSUME IInv, pc = "request", NEW p \in Paths, NEW secure \in BOOLEAN,
           NEW q \in {"none", "sent", "own"},
           NEW why \in {"rule", "canonical", "upgrade", "directory"},
           Follow(p, secure, q, why), ~IsAcme(path),
           why # "upgrade" => secure \/ ~force_ssl,
           why = "upgrade" => secure,
           why \in {"canonical", "directory"} => Last(p) = End /\ Plain(p),
           why = "upgrade" /\ canonical_urls => canonical_form(Decode(p)) = None,
           rules = NoRules => LeadsFrom(p, why)
    PROVE  IInv'
<1>1. /\ path' = p /\ tls' = secure /\ query' = q /\ by' = why
      /\ flaws' = [Flawless EXCEPT !.sni = IF secure THEN "ours" ELSE None]
      /\ UNCHANGED <<lines, rules, force_ssl, canonical_urls, cache, pc, asked,
                     answer, keep>>
    BY DEF Follow, site
<1>2. flaws' \in Request /\ (flaws'.sni = IF secure THEN "ours" ELSE None)
    BY <1>1 DEF Flawless, Request
<1>3. TypeOK'
    <2>1. p # <<>> /\ \A i \in DOMAIN p : p[i] \in Segs
        BY PathParts DEF Paths
    <2> QED BY <1>1, <1>2, <2>1 DEF IInv, Typed, TypeOK
<1>4. Typed'
    BY <1>1, <1>3 DEF IInv, Typed, Live
<1>5. "ours" # None
    BY ConstantsAssumption DEF ConstantsAssumption
<1>6. Walked'
    BY <1>1, <1>2, <1>5 DEF IInv, Walked, Walking
<1>7. ~IsAcme(asked)
    <2> SUFFICES ASSUME IsAcme(asked) PROVE FALSE
        OBVIOUS
    <2>1. by = "client" /\ Decode(path) = asked
        BY DEF IInv, Related, AcmeDirect, Walking
    <2> QED BY <2>1, AcmeSpelling DEF IInv, Typed
<1>8. Related'
    BY <1>1, <1>7 DEF IInv, Walked, Related, AcmeDirect, Walking, LeadsFrom, Docs
<1> QED BY <1>4, <1>6, <1>8 DEF IInv
\* What a request has that has passed the checks.
LEMMA Passed ==
    ASSUME IInv, Sound
    PROVE  /\ pc = "request" /\ tls \in BOOLEAN /\ force_ssl \in BOOLEAN
           /\ query \in {"none", "sent", "own"} /\ Wants \in BOOLEAN
           /\ Decode(path) \in Paths /\ Plain(Decode(path))
           /\ Walking
<1>1. pc = "request"
    BY DEF Sound, PassesChecks
<1>2. /\ tls \in BOOLEAN /\ force_ssl \in BOOLEAN /\ query \in {"none", "sent", "own"}
    BY DEF IInv, Typed, TypeOK
<1>3. Wants \in BOOLEAN
    BY DEF Wants
<1>4. Decode(path) \in Paths /\ Plain(Decode(path))
    BY Decoded DEF IInv, Typed
<1> QED BY <1>1, <1>2, <1>3, <1>4 DEF Walking

\* A request that was folded or sent to a directory has nothing to fold.
LEMMA Straight ==
    ASSUME IInv, by \in {"canonical", "directory"}
    PROVE  Last(Decode(path)) = End /\ canonical_form(Decode(path)) = None
<1>1. Decode(path) = path /\ Last(path) = End
    BY Decoded DEF IInv, Typed, Walked
<1> QED BY <1>1, NothingToFold

\* What is sent elsewhere by a rule.
LEMMA RuleKeeps ==
    ASSUME IInv, RuleRedirect
    PROVE  IInv'
<1>1. /\ pc = "request" /\ tls \in BOOLEAN /\ force_ssl \in BOOLEAN
      /\ query \in {"none", "sent", "own"} /\ Wants \in BOOLEAN
    BY Passed DEF RuleRedirect
<1>2. ~IsAcme(path) /\ ruled = Resolve(rules, path) /\ ruled # None
    BY DEF RuleRedirect, ruled
<1>3. ruled.to \in Target /\ ruled.path \in Paths
    BY <1>2, Resolved DEF IInv, Typed, Accepted
<1>4. rules # NoRules
    BY <1>2, Unruled
<1>5. CASE End_("left", Wants)
    BY <1>1, <1>2, <1>5, EndKeeps
<1>6. CASE Follow(ruled.path, Scheme, NextQuery(ruled.to), "rule")
    <2>1. NextQuery(ruled.to) \in {"none", "sent", "own"}
        <3>1. ruled.to.suffix \in {"none", "query", "fragment"}
            BY <1>3 DEF Target
        <3> HIDE DEF ruled
        <3> QED BY <1>1, <3>1 DEF NextQuery
    <2>2. Scheme \in BOOLEAN /\ (Scheme \/ ~force_ssl)
        BY DEF Scheme
    <2> HIDE DEF ruled, Scheme, NextQuery
    <2> QED BY <1>1, <1>2, <1>3, <1>4, <1>6, <2>1, <2>2, FollowKeeps
<1> QED BY <1>5, <1>6 DEF RuleRedirect

\* What is folded.
LEMMA CanonKeeps ==
    ASSUME IInv, CanonRedirect
    PROVE  IInv'
<1>1. /\ pc = "request" /\ tls \in BOOLEAN /\ force_ssl \in BOOLEAN /\ Walking
      /\ query \in {"none", "sent", "own"}
      /\ Decode(path) \in Paths /\ Plain(Decode(path))
    BY Passed DEF CanonRedirect
<1>2. ~IsAcme(path) /\ canon = canonical_form(Decode(path)) /\ canon # None
    BY DEF CanonRedirect, canon
<1>3. canon \in Paths /\ Last(canon) = End /\ Plain(canon)
    BY <1>1, <1>2, Folded
<1>4. rules = NoRules => LeadsFrom(canon, "canonical")
    <2> SUFFICES ASSUME rules = NoRules PROVE LeadsFrom(canon, "canonical")
        OBVIOUS
    <2>1. by \notin {"canonical", "directory"}
        BY <1>2, Straight
    <2>2. by \in {"client", "rule", "canonical", "upgrade", "directory"}
        BY DEF IInv, Typed, TypeOK
    <2>3. Decode(path) = asked
        BY <1>1, <2>1, <2>2 DEF IInv, Related, LeadsFrom
    <2> QED BY <1>2, <2>3 DEF LeadsFrom
<1>5. Scheme \in BOOLEAN /\ (Scheme \/ ~force_ssl)
    BY DEF Scheme
<1>6. Follow(canon, Scheme, query, "canonical")
    BY DEF CanonRedirect
<1> HIDE DEF canon, Scheme
<1> QED BY <1>1, <1>2, <1>3, <1>4, <1>5, <1>6, FollowKeeps

\* What is sent to HTTPS.
LEMMA UpgradeKeeps ==
    ASSUME IInv, Upgrade
    PROVE  IInv'
<1>1. /\ pc = "request" /\ Walking /\ query \in {"none", "sent", "own"}
      /\ path \in Paths
    BY Passed DEF Upgrade, IInv, Typed
<1>2. ~IsAcme(path) /\ ~tls /\ force_ssl
    BY DEF Upgrade
<1>3. canonical_urls => canonical_form(Decode(path)) = None
    BY <1>2 DEF Upgrade, canon
<1>4. by = "client"
    BY <1>2 DEF IInv, Typed, TypeOK, Walked
<1>5. LeadsFrom(path, "upgrade")
    BY <1>1, <1>4 DEF IInv, Related, LeadsFrom
<1>6. Follow(path, TRUE, query, "upgrade")
    BY DEF Upgrade
<1> QED BY <1>1, <1>2, <1>3, <1>5, <1>6, FollowKeeps

\* What is served, or sent to its directory.
LEMMA ServeKeeps ==
    ASSUME IInv, Serve
    PROVE  IInv'
<1>1. /\ pc = "request" /\ query \in {"none", "sent", "own"} /\ Wants \in BOOLEAN
      /\ Decode(path) \in Paths /\ Plain(Decode(path))
    BY Passed DEF Serve, Served
<1>2. ~IsAcme(path)
    BY DEF Serve
<1>3. CASE End_("ok", Wants)
    BY <1>1, <1>3, EndKeeps
<1>4. CASE Nothing(Decode(path)) /\ End_("not_found", Wants)
    BY <1>1, <1>4, EndKeeps
<1>5. CASE /\ DirIndex(Docs, Decode(path))
           /\ Follow(WithSlash(Decode(path)), Scheme, query, "directory")
    <2> DEFINE p == WithSlash(Decode(path))
    <2>1. Decode(path) \in Seq(Segs)
        BY <1>1 DEF Paths
    <2>2. /\ p \in Paths /\ Plain(p) /\ Last(p) = End /\ Front(p) = Decode(path)
        BY <1>1, <2>1, Directory DEF WithSlash
    <2>3. LeadsFrom(p, "directory")
        BY <1>5, <2>2 DEF LeadsFrom, DirIndex
    <2>4. Scheme \in BOOLEAN /\ (Scheme \/ ~force_ssl)
        BY DEF Scheme
    <2>5. Follow(p, Scheme, query, "directory")
        BY <1>5
    <2> HIDE DEF p, Scheme
    <2> QED BY <1>1, <1>2, <2>2, <2>3, <2>4, <2>5, FollowKeeps
<1> QED BY <1>3, <1>4, <1>5 DEF Serve, Nothing

\* What is refused by the checks before anything is looked up, or is a challenge.
LEMMA RefusalKeeps ==
    ASSUME IInv, Reject \/ Elsewhere \/ ServeToken
    PROVE  IInv'
<1>1. Wants \in BOOLEAN
    BY DEF Wants
<1>2. CASE Reject
    <2>1. pc = "request"
        BY <1>2 DEF Reject
    <2>2. WrongHost => ~Unflawed
        <3> SUFFICES ASSUME WrongHost, NEW s \in {"ours", None},
                            flaws = [Flawless EXCEPT !.sni = s]
                     PROVE  FALSE
            BY DEF Unflawed
        <3>1. flaws.host = "ours" /\ flaws.sni = s
            BY DEF Flawless
        <3>2. tls /\ s # "ours"
            BY <3>1 DEF WrongHost
        <3>3. s # None
            BY <3>1, <3>2 DEF IInv, Walked
        <3> QED BY <3>2, <3>3
    <2>3. \E a \in {"bad_request", "not_found", "method_not_allowed"}, k \in BOOLEAN :
             End_(a, k) /\ (a = "not_found" => WrongHost)
        BY <1>1, <1>2 DEF Reject
    <2> QED BY <2>1, <2>2, <2>3, EndKeeps
<1>3. CASE Elsewhere
    <2>1. pc = "request" /\ End_("elsewhere", Wants)
        BY <1>3 DEF Elsewhere, PassesChecks
    <2> QED BY <1>1, <2>1, EndKeeps
<1>4. CASE ServeToken
    <2>1. pc = "request" /\ IsAcme(path)
        BY <1>4 DEF ServeToken, Served, Sound, PassesChecks
    <2>2. \E a \in {"ok", "not_found"} : End_(a, Wants)
        BY <1>4 DEF ServeToken
    <2> QED BY <1>1, <2>1, <2>2, EndKeeps
<1> QED BY <1>2, <1>3, <1>4
\* A line is read, or refused.
LEMMA ReadKeeps ==
    ASSUME IInv, ReadLine
    PROVE  IInv'
<1>1. /\ pc = "config" /\ lines # <<>> /\ pc' \in {"config", "refused"}
      /\ UNCHANGED <<force_ssl, canonical_urls, cache, tls, flaws, path, query,
                     by, asked, answer, keep>>
    BY DEF ReadLine, req
<1>2. lines \in Seq(Line) /\ Accepted(rules)
    BY DEF IInv, Typed, TypeOK
<1> DEFINE L == Line
<1>3. Head(lines) \in L /\ Tail(lines) \in Seq(L)
    <2> HIDE DEF L
    <2> QED BY <1>1, <1>2, HeadTailProperties DEF L
<1>4. lines' \in Seq(Line) /\ Accepted(rules')
    <2>1. CASE ~Refused(rules, Head(lines)) /\ rules' = Push(rules, Head(lines))
               /\ lines' = Tail(lines)
        BY <1>2, <1>3, <2>1, Pushed
    <2>2. CASE UNCHANGED <<rules, lines>>
        BY <1>2, <2>2
    <2> QED BY <2>1, <2>2 DEF ReadLine
<1>5. TypeOK'
    BY <1>1, <1>4 DEF IInv, Typed, TypeOK
<1>6. Typed'
    BY <1>1, <1>4, <1>5 DEF IInv, Typed, Live
<1>7. Walked'
    BY <1>1 DEF IInv, Walked, Walking
<1>8. Related'
    BY <1>1 DEF IInv, Walked, Related, Walking, AcmeDirect
<1> QED BY <1>6, <1>7, <1>8 DEF IInv

\* The block is closed, or refused.
LEMMA CloseKeeps ==
    ASSUME IInv, CloseBlock
    PROVE  IInv'
<1>1. /\ pc = "config" /\ pc' \in {"ready", "refused"}
      /\ UNCHANGED <<lines, force_ssl, canonical_urls, cache, tls, flaws, path,
                     query, by, asked, answer, keep>>
    BY DEF CloseBlock, req
<1>2. Accepted(rules') /\ (Live' => LongestFirst(rules'))
    <2>1. Accepted(rules)
        BY DEF IInv, Typed
    <2>2. CASE rules' = Finish(rules)
        BY <2>1, <2>2, Finished
    <2>3. CASE UNCHANGED rules /\ pc' = "refused"
        BY <2>1, <2>3 DEF Live
    <2> QED BY <2>2, <2>3 DEF CloseBlock
<1>3. TypeOK'
    BY <1>1 DEF IInv, Typed, TypeOK
<1>4. Typed'
    BY <1>1, <1>2, <1>3 DEF IInv, Typed
<1>5. Walked'
    BY <1>1 DEF IInv, Walked, Walking
<1>6. Related'
    BY <1>1 DEF IInv, Walked, Related, Walking, AcmeDirect
<1> QED BY <1>4, <1>5, <1>6 DEF IInv

\* A first request comes as it is asked for.
LEMMA SendKeeps ==
    ASSUME IInv, Send
    PROVE  IInv'
<1>1. PICK p \in Asked, f \in Faults :
          /\ tls' = (f.sni # None) /\ path' = p /\ flaws' = f /\ asked' = Decode(p)
    BY DEF Send
<1>2. /\ pc = "ready" /\ pc' = "request" /\ query' = "sent"
      /\ UNCHANGED <<lines, rules, force_ssl, canonical_urls, cache, by, answer, keep>>
    BY DEF Send, site
<1>3. p \in Paths /\ f \in Request
    BY ConstantsAssumption DEF ConstantsAssumption
<1>4. asked' \in Paths /\ Plain(asked')
    BY <1>1, <1>3, Decoded
<1>5. by = "client" /\ answer = "none"
    BY <1>2 DEF IInv, Walked, Walking
<1>6. TypeOK'
    <2>1. p # <<>> /\ \A i \in DOMAIN p : p[i] \in Segs
        BY <1>3, PathParts DEF Paths
    <2>2. tls' \in BOOLEAN
        BY <1>1
    <2> QED BY <1>1, <1>2, <1>3, <2>1, <2>2 DEF IInv, Typed, TypeOK
<1>7. Typed'
    BY <1>1, <1>2, <1>3, <1>4, <1>6 DEF IInv, Typed, Live
<1>8. Walked'
    BY <1>1, <1>2, <1>5 DEF Walked, Walking
<1>9. Related'
    BY <1>1, <1>2, <1>5 DEF Related, Walking, AcmeDirect, LeadsFrom
<1> QED BY <1>7, <1>8, <1>9 DEF IInv

\* Every step keeps the inductive invariant.
LEMMA InvStep ==
    ASSUME IInv, [Next]_vars
    PROVE  IInv'
<1>1. CASE UNCHANGED vars
    BY <1>1 DEF vars, site, req, IInv, Typed, TypeOK, Live, Walked, Walking,
       Related, AcmeDirect, LeadsFrom, Unflawed, Nothing, Docs
<1>2. CASE Done
    BY <1>1, <1>2 DEF Done
<1>3. CASE ReadLine \/ CloseBlock \/ Send
    BY <1>3, ReadKeeps, CloseKeeps, SendKeeps
<1>4. CASE Handle
    BY <1>4, RefusalKeeps, RuleKeeps, CanonKeeps, UpgradeKeeps, ServeKeeps DEF Handle
<1> QED BY <1>1, <1>2, <1>3, <1>4 DEF Next

\* The invariant holds in every state of every behaviour.
LEMMA Inductive == Spec => []IInv
<1>1. IInv /\ [Next]_vars => IInv'
    BY InvStep
<1> QED BY InitInv, <1>1, PTL DEF Spec

----------------------------------------------------------------------------
(* The theorems *)

\* Every variable of Routing holds a value of its type in every reachable state.
THEOREM RoutingTyped == Spec => []TypeOK
<1>1. IInv => TypeOK
    BY DEF IInv, Typed
<1> QED BY <1>1, Inductive, PTL

\* What the text of a site's rules says is what they do: the most specific rule
\* decides, in whatever order the file lists them (`finish`, `resolve`), and none
\* that `push` accepted sends every path it matches back to itself.
THEOREM RulesAreKept == Spec => []RulesKept
<1>1. IInv => RulesKept
    <2> SUFFICES ASSUME IInv PROVE RulesKept
        OBVIOUS
    <2>1. CASE Live
        BY <2>1, TextKept DEF IInv, Typed
    <2>2. CASE ~Live
        BY <2>2 DEF RulesKept, MostSpecificWins, NoTotalLoop
    <2> QED BY <2>1, <2>2
<1> QED BY <1>1, Inductive, PTL

\* A challenge path is answered where it was asked for, in any spelling, whatever
\* the rules, the canonical URLs and the upgrade of its site (`handle_request`).
THEOREM ChallengesAreDirect == Spec => []AcmeDirect
<1>1. IInv => AcmeDirect
    BY DEF IInv, Related
<1> QED BY <1>1, Inductive, PTL

\* The hops that the server adds of its own come in one order and each once.
THEOREM WalksAreShort == Spec => ShortWalks
<1> DEFINE Ordered ==
        pc = "request" /\ pc' = "request" =>
          CASE by' = "upgrade"   -> by = "client"
            [] by' = "canonical" -> by \in {"client", "rule"}
            [] by' = "directory" -> by \in {"client", "rule", "upgrade"}
            [] OTHER             -> TRUE
<1>1. IInv /\ [Next]_vars => [Ordered]_vars
    <2> SUFFICES ASSUME IInv, Next, pc = "request", pc' = "request"
                 PROVE  Ordered
        OBVIOUS
    <2>1. by \in {"client", "rule", "canonical", "upgrade", "directory"}
        BY DEF IInv, Typed, TypeOK
    <2>2. RuleRedirect \/ CanonRedirect \/ Upgrade \/ Serve
        BY DEF Next, ReadLine, CloseBlock, Send, Done, Handle, Reject, Elsewhere,
           ServeToken, End_
    <2>3. CASE RuleRedirect
        <3>1. by' = "rule"
            BY <2>3 DEF RuleRedirect, Follow, End_
        <3> QED BY <3>1
    <2>4. CASE CanonRedirect
        <3>1. by' = "canonical" /\ canonical_form(Decode(path)) # None /\ canonical_urls
            BY <2>4 DEF CanonRedirect, Follow, canon
        <3>2. by \notin {"canonical", "directory"}
            BY <3>1, Straight
        <3>3. by # "upgrade"
            BY <3>1 DEF IInv, Walked
        <3> QED BY <2>1, <3>1, <3>2, <3>3
    <2>5. CASE Upgrade
        <3>1. by' = "upgrade" /\ ~tls /\ force_ssl
            BY <2>5 DEF Upgrade, Follow
        <3>2. by = "client"
            BY <2>1, <3>1 DEF IInv, Walked
        <3> QED BY <3>1, <3>2
    <2>6. CASE Serve
        <3>1. by' = "directory" /\ Last(Decode(path)) # End
            BY <2>6 DEF Serve, Follow, End_, DirIndex
        <3>2. by \notin {"canonical", "directory"}
            BY <3>1, Straight
        <3> QED BY <2>1, <3>1, <3>2
    <2> QED BY <2>2, <2>3, <2>4, <2>5, <2>6
<1> QED BY <1>1, Inductive, PTL DEF Spec, ShortWalks

\* The documents of every site are ordinary.
PlainDocuments == \A c \in Caches : Ordinary(c)

\* What can be asked for is not lost on the way: without rules, redirects end at
\* a document if there is one at the path the client sent.  A directory named
\* "x.html" with an index is such a loss (it is folded to "x"), and so may be a
\* page "acme-challenge.html" beside the challenge directory.
THEOREM DocumentsAreKept ==
    ASSUME PlainDocuments
    PROVE  Spec => []DocumentKept
<1>1. ASSUME IInv
      PROVE  DocumentKept
    <2> SUFFICES ASSUME pc = "answered", rules = NoRules, answer = "not_found",
                        ~IsAcme(asked), Unflawed
                 PROVE  Nothing(asked)
        BY DEF DocumentKept, Unflawed, Nothing
    <2>1. IsAcme(path) \/ Nothing(Decode(path))
        BY <1>1 DEF IInv, Related
    <2>2. LeadsFrom(path, by) /\ (by = "client" => Decode(path) = asked)
        BY <1>1 DEF IInv, Related, Walking
    <2>3. /\ path \in Paths /\ asked \in Paths /\ Plain(asked)
          /\ by \in {"client", "rule", "canonical", "upgrade", "directory"}
        BY <1>1 DEF IInv, Typed, TypeOK
    <2>4. Ordinary(Docs)
        BY <1>1 DEF IInv, Typed, PlainDocuments, Ordinary, Docs
    <2>5. CASE by \in {"client", "upgrade"}
        <3>1. Decode(path) = asked
            BY <2>2, <2>5 DEF LeadsFrom
        <3> QED BY <2>1, <2>3, <3>1, AcmeSpelling
    <2>6. CASE by \in {"canonical", "directory"}
        <3>1. Decode(path) = path /\ Last(path) = End
            BY <1>1, <2>3, <2>6, Decoded DEF IInv, Walked
        <3>2. IsStrictPrefix(<<AcmeDir>>, path) \/ Find(Docs, path) = {}
            BY <2>1, <3>1 DEF IsAcme, Nothing
        <3>3. CASE by = "canonical"
            <4>1. ~IsStrictPrefix(<<AcmeDir>>, asked)
                BY <2>3, Decoded DEF IsAcme
            <4> QED BY <2>2, <2>3, <2>4, <3>2, <3>3, <4>1, FoldStays DEF LeadsFrom, Nothing
        <3>4. CASE by = "directory"
            BY <2>2, <2>3, <2>4, <3>1, <3>2, <3>4, IndexStays DEF LeadsFrom
        <3> QED BY <2>6, <3>3, <3>4
    <2> QED BY <2>2, <2>3, <2>5, <2>6 DEF LeadsFrom
<1> QED BY <1>1, Inductive, PTL
=============================================================================
