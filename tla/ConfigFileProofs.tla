-------------------------- MODULE ConfigFileProofs --------------------------
(***************************************************************************)
(* Theorems about ConfigFile, for any texts: what the parser holds after   *)
(* some lines is what these lines mean, so that an accepted config is what *)
(* its text says and an error names the first line that is wrong.          *)
(***************************************************************************)
EXTENDS ConfigFile, FiniteSetTheorems, WellFoundedInduction, SequenceTheorems,
        TLAPS

----------------------------------------------------------------------------
(* Numbers *)

\* Every non-empty set of naturals has a least one.
LEMMA Least ==
    ASSUME NEW T \in SUBSET Nat, T # {}
    PROVE  \E k \in T : \A m \in T : k <= m
<1> DEFINE R == StrictSubsetOrdering(Nat)
           F == {1 .. k : k \in T}
<1>1. /\ F \subseteq FiniteSubsetsOf(Nat)
      /\ F # {}
    <2>1. F \subseteq FiniteSubsetsOf(Nat)
        BY FS_Interval DEF FiniteSubsetsOf
    <2> QED BY <2>1
<1>2. IsWellFoundedOn(R, FiniteSubsetsOf(Nat))
    BY FS_StrictSubsetOrderingWellFounded
<1> HIDE DEF F, R
<1>3. PICK x \in F : \A y \in F : ~ (<<y, x>> \in R)
    BY <1>1, <1>2, WFMin
<1>4. PICK k \in T : x = 1 .. k
    BY <1>3 DEF F
<1>5. ASSUME NEW m \in T, m < k PROVE FALSE
    <2>1. 1 .. m \in F
        BY DEF F
    <2>2. 1 .. m \subseteq 1 .. k /\ k \in 1 .. k /\ k \notin 1 .. m
        BY <1>5
    <2>3. <<1 .. m, x>> \in R
        BY <1>4, <2>2 DEF R, StrictSubsetOrdering
    <2> QED BY <1>3, <2>1, <2>3
<1> QED BY <1>5

\* A set with 0 and with the successor of each of its numbers has all of them.
LEMMA Induction ==
    ASSUME NEW S, 0 \in S, \A k \in Nat : k \in S => k + 1 \in S
    PROVE  Nat \subseteq S
<1> SUFFICES ASSUME Nat \ S # {} PROVE FALSE
    OBVIOUS
<1>1. PICK k \in Nat \ S : \A m \in Nat \ S : k <= m
    BY Least
<1>2. k # 0 /\ k - 1 \in Nat
    BY <1>1
<1>3. k - 1 \in S
    BY <1>1, <1>2
<1> QED BY <1>1, <1>2, <1>3

\* A set of line numbers has a first and a last one.
LEMMA FirstAndLast ==
    ASSUME NEW k \in Nat, NEW S \in SUBSET (0 .. k), S # {}
    PROVE  /\ Max(S) \in S /\ \A x \in S : x <= Max(S)
           /\ Min(S) \in S /\ \A x \in S : Min(S) <= x
<1> DEFINE T == {k - x : x \in S}
<1>1. T \subseteq Nat /\ T # {} /\ S \subseteq Nat
    <2>1. \A x \in S : x \in Nat /\ k - x \in Nat
        OBVIOUS
    <2>2. T # {}
        OBVIOUS
    <2> QED BY <2>1, <2>2
<1>2. PICK y \in T : \A z \in T : y <= z
    BY <1>1, Least
<1>3. PICK x \in S : y = k - x
    BY <1>2
<1>4. \A z \in S : x >= z
    <2> SUFFICES ASSUME NEW z \in S PROVE x >= z
        OBVIOUS
    <2>1. k - x <= k - z
        BY <1>2, <1>3
    <2> QED BY <2>1
<1>5. \E w \in S : \A z \in S : w <= z
    BY <1>1, Least
<1> QED BY <1>4, <1>5 DEF Max, Min

\* The last of some numbers and a later one is the later one.
LEMMA LaterIsLast ==
    ASSUME NEW k \in Nat, NEW S \in SUBSET (0 .. k)
    PROVE  Max(S \cup {k + 1}) = k + 1
<1> DEFINE T == S \cup {k + 1}
<1>1. T \in SUBSET (0 .. (k + 1)) /\ T # {} /\ k + 1 \in Nat
    OBVIOUS
<1>2. /\ k + 1 \in T
      /\ \A x \in T : x \in Nat /\ x <= k + 1
    OBVIOUS
<1> HIDE DEF T
<1>3. Max(T) \in T /\ \A x \in T : x <= Max(T)
    BY <1>1, FirstAndLast
<1>4. Max(T) = k + 1
    <2>1. Max(T) \in Nat /\ Max(T) <= k + 1 /\ k + 1 <= Max(T)
        BY <1>2, <1>3
    <2> QED BY <2>1
<1> QED BY <1>4 DEF T

----------------------------------------------------------------------------
(* What one more line changes in the meaning of a text *)

\* u is t with one more line.
Extended(t, l, u) == t \in Seq(Lines) /\ l \in Lines /\ u = Append(t, l)

\* The lines of t and the one more.
LEMMA Grown ==
    ASSUME NEW t, NEW l, NEW u, Extended(t, l, u)
    PROVE  /\ u \in Seq(Lines) /\ Len(t) \in Nat /\ Len(u) = Len(t) + 1
           /\ DOMAIN t = 1 .. Len(t) /\ DOMAIN u = 1 .. (Len(t) + 1)
           /\ \A i \in 1 .. Len(t) : u[i] = t[i]
           /\ u[Len(t) + 1] = l
BY AppendProperties, LenProperties DEF Extended

\* The lines of a kind.
LEMMA KindGrown ==
    ASSUME NEW t, NEW l, NEW u, Extended(t, l, u), NEW kind
    PROVE  /\ Is(u, kind) = Is(t, kind)
                 \cup (IF l.kind = kind THEN {Len(t) + 1} ELSE {})
           /\ Is(t, kind) \subseteq 1 .. Len(t)
BY Grown DEF Is

\* A line stands in a block because of what is before it.
LEMMA WithinKept ==
    ASSUME NEW t, NEW l, NEW u, Extended(t, l, u), NEW i \in 1 .. (Len(t) + 1)
    PROVE  InBlock(u, i) <=> InBlock(t, i)
<1>1. Len(t) \in Nat
    BY Grown
<1>2. \A j \in 1 .. (i - 1) : /\ j \in Is(u, "site") <=> j \in Is(t, "site")
                              /\ j \in Is(u, "close") <=> j \in Is(t, "close")
    BY <1>1, KindGrown
<1>3. /\ Is(u, "site") \subseteq 1 .. (Len(t) + 1)
      /\ Is(t, "site") \subseteq 1 .. Len(t)
    BY <1>1, KindGrown
<1> QED BY <1>1, <1>2, <1>3 DEF InBlock

\* So it is wrong or right because of these and of itself.
LEMMA WrongKept ==
    ASSUME NEW t, NEW l, NEW u, Extended(t, l, u)
    PROVE  /\ \A i \in 1 .. Len(t) : Wrong(u, i) <=> Wrong(t, i)
           /\ WrongLines(u) = WrongLines(t)
                 \cup (IF Wrong(u, Len(t) + 1) THEN {Len(t) + 1} ELSE {})
<1>1. /\ Len(t) \in Nat /\ DOMAIN t = 1 .. Len(t)
      /\ DOMAIN u = 1 .. (Len(t) + 1)
      /\ \A i \in 1 .. Len(t) : u[i] = t[i]
    BY Grown
<1>2. ASSUME NEW i \in 1 .. Len(t) PROVE Wrong(u, i) <=> Wrong(t, i)
    <2>1. InBlock(u, i) <=> InBlock(t, i)
        BY <1>1, WithinKept
    <2>2. \A kind : i \in Is(u, kind) <=> i \in Is(t, kind)
        BY <1>1 DEF Is
    <2>3. AllowedKeys(u, i) = AllowedKeys(t, i) /\ u[i] = t[i]
        BY <1>1, <2>1 DEF AllowedKeys
    <2> QED BY <2>1, <2>2, <2>3 DEF Wrong
<1> QED BY <1>1, <1>2 DEF WrongLines

\* A closed block gets no more lines, and neither does one by its own bracket.
LEMMA BlockKept ==
    ASSUME NEW t, NEW l, NEW u, Extended(t, l, u), NEW b \in 1 .. Len(t),
           \/ l.kind = "close"
           \/ \E j \in Is(t, "close") : b < j
    PROVE  Block(u, b) = Block(t, b)
<1>1. /\ Len(t) \in Nat /\ DOMAIN t = 1 .. Len(t)
      /\ DOMAIN u = 1 .. (Len(t) + 1)
    BY Grown
<1>2. \A j \in 1 .. Len(t) : j \in Is(u, "close") <=> j \in Is(t, "close")
    BY <1>1, KindGrown
<1>3. \E j \in (b + 1) .. (Len(t) + 1) : j \in Is(u, "close")
    BY <1>1, KindGrown
<1> QED BY <1>1, <1>2, <1>3 DEF Block

\* An open one gets every other line.
LEMMA BlockGrown ==
    ASSUME NEW t, NEW l, NEW u, Extended(t, l, u), NEW b \in 1 .. Len(t),
           l.kind # "close", \A j \in Is(t, "close") : j <= b
    PROVE  Block(u, b) = Block(t, b) \cup {Len(t) + 1}
<1>1. /\ Len(t) \in Nat /\ DOMAIN t = 1 .. Len(t)
      /\ DOMAIN u = 1 .. (Len(t) + 1)
    BY Grown
<1>2. Is(u, "close") = Is(t, "close")
    <2>1. Is(u, "close") = Is(t, "close")
             \cup (IF l.kind = "close" THEN {Len(t) + 1} ELSE {})
        BY KindGrown
    <2> QED BY <2>1
<1>3. \A i \in 1 .. (Len(t) + 1) : \A m \in (b + 1) .. i :
          m \notin Is(t, "close")
    BY <1>1
<1>4. Block(u, b) = {i \in 1 .. (Len(t) + 1) : b < i}
    BY <1>1, <1>2, <1>3 DEF Block
<1>5. Block(t, b) = {i \in 1 .. Len(t) : b < i}
    BY <1>1, <1>3 DEF Block
<1> QED BY <1>1, <1>4, <1>5

\* The last line to set a key: one more line elsewhere does not change it.
LEMMA LastKept ==
    ASSUME NEW t, NEW l, NEW u, Extended(t, l, u),
           NEW lines \in SUBSET (1 .. Len(t)), NEW k, NEW default
    PROVE  LastSet(u, lines, k, default) = LastSet(t, lines, k, default)
<1> DEFINE at == {i \in lines \cap Is(t, "set") : t[i].key = k}
<1>1. Len(t) \in Nat /\ \A i \in 1 .. Len(t) : u[i] = t[i]
    BY Grown
<1>2. \A i \in 1 .. Len(t) : i \in Is(u, "set") <=> i \in Is(t, "set")
    BY <1>1, KindGrown
<1>3. {i \in lines \cap Is(u, "set") : u[i].key = k} = at
    <2>1. \A i \in lines : /\ i \in Is(u, "set") <=> i \in Is(t, "set")
                           /\ u[i] = t[i]
        BY <1>1, <1>2
    <2>2. lines \cap Is(u, "set") = lines \cap Is(t, "set")
        BY <2>1
    <2>3. \A i \in lines \cap Is(t, "set") : u[i] = t[i]
        BY <2>1
    <2> QED BY <2>2, <2>3
<1>4. at # {} => Max(at) \in 1 .. Len(t)
    <2>1. at \in SUBSET (0 .. Len(t)) /\ \A x \in at : x \in 1 .. Len(t)
        <3>1. at \subseteq lines
            OBVIOUS
        <3>2. 1 .. Len(t) \subseteq 0 .. Len(t)
            BY <1>1
        <3> HIDE DEF at
        <3> QED BY <3>1, <3>2
    <2> HIDE DEF at
    <2>2. at # {} => Max(at) \in at
        BY <1>1, <2>1, FirstAndLast
    <2> QED BY <2>1, <2>2
<1>5. at # {} => u[Max(at)] = t[Max(at)]
    BY <1>1, <1>4
<1> QED BY <1>3, <1>5 DEF LastSet

\* One more line among them sets the key, or does not.
LEMMA LastGrown ==
    ASSUME NEW t, NEW l, NEW u, Extended(t, l, u),
           NEW lines \in SUBSET (1 .. Len(t)), NEW k, NEW default
    PROVE  LastSet(u, lines \cup {Len(t) + 1}, k, default) =
              IF l.kind = "set" /\ l.key = k THEN Meant(l)
              ELSE LastSet(t, lines, k, default)
<1> DEFINE N  == Len(t) + 1
           at == {i \in lines \cap Is(u, "set") : u[i].key = k}
           an == {i \in (lines \cup {N}) \cap Is(u, "set") : u[i].key = k}
<1>1. Len(t) \in Nat /\ u[N] = l
    BY Grown
<1>2. N \in Is(u, "set") <=> l.kind = "set"
    BY <1>1, KindGrown
<1>3. CASE l.kind = "set" /\ l.key = k
    <2>1. an = at \cup {N}
        BY <1>1, <1>2, <1>3
    <2>2. at \in SUBSET (0 .. Len(t))
        <3>1. at \subseteq lines
            OBVIOUS
        <3>2. 1 .. Len(t) \subseteq 0 .. Len(t)
            BY <1>1
        <3> HIDE DEF at
        <3> QED BY <3>1, <3>2
    <2>3. Max(an) = N /\ an # {}
        <3> HIDE DEF at, an
        <3> QED BY <1>1, <2>1, <2>2, LaterIsLast
    <2> QED BY <1>1, <1>3, <2>3 DEF LastSet
<1>4. CASE ~(l.kind = "set" /\ l.key = k)
    <2>1. an = at
        BY <1>1, <1>2, <1>4
    <2>2. LastSet(u, lines \cup {N}, k, default) = LastSet(u, lines, k, default)
        BY <2>1 DEF LastSet
    <2> QED BY <1>4, <2>2, LastKept
<1> QED BY <1>3, <1>4

----------------------------------------------------------------------------
(* The overrides of a site, applied in their order *)

Put(r, o) == [r EXCEPT ![o[2]] = o[3]]

\* The recursion that the fold over the overrides goes by.
Folding(f, d, ov, k) ==
    f = [s \in SUBSET (1 .. k) |-> IF s = {} THEN d
                                   ELSE Put(f[s \ {Max(s)}], ov[Max(s)])]

\* There is one, which is what the fold chooses.
LEMMA FoldingExists ==
    ASSUME NEW d, NEW ov, NEW m \in Nat
    PROVE  \E f : Folding(f, d, ov, m)
<1> DEFINE S == {k \in Nat : \E f : Folding(f, d, ov, k)}
<1>1. 0 \in S
    <2> DEFINE f == [s \in SUBSET (1 .. 0) |-> d]
    <2>1. \A s \in SUBSET (1 .. 0) : s = {}
        OBVIOUS
    <2>2. Folding(f, d, ov, 0)
        BY <2>1 DEF Folding
    <2> QED BY <2>2
<1>2. ASSUME NEW k \in Nat, k \in S PROVE k + 1 \in S
    <2>1. PICK f : Folding(f, d, ov, k)
        BY <1>2
    <2> DEFINE g == [s \in SUBSET (1 .. (k + 1)) |->
                        IF k + 1 \in s THEN Put(f[s \ {k + 1}], ov[k + 1])
                        ELSE f[s]]
    <2>2. ASSUME NEW s \in SUBSET (1 .. (k + 1))
          PROVE  g[s] = IF s = {} THEN d ELSE Put(g[s \ {Max(s)}], ov[Max(s)])
        <3>1. CASE k + 1 \in s
            <4>1. s = (s \ {k + 1}) \cup {k + 1}
                BY <3>1
            <4>2. s \ {k + 1} \in SUBSET (0 .. k)
                BY <2>2
            <4>3. Max(s) = k + 1
                BY <4>1, <4>2, LaterIsLast
            <4>4. g[s \ {k + 1}] = f[s \ {k + 1}]
                <5>1. s \ {k + 1} \in SUBSET (1 .. (k + 1))
                    BY <2>2
                <5> QED BY <5>1
            <4>5. g[s] = Put(f[s \ {k + 1}], ov[k + 1])
                BY <3>1
            <4> QED BY <3>1, <4>3, <4>4, <4>5
        <3>2. CASE k + 1 \notin s /\ s # {}
            <4>1. s \in SUBSET (1 .. k) /\ s \in SUBSET (0 .. k)
                BY <3>2
            <4>2. Max(s) \in s
                BY <3>2, <4>1, FirstAndLast
            <4>3. g[s \ {Max(s)}] = f[s \ {Max(s)}]
                <5>1. /\ s \ {Max(s)} \in SUBSET (1 .. (k + 1))
                      /\ k + 1 \notin s \ {Max(s)}
                    BY <2>2, <3>2
                <5> QED BY <5>1
            <4>4. f[s] = Put(f[s \ {Max(s)}], ov[Max(s)])
                BY <2>1, <3>2, <4>1 DEF Folding
            <4>5. g[s] = f[s]
                BY <3>2
            <4> QED BY <3>2, <4>3, <4>4, <4>5
        <3>3. CASE s = {}
            <4>1. g[s] = f[s] /\ s \in SUBSET (1 .. k)
                BY <3>3
            <4> QED BY <2>1, <3>3, <4>1 DEF Folding
        <3> QED BY <3>1, <3>2, <3>3
    <2>3. Folding(g, d, ov, k + 1)
        BY <2>2 DEF Folding
    <2> QED BY <2>3
<1> HIDE DEF S
<1>3. m \in S
    BY <1>1, <1>2, Induction
<1> QED BY <1>3 DEF S

\* A key has the value of the last override of it, or else the default.
LastOverride(d, ov, lines, k) ==
    LET at == {j \in lines : ov[j][2] = k}
    IN  IF at = {} THEN d[k] ELSE ov[Max(at)][3]

IsFunction(f) == f = [k \in DOMAIN f |-> f[k]]

\* apply_shared of the overrides, in their order, leaves each key with the value
\* of its last override, or with the default.
LEMMA Resolved ==
    ASSUME NEW s, NEW d, NEW m \in Nat, DOMAIN s.overrides = 1 .. m,
           IsFunction(d), \A j \in 1 .. m : s.overrides[j][2] \in DOMAIN d
    PROVE  /\ IsFunction(Resolve(d, s)) /\ DOMAIN Resolve(d, s) = DOMAIN d
           /\ \A k \in DOMAIN d :
                 Resolve(d, s)[k] = LastOverride(d, s.overrides, 1 .. m, k)
<1> DEFINE ov == s.overrides
           f  == CHOOSE g : Folding(g, d, ov, m)
<1>1. Resolve(d, s) = f[1 .. m]
    BY DEF Resolve, FoldLeft, MapThenFoldSet, Folding, Put
<1>2. Folding(f, d, ov, m)
    BY FoldingExists
<1> HIDE DEF f
<1> DEFINE Value_(i) == [k \in DOMAIN d |-> LastOverride(d, ov, 1 .. i, k)]
           G == {i \in Nat : i <= m => f[1 .. i] = Value_(i)}
<1>3. 0 \in G
    <2>1. 1 .. 0 = {} /\ {} \in SUBSET (1 .. m)
        OBVIOUS
    <2>2. f[{}] = d
        BY <1>2, <2>1 DEF Folding
    <2>3. \A k : LastOverride(d, ov, {}, k) = d[k]
        BY DEF LastOverride
    <2> QED BY <2>1, <2>2, <2>3 DEF IsFunction
<1>4. ASSUME NEW i \in Nat, i \in G PROVE i + 1 \in G
    <2> SUFFICES ASSUME i + 1 <= m PROVE f[1 .. (i + 1)] = Value_(i + 1)
        OBVIOUS
    <2> DEFINE o == ov[i + 1]
    <2>1. 1 .. (i + 1) = (1 .. i) \cup {i + 1} /\ 1 .. i \in SUBSET (0 .. i)
        OBVIOUS
    <2>2. Max(1 .. (i + 1)) = i + 1
        BY <2>1, LaterIsLast
    <2>3. /\ 1 .. (i + 1) \in SUBSET (1 .. m) /\ 1 .. (i + 1) # {}
          /\ (1 .. (i + 1)) \ {i + 1} = 1 .. i
        <3>1. 1 .. (i + 1) \in SUBSET (1 .. m) /\ i + 1 \in 1 .. (i + 1)
            OBVIOUS
        <3>2. (1 .. (i + 1)) \ {i + 1} = 1 .. i
            OBVIOUS
        <3> QED BY <3>1, <3>2
    <2>4. f[1 .. (i + 1)] = Put(f[1 .. i], o)
        BY <1>2, <2>2, <2>3 DEF Folding
    <2>5. f[1 .. i] = Value_(i)
        BY <1>4
    <2>6. ASSUME NEW k \in DOMAIN d
          PROVE  Put(Value_(i), o)[k] = LastOverride(d, ov, 1 .. (i + 1), k)
        <3> DEFINE at == {j \in 1 .. i : ov[j][2] = k}
                   an == {j \in 1 .. (i + 1) : ov[j][2] = k}
        <3>1. CASE o[2] = k
            <4>1. an = at \cup {i + 1}
                BY <2>1, <3>1
            <4>2. at \in SUBSET (0 .. i)
                OBVIOUS
            <4>3. Max(an) = i + 1 /\ an # {}
                <5> HIDE DEF at, an
                <5> QED BY <4>1, <4>2, LaterIsLast
            <4>4. LastOverride(d, ov, 1 .. (i + 1), k) = o[3]
                BY <4>3 DEF LastOverride
            <4> QED BY <3>1, <4>4 DEF Put
        <3>2. CASE o[2] # k
            <4>1. an = at
                BY <2>1, <3>2
            <4>2. LastOverride(d, ov, 1 .. (i + 1), k) =
                     LastOverride(d, ov, 1 .. i, k)
                BY <4>1 DEF LastOverride
            <4> QED BY <3>2, <4>2 DEF Put
        <3> QED BY <3>1, <3>2
    <2>7. DOMAIN Put(Value_(i), o) = DOMAIN d
        BY DEF Put
    <2>8. Put(Value_(i), o) = [k \in DOMAIN d |-> Put(Value_(i), o)[k]]
        BY DEF Put
    <2> QED BY <2>4, <2>5, <2>6, <2>8
<1> HIDE DEF G
<1>5. m \in G
    BY <1>3, <1>4, Induction
<1>6. Resolve(d, s) = Value_(m)
    BY <1>1, <1>5 DEF G
<1> QED BY <1>6 DEF IsFunction

----------------------------------------------------------------------------
(* Ranks *)

Upto(S, x)  == {c \in S : c <= x}
Image(f, k) == {f[i] : i \in 1 .. k}

\* In a rising sequence of numbers, each has as many up to it as its place says.
LEMMA Ranked ==
    ASSUME NEW m \in Nat, NEW f, NEW S, S = Image(f, m),
           \A i \in 1 .. m : f[i] \in Nat,
           \A i, j \in 1 .. m : i < j => f[i] < f[j]
    PROVE  /\ IsFiniteSet(S) /\ Cardinality(S) = m
           /\ \A i \in 1 .. m : Cardinality(Upto(S, f[i])) = i
<1> DEFINE First(k) == {f[i] : i \in 1 .. k}
           G == {k \in Nat : k <= m => /\ IsFiniteSet(First(k))
                                       /\ Cardinality(First(k)) = k}
<1>1. 0 \in G
    <2>1. First(0) = {}
        OBVIOUS
    <2> QED BY <2>1, FS_EmptySet
<1>2. ASSUME NEW k \in Nat, k \in G PROVE k + 1 \in G
    <2> SUFFICES ASSUME k + 1 <= m
                 PROVE  /\ IsFiniteSet(First(k + 1))
                        /\ Cardinality(First(k + 1)) = k + 1
        OBVIOUS
    <2>1. 1 .. (k + 1) = (1 .. k) \cup {k + 1}
        OBVIOUS
    <2>2. First(k + 1) = First(k) \cup {f[k + 1]}
        BY <2>1
    <2>3. f[k + 1] \notin First(k)
        <3> SUFFICES ASSUME NEW i \in 1 .. k, f[i] = f[k + 1] PROVE FALSE
            OBVIOUS
        <3>1. i \in 1 .. m /\ k + 1 \in 1 .. m /\ i < k + 1
            OBVIOUS
        <3> QED BY <3>1
    <2>4. IsFiniteSet(First(k)) /\ Cardinality(First(k)) = k
        BY <1>2
    <2> HIDE DEF First
    <2> QED BY <2>2, <2>3, <2>4, FS_AddElement
<1>3. Nat \subseteq G
    <2> HIDE DEF G
    <2> QED BY <1>1, <1>2, Induction
<1>4. First(m) = S
    BY DEF Image
<1>5. ASSUME NEW i \in 1 .. m PROVE Cardinality(Upto(S, f[i])) = i
    <2>1. \A j \in 1 .. m : f[j] <= f[i] <=> j \in 1 .. i
        <3> SUFFICES ASSUME NEW j \in 1 .. m
                     PROVE  f[j] <= f[i] <=> j <= i
            OBVIOUS
        <3>1. /\ i < j => f[i] < f[j]
              /\ j < i => f[j] < f[i]
              /\ f[i] \in Nat /\ f[j] \in Nat
            OBVIOUS
        <3> QED BY <3>1
    <2>2. 1 .. i \subseteq 1 .. m
        OBVIOUS
    <2>3. Upto(S, f[i]) = First(i)
        <3>1. Upto(First(m), f[i]) = First(i)
            BY <2>1, <2>2 DEF Upto
        <3> QED BY <1>4, <3>1
    <2>4. Cardinality(First(i)) = i
        <3> HIDE DEF First
        <3>1. i \in G /\ i <= m
            BY <1>3
        <3> QED BY <3>1
    <2> HIDE DEF First
    <2> QED BY <2>3, <2>4
<1>6. IsFiniteSet(S) /\ Cardinality(S) = m
    <2>1. m \in G
        BY <1>3
    <2> QED BY <1>4, <2>1
<1> QED BY <1>5, <1>6

----------------------------------------------------------------------------
(* What the parser holds, and what the lines read mean *)

\* The lines of a block that override a default of the file.
Overriding(t, b) ==
    {i \in Block(t, b) \cap Is(t, "set") : t[i].key \in DOMAIN Shared}

\* The overrides of a site are these lines, in their order.
Deferred(t, s) ==
    LET ov == s.overrides IN
    /\ \A j \in DOMAIN ov :
          /\ ov[j][1] \in Overriding(t, s.line)
          /\ ov[j][2] = t[ov[j][1]].key
          /\ ov[j][3] = Meant(t[ov[j][1]]) /\ ov[j][3] # Bad
    /\ \A i, j \in DOMAIN ov : i < j => ov[i][1] < ov[j][1]
    /\ \A i \in Overriding(t, s.line) : \E j \in DOMAIN ov : ov[j][1] = i

\* A site is what the lines of its block say so far.
Describes(t, s) ==
    /\ s \in PendingSite /\ s.line \in Is(t, "site")
    /\ \A k \in DOMAIN SiteOnly : s[k] = SiteValue(t, s.line, k)
    /\ s.rules = Rules(t, s.line)
    /\ Deferred(t, s)

\* After the lines t: none was wrong, the top-level settings are those of the
\* lines outside the blocks, and every site that was begun is described, the
\* one that is open by cur.
Faithful(t, tp, pd, c) ==
    /\ WrongLines(t) = {}
    /\ tp = [k \in TopKeys |-> TopValue(t, k)]
    /\ pd \in Seq(PendingSite) /\ c \in PendingSite \cup {None}
    /\ \A i \in DOMAIN pd : /\ Describes(t, pd[i])
                            /\ \E j \in Is(t, "close") : pd[i].line < j
    /\ \A i, j \in DOMAIN pd : i < j => pd[i].line < pd[j].line
    /\ Is(t, "site") = {pd[i].line : i \in DOMAIN pd}
                          \cup (IF c = None THEN {} ELSE {c.line})
    /\ c # None => /\ Describes(t, c)
                   /\ \A j \in Is(t, "close") : j <= c.line
                   /\ \A i \in DOMAIN pd : pd[i].line < c.line

\* The parser is in a block exactly if the next line is.
LEMMA Inside ==
    ASSUME NEW t \in Seq(Lines), NEW tp, NEW pd, NEW c, Faithful(t, tp, pd, c)
    PROVE  InBlock(t, Len(t) + 1) <=> c # None
<1>1. /\ Len(t) \in Nat /\ \A kind : Is(t, kind) \subseteq 1 .. Len(t)
    BY LenProperties DEF Is
<1>2. ASSUME c # None PROVE InBlock(t, Len(t) + 1)
    <2>1. c.line \in Is(t, "site") /\ \A j \in Is(t, "close") : j <= c.line
        BY <1>2 DEF Faithful
    <2>2. /\ c.line \in 1 .. Len(t)
          /\ \A m \in (c.line + 1) .. ((Len(t) + 1) - 1) : m \notin Is(t, "close")
        BY <1>1, <2>1
    <2>3. c.line < Len(t) + 1
        BY <1>1, <2>2
    <2> QED BY <2>1, <2>2, <2>3 DEF InBlock
<1>3. ASSUME InBlock(t, Len(t) + 1), c = None PROVE FALSE
    <2>1. PICK b \in Is(t, "site") :
             \A m \in (b + 1) .. Len(t) : m \notin Is(t, "close")
        BY <1>1, <1>3 DEF InBlock
    <2>2. PICK i \in DOMAIN pd : pd[i].line = b
        BY <1>3 DEF Faithful
    <2>3. PICK j \in Is(t, "close") : pd[i].line < j
        BY DEF Faithful
    <2>4. j \in (b + 1) .. Len(t)
        <3>1. j \in 1 .. Len(t) /\ b \in 1 .. Len(t)
            BY <1>1
        <3> QED BY <2>2, <2>3, <3>1
    <2> QED BY <2>1, <2>4
<1> QED BY <1>2, <1>3

\* What makes the next line wrong.
Refused(l, c) ==
    \/ l.kind = "junk"
    \/ l.kind = "close" /\ c = None
    \/ l.kind = "site" /\ (c # None \/ l.form # "block")
    \/ l.kind = "redirect" /\ (c = None \/ l.form # "rule")
    \/ /\ l.kind = "set"
       /\ \/ c = None /\ l.key \notin TopKeys
          \/ c # None /\ l.key \notin DOMAIN SiteOnly \cup DOMAIN Shared
          \/ Parse(l.key, l.value, Stripped(l.hashes)) = Bad

\* What the parser refuses of the next line, from what it has read so far, is
\* what is wrong with that line by where it stands.
LEMMA WrongHere ==
    ASSUME NEW t, NEW l, NEW u, Extended(t, l, u), NEW tp, NEW pd, NEW c,
           Faithful(t, tp, pd, c)
    PROVE  /\ Wrong(u, Len(t) + 1) <=> Refused(l, c)
           /\ ~Refused(l, c) => WrongLines(u) = {}
<1> DEFINE N == Len(t) + 1
<1>1. Len(t) \in Nat /\ u[N] = l /\ DOMAIN u = 1 .. N
    BY Grown
<1>2. \A kind : N \in Is(u, kind) <=> l.kind = kind
    BY <1>1 DEF Is
<1>3. InBlock(u, N) <=> c # None
    <2>1. t \in Seq(Lines) /\ N \in 1 .. (Len(t) + 1)
        BY <1>1 DEF Extended
    <2> QED BY <2>1, Inside, WithinKept
<1>4. Wrong(u, N) <=> Refused(l, c)
    BY <1>1, <1>2, <1>3 DEF Wrong, Refused, AllowedKeys
<1>5. WrongLines(t) = {}
    BY DEF Faithful
<1> QED BY <1>4, <1>5, WrongKept

\* A value that is no error means what it is written as.
LEMMA MeansValue ==
    ASSUME NEW l \in Lines, l.kind = "set",
           Parse(l.key, l.value, Stripped(l.hashes)) # Bad
    PROVE  Meant(l) = Parse(l.key, l.value, Stripped(l.hashes))
<1>1. CASE l.key \in DOMAIN KeyType /\ KeyType[l.key] = "size"
           /\ l.value.word = "number"
    <2>1. Parse(l.key, l.value, Stripped(l.hashes)) = parse_size(l.value)
        BY <1>1 DEF Parse
    <2>2. parse_size(l.value) = l.value.num * Multiplier[l.value.unit]
        BY <1>1, <2>1 DEF parse_size, AtMost
    <2> QED BY <1>1, <2>1, <2>2 DEF Meant
<1>2. CASE ~(l.key \in DOMAIN KeyType /\ KeyType[l.key] = "size"
             /\ l.value.word = "number")
    BY <1>2 DEF Meant
<1> QED BY <1>1, <1>2

\* The block of a site is a set of lines behind its own.
LEMMA Blocks ==
    ASSUME NEW t \in Seq(Lines), NEW b \in Nat
    PROVE  /\ Block(t, b) \in SUBSET (1 .. Len(t))
           /\ Overriding(t, b) \subseteq Block(t, b)
           /\ IsFiniteSet(Block(t, b) \cap Is(t, "redirect"))
           /\ Rules(t, b) \in Nat
<1>1. DOMAIN t = 1 .. Len(t) /\ Len(t) \in Nat
    BY LenProperties
<1>2. IsFiniteSet(1 .. Len(t))
    BY <1>1, FS_Interval
<1>3. Block(t, b) \in SUBSET (1 .. Len(t))
    BY <1>1 DEF Block
<1>4. IsFiniteSet(Block(t, b) \cap Is(t, "redirect"))
    BY <1>2, <1>3, FS_Subset
<1> QED BY <1>3, <1>4, FS_CardinalityType DEF Overriding, Rules

\* What a site holds stays right as long as its block gets no line.
LEMMA DescribesKept ==
    ASSUME NEW t, NEW l, NEW u, Extended(t, l, u), NEW s, Describes(t, s),
           \/ l.kind = "close"
           \/ \E j \in Is(t, "close") : s.line < j
    PROVE  Describes(u, s)
<1> DEFINE b == s.line
<1>1. /\ Len(t) \in Nat /\ \A i \in 1 .. Len(t) : u[i] = t[i]
      /\ t \in Seq(Lines)
    BY Grown DEF Extended
<1>2. b \in 1 .. Len(t) /\ b \in Nat
    BY <1>1, KindGrown DEF Describes
<1>3. Block(u, b) = Block(t, b) /\ Block(t, b) \in SUBSET (1 .. Len(t))
    <2>1. Block(u, b) = Block(t, b)
        BY <1>2, BlockKept
    <2>2. Block(t, b) \in SUBSET (1 .. Len(t))
        BY <1>1, <1>2, Blocks
    <2> QED BY <2>1, <2>2
<1>4. \A kind : \A i \in 1 .. Len(t) : i \in Is(u, kind) <=> i \in Is(t, kind)
    BY <1>1, Grown DEF Is
<1>5. \A k : SiteValue(u, b, k) = SiteValue(t, b, k)
    BY <1>3, LastKept DEF SiteValue
<1>6. Rules(u, b) = Rules(t, b)
    <2>1. Block(u, b) \cap Is(u, "redirect") = Block(t, b) \cap Is(t, "redirect")
        BY <1>3, <1>4
    <2> QED BY <2>1 DEF Rules
<1>7. /\ Overriding(u, b) = Overriding(t, b)
      /\ \A i \in Overriding(t, b) : u[i] = t[i]
    BY <1>1, <1>3, <1>4 DEF Overriding
<1>8. Deferred(u, s)
    BY <1>7 DEF Describes, Deferred
<1>9. b \in Is(u, "site")
    BY <1>2, <1>4 DEF Describes
<1> QED BY <1>5, <1>6, <1>8, <1>9 DEF Describes

\* What one more line of its block is to each part of a site.
Gains(t, l, u, s) ==
    /\ s.line \in Is(u, "site")
    /\ \A k : SiteValue(u, s.line, k) =
                 IF l.kind = "set" /\ l.key = k THEN Meant(l)
                 ELSE SiteValue(t, s.line, k)
    /\ Rules(u, s.line) = IF l.kind = "redirect" THEN Rules(t, s.line) + 1
                          ELSE Rules(t, s.line)
    /\ Overriding(u, s.line) = Overriding(t, s.line)
          \cup (IF l.kind = "set" /\ l.key \in DOMAIN Shared
                THEN {Len(t) + 1} ELSE {})
    /\ \A i \in Overriding(t, s.line) : i <= Len(t) /\ u[i] = t[i]

\* An open block gains the next line, unless this closes it.
LEMMA SiteGrown ==
    ASSUME NEW t, NEW l, NEW u, Extended(t, l, u), NEW s, Describes(t, s),
           l.kind # "close", \A j \in Is(t, "close") : j <= s.line
    PROVE  Gains(t, l, u, s)
<1> DEFINE b == s.line
           N == Len(t) + 1
<1>1. /\ Len(t) \in Nat /\ \A i \in 1 .. Len(t) : u[i] = t[i]
      /\ t \in Seq(Lines) /\ u[N] = l /\ DOMAIN u = 1 .. N
    BY Grown DEF Extended
<1>2. b \in 1 .. Len(t) /\ b \in Nat
    BY <1>1, KindGrown DEF Describes
<1>3. Block(u, b) = Block(t, b) \cup {N}
    BY <1>2, BlockGrown
<1>4. Block(t, b) \in SUBSET (1 .. Len(t))
    BY <1>1, <1>2, Blocks
<1>5. \A kind : /\ \A i \in 1 .. Len(t) : i \in Is(u, kind) <=> i \in Is(t, kind)
                /\ N \in Is(u, kind) <=> l.kind = kind
    BY <1>1, Grown DEF Is
<1>6. \A k : SiteValue(u, b, k) = IF l.kind = "set" /\ l.key = k THEN Meant(l)
                                  ELSE SiteValue(t, b, k)
    <2> SUFFICES ASSUME NEW k
                 PROVE  LastSet(u, Block(t, b) \cup {N}, k, SiteDefault[k]) =
                           IF l.kind = "set" /\ l.key = k THEN Meant(l)
                           ELSE LastSet(t, Block(t, b), k, SiteDefault[k])
        BY <1>3 DEF SiteValue
    <2> QED BY <1>4, LastGrown
<1>7. Rules(u, b) = IF l.kind = "redirect" THEN Rules(t, b) + 1 ELSE Rules(t, b)
    <2> DEFINE R == Block(t, b) \cap Is(t, "redirect")
    <2>1. Block(u, b) \cap Is(u, "redirect") =
             IF l.kind = "redirect" THEN R \cup {N} ELSE R
        BY <1>3, <1>4, <1>5
    <2>2. IsFiniteSet(R) /\ N \notin R
        BY <1>1, <1>2, <1>4, Blocks
    <2>3. Cardinality(R \cup {N}) = Cardinality(R) + 1
        BY <2>2, FS_AddElement
    <2> QED BY <2>1, <2>3 DEF Rules
<1>8. Overriding(u, b) = Overriding(t, b)
         \cup (IF l.kind = "set" /\ l.key \in DOMAIN Shared THEN {N} ELSE {})
    BY <1>1, <1>3, <1>4, <1>5 DEF Overriding
<1>9. \A i \in Overriding(t, b) : i <= Len(t) /\ u[i] = t[i]
    <2>1. \A i \in Overriding(t, b) : i \in 1 .. Len(t)
        BY <1>4 DEF Overriding
    <2> QED BY <1>1, <2>1
<1>10. b \in Is(u, "site")
    BY <1>2, <1>5 DEF Describes
<1> QED BY <1>6, <1>7, <1>8, <1>9, <1>10 DEF Gains

\* The constants apart from the multipliers.
LEMMA Constants ==
    /\ UsizeMax \in Nat /\ MaxSecs \in Nat /\ Texts \subseteq Seq(Lines)
    /\ None \notin Nat /\ None \notin PendingSite
BY ConstantsAssumption

\* What one more line is to the top-level settings.
LEMMA TopGrown ==
    ASSUME NEW t, NEW l, NEW u, Extended(t, l, u), NEW tp, NEW pd, NEW c,
           Faithful(t, tp, pd, c), NEW k
    PROVE  TopValue(u, k) = IF c = None /\ l.kind = "set" /\ l.key = k
                            THEN Meant(l) ELSE TopValue(t, k)
<1> DEFINE N == Len(t) + 1
<1>1. /\ Len(t) \in Nat /\ DOMAIN t = 1 .. Len(t) /\ DOMAIN u = 1 .. N
      /\ t \in Seq(Lines)
    BY Grown DEF Extended
<1>2. \A i \in 1 .. N : InBlock(u, i) <=> InBlock(t, i)
    BY WithinKept
<1>3. InBlock(t, N) <=> c # None
    BY <1>1, Inside
<1>4. TopLines(t) \in SUBSET (1 .. Len(t))
    BY <1>1 DEF TopLines
<1>5. CASE c = None
    <2>1. TopLines(u) = TopLines(t) \cup {N}
        BY <1>1, <1>2, <1>3, <1>5 DEF TopLines
    <2>2. LastSet(u, TopLines(t) \cup {N}, k, Default[k]) =
             IF l.kind = "set" /\ l.key = k THEN Meant(l)
             ELSE LastSet(t, TopLines(t), k, Default[k])
        BY <1>4, LastGrown
    <2> QED BY <1>5, <2>1, <2>2 DEF TopValue
<1>6. CASE c # None
    <2>1. TopLines(u) = TopLines(t)
        BY <1>1, <1>2, <1>3, <1>6 DEF TopLines
    <2>2. LastSet(u, TopLines(t), k, Default[k]) =
             LastSet(t, TopLines(t), k, Default[k])
        BY <1>4, LastKept
    <2> QED BY <1>6, <2>1, <2>2 DEF TopValue
<1> QED BY <1>5, <1>6

\* No line changes a site that is finished.
LEMMA PendingKept ==
    ASSUME NEW t, NEW l, NEW u, Extended(t, l, u), NEW tp, NEW pd, NEW c,
           Faithful(t, tp, pd, c), NEW i \in DOMAIN pd
    PROVE  Describes(u, pd[i]) /\ \E j \in Is(u, "close") : pd[i].line < j
<1>1. Describes(t, pd[i]) /\ \E j \in Is(t, "close") : pd[i].line < j
    BY DEF Faithful
<1>2. Describes(u, pd[i])
    BY <1>1, DescribesKept
<1>3. Is(t, "close") \subseteq Is(u, "close")
    BY KindGrown
<1> QED BY <1>1, <1>2, <1>3

\* A line that is not a delimiter leaves the parser in or out of a block.
LEMMA PlainLine ==
    ASSUME NEW t, NEW l, NEW u, Extended(t, l, u), NEW tp, NEW pd, NEW c,
           Faithful(t, tp, pd, c), ~Refused(l, c),
           l.kind \notin {"close", "site"},
           NEW tq, tq = [k \in TopKeys |-> TopValue(u, k)],
           NEW d \in PendingSite \cup {None}, c = None <=> d = None,
           c # None => d.line = c.line /\ Describes(u, d)
    PROVE  Faithful(u, tq, pd, d)
<1>1. WrongLines(u) = {}
    BY WrongHere
<1>2. Is(u, "close") = Is(t, "close")
    <2>1. Is(u, "close") = Is(t, "close")
             \cup (IF l.kind = "close" THEN {Len(t) + 1} ELSE {})
        BY KindGrown
    <2> QED BY <2>1
<1>3. Is(u, "site") = Is(t, "site")
    <2>1. Is(u, "site") = Is(t, "site")
             \cup (IF l.kind = "site" THEN {Len(t) + 1} ELSE {})
        BY KindGrown
    <2> QED BY <2>1
<1>4. \A i \in DOMAIN pd : /\ Describes(u, pd[i])
                           /\ \E j \in Is(u, "close") : pd[i].line < j
    BY PendingKept
<1>5. /\ pd \in Seq(PendingSite)
      /\ \A i, j \in DOMAIN pd : i < j => pd[i].line < pd[j].line
      /\ Is(u, "site") = {pd[i].line : i \in DOMAIN pd}
                            \cup (IF d = None THEN {} ELSE {d.line})
    <2>1. (IF d = None THEN {} ELSE {d.line}) = (IF c = None THEN {} ELSE {c.line})
        OBVIOUS
    <2> QED BY <1>3, <2>1 DEF Faithful
<1>6. d # None => /\ Describes(u, d)
                  /\ \A j \in Is(u, "close") : j <= d.line
                  /\ \A i \in DOMAIN pd : pd[i].line < d.line
    BY <1>2 DEF Faithful
<1> QED BY <1>1, <1>4, <1>5, <1>6 DEF Faithful

\* A line that says nothing.
LEMMA BlankLine ==
    ASSUME NEW t, NEW l, NEW u, Extended(t, l, u), NEW tp, NEW pd, NEW c,
           Faithful(t, tp, pd, c), l.kind = "blank"
    PROVE  Faithful(u, tp, pd, c)
<1>1. tp = [k \in TopKeys |-> TopValue(u, k)]
    <2>1. \A k : TopValue(u, k) = TopValue(t, k)
        BY TopGrown
    <2> QED BY <2>1 DEF Faithful
<1>2. ASSUME c # None PROVE Describes(u, c)
    <2>1. Describes(t, c) /\ \A j \in Is(t, "close") : j <= c.line
        BY <1>2 DEF Faithful
    <2>2. Gains(t, l, u, c)
        <3>1. l.kind # "close"
            OBVIOUS
        <3> QED BY <2>1, <3>1, SiteGrown
    <2>3. c.line \in Is(u, "site") /\ Rules(u, c.line) = Rules(t, c.line)
        BY <2>2 DEF Gains
    <2>4. \A k : SiteValue(u, c.line, k) = SiteValue(t, c.line, k)
        BY <2>2 DEF Gains
    <2>5. Overriding(u, c.line) = Overriding(t, c.line)
        BY <2>2 DEF Gains
    <2>6. \A i \in Overriding(t, c.line) : u[i] = t[i]
        BY <2>2 DEF Gains
    <2>7. Deferred(u, c)
        BY <2>1, <2>5, <2>6 DEF Describes, Deferred
    <2> QED BY <2>1, <2>3, <2>4, <2>7 DEF Describes
<1>3. ~Refused(l, c) /\ c \in PendingSite \cup {None}
    BY DEF Refused, Faithful
<1> QED BY <1>1, <1>2, <1>3, PlainLine

\* A setting outside every block.
LEMMA TopLine ==
    ASSUME NEW t, NEW l, NEW u, Extended(t, l, u), NEW tp, NEW pd,
           Faithful(t, tp, pd, None), l.kind = "set", l.key \in TopKeys,
           NEW v, v = Parse(l.key, l.value, Stripped(l.hashes)), v # Bad
    PROVE  Faithful(u, [tp EXCEPT ![l.key] = v], pd, None)
<1>1. ~Refused(l, None)
    BY DEF Refused
<1>2. Meant(l) = v
    BY MeansValue DEF Extended
<1>3. \A k : TopValue(u, k) = IF l.key = k THEN v ELSE TopValue(t, k)
    BY <1>2, TopGrown
<1>4. tp = [k \in TopKeys |-> TopValue(t, k)]
    BY DEF Faithful
<1>5. [tp EXCEPT ![l.key] = v] = [k \in TopKeys |-> TopValue(u, k)]
    BY <1>3, <1>4
<1> QED BY <1>1, <1>5, PlainLine

\* A bracket that ends a block.
LEMMA CloseLine ==
    ASSUME NEW t, NEW l, NEW u, Extended(t, l, u), NEW tp, NEW pd, NEW c,
           Faithful(t, tp, pd, c), l.kind = "close", c # None
    PROVE  Faithful(u, tp, Append(pd, c), None)
<1> DEFINE N  == Len(t) + 1
           pe == Append(pd, c)
           m  == Len(pd)
<1>1. WrongLines(u) = {}
    BY WrongHere DEF Refused
<1>2. tp = [k \in TopKeys |-> TopValue(u, k)]
    <2>1. \A k : TopValue(u, k) = TopValue(t, k)
        BY TopGrown
    <2> QED BY <2>1 DEF Faithful
<1>3. /\ pe \in Seq(PendingSite) /\ m \in Nat /\ DOMAIN pd = 1 .. m
      /\ DOMAIN pe = 1 .. (m + 1) /\ pe[m + 1] = c
      /\ \A i \in 1 .. m : pe[i] = pd[i]
    BY AppendProperties, LenProperties DEF Faithful
<1>4. /\ Describes(t, c) /\ \A i \in DOMAIN pd : pd[i].line < c.line
    BY DEF Faithful
<1>5. Describes(u, c)
    BY <1>4, DescribesKept
<1>6. c.line \in 1 .. Len(t) /\ Len(t) \in Nat
    BY <1>4, Grown, KindGrown DEF Describes
<1>7. N \in Is(u, "close") /\ c.line < N
    BY <1>6, KindGrown
<1>8. \A i \in DOMAIN pe : /\ Describes(u, pe[i])
                           /\ \E j \in Is(u, "close") : pe[i].line < j
    <2> SUFFICES ASSUME NEW i \in 1 .. (m + 1)
                 PROVE  /\ Describes(u, pe[i])
                        /\ \E j \in Is(u, "close") : pe[i].line < j
        BY <1>3
    <2>1. CASE i = m + 1
        BY <1>3, <1>5, <1>7, <2>1
    <2>2. CASE i \in 1 .. m
        BY <1>3, <2>2, PendingKept
    <2> QED BY <1>3, <2>1, <2>2
<1>9. \A i, j \in DOMAIN pe : i < j => pe[i].line < pe[j].line
    <2>1. \A i, j \in 1 .. m : i < j => pd[i].line < pd[j].line
        BY <1>3 DEF Faithful
    <2> QED BY <1>3, <1>4, <2>1
<1>10. Is(u, "site") = {pe[i].line : i \in DOMAIN pe}
    <2>1. Is(u, "site") = {pd[i].line : i \in 1 .. m} \cup {c.line}
        BY <1>3, KindGrown DEF Faithful
    <2>2. 1 .. (m + 1) = (1 .. m) \cup {m + 1}
        BY <1>3
    <2> QED BY <1>3, <2>1, <2>2
<1> HIDE DEF pe
<1> QED BY <1>1, <1>2, <1>3, <1>8, <1>9, <1>10 DEF Faithful


\* A line that begins a block.
LEMMA OpenLine ==
    ASSUME NEW t, NEW l, NEW u, Extended(t, l, u), NEW tp, NEW pd,
           Faithful(t, tp, pd, None), l.kind = "site", l.form = "block",
           NEW d \in PendingSite, d.line = Len(t) + 1, d.overrides = <<>>,
           d.rules = 0, \A k \in DOMAIN SiteOnly : d[k] = SiteDefault[k]
    PROVE  Faithful(u, tp, pd, d)
<1> DEFINE N == Len(t) + 1
<1>1. WrongLines(u) = {}
    BY WrongHere DEF Refused
<1>2. tp = [k \in TopKeys |-> TopValue(u, k)]
    <2>1. \A k : TopValue(u, k) = TopValue(t, k)
        BY TopGrown
    <2> QED BY <2>1 DEF Faithful
<1>3. /\ Len(t) \in Nat /\ DOMAIN u = 1 .. N /\ u \in Seq(Lines)
    BY Grown
<1>4. Block(u, N) = {} /\ Overriding(u, N) = {}
    BY <1>3 DEF Block, Overriding
<1>5. Describes(u, d)
    <2>1. \A k : SiteValue(u, N, k) = SiteDefault[k]
        BY <1>4 DEF SiteValue, LastSet
    <2>2. Rules(u, N) = 0
        BY <1>4, FS_EmptySet DEF Rules
    <2>3. DOMAIN d.overrides = {}
        OBVIOUS
    <2>4. Deferred(u, d)
        BY <1>4, <2>3 DEF Deferred
    <2>5. N \in Is(u, "site")
        BY KindGrown
    <2> QED BY <2>1, <2>2, <2>4, <2>5 DEF Describes
<1>6. d # None
    BY Constants
<1>7. \A i \in DOMAIN pd : /\ Describes(u, pd[i])
                           /\ \E j \in Is(u, "close") : pd[i].line < j
    BY PendingKept
<1>8. /\ Is(u, "close") = Is(t, "close") /\ Is(t, "close") \subseteq 1 .. Len(t)
      /\ Is(u, "site") = Is(t, "site") \cup {N}
      /\ Is(t, "site") \subseteq 1 .. Len(t)
    <2>1. /\ Is(u, "close") = Is(t, "close")
                \cup (IF l.kind = "close" THEN {N} ELSE {})
          /\ Is(t, "close") \subseteq 1 .. Len(t)
        BY KindGrown
    <2>2. /\ Is(u, "site") = Is(t, "site")
                \cup (IF l.kind = "site" THEN {N} ELSE {})
          /\ Is(t, "site") \subseteq 1 .. Len(t)
        BY KindGrown
    <2> QED BY <2>1, <2>2
<1>9. /\ \A j \in Is(u, "close") : j <= d.line
      /\ \A i \in DOMAIN pd : pd[i].line < d.line
    <2>1. \A i \in DOMAIN pd : pd[i].line \in Is(t, "site")
        BY DEF Faithful, Describes
    <2> QED BY <1>3, <1>8, <2>1
<1>10. Is(u, "site") = {pd[i].line : i \in DOMAIN pd} \cup {d.line}
    BY <1>8 DEF Faithful
<1>11. /\ pd \in Seq(PendingSite)
       /\ \A i, j \in DOMAIN pd : i < j => pd[i].line < pd[j].line
    BY DEF Faithful
<1> QED BY <1>1, <1>2, <1>5, <1>6, <1>7, <1>9, <1>10, <1>11 DEF Faithful

\* The open site gains a line that is not a delimiter, the file nothing.
LEMMA OpenSiteGrown ==
    ASSUME NEW t, NEW l, NEW u, Extended(t, l, u), NEW tp, NEW pd, NEW c,
           Faithful(t, tp, pd, c), c # None,
           l.kind \notin {"close", "site"}
    PROVE  /\ c \in PendingSite /\ Describes(t, c) /\ Gains(t, l, u, c)
           /\ tp = [k \in TopKeys |-> TopValue(u, k)]
<1>1. /\ c \in PendingSite /\ Describes(t, c)
      /\ \A j \in Is(t, "close") : j <= c.line
    BY DEF Faithful
<1>2. l.kind # "close"
    OBVIOUS
<1>3. \A k : TopValue(u, k) = TopValue(t, k)
    BY TopGrown
<1>4. tp = [k \in TopKeys |-> TopValue(u, k)]
    BY <1>3 DEF Faithful
<1> QED BY <1>1, <1>2, <1>4, SiteGrown

\* What a block reads into the record of its site.
LEMMA RuleCounted ==
    ASSUME NEW c \in PendingSite, NEW d, d = [c EXCEPT !.rules = @ + 1]
    PROVE  /\ d \in PendingSite /\ d.line = c.line
           /\ d.overrides = c.overrides /\ d.rules = c.rules + 1
           /\ \A k \in DOMAIN SiteOnly : d[k] = c[k]
<1>0. c.rules \in Nat /\ c.rules + 1 \in Nat
    BY DEF PendingSite
<1>1. d \in PendingSite
    BY <1>0 DEF PendingSite
<1>2. d.line = c.line /\ d.overrides = c.overrides /\ d.rules = c.rules + 1
    BY DEF PendingSite
<1>3. \A k \in DOMAIN SiteOnly : d[k] = c[k]
    BY DEF PendingSite, SiteOnly
<1> QED BY <1>1, <1>2, <1>3

SetTo(c, k, v) == [c EXCEPT ![k] = v]

\* A setting of the block's own changes one field of it.
LEMMA FieldSet ==
    ASSUME NEW c \in PendingSite, NEW k \in DOMAIN SiteOnly,
           NEW v \in Setting, NEW d, d = SetTo(c, k, v)
    PROVE  /\ d \in PendingSite /\ d.line = c.line
           /\ d.overrides = c.overrides /\ d.rules = c.rules
           /\ \A f \in DOMAIN SiteOnly : d[f] = IF f = k THEN v ELSE c[f]
<1>0. k \in {"root", "cert", "key", "force_ssl", "canonical_urls"}
    BY DEF SiteOnly
<1>1. d \in PendingSite
    BY <1>0 DEF SetTo, PendingSite
<1>2. d.line = c.line /\ d.overrides = c.overrides /\ d.rules = c.rules
    BY <1>0 DEF SetTo, PendingSite
<1>3. \A f \in DOMAIN SiteOnly : d[f] = IF f = k THEN v ELSE c[f]
    BY <1>0 DEF SetTo, PendingSite, SiteOnly
<1> QED BY <1>1, <1>2, <1>3

\* An override changes none of them.
LEMMA OverrideAdded ==
    ASSUME NEW c \in PendingSite, NEW q, NEW d,
           q \in Seq(Nat \X (DOMAIN Shared) \X Setting),
           d = SetTo(c, "overrides", q)
    PROVE  /\ d \in PendingSite /\ d.line = c.line
           /\ d.overrides = q /\ d.rules = c.rules
           /\ \A k \in DOMAIN SiteOnly : d[k] = c[k]
<1>1. d \in PendingSite
    BY DEF SetTo, PendingSite
<1>2. d.line = c.line /\ d.overrides = q /\ d.rules = c.rules
    BY DEF SetTo, PendingSite
<1>3. \A k \in DOMAIN SiteOnly : d[k] = c[k]
    BY DEF SetTo, PendingSite, SiteOnly
<1> QED BY <1>1, <1>2, <1>3

\* A line of a block that leaves its site described.
LEMMA InsideLine ==
    ASSUME NEW t, NEW l, NEW u, Extended(t, l, u), NEW tp, NEW pd, NEW c,
           Faithful(t, tp, pd, c), c # None, ~Refused(l, c),
           l.kind \notin {"close", "site"},
           NEW d \in PendingSite, d.line = c.line, Describes(u, d)
    PROVE  Faithful(u, tp, pd, d)
<1>1. tp = [k \in TopKeys |-> TopValue(u, k)]
    BY OpenSiteGrown
<1>2. d # None
    BY Constants
<1>3. c = None <=> d = None
    BY <1>2
<1>4. d \in PendingSite \cup {None}
    OBVIOUS
<1>5. c # None => d.line = c.line /\ Describes(u, d)
    OBVIOUS
<1> QED BY <1>1, <1>3, <1>4, <1>5, PlainLine

\* A redirect rule.
LEMMA RuleLine ==
    ASSUME NEW t, NEW l, NEW u, Extended(t, l, u), NEW tp, NEW pd, NEW c,
           Faithful(t, tp, pd, c), c # None, l.kind = "redirect",
           l.form = "rule", NEW d \in PendingSite, d.line = c.line,
           d.overrides = c.overrides, d.rules = c.rules + 1,
           \A k \in DOMAIN SiteOnly : d[k] = c[k]
    PROVE  Faithful(u, tp, pd, d)
<1>1. Describes(t, c) /\ Gains(t, l, u, c)
    BY OpenSiteGrown
<1>2. c.line \in Is(u, "site") /\ Rules(u, c.line) = Rules(t, c.line) + 1
    BY <1>1 DEF Gains
<1>3. \A k : SiteValue(u, c.line, k) = SiteValue(t, c.line, k)
    BY <1>1 DEF Gains
<1>4. Overriding(u, c.line) = Overriding(t, c.line)
    BY <1>1 DEF Gains
<1>5. \A i \in Overriding(t, c.line) : u[i] = t[i]
    BY <1>1 DEF Gains
<1>6. Deferred(u, d)
    BY <1>1, <1>4, <1>5 DEF Describes, Deferred
<1>7. Describes(u, d)
    BY <1>1, <1>2, <1>3, <1>6 DEF Describes
<1>8. ~Refused(l, c)
    BY DEF Refused
<1>9. l.kind \notin {"close", "site"}
    OBVIOUS
<1> QED BY <1>7, <1>8, <1>9, InsideLine

\* A setting of a site alone.
LEMMA SiteLine ==
    ASSUME NEW t, NEW l, NEW u, Extended(t, l, u), NEW tp, NEW pd, NEW c,
           Faithful(t, tp, pd, c), c # None, l.kind = "set",
           l.key \in DOMAIN SiteOnly,
           NEW v \in Setting, v = Parse(l.key, l.value, Stripped(l.hashes)),
           v # Bad, NEW d \in PendingSite, d.line = c.line,
           d.overrides = c.overrides, d.rules = c.rules,
           \A k \in DOMAIN SiteOnly : d[k] = IF k = l.key THEN v ELSE c[k]
    PROVE  Faithful(u, tp, pd, d)
<1>1. Meant(l) = v
    BY MeansValue DEF Extended
<1>2. l.key \notin DOMAIN Shared
    BY DEF SiteOnly, Shared
<1>3. Describes(t, c) /\ Gains(t, l, u, c)
    BY OpenSiteGrown
<1>4. c.line \in Is(u, "site") /\ Rules(u, c.line) = Rules(t, c.line)
    BY <1>3 DEF Gains
<1>5. \A k : SiteValue(u, c.line, k) =
                IF l.key = k THEN v ELSE SiteValue(t, c.line, k)
    BY <1>1, <1>3 DEF Gains
<1>6. Overriding(u, c.line) = Overriding(t, c.line)
    BY <1>2, <1>3 DEF Gains
<1>7. \A i \in Overriding(t, c.line) : u[i] = t[i]
    BY <1>3 DEF Gains
<1>8. Deferred(u, d)
    BY <1>3, <1>6, <1>7 DEF Describes, Deferred
<1>9. Describes(u, d)
    <2>1. \A k \in DOMAIN SiteOnly : d[k] = SiteValue(u, d.line, k)
        BY <1>3, <1>5 DEF Describes
    <2> QED BY <1>3, <1>4, <1>8, <2>1 DEF Describes
<1>10. ~Refused(l, c)
    BY DEF Refused
<1>11. l.kind \notin {"close", "site"}
    OBVIOUS
<1> QED BY <1>9, <1>10, <1>11, InsideLine

\* A setting of a site that overrides the file's.
LEMMA OverrideLine ==
    ASSUME NEW t, NEW l, NEW u, Extended(t, l, u), NEW tp, NEW pd, NEW c,
           Faithful(t, tp, pd, c), c # None, l.kind = "set",
           l.key \in DOMAIN Shared,
           NEW v \in Setting, v = Parse(l.key, l.value, Stripped(l.hashes)),
           v # Bad, NEW d \in PendingSite, d.line = c.line, d.rules = c.rules,
           d.overrides = Append(c.overrides, <<Len(t) + 1, l.key, v>>),
           \A k \in DOMAIN SiteOnly : d[k] = c[k]
    PROVE  Faithful(u, tp, pd, d)
<1> DEFINE N == Len(t) + 1
           o == <<N, l.key, v>>
           q == c.overrides
           m == Len(q)
<1>1. Meant(l) = v
    BY MeansValue DEF Extended
<1>2. l.key \notin DOMAIN SiteOnly
    BY DEF SiteOnly, Shared
<1>3. /\ c \in PendingSite /\ Describes(t, c)
      /\ tp = [k \in TopKeys |-> TopValue(u, k)]
      /\ c.line \in Is(u, "site")
      /\ \A k \in DOMAIN SiteOnly :
            SiteValue(u, c.line, k) = SiteValue(t, c.line, k)
      /\ Rules(u, c.line) = Rules(t, c.line)
      /\ Overriding(u, c.line) = Overriding(t, c.line) \cup {N}
      /\ \A i \in Overriding(t, c.line) : i <= Len(t) /\ u[i] = t[i]
    <2>1. /\ c \in PendingSite /\ Describes(t, c) /\ Gains(t, l, u, c)
          /\ tp = [k \in TopKeys |-> TopValue(u, k)]
        BY OpenSiteGrown
    <2>2. c.line \in Is(u, "site") /\ Rules(u, c.line) = Rules(t, c.line)
        BY <2>1 DEF Gains
    <2>3. \A k \in DOMAIN SiteOnly :
             SiteValue(u, c.line, k) = SiteValue(t, c.line, k)
        BY <1>2, <2>1 DEF Gains
    <2>4. Overriding(u, c.line) = Overriding(t, c.line) \cup {N}
        BY <2>1 DEF Gains
    <2>5. \A i \in Overriding(t, c.line) : i <= Len(t) /\ u[i] = t[i]
        BY <2>1 DEF Gains
    <2> QED BY <2>1, <2>2, <2>3, <2>4, <2>5
<1>4. Len(t) \in Nat /\ u[N] = l
    BY Grown
<1>5. /\ q \in Seq(Nat \X (DOMAIN Shared) \X Setting)
      /\ o \in Nat \X (DOMAIN Shared) \X Setting
    BY <1>3, <1>4 DEF PendingSite
<1>6. /\ Append(q, o) \in Seq(Nat \X (DOMAIN Shared) \X Setting)
      /\ m \in Nat /\ DOMAIN q = 1 .. m /\ DOMAIN Append(q, o) = 1 .. (m + 1)
      /\ Append(q, o)[m + 1] = o
      /\ \A i \in 1 .. m : Append(q, o)[i] = q[i]
    BY <1>5, AppendProperties, LenProperties
<1>8. Deferred(u, d)
    <2> DEFINE r == Append(q, o)
    <2>1. Deferred(t, c)
        BY <1>3 DEF Describes
    <2>2. ASSUME NEW j \in 1 .. (m + 1)
          PROVE  /\ r[j][1] \in Overriding(u, d.line)
                 /\ r[j][2] = u[r[j][1]].key
                 /\ r[j][3] = Meant(u[r[j][1]]) /\ r[j][3] # Bad
        <3>1. CASE j = m + 1
            BY <1>1, <1>3, <1>4, <1>6, <3>1
        <3>2. CASE j \in 1 .. m
            <4>1. /\ q[j][1] \in Overriding(t, c.line)
                  /\ q[j][2] = t[q[j][1]].key
                  /\ q[j][3] = Meant(t[q[j][1]]) /\ q[j][3] # Bad
                BY <1>6, <2>1, <3>2 DEF Deferred
            <4>2. u[q[j][1]] = t[q[j][1]] /\ r[j] = q[j]
                BY <1>3, <1>6, <3>2, <4>1
            <4> HIDE DEF r
            <4> QED BY <1>3, <4>1, <4>2
        <3> QED BY <1>6, <3>1, <3>2
    <2>3. ASSUME NEW i \in 1 .. (m + 1), NEW j \in 1 .. (m + 1), i < j
          PROVE  r[i][1] < r[j][1]
        <3>1. CASE j = m + 1
            <4>1. i \in 1 .. m
                BY <1>6, <2>3, <3>1
            <4>2. q[i][1] \in Overriding(t, c.line) /\ r[i] = q[i]
                BY <1>6, <2>1, <4>1 DEF Deferred
            <4>3. q[i][1] <= Len(t) /\ q[i][1] \in Nat
                <5>1. q[i] \in Nat \X (DOMAIN Shared) \X Setting
                    BY <1>5, <1>6, <4>1, ElementOfSeq
                <5> QED BY <1>3, <4>2, <5>1
            <4>4. r[j][1] = N
                BY <1>6, <3>1
            <4> HIDE DEF r
            <4> QED BY <1>4, <4>2, <4>3, <4>4
        <3>2. CASE j \in 1 .. m
            <4>1. i \in 1 .. m
                BY <1>6, <2>3, <3>2
            <4>2. q[i][1] < q[j][1]
                BY <1>6, <2>1, <2>3, <3>2, <4>1 DEF Deferred
            <4>3. r[i] = q[i] /\ r[j] = q[j]
                BY <1>6, <3>2, <4>1
            <4> HIDE DEF r
            <4> QED BY <4>2, <4>3
        <3>3. j = m + 1 \/ j \in 1 .. m
            BY <1>6
        <3> HIDE DEF r, q, m
        <3> QED BY <3>1, <3>2, <3>3
    <2>4. ASSUME NEW i \in Overriding(u, d.line)
          PROVE  \E j \in 1 .. (m + 1) : r[j][1] = i
        <3>1. CASE i = N
            <4>1. m + 1 \in 1 .. (m + 1) /\ r[m + 1][1] = N
                BY <1>6
            <4> QED BY <3>1, <4>1
        <3>2. CASE i \in Overriding(t, c.line)
            <4>1. PICK j \in 1 .. m : q[j][1] = i
                BY <1>6, <2>1, <3>2 DEF Deferred
            <4>2. j \in 1 .. (m + 1) /\ r[j] = q[j]
                BY <1>6, <4>1
            <4> QED BY <4>1, <4>2
        <3> QED BY <1>3, <2>4, <3>1, <3>2
    <2> HIDE DEF r
    <2>5. d.overrides = r /\ DOMAIN r = 1 .. (m + 1)
        BY <1>6 DEF r
    <2>6. \A j \in DOMAIN d.overrides :
             /\ d.overrides[j][1] \in Overriding(u, d.line)
             /\ d.overrides[j][2] = u[d.overrides[j][1]].key
             /\ d.overrides[j][3] = Meant(u[d.overrides[j][1]])
             /\ d.overrides[j][3] # Bad
        BY <2>2, <2>5
    <2>7. \A i, j \in DOMAIN d.overrides :
             i < j => d.overrides[i][1] < d.overrides[j][1]
        BY <2>3, <2>5
    <2>8. \A i \in Overriding(u, d.line) :
             \E j \in DOMAIN d.overrides : d.overrides[j][1] = i
        BY <2>4, <2>5
    <2> QED BY <2>6, <2>7, <2>8 DEF Deferred
<1>9. Describes(u, d)
    BY <1>3, <1>8 DEF Describes
<1>10. ~Refused(l, c)
    BY DEF Refused
<1>11. l.kind \notin {"close", "site"}
    OBVIOUS
<1> HIDE DEF o, q
<1> QED BY <1>9, <1>10, <1>11, InsideLine

----------------------------------------------------------------------------
(* Values *)

\* What a number that is read as a count, or is bounded, is.
LEMMA CountTyped ==
    ASSUME NEW v, v.num \in Nat
    PROVE  parse_count(v) = Bad \/ parse_count(v) \in 0 .. UsizeMax
<1>1. parse_count(v) = Bad \/ (parse_count(v) = v.num /\ v.num <= UsizeMax)
    BY DEF parse_count
<1>2. UsizeMax \in Nat
    BY Constants
<1> QED BY <1>1, <1>2

\* A bounded number is an error or within its bound.
LEMMA AtMostTyped ==
    ASSUME NEW x, NEW most \in Nat, x = Bad \/ x \in Nat
    PROVE  AtMost(x, most) = Bad \/ AtMost(x, most) \in 0 .. most
BY DEF AtMost

\* A size that is no error is a usize.
LEMMA SizeTyped ==
    ASSUME NEW v, v.num \in Nat, v.unit \in Units
    PROVE  parse_size(v) = Bad \/ parse_size(v) \in 0 .. UsizeMax
<1>1. Multiplier[v.unit] \in Nat
    <2>1. Multiplier \in [Units -> Nat \ {0}]
        BY ConstantsAssumption
    <2> HIDE DEF Units
    <2> QED BY <2>1
<1>2. v.num * Multiplier[v.unit] \in Nat
    BY <1>1
<1>3. UsizeMax \in Nat
    BY Constants
<1>4. AtMost(v.num * Multiplier[v.unit], UsizeMax) = Bad
         \/ AtMost(v.num * Multiplier[v.unit], UsizeMax) \in 0 .. UsizeMax
    BY <1>2, <1>3, AtMostTyped
<1>5. parse_size(v) = Bad
         \/ parse_size(v) = AtMost(v.num * Multiplier[v.unit], UsizeMax)
    BY DEF parse_size
<1> QED BY <1>4, <1>5

\* What is left of the #s of a line are some.
LEMMA StrippedTyped ==
    ASSUME NEW h \in Seq(Hashes)
    PROVE  Stripped(h) \in Seq(Hashes)
BY DEF Stripped

\* The parser of every key is one of these.
Parsers == {"path", "header", "addr", "bool", "count", "level", "deadline",
            "size", "storage"}

\* The parsers that keys have, as far as a range depends on them.
LEMMA KeyTyped ==
    /\ \A k \in DOMAIN KeyType : KeyType[k] \in Parsers
    /\ \A k \in DOMAIN Highest : k \in DOMAIN KeyType /\ KeyType[k] = "level"
    /\ \A k \in DOMAIN KeyType : KeyType[k] = "level" => k \in DOMAIN Highest
    /\ KeyType.max_response_secs = "deadline"
    /\ KeyType.max_file_size = "size" /\ KeyType.max_total_bytes = "size"
<1>1. \A k \in DOMAIN KeyType : KeyType[k] \in Parsers
    BY DEF KeyType, Parsers, Shared, ServerOnly, SiteOnly, TopKeys
<1>2. \A k \in DOMAIN Highest : k \in DOMAIN KeyType /\ KeyType[k] = "level"
    BY DEF KeyType, Highest, Shared, ServerOnly, SiteOnly, TopKeys
<1>3. \A k \in DOMAIN KeyType : KeyType[k] = "level" => k \in DOMAIN Highest
    BY DEF KeyType, Highest, Shared, ServerOnly, SiteOnly, TopKeys
<1>4. KeyType.max_response_secs = "deadline"
    BY DEF KeyType, Shared, ServerOnly, SiteOnly, TopKeys
<1>5. KeyType.max_file_size = "size" /\ KeyType.max_total_bytes = "size"
    BY DEF KeyType, Shared, ServerOnly, SiteOnly, TopKeys
<1> QED BY <1>1, <1>2, <1>3, <1>4, <1>5

\* What a value parser returns, if it is not an error.
LEMMA ParseTyped ==
    ASSUME NEW k, NEW v \in [word: STRING, num: Nat, unit: Units],
           NEW h \in Seq(Hashes), Parse(k, v, h) # Bad
    PROVE  /\ Parse(k, v, h) \in Setting /\ k \in DOMAIN KeyType
           /\ KeyType[k] = "level" => Parse(k, v, h) \in 0 .. Highest[k]
           /\ KeyType[k] = "deadline" => Parse(k, v, h) \in 0 .. MaxSecs
           /\ KeyType[k] = "size" => Parse(k, v, h) \in 0 .. UsizeMax
<1> DEFINE p == Parse(k, v, h)
           t == KeyType[k]
<1>1. k \in DOMAIN KeyType
    BY DEF Parse
<1>2. t \in Parsers
    BY <1>1, KeyTyped
<1>3. CASE t \in {"path", "header", "addr"}
    <2>1. p = Text(v, h)
        BY <1>1, <1>3 DEF Parse
    <2>2. Text(v, h) \in [word: STRING, hashes: Seq(Hashes)]
        BY DEF Text
    <2>3. p \in Setting
        BY <2>1, <2>2 DEF Setting
    <2> QED BY <1>1, <1>3, <2>3
<1>4. CASE t \notin {"path", "header", "addr"}
    <2>1. h = <<>>
        BY <1>1, <1>2, <1>4 DEF Parse, Parsers
    <2>2. CASE t = "bool"
        <3>1. p = parse_bool(v)
            BY <1>1, <2>1, <2>2 DEF Parse
        <3>2. p \in BOOLEAN
            BY <3>1 DEF parse_bool
        <3> QED BY <1>1, <2>2, <3>2 DEF Setting
    <2>3. CASE t = "count"
        <3>1. p = parse_count(v)
            BY <1>1, <2>1, <2>3 DEF Parse
        <3>2. p \in 0 .. UsizeMax
            BY <3>1, CountTyped
        <3> QED BY <1>1, <2>3, <3>2 DEF Setting
    <2>4. CASE t = "level"
        <3>1. p = AtMost(parse_count(v), Highest[k])
            BY <1>1, <2>1, <2>4 DEF Parse
        <3>2. Highest[k] \in Nat
            BY <1>1, <2>4, KeyTyped DEF Highest
        <3>3. p \in 0 .. Highest[k]
            BY <3>1, <3>2, CountTyped, AtMostTyped
        <3> QED BY <1>1, <2>4, <3>2, <3>3 DEF Setting
    <2>5. CASE t = "deadline"
        <3>1. p = AtMost(parse_count(v), MaxSecs)
            BY <1>1, <2>1, <2>5 DEF Parse
        <3>2. p \in 0 .. MaxSecs
            BY <3>1, CountTyped, AtMostTyped, Constants
        <3> QED BY <1>1, <2>5, <3>2 DEF Setting
    <2>6. CASE t = "size"
        <3>1. p = parse_size(v)
            BY <1>1, <2>1, <2>6 DEF Parse
        <3>2. p \in 0 .. UsizeMax
            BY <3>1, SizeTyped
        <3> QED BY <1>1, <2>6, <3>2 DEF Setting
    <2>7. CASE t = "storage"
        <3>1. p = IF v.word \in {"memory", "disk"} THEN v.word ELSE Bad
            BY <1>1, <2>1, <2>7 DEF Parse
        <3>2. p \in {"memory", "disk"}
            BY <3>1
        <3> QED BY <1>1, <2>7, <3>2 DEF Setting
    <2> QED BY <1>2, <1>4, <2>2, <2>3, <2>4, <2>5, <2>6, <2>7 DEF Parsers
<1> QED BY <1>3, <1>4

\* The parts of a line that sets a key.
LEMMA LineParts ==
    ASSUME NEW l \in Lines, l.kind = "set"
    PROVE  /\ l.value \in [word: STRING, num: Nat, unit: Units]
           /\ Stripped(l.hashes) \in Seq(Hashes)
<1>1. l \in [kind: {"set"}, key: STRING, hashes: Seq(Hashes),
             value: [word: STRING, num: Nat, unit: Units]]
    BY DEF Lines
<1> QED BY <1>1, StrippedTyped

----------------------------------------------------------------------------
(* The lines read so far *)

Read == SubSeq(text, 1, n)

\* The first lines of a text.
LEMMA Prefix ==
    ASSUME NEW t \in Seq(Lines), NEW m \in 0 .. Len(t)
    PROVE  /\ SubSeq(t, 1, m) \in Seq(Lines) /\ Len(SubSeq(t, 1, m)) = m
           /\ \A i \in 1 .. m : SubSeq(t, 1, m)[i] = t[i]
<1>1. /\ Len(t) \in Nat /\ m \in Int /\ 1 \in Int
      /\ \A i \in 1 .. m : t[i] \in Lines
    BY LenProperties, ElementOfSeq
<1>2. /\ SubSeq(t, 1, m) \in Seq(Lines)
      /\ Len(SubSeq(t, 1, m)) = IF 1 <= m THEN m - 1 + 1 ELSE 0
      /\ \A i \in 1 .. m - 1 + 1 : SubSeq(t, 1, m)[i] = t[1 + i - 1]
    BY <1>1, SubSeqProperties
<1>3. m - 1 + 1 = m /\ \A i \in 1 .. m : 1 + i - 1 = i
    BY <1>1
<1>4. Len(SubSeq(t, 1, m)) = m
    BY <1>1, <1>2, <1>3
<1>5. \A i \in 1 .. m : SubSeq(t, 1, m)[i] = t[i]
    BY <1>2, <1>3
<1> QED BY <1>2, <1>4, <1>5

\* One line further.
LEMMA ReadOn ==
    ASSUME NEW t \in Seq(Lines), NEW m \in Nat, m < Len(t)
    PROVE  /\ t[m + 1] \in Lines
           /\ Extended(SubSeq(t, 1, m), t[m + 1], SubSeq(t, 1, m + 1))
           /\ Len(SubSeq(t, 1, m)) = m
<1>1. Len(t) \in Nat /\ m \in 0 .. Len(t) /\ m + 1 \in 0 .. Len(t)
    BY LenProperties
<1>2. m + 1 \in 1 .. Len(t) /\ t[m + 1] \in Lines
    BY <1>1, ElementOfSeq
<1> DEFINE a == SubSeq(t, 1, m)
           b == SubSeq(t, 1, m + 1)
           c == Append(a, t[m + 1])
<1>3. /\ a \in Seq(Lines) /\ Len(a) = m /\ \A i \in 1 .. m : a[i] = t[i]
      /\ b \in Seq(Lines) /\ Len(b) = m + 1
      /\ \A i \in 1 .. (m + 1) : b[i] = t[i]
    BY <1>1, Prefix
<1>4. /\ c \in Seq(Lines) /\ Len(c) = m + 1 /\ c[m + 1] = t[m + 1]
      /\ \A i \in 1 .. m : c[i] = a[i]
    BY <1>2, <1>3, AppendProperties
<1>5. \A i \in 1 .. (m + 1) : b[i] = c[i]
    BY <1>3, <1>4
<1> HIDE DEF a, b, c
<1>6. b = c
    BY <1>3, <1>4, <1>5, SeqEqual
<1> QED BY <1>2, <1>3, <1>6 DEF Extended, a, b, c

\* A line of the text is wrong exactly if it is when it is the last one read.
LEMMA WrongPrefix ==
    ASSUME NEW t \in Seq(Lines), NEW m \in 0 .. Len(t), NEW i \in 1 .. m
    PROVE  Wrong(SubSeq(t, 1, m), i) <=> Wrong(t, i)
<1> DEFINE a == SubSeq(t, 1, m)
<1>1. /\ a \in Seq(Lines) /\ Len(a) = m /\ \A j \in 1 .. m : a[j] = t[j]
    BY Prefix
<1> HIDE DEF a
<1>2. /\ DOMAIN a = 1 .. m /\ DOMAIN t = 1 .. Len(t) /\ Len(t) \in Nat
    BY <1>1, LenProperties
<1>3. \A kind : \A j \in 1 .. m : j \in Is(a, kind) <=> j \in Is(t, kind)
    BY <1>1, <1>2 DEF Is
<1>4. /\ Is(a, "site") \subseteq 1 .. m /\ Is(t, "site") \subseteq 1 .. Len(t)
    BY <1>2 DEF Is
<1>5. InBlock(a, i) <=> InBlock(t, i)
    <2>1. \A b : b < i /\ b \in 1 .. Len(t) => b \in 1 .. m
        BY <1>2
    <2>2. \A b \in 1 .. m : \A j \in (b + 1) .. (i - 1) : j \in 1 .. m
        BY <1>2
    <2>3. \A b \in 1 .. m :
             (\A j \in (b + 1) .. (i - 1) : j \notin Is(a, "close"))
             <=> (\A j \in (b + 1) .. (i - 1) : j \notin Is(t, "close"))
        BY <1>3, <2>2
    <2>4. \A b : b \in Is(a, "site") /\ b < i <=> b \in Is(t, "site") /\ b < i
        BY <1>2, <1>3, <1>4, <2>1
    <2> QED BY <1>4, <2>1, <2>3, <2>4 DEF InBlock
<1>6. AllowedKeys(a, i) = AllowedKeys(t, i) /\ a[i] = t[i]
    BY <1>1, <1>5 DEF AllowedKeys
<1>7. Wrong(a, i) <=> Wrong(t, i)
    BY <1>3, <1>5, <1>6 DEF Wrong
<1> QED BY <1>7 DEF a

\* The first wrong line of a text is the first one that is wrong when read.
LEMMA FirstWrong ==
    ASSUME NEW t \in Seq(Lines), NEW m \in Nat, m < Len(t),
           WrongLines(SubSeq(t, 1, m)) = {}, Wrong(SubSeq(t, 1, m + 1), m + 1)
    PROVE  WrongLines(t) # {} /\ Min(WrongLines(t)) = m + 1
<1>1. /\ Len(t) \in Nat /\ DOMAIN t = 1 .. Len(t)
      /\ m \in 0 .. Len(t) /\ m + 1 \in 0 .. Len(t)
    BY LenProperties
<1>2. m + 1 \in WrongLines(t)
    <2>1. m + 1 \in 1 .. (m + 1) /\ m + 1 \in DOMAIN t
        BY <1>1
    <2> QED BY <1>1, <2>1, WrongPrefix DEF WrongLines
<1>3. \A i \in WrongLines(t) : m + 1 <= i
    <2> SUFFICES ASSUME NEW i \in WrongLines(t), i \in 1 .. m PROVE FALSE
        BY <1>1 DEF WrongLines
    <2>1. Wrong(SubSeq(t, 1, m), i)
        BY <1>1, WrongPrefix DEF WrongLines
    <2>2. DOMAIN SubSeq(t, 1, m) = 1 .. m
        BY <1>1, Prefix, LenProperties
    <2> QED BY <2>1, <2>2 DEF WrongLines
<1>4. WrongLines(t) \in SUBSET (0 .. Len(t)) /\ \A i \in WrongLines(t) : i \in Nat
    BY <1>1 DEF WrongLines
<1>5. Min(WrongLines(t)) \in WrongLines(t) /\ Min(WrongLines(t)) <= m + 1
    BY <1>1, <1>2, <1>4, FirstAndLast
<1>6. Min(WrongLines(t)) \in Nat /\ m + 1 <= Min(WrongLines(t))
    BY <1>3, <1>4, <1>5
<1>7. Min(WrongLines(t)) = m + 1
    BY <1>5, <1>6
<1> QED BY <1>2, <1>7

----------------------------------------------------------------------------
(* The end of the text *)

\* A site is resolved to what the text means by it.
LEMMA SiteMeant ==
    ASSUME NEW t \in Seq(Lines), NEW s, Describes(t, s),
           NEW tp, tp = [k \in TopKeys |-> TopValue(t, k)], NEW k \in DOMAIN Shared
    PROVE  Resolve(SharedOf(tp), s)[k] =
              LastSet(t, Block(t, s.line), k, TopValue(t, k))
<1> DEFINE ov == s.overrides
           m  == Len(ov)
           b  == s.line
           d  == SharedOf(tp)
           at == {i \in Block(t, b) \cap Is(t, "set") : t[i].key = k}
           on == {j \in 1 .. m : ov[j][2] = k}
<1>1. s \in PendingSite /\ Deferred(t, s) /\ b \in Nat
    BY DEF Describes, PendingSite
<1>2. ov \in Seq(Nat \X (DOMAIN Shared) \X Setting)
    BY <1>1 DEF PendingSite
<1>3. /\ m \in Nat /\ DOMAIN ov = 1 .. m
      /\ \A j \in 1 .. m : ov[j] \in Nat \X (DOMAIN Shared) \X Setting
    BY <1>2, LenProperties, ElementOfSeq
<1>4. \A j \in 1 .. m : ov[j][1] \in Nat /\ ov[j][2] \in DOMAIN Shared
    <2> SUFFICES ASSUME NEW j \in 1 .. m
                 PROVE  ov[j][1] \in Nat /\ ov[j][2] \in DOMAIN Shared
        OBVIOUS
    <2>1. ov[j] \in Nat \X (DOMAIN Shared) \X Setting
        BY <1>3
    <2> HIDE DEF ov
    <2> QED BY <2>1
<1>5. /\ DOMAIN d = DOMAIN Shared /\ IsFunction(d) /\ d[k] = TopValue(t, k)
    <2>1. \A f \in DOMAIN Shared : f \in TopKeys
        BY DEF TopKeys
    <2> QED BY <2>1 DEF SharedOf, IsFunction
<1> HIDE DEF d
<1>6. Resolve(d, s)[k] = LastOverride(d, ov, 1 .. m, k)
    <2>1. \A j \in 1 .. m : s.overrides[j][2] \in DOMAIN d
        BY <1>4, <1>5
    <2>2. k \in DOMAIN d /\ DOMAIN s.overrides = 1 .. m
        BY <1>3, <1>5
    <2> HIDE DEF m
    <2> QED BY <1>3, <1>5, <2>1, <2>2, Resolved
<1>7. /\ at \in SUBSET (0 .. Len(t)) /\ Len(t) \in Nat
      /\ \A i \in at : i \in Overriding(t, b) /\ t[i].key = k
    <2>1. Block(t, b) \in SUBSET (1 .. Len(t)) /\ Len(t) \in Nat
        BY <1>1, Blocks, LenProperties
    <2>2. 1 .. Len(t) \subseteq 0 .. Len(t)
        BY <2>1
    <2>3. \A i \in at : i \in Overriding(t, b) /\ t[i].key = k
        BY DEF Overriding
    <2>4. at \subseteq Block(t, b)
        OBVIOUS
    <2> HIDE DEF at
    <2> QED BY <2>1, <2>2, <2>3, <2>4
<1>8. \A j \in 1 .. m :
         /\ ov[j][1] \in Overriding(t, b) /\ ov[j][2] = t[ov[j][1]].key
         /\ ov[j][3] = Meant(t[ov[j][1]])
    BY <1>1, <1>3 DEF Deferred
<1>9. \A i, j \in 1 .. m : i < j => ov[i][1] < ov[j][1]
    BY <1>1, <1>3 DEF Deferred
<1>10. \A i \in Overriding(t, b) : \E j \in 1 .. m : ov[j][1] = i
    BY <1>1, <1>3 DEF Deferred
<1>11. \A j \in on : ov[j][1] \in at
    BY <1>8 DEF Overriding
<1>12. CASE at = {}
    <2>1. on = {}
        BY <1>11, <1>12
    <2>2. LastOverride(d, ov, 1 .. m, k) = d[k]
        BY <2>1 DEF LastOverride
    <2>3. LastSet(t, Block(t, b), k, TopValue(t, k)) = TopValue(t, k)
        BY <1>12 DEF LastSet
    <2> HIDE DEF ov, m, b
    <2> QED BY <1>5, <1>6, <2>2, <2>3 DEF d, b
<1>13. CASE at # {}
    <2>1. Max(at) \in at /\ \A i \in at : i <= Max(at)
        <3> HIDE DEF at
        <3> QED BY <1>7, <1>13, FirstAndLast
    <2>2. PICK j \in 1 .. m : ov[j][1] = Max(at)
        BY <1>7, <1>10, <2>1
    <2>3. j \in on
        BY <1>7, <1>8, <2>1, <2>2
    <2>4. on \in SUBSET (0 .. m) /\ on \subseteq 1 .. m
        BY <1>3
    <2>5. Max(on) \in on /\ \A i \in on : i <= Max(on)
        <3> HIDE DEF on
        <3> QED BY <1>3, <2>3, <2>4, FirstAndLast
    <2>6. Max(on) = j
        <3>1. ov[Max(on)][1] \in at /\ j <= Max(on)
            BY <1>11, <2>3, <2>5
        <3>2. ov[Max(on)][1] <= ov[j][1]
            BY <2>1, <2>2, <3>1
        <3>3. Max(on) \in 1 .. m
            BY <2>4, <2>5
        <3>4. ~(j < Max(on))
            <4> SUFFICES ASSUME j < Max(on) PROVE FALSE
                OBVIOUS
            <4>1. ov[j][1] < ov[Max(on)][1]
                BY <1>9, <3>3
            <4>2. ov[j][1] \in Nat /\ ov[Max(on)][1] \in Nat
                BY <1>4, <3>3
            <4> HIDE DEF on, ov
            <4> QED BY <3>2, <4>1, <4>2
        <3> HIDE DEF on, at
        <3> QED BY <1>3, <3>1, <3>3, <3>4
    <2>7. LastOverride(d, ov, 1 .. m, k) = ov[j][3]
        BY <2>3, <2>6 DEF LastOverride
    <2>8. ov[j][3] = Meant(t[Max(at)])
        BY <1>8, <2>2
    <2>9. LastSet(t, Block(t, b), k, TopValue(t, k)) = Meant(t[Max(at)])
        BY <1>13 DEF LastSet
    <2> HIDE DEF ov, m, b, at
    <2> QED BY <1>6, <2>7, <2>8, <2>9 DEF d, b
<1> QED BY <1>12, <1>13

\* What a site is resolved to has the shared keys.
LEMMA ResolvedDomain ==
    ASSUME NEW t \in Seq(Lines), NEW s, Describes(t, s), NEW tp
    PROVE  /\ IsFunction(Resolve(SharedOf(tp), s))
           /\ DOMAIN Resolve(SharedOf(tp), s) = DOMAIN Shared
<1> DEFINE ov == s.overrides
           d  == SharedOf(tp)
           m  == Len(ov)
<1>1. ov \in Seq(Nat \X (DOMAIN Shared) \X Setting)
    BY DEF Describes, PendingSite
<1>2. /\ m \in Nat /\ DOMAIN ov = 1 .. m
      /\ \A j \in 1 .. m : ov[j] \in Nat \X (DOMAIN Shared) \X Setting
    BY <1>1, LenProperties, ElementOfSeq
<1>3. \A j \in 1 .. m : ov[j][2] \in DOMAIN Shared
    <2> SUFFICES ASSUME NEW j \in 1 .. m PROVE ov[j][2] \in DOMAIN Shared
        OBVIOUS
    <2>1. ov[j] \in Nat \X (DOMAIN Shared) \X Setting
        BY <1>2
    <2> HIDE DEF ov
    <2> QED BY <2>1
<1>4. DOMAIN d = DOMAIN Shared /\ IsFunction(d)
    BY DEF SharedOf, IsFunction
<1> HIDE DEF d, m
<1>5. IsFunction(Resolve(d, s)) /\ DOMAIN Resolve(d, s) = DOMAIN d
    BY <1>2, <1>3, <1>4, Resolved
<1> QED BY <1>4, <1>5 DEF d

\* The sites of a text that was read to its end, each described.
Complete(t, tp, pd) ==
    /\ t \in Seq(Lines) /\ Faithful(t, tp, pd, None)

\* The site of a place, and the place of a site.
LEMMA Placed ==
    ASSUME NEW t, NEW tp, NEW pd, Complete(t, tp, pd)
    PROVE  /\ Len(pd) \in Nat /\ DOMAIN pd = 1 .. Len(pd)
           /\ Cardinality(Is(t, "site")) = Len(pd)
           /\ \A i \in 1 .. Len(pd) : Rank(t, pd[i].line) = i
           /\ \A b \in Is(t, "site") : \E i \in 1 .. Len(pd) : pd[i].line = b
<1> DEFINE m == Len(pd)
           f == [i \in 1 .. m |-> pd[i].line]
<1>1. /\ pd \in Seq(PendingSite) /\ \A i \in DOMAIN pd : Describes(t, pd[i])
      /\ Is(t, "site") = {pd[i].line : i \in DOMAIN pd}
      /\ \A i, j \in DOMAIN pd : i < j => pd[i].line < pd[j].line
    BY DEF Complete, Faithful
<1>2. m \in Nat /\ DOMAIN pd = 1 .. m
    BY <1>1, LenProperties
<1>3. \A i \in 1 .. m : f[i] \in Nat
    BY <1>1, <1>2 DEF Describes, PendingSite
<1>4. Is(t, "site") = {f[i] : i \in 1 .. m}
    BY <1>1, <1>2
<1>5. \A i, j \in 1 .. m : i < j => f[i] < f[j]
    BY <1>1, <1>2
<1>6. \A i \in 1 .. m : f[i] = pd[i].line
    OBVIOUS
<1> HIDE DEF f
<1>7. /\ Cardinality(Is(t, "site")) = m
      /\ \A i \in 1 .. m : Cardinality(Upto(Is(t, "site"), f[i])) = i
    <2> DEFINE S == Is(t, "site")
    <2>1. S = Image(f, m)
        BY <1>4 DEF Image
    <2> HIDE DEF m, S
    <2>2. /\ Cardinality(S) = m
          /\ \A i \in 1 .. m : Cardinality(Upto(S, f[i])) = i
        BY <1>2, <1>3, <1>5, <2>1, Ranked
    <2> QED BY <2>2 DEF S
<1>8. \A i \in 1 .. m : Rank(t, pd[i].line) = i
    BY <1>6, <1>7 DEF Rank, Upto
<1> QED BY <1>2, <1>4, <1>6, <1>7, <1>8

\* What is refused of a described site is what it lacks, at its own line.
LEMMA ErrorMeant ==
    ASSUME NEW t \in Seq(Lines), NEW s, Describes(t, s)
    PROVE  ErrorIn(s) = IF Faulty(s) THEN s.line ELSE None
<1> DEFINE I == {i \in 1 .. Len(s.overrides) : s.overrides[i][3] = Bad}
<1>1. s \in PendingSite /\ Deferred(t, s)
    BY DEF Describes
<1>2. DOMAIN s.overrides = 1 .. Len(s.overrides)
    BY <1>1, LenProperties DEF PendingSite
<1>3. I = {}
    BY <1>1, <1>2 DEF Deferred
<1>4. LateIn(s) = 0
    BY <1>3 DEF LateIn, SelectInSeq
<1>5. CASE Faulty(s)
    BY <1>5 DEF ErrorIn
<1>6. CASE ~Faulty(s)
    BY <1>4, <1>6 DEF ErrorIn
<1> QED BY <1>5, <1>6

\* A site that lacks something is described as incomplete, and no other is.
LEMMA FaultyMeant ==
    ASSUME NEW t, NEW s, Describes(t, s)
    PROVE  Faulty(s) <=> \/ SiteValue(t, s.line, "cert") = None
                         \/ SiteValue(t, s.line, "key") = None
                         \/ /\ SiteValue(t, s.line, "root") = None
                            /\ Rules(t, s.line) = 0
<1>1. /\ s.cert = SiteValue(t, s.line, "cert")
      /\ s.key = SiteValue(t, s.line, "key")
      /\ s.root = SiteValue(t, s.line, "root")
      /\ s.rules = Rules(t, s.line)
    BY DEF Describes, SiteOnly
<1> QED BY <1>1 DEF Faulty

\* A finished site is resolved to its meaning.
LEMMA ConfigMeant ==
    ASSUME NEW s, Describes(text, s), text \in Seq(Lines),
           top = [k \in TopKeys |-> TopValue(text, k)]
    PROVE  SiteConfig(s) = Meaning(text, s.line)
<1> DEFINE b == s.line
           T == [k \in DOMAIN Shared |->
                    LastSet(text, Block(text, b), k, TopValue(text, k))]
           R == Resolve(SharedOf(top), s)
<1>1. /\ s.root = SiteValue(text, b, "root") /\ s.cert = SiteValue(text, b, "cert")
      /\ s.key = SiteValue(text, b, "key") /\ s.rules = Rules(text, b)
      /\ s.force_ssl = SiteValue(text, b, "force_ssl")
      /\ s.canonical_urls = SiteValue(text, b, "canonical_urls")
    BY DEF Describes, SiteOnly
<1>2. \A k \in DOMAIN Shared : R[k] = T[k]
    BY SiteMeant
<1>3. IsFunction(R) /\ DOMAIN R = DOMAIN Shared
    BY ResolvedDomain
<1>4. R = T
    <2>1. IsFunction(T) /\ DOMAIN T = DOMAIN Shared
        BY DEF IsFunction
    <2> HIDE DEF R, T
    <2> QED BY <1>2, <1>3, <2>1 DEF IsFunction
<1> QED BY <1>1, <1>4 DEF SiteConfig, Meaning

----------------------------------------------------------------------------
(* The inductive invariant *)

\* The settings are in range.
TopTyped(tp) ==
    /\ DOMAIN tp = TopKeys
    /\ \A k \in DOMAIN Highest : tp[k] \in 0 .. Highest[k]
    /\ tp.max_response_secs \in 0 .. MaxSecs
    /\ tp.max_file_size \in 0 .. UsizeMax
    /\ tp.max_total_bytes \in 0 .. UsizeMax

\* The sites are on lines that were read, and their levels are in range.
SitesRead(m, pd, c) ==
    /\ c = None \/ (c.line \in 1 .. m /\ InRange(c))
    /\ \A i \in DOMAIN pd : pd[i].line \in 1 .. m /\ InRange(pd[i])

\* While it reads, the parser holds what the lines read mean; its result is
\* right for the whole text.
IInv == /\ text \in Texts /\ n \in 0 .. Len(text)
        /\ TopTyped(top) /\ SitesRead(n, pending, cur)
        /\ result.status = "reading" => Faithful(Read, top, pending, cur)
        /\ AcceptedAsWritten /\ RejectedForCause

\* A level that overrides a default was checked at its line.
LEMMA LevelsDescribed ==
    ASSUME NEW t \in Seq(Lines), NEW s, Describes(t, s)
    PROVE  InRange(s)
<1> SUFFICES ASSUME NEW j \in DOMAIN s.overrides,
                    s.overrides[j][2] \in DOMAIN Highest
             PROVE  s.overrides[j][3] \in 0 .. Highest[s.overrides[j][2]]
    BY DEF InRange
<1> DEFINE o == s.overrides[j]
           l == t[o[1]]
<1>1. /\ o[1] \in Overriding(t, s.line) /\ o[2] = l.key
      /\ o[3] = Meant(l) /\ o[3] # Bad
    BY DEF Describes, Deferred
<1>2. l \in Lines /\ l.kind = "set"
    BY <1>1, LenProperties, ElementOfSeq DEF Overriding, Block, Is
<1>3. /\ l.value \in [word: STRING, num: Nat, unit: Units]
      /\ Stripped(l.hashes) \in Seq(Hashes)
    BY <1>2, LineParts
<1> HIDE DEF l
<1>4. KeyType[o[2]] = "level"
    BY KeyTyped
<1>5. o[3] = Parse(o[2], l.value, Stripped(l.hashes))
    BY <1>1, <1>4 DEF Meant
<1> HIDE DEF o
<1>6. o[3] \in 0 .. Highest[o[2]]
    BY <1>1, <1>3, <1>4, <1>5, ParseTyped
<1> QED BY <1>6 DEF o

\* What is described stands on a line that was read.
LEMMA SitesTyped ==
    ASSUME NEW t \in Seq(Lines), NEW tp, NEW pd, NEW c, Faithful(t, tp, pd, c)
    PROVE  SitesRead(Len(t), pd, c)
<1>1. Is(t, "site") \subseteq 1 .. Len(t)
    BY LenProperties DEF Is
<1>2. \A i \in DOMAIN pd : pd[i].line \in 1 .. Len(t) /\ InRange(pd[i])
    BY <1>1, LevelsDescribed DEF Faithful, Describes
<1>3. c # None => c.line \in 1 .. Len(t) /\ InRange(c)
    BY <1>1, LevelsDescribed DEF Faithful, Describes
<1> QED BY <1>2, <1>3 DEF SitesRead

\* What a step that reads a line starts from.
LEMMA Ready ==
    ASSUME IInv, NEW kind, Reading(kind)
    PROVE  /\ text \in Seq(Lines) /\ n \in Nat /\ n < Len(text)
           /\ Line \in Lines /\ Line.kind = kind /\ LineNo = n + 1
           /\ Len(Read) = n /\ Extended(Read, Line, SubSeq(text, 1, n + 1))
           /\ Faithful(Read, top, pending, cur)
<1>1. text \in Seq(Lines) /\ n \in Nat
    BY Constants DEF IInv
<1>2. /\ n < Len(text) /\ Line.kind = kind /\ LineNo = n + 1
      /\ Faithful(Read, top, pending, cur)
    BY DEF Reading, LineNo, IInv
<1> QED BY <1>1, <1>2, ReadOn DEF Read, Line

\* A line that is right takes the parser to what the lines mean with it.
LEMMA Accepting ==
    ASSUME IInv, NEW kind, Reading(kind), Accept, TopTyped(top'),
           Faithful(SubSeq(text, 1, n + 1), top', pending', cur')
    PROVE  IInv'
<1> DEFINE u == SubSeq(text, 1, n + 1)
<1>1. /\ text' = text /\ n' = n + 1 /\ result' = result
      /\ result.status = "reading"
    BY DEF Accept, Reading, LineNo
<1>2. text \in Seq(Lines) /\ n \in Nat /\ n < Len(text)
    BY Ready
<1>3. Len(text) \in Nat /\ n + 1 \in 0 .. Len(text)
    BY <1>2, LenProperties
<1>4. u \in Seq(Lines) /\ Len(u) = n + 1
    BY <1>2, <1>3, Prefix
<1>5. SitesRead(n + 1, pending', cur')
    <2> HIDE DEF u
    <2>1. Faithful(u, top', pending', cur')
        BY DEF u
    <2> QED BY <1>4, <2>1, SitesTyped
<1>6. /\ text' \in Texts /\ n' \in 0 .. Len(text')
      /\ SitesRead(n', pending', cur')
      /\ Faithful(SubSeq(text', 1, n'), top', pending', cur')
    BY <1>1, <1>3, <1>5 DEF IInv
<1>7. AcceptedAsWritten' /\ RejectedForCause'
    BY <1>1 DEF AcceptedAsWritten, RejectedForCause, Accepted, Rejected
<1> QED BY <1>6, <1>7 DEF IInv, Read

\* A line that is refused is the first wrong one of the text.
LEMMA Rejecting ==
    ASSUME IInv, NEW kind, Reading(kind), Reject(LineNo), Refused(Line, cur)
    PROVE  IInv'
<1> DEFINE u == SubSeq(text, 1, n + 1)
<1>1. /\ text' = text /\ n' = n + 1 /\ top' = top /\ pending' = pending
      /\ cur' = cur /\ result' = [status |-> "rejected", error |-> n + 1]
    BY DEF Reject, LineNo
<1>2. /\ text \in Seq(Lines) /\ n \in Nat /\ n < Len(text)
      /\ Extended(Read, Line, u) /\ Faithful(Read, top, pending, cur)
      /\ Len(Read) = n
    BY Ready
<1>3. Len(text) \in Nat /\ n + 1 \in 0 .. Len(text)
    BY <1>2, LenProperties
<1>4. Wrong(u, n + 1)
    <2> HIDE DEF u
    <2> QED BY <1>2, WrongHere
<1>5. WrongLines(Read) = {}
    BY <1>2 DEF Faithful
<1>6. WrongLines(text) # {} /\ Min(WrongLines(text)) = n + 1
    BY <1>2, <1>4, <1>5, FirstWrong DEF Read
<1>7. result'.status = "rejected" /\ result'.error = n + 1
    BY <1>1
<1>8. RejectedForCause'
    BY <1>1, <1>6, <1>7 DEF RejectedForCause
<1>9. AcceptedAsWritten'
    BY <1>7 DEF AcceptedAsWritten, Accepted
<1>10. SitesRead(n + 1, pending, cur)
    <2>1. SitesRead(n, pending, cur)
        BY DEF IInv
    <2>2. \A i : i \in 1 .. n => i \in 1 .. (n + 1)
        BY <1>2
    <2> QED BY <2>1, <2>2 DEF SitesRead
<1>11. /\ text' \in Texts /\ n' \in 0 .. Len(text') /\ TopTyped(top')
       /\ SitesRead(n', pending', cur')
    BY <1>1, <1>3, <1>10 DEF IInv
<1> QED BY <1>7, <1>8, <1>9, <1>11 DEF IInv

----------------------------------------------------------------------------
(* The steps *)

\* A blank line changes no setting.
LEMMA BlankStep ==
    ASSUME IInv, Blank
    PROVE  IInv'
<1>1. /\ Reading("blank") /\ Accept
      /\ top' = top /\ pending' = pending /\ cur' = cur
    BY DEF Blank
<1>2. /\ Extended(Read, Line, SubSeq(text, 1, n + 1)) /\ Line.kind = "blank"
      /\ Faithful(Read, top, pending, cur)
    BY <1>1, Ready
<1>3. Faithful(SubSeq(text, 1, n + 1), top, pending, cur)
    BY <1>2, BlankLine
<1>4. TopTyped(top')
    BY <1>1 DEF IInv
<1> QED BY <1>1, <1>3, <1>4, Accepting

\* A line that is none of the kinds there are is the first wrong one.
LEMMA JunkStep ==
    ASSUME IInv, Junk
    PROVE  IInv'
<1>1. Reading("junk") /\ Reject(LineNo)
    BY DEF Junk
<1>2. Refused(Line, cur)
    BY <1>1, Ready DEF Refused
<1> QED BY <1>1, <1>2, Rejecting

\* A `}` finishes a block, or is wrong outside of one.
LEMMA CloseStep ==
    ASSUME IInv, CloseSite
    PROVE  IInv'
<1>1. Reading("close") /\ Line.kind = "close"
    BY DEF CloseSite, Reading
<1>2. CASE cur = None /\ Reject(LineNo)
    BY <1>1, <1>2, Rejecting DEF Refused
<1>3. CASE /\ cur # None /\ Accept /\ top' = top
           /\ pending' = Append(pending, cur) /\ cur' = None
    <2>1. /\ Extended(Read, Line, SubSeq(text, 1, n + 1))
          /\ Faithful(Read, top, pending, cur)
        BY <1>1, Ready
    <2>2. Faithful(SubSeq(text, 1, n + 1), top, Append(pending, cur), None)
        BY <1>1, <1>3, <2>1, CloseLine
    <2>3. TopTyped(top')
        BY <1>3 DEF IInv
    <2> QED BY <1>1, <1>3, <2>2, <2>3, Accepting
<1> QED BY <1>2, <1>3 DEF CloseSite

\* A block begins with nothing but its line and the defaults.
LEMMA NewSiteTyped ==
    ASSUME n \in Nat
    PROVE  /\ NewSite \in PendingSite /\ NewSite.line = n + 1
           /\ NewSite.overrides = <<>> /\ NewSite.rules = 0
           /\ \A k \in DOMAIN SiteOnly : NewSite[k] = SiteDefault[k]
<1>1. None \in Setting /\ TRUE \in Setting /\ FALSE \in Setting
    BY DEF Setting
<1>2. <<>> \in Seq(Nat \X (DOMAIN Shared) \X Setting)
    BY EmptySeq
<1>3. LineNo \in Nat
    BY DEF LineNo
<1>4. NewSite \in PendingSite
    <2> HIDE DEF Setting
    <2> QED BY <1>1, <1>2, <1>3 DEF NewSite, PendingSite
<1>5. NewSite.line = n + 1 /\ NewSite.overrides = <<>> /\ NewSite.rules = 0
    BY DEF NewSite, LineNo
<1>6. \A k \in DOMAIN SiteOnly : NewSite[k] = SiteDefault[k]
    <2>1. /\ NewSite.root = SiteDefault.root /\ NewSite.cert = SiteDefault.cert
          /\ NewSite.key = SiteDefault.key
        BY DEF NewSite, SiteDefault
    <2>2. /\ NewSite.force_ssl = SiteDefault.force_ssl
          /\ NewSite.canonical_urls = SiteDefault.canonical_urls
        BY DEF NewSite, SiteDefault
    <2>3. DOMAIN SiteOnly = {"root", "cert", "key", "force_ssl", "canonical_urls"}
        BY DEF SiteOnly
    <2> QED BY <2>1, <2>2, <2>3
<1> QED BY <1>4, <1>5, <1>6

\* A `site` line starts a block, or is wrong.
LEMMA OpenStep ==
    ASSUME IInv, OpenSite
    PROVE  IInv'
<1>1. Reading("site") /\ Line.kind = "site"
    BY DEF OpenSite, Reading
<1>2. CASE /\ cur # None \/ Line.form \in {"flat", "nobrace", "nohosts"}
           /\ Reject(LineNo)
    <2>1. Refused(Line, cur)
        BY <1>1, <1>2 DEF Refused
    <2> QED BY <1>1, <1>2, <2>1, Rejecting
<1>3. CASE /\ cur = None /\ Line.form = "block" /\ cur' = NewSite /\ Accept
           /\ top' = top /\ pending' = pending
    <2>1. /\ Extended(Read, Line, SubSeq(text, 1, n + 1)) /\ n \in Nat
          /\ Faithful(Read, top, pending, None) /\ Len(Read) = n
        BY <1>1, <1>3, Ready
    <2>2. Faithful(SubSeq(text, 1, n + 1), top, pending, NewSite)
        <3>1. /\ NewSite \in PendingSite /\ NewSite.line = n + 1
              /\ NewSite.overrides = <<>> /\ NewSite.rules = 0
              /\ \A k \in DOMAIN SiteOnly : NewSite[k] = SiteDefault[k]
            BY <2>1, NewSiteTyped
        <3> QED BY <1>1, <1>3, <2>1, <3>1, OpenLine
    <2>3. TopTyped(top')
        BY <1>3 DEF IInv
    <2> QED BY <1>1, <1>3, <2>2, <2>3, Accepting
<1> QED BY <1>2, <1>3 DEF OpenSite

\* A redirect is one rule more of its block, or is wrong.
LEMMA RuleStep ==
    ASSUME IInv, RedirectRule
    PROVE  IInv'
<1>1. Reading("redirect") /\ Line.kind = "redirect"
    BY DEF RedirectRule, Reading
<1>2. CASE /\ \/ cur = None
              \/ Line.form \in {"flat", "noarrow", "nopattern", "refused"}
           /\ Reject(LineNo)
    <2>1. Refused(Line, cur)
        BY <1>1, <1>2 DEF Refused
    <2> QED BY <1>1, <1>2, <2>1, Rejecting
<1>3. CASE /\ cur # None /\ Line.form = "rule" /\ Accept
           /\ cur' = [cur EXCEPT !.rules = @ + 1]
           /\ top' = top /\ pending' = pending
    <2>1. /\ Extended(Read, Line, SubSeq(text, 1, n + 1))
          /\ Faithful(Read, top, pending, cur)
        BY <1>1, Ready
    <2>2. cur \in PendingSite
        BY <1>3, <2>1 DEF Faithful
    <2>3. /\ cur' \in PendingSite /\ cur'.line = cur.line
          /\ cur'.overrides = cur.overrides /\ cur'.rules = cur.rules + 1
          /\ \A k \in DOMAIN SiteOnly : cur'[k] = cur[k]
        BY <1>3, <2>2, RuleCounted
    <2>4. Faithful(SubSeq(text, 1, n + 1), top, pending, cur')
        <3>1. cur # None /\ Line.form = "rule"
            BY <1>3
        <3> QED BY <1>1, <2>1, <2>3, <3>1, RuleLine
    <2>5. TopTyped(top')
        BY <1>3 DEF IInv
    <2> QED BY <1>1, <1>3, <2>4, <2>5, Accepting
<1> QED BY <1>2, <1>3 DEF RedirectRule

\* The value of the line, if it is none of the errors.
LEMMA ValueTyped ==
    ASSUME IInv, Reading("set"), Value # Bad
    PROVE  /\ Value \in Setting /\ Line.key \in DOMAIN KeyType
           /\ KeyType[Line.key] = "level" => Value \in 0 .. Highest[Line.key]
           /\ KeyType[Line.key] = "deadline" => Value \in 0 .. MaxSecs
           /\ KeyType[Line.key] = "size" => Value \in 0 .. UsizeMax
<1>1. Line \in Lines /\ Line.kind = "set"
    BY Ready
<1>2. /\ Line.value \in [word: STRING, num: Nat, unit: Units]
      /\ Stripped(Line.hashes) \in Seq(Hashes)
    BY <1>1, LineParts
<1>3. Value = Parse(Line.key, Line.value, Stripped(Line.hashes))
    BY DEF Value
<1> QED BY <1>2, <1>3, ParseTyped

\* A setting in a block is a field, an override, or wrong.
LEMMA SettingStep ==
    ASSUME IInv, SiteSetting
    PROVE  IInv'
<1> DEFINE k == Line.key
           u == SubSeq(text, 1, n + 1)
<1>1. Reading("set") /\ Line.kind = "set" /\ cur # None
    BY DEF SiteSetting, Reading
<1>2. /\ Extended(Read, Line, u) /\ Len(Read) = n /\ n \in Nat
      /\ Faithful(Read, top, pending, cur)
    BY <1>1, Ready
<1>3. cur \in PendingSite /\ TopTyped(top)
    BY <1>1, <1>2 DEF Faithful, IInv
<1>4. Value = Parse(k, Line.value, Stripped(Line.hashes))
    BY DEF Value
<1> HIDE DEF u
<1>5. CASE /\ k \in DOMAIN SiteOnly /\ Value # Bad
           /\ cur' = [cur EXCEPT ![k] = Value] /\ Accept
           /\ top' = top /\ pending' = pending
    <2>1. Value \in Setting /\ k \in DOMAIN SiteOnly /\ Value # Bad
        BY <1>1, <1>5, ValueTyped
    <2>2. /\ cur' \in PendingSite /\ cur'.line = cur.line
          /\ cur'.overrides = cur.overrides /\ cur'.rules = cur.rules
          /\ \A f \in DOMAIN SiteOnly :
                cur'[f] = IF f = k THEN Value ELSE cur[f]
        <3> HIDE DEF k
        <3>1. cur' = SetTo(cur, k, Value)
            BY <1>5 DEF SetTo
        <3> QED BY <1>3, <2>1, <3>1, FieldSet
    <2>3. Faithful(u, top, pending, cur')
        BY <1>1, <1>2, <1>4, <2>1, <2>2, SiteLine
    <2> QED BY <1>1, <1>3, <1>5, <2>3, Accepting DEF u
<1>6. CASE /\ CheckedEarly(k) /\ cur' = Overridden(cur, k, Value) /\ Accept
           /\ top' = top /\ pending' = pending
    <2> DEFINE o == <<n + 1, k, Value>>
               q == Append(cur.overrides, o)
    <2>1. Value \in Setting /\ k \in DOMAIN Shared /\ Value # Bad
        BY <1>1, <1>6, ValueTyped DEF CheckedEarly
    <2>2. q \in Seq(Nat \X (DOMAIN Shared) \X Setting)
        <3>1. o \in Nat \X (DOMAIN Shared) \X Setting
            BY <1>2, <2>1
        <3>2. cur.overrides \in Seq(Nat \X (DOMAIN Shared) \X Setting)
            BY <1>3 DEF PendingSite
        <3> HIDE DEF o
        <3> QED BY <3>1, <3>2, AppendProperties
    <2>3. cur' = SetTo(cur, "overrides", q)
        BY <1>6 DEF SetTo, Overridden, LineNo
    <2> HIDE DEF q
    <2>4. /\ cur' \in PendingSite /\ cur'.line = cur.line
          /\ cur'.overrides = q /\ cur'.rules = cur.rules
          /\ \A f \in DOMAIN SiteOnly : cur'[f] = cur[f]
        BY <1>3, <2>2, <2>3, OverrideAdded
    <2>5. cur'.overrides = Append(cur.overrides, <<Len(Read) + 1, k, Value>>)
        BY <1>2, <2>4 DEF q
    <2>6. Faithful(u, top, pending, cur')
        <3>1. /\ cur' \in PendingSite /\ cur'.line = cur.line
              /\ cur'.rules = cur.rules
              /\ \A f \in DOMAIN SiteOnly : cur'[f] = cur[f]
            BY <2>4
        <3> QED BY <1>1, <1>2, <1>4, <2>1, <2>5, <3>1, OverrideLine
    <2> QED BY <1>1, <1>3, <1>6, <2>6, Accepting DEF u
<1>7. CASE /\ ~(k \in DOMAIN SiteOnly /\ Value # Bad) /\ ~CheckedEarly(k)
           /\ Reject(LineNo)
    <2>1. Refused(Line, cur)
        <3>1. \/ k \notin DOMAIN SiteOnly \cup DOMAIN Shared
              \/ Value = Bad
            BY <1>7 DEF CheckedEarly
        <3> QED BY <1>1, <1>4, <3>1 DEF Refused
    <2> QED BY <1>1, <1>7, <2>1, Rejecting
<1> QED BY <1>5, <1>6, <1>7 DEF SiteSetting

\* A top-level setting is in its range.
LEMMA TopKept ==
    ASSUME IInv, Reading("set"), Value # Bad, Line.key \in TopKeys
    PROVE  TopTyped([top EXCEPT ![Line.key] = Value])
<1> DEFINE k == Line.key
           e == [top EXCEPT ![k] = Value]
<1>1. TopTyped(top)
    BY DEF IInv
<1>2. /\ KeyType[k] = "level" => Value \in 0 .. Highest[k]
      /\ KeyType[k] = "deadline" => Value \in 0 .. MaxSecs
      /\ KeyType[k] = "size" => Value \in 0 .. UsizeMax
    BY ValueTyped
<1> HIDE DEF k
<1>3. DOMAIN e = TopKeys /\ \A f \in TopKeys : e[f] = IF f = k THEN Value ELSE top[f]
    BY <1>1 DEF TopTyped
<1> HIDE DEF e
<1>4. ASSUME NEW f \in DOMAIN Highest PROVE e[f] \in 0 .. Highest[f]
    <2>1. f \in TopKeys
        BY DEF Highest, TopKeys, Shared
    <2> QED BY <1>1, <1>2, <1>3, <2>1, KeyTyped DEF TopTyped
<1>5. e.max_response_secs \in 0 .. MaxSecs
    <2>1. "max_response_secs" \in TopKeys
        BY DEF TopKeys, ServerOnly
    <2> QED BY <1>1, <1>2, <1>3, <2>1, KeyTyped DEF TopTyped
<1>6. e.max_file_size \in 0 .. UsizeMax /\ e.max_total_bytes \in 0 .. UsizeMax
    <2>1. "max_file_size" \in TopKeys /\ "max_total_bytes" \in TopKeys
        BY DEF TopKeys, ServerOnly, Shared
    <2> QED BY <1>1, <1>2, <1>3, <2>1, KeyTyped DEF TopTyped
<1>7. TopTyped(e)
    BY <1>3, <1>4, <1>5, <1>6 DEF TopTyped
<1> QED BY <1>7 DEF e, k

\* A setting outside every block is a default, or wrong.
LEMMA TopStep ==
    ASSUME IInv, TopSetting
    PROVE  IInv'
<1> DEFINE u == SubSeq(text, 1, n + 1)
<1>1. Reading("set") /\ Line.kind = "set" /\ cur = None
    BY DEF TopSetting, Reading
<1>2. Extended(Read, Line, u) /\ Faithful(Read, top, pending, None)
    BY <1>1, Ready
<1>3. Value = Parse(Line.key, Line.value, Stripped(Line.hashes))
    BY DEF Value
<1> HIDE DEF u
<1>4. CASE /\ Line.key \in TopKeys /\ Value # Bad /\ Accept
           /\ top' = [top EXCEPT ![Line.key] = Value]
           /\ pending' = pending /\ cur' = cur
    <2>1. TopTyped(top')
        BY <1>1, <1>4, TopKept
    <2>2. Faithful(u, [top EXCEPT ![Line.key] = Value], pending, None)
        BY <1>1, <1>2, <1>3, <1>4, TopLine
    <2>3. Faithful(u, top', pending', cur')
        BY <1>1, <1>4, <2>2
    <2> QED BY <1>1, <1>4, <2>1, <2>3, Accepting DEF u
<1>5. CASE (Line.key \notin TopKeys \/ Value = Bad) /\ Reject(LineNo)
    <2>1. Refused(Line, cur)
        BY <1>1, <1>3, <1>5 DEF Refused
    <2> QED BY <1>1, <1>5, <2>1, Rejecting
<1> QED BY <1>1, <1>4, <1>5 DEF TopSetting

\* The finished blocks that are refused.
Lacking == {i \in 1 .. Len(pending) : ErrorIn(pending[i]) # None}
Missing == \/ top.listen = None \/ pending = <<>>
           \/ top.storage = "disk" /\ NoPath(top.disk_cache)

\* The error of the end: the first of the checks that fails.
LEMMA EndErrorIs ==
    ASSUME pending \in Seq(PendingSite)
    PROVE  EndError = IF cur # None THEN cur.line
                      ELSE IF Missing THEN 0
                      ELSE IF Lacking # {} THEN ErrorIn(pending[Min(Lacking)])
                      ELSE None
<1> DEFINE first == SelectInSeq(pending, LAMBDA s : ErrorIn(s) # None)
<1>1. first = IF Lacking # {} THEN Min(Lacking) ELSE 0
    BY DEF SelectInSeq, Lacking
<1>2. Lacking # {} => Min(Lacking) # 0
    <2>1. Len(pending) \in Nat
        BY LenProperties
    <2>2. Lacking \in SUBSET (0 .. Len(pending)) /\ 0 \notin Lacking
        BY <2>1 DEF Lacking
    <2> QED BY <2>1, <2>2, FirstAndLast
<1>3. EndError = IF cur # None THEN cur.line
                 ELSE IF Missing THEN 0
                 ELSE IF first # 0 THEN ErrorIn(pending[first]) ELSE None
    BY DEF EndError, Unclosed, Missing
<1> HIDE DEF first
<1> QED BY <1>1, <1>2, <1>3

\* What a text has to have, the parser has to hold.
LEMMA MissingMeant ==
    ASSUME text \in Seq(Lines), Faithful(text, top, pending, None)
    PROVE  Missing <=> Unusable(text)
<1>1. /\ top.listen = TopValue(text, "listen")
      /\ top.storage = TopValue(text, "storage")
      /\ top.disk_cache = TopValue(text, "disk_cache")
    BY DEF Faithful, TopKeys, ServerOnly
<1>2. Complete(text, top, pending)
    BY DEF Complete
<1>3. pending = <<>> <=> Is(text, "site") = {}
    <2>1. pending \in Seq(PendingSite)
        BY DEF Faithful
    <2>2. pending = <<>> <=> Len(pending) = 0
        BY <2>1, EmptySeq
    <2>3. /\ Len(pending) \in Nat /\ DOMAIN pending = 1 .. Len(pending)
          /\ Is(text, "site") = {pending[i].line : i \in DOMAIN pending}
        BY <1>2, Placed DEF Faithful
    <2>4. Len(pending) = 0 <=> DOMAIN pending = {}
        <3>1. \A m \in Nat : m = 0 <=> 1 .. m = {}
            OBVIOUS
        <3> QED BY <2>3, <3>1
    <2>5. \A i \in DOMAIN pending : pending[i].line \in Is(text, "site")
        BY <2>3
    <2>6. \A b \in Is(text, "site") : \E i \in DOMAIN pending : pending[i].line = b
        BY <2>3
    <2> QED BY <2>2, <2>4, <2>5, <2>6
<1> QED BY <1>1, <1>3 DEF Missing, Unusable

\* A complaint about the end of the text has its cause in the text.
LEMMA EndWrong ==
    ASSUME text \in Seq(Lines), Faithful(text, top, pending, cur),
           EndError # None
    PROVE  IF EndError = 0 THEN Unusable(text)
           ELSE EndError \in Is(text, "site") /\ Incomplete(text, EndError)
<1>1. pending \in Seq(PendingSite) /\ Is(text, "site") \subseteq 1 .. Len(text)
    BY LenProperties DEF Faithful, Is
<1>2. CASE cur # None
    <2>1. /\ EndError = cur.line /\ cur.line \in Is(text, "site")
          /\ \A i \in Is(text, "close") : i <= cur.line
        BY <1>1, <1>2, EndErrorIs DEF Faithful, Describes
    <2>2. cur.line \in 1 .. Len(text) /\ cur.line # 0 /\ Len(text) \in Nat
        BY <1>1, <2>1, LenProperties
    <2>3. \A i \in Is(text, "close") : i \in 1 .. Len(text) /\ i # cur.line
        BY <2>1, LenProperties DEF Is
    <2>4. \A i \in Is(text, "close") : i < cur.line
        BY <2>1, <2>2, <2>3
    <2> QED BY <2>1, <2>2, <2>4 DEF Incomplete
<1>3. CASE cur = None /\ Missing
    <2>1. EndError = 0
        BY <1>1, <1>3, EndErrorIs
    <2> QED BY <1>3, <2>1, MissingMeant
<1>4. CASE cur = None /\ ~Missing
    <2>1. Lacking # {} /\ EndError = ErrorIn(pending[Min(Lacking)])
        BY <1>1, <1>4, EndErrorIs
    <2>2. Len(pending) \in Nat /\ DOMAIN pending = 1 .. Len(pending)
        BY <1>1, LenProperties
    <2>3. Lacking \in SUBSET (0 .. Len(pending))
        BY <2>2 DEF Lacking
    <2>4. Min(Lacking) \in Lacking
        BY <2>1, <2>2, <2>3, FirstAndLast
    <2>5. PICK i \in 1 .. Len(pending) :
             ErrorIn(pending[i]) # None /\ EndError = ErrorIn(pending[i])
        BY <2>1, <2>4 DEF Lacking
    <2>6. Describes(text, pending[i])
        BY <2>2 DEF Faithful
    <2>7. Faulty(pending[i]) /\ EndError = pending[i].line
        BY <2>5, <2>6, ErrorMeant
    <2>8. pending[i].line \in Is(text, "site") /\ pending[i].line # 0
        BY <1>1, <2>6 DEF Describes
    <2>9. Incomplete(text, pending[i].line)
        BY <2>6, <2>7, FaultyMeant DEF Incomplete
    <2> QED BY <2>7, <2>8, <2>9
<1> QED BY <1>2, <1>3, <1>4

\* No complaint, and the text is one to accept.
LEMMA EndRight ==
    ASSUME text \in Seq(Lines), Faithful(text, top, pending, cur),
           EndError = None
    PROVE  /\ cur = None /\ ~Unusable(text)
           /\ \A b \in Is(text, "site") : ~Incomplete(text, b)
<1>1. pending \in Seq(PendingSite) /\ Is(text, "site") \subseteq 1 .. Len(text)
    BY LenProperties DEF Faithful, Is
<1>2. None \notin Nat /\ 0 \in Nat
    BY Constants
<1>3. cur = None
    <2> SUFFICES ASSUME cur # None PROVE FALSE
        OBVIOUS
    <2>1. cur.line \in Is(text, "site") /\ EndError = cur.line
        BY <1>1, EndErrorIs DEF Faithful, Describes
    <2> QED BY <1>1, <1>2, <2>1
<1>4. ~Missing
    BY <1>1, <1>2, <1>3, EndErrorIs
<1>5. Lacking = {}
    <2> SUFFICES ASSUME Lacking # {} PROVE FALSE
        OBVIOUS
    <2>1. EndError = ErrorIn(pending[Min(Lacking)])
        BY <1>1, <1>3, <1>4, EndErrorIs
    <2>2. Len(pending) \in Nat
        BY <1>1, LenProperties
    <2>3. Lacking \in SUBSET (0 .. Len(pending))
        BY <2>2 DEF Lacking
    <2>4. Min(Lacking) \in Lacking
        BY <2>2, <2>3, FirstAndLast
    <2> QED BY <2>1, <2>4 DEF Lacking
<1>6. ASSUME NEW b \in Is(text, "site") PROVE ~Incomplete(text, b)
    <2>1. Complete(text, top, pending)
        BY <1>3 DEF Complete
    <2>2. PICK i \in 1 .. Len(pending) : pending[i].line = b
        BY <2>1, Placed
    <2>3. DOMAIN pending = 1 .. Len(pending)
        BY <2>1, Placed
    <2>4. /\ Describes(text, pending[i])
          /\ \E j \in Is(text, "close") : pending[i].line < j
        BY <2>2, <2>3 DEF Faithful
    <2>5. ErrorIn(pending[i]) = None
        BY <1>5 DEF Lacking
    <2>6. pending[i].line \in Nat
        BY <2>4 DEF Describes, PendingSite
    <2>7. ~Faulty(pending[i])
        BY <1>2, <2>4, <2>5, <2>6, ErrorMeant
    <2>8. ~(\A j \in Is(text, "close") : j < b)
        <3>1. PICK j \in Is(text, "close") : b < j
            BY <2>2, <2>4
        <3>2. j \in Nat /\ b \in Nat
            BY <1>1, LenProperties DEF Is
        <3>3. ~(j < b)
            BY <3>1, <3>2
        <3> QED BY <3>3
    <2> QED BY <2>2, <2>4, <2>7, <2>8, FaultyMeant DEF Incomplete
<1> QED BY <1>3, <1>4, <1>6, MissingMeant

\* The end of the text.
LEMMA FinishStep ==
    ASSUME IInv, Finish
    PROVE  IInv'
<1>1. /\ text' = text /\ n' = n /\ top' = top /\ pending' = pending /\ cur' = cur
      /\ result.status = "reading" /\ n = Len(text)
      /\ text \in Seq(Lines) /\ text \in Texts
    BY Constants DEF Finish, IInv
<1>2. Faithful(text, top, pending, cur) /\ WrongLines(text) = {}
    <2>1. Read = text
        BY <1>1, SubSeqFull DEF Read
    <2> QED BY <1>1, <2>1 DEF IInv, Faithful
<1>3. CASE EndError # None
    <2>1. result' = [status |-> "rejected", error |-> EndError]
        BY <1>3 DEF Finish
    <2>2. result'.status = "rejected" /\ result'.error = EndError
        BY <2>1
    <2>3. IF EndError = 0 THEN Unusable(text)
          ELSE EndError \in Is(text, "site") /\ Incomplete(text, EndError)
        BY <1>1, <1>2, <1>3, EndWrong
    <2>4. RejectedForCause'
        BY <1>1, <1>2, <2>2, <2>3 DEF RejectedForCause
    <2>5. AcceptedAsWritten'
        BY <2>2 DEF AcceptedAsWritten, Accepted
    <2> QED BY <1>1, <2>2, <2>4, <2>5 DEF IInv
<1>4. CASE EndError = None
    <2> DEFINE sites == [i \in DOMAIN pending |-> SiteConfig(pending[i])]
    <2>1. result' = [status |-> "accepted", top |-> top, sites |-> sites]
        BY <1>4 DEF Finish
    <2> HIDE DEF sites
    <2>2. /\ result'.status = "accepted" /\ result'.top = top
          /\ result'.sites = sites
        BY <2>1
    <2>3. /\ cur = None /\ ~Unusable(text)
          /\ \A b \in Is(text, "site") : ~Incomplete(text, b)
        BY <1>1, <1>2, <1>4, EndRight
    <2>4. Complete(text, top, pending)
        BY <1>1, <1>2, <2>3 DEF Complete
    <2>5. /\ Len(pending) \in Nat /\ DOMAIN pending = 1 .. Len(pending)
          /\ Cardinality(Is(text, "site")) = Len(pending)
          /\ \A i \in 1 .. Len(pending) : Rank(text, pending[i].line) = i
          /\ \A b \in Is(text, "site") :
                \E i \in 1 .. Len(pending) : pending[i].line = b
        BY <2>4, Placed
    <2>6. top = [k \in TopKeys |-> TopValue(text, k)]
        BY <1>2 DEF Faithful
    <2>7. ASSUME NEW b \in Is(text, "site")
          PROVE  sites[Rank(text, b)] = Meaning(text, b)
        <3>1. PICK i \in 1 .. Len(pending) : pending[i].line = b
            BY <2>5
        <3>2. Rank(text, b) = i
            BY <2>5, <3>1
        <3>3. Describes(text, pending[i])
            BY <1>2, <2>5 DEF Faithful
        <3>4. sites[i] = SiteConfig(pending[i])
            BY <2>5 DEF sites
        <3>5. SiteConfig(pending[i]) = Meaning(text, b)
            BY <1>1, <2>6, <3>1, <3>3, ConfigMeant
        <3> QED BY <3>2, <3>4, <3>5
    <2>8. Len(sites) = Len(pending)
        <3>1. DOMAIN sites = 1 .. Len(pending)
            BY <2>5 DEF sites
        <3>2. sites \in Seq({sites[i] : i \in 1 .. Len(pending)})
            BY <2>5, IsASeq DEF sites
        <3> QED BY <2>5, <3>1, <3>2, LenProperties
    <2>9. AcceptedAsWritten'
        <3>1. /\ WrongLines(text') = {} /\ ~Unusable(text')
              /\ \A b \in Is(text', "site") : ~Incomplete(text', b)
            BY <1>1, <1>2, <2>3
        <3>2. result'.top = [k \in TopKeys |-> TopValue(text', k)]
            BY <1>1, <2>2, <2>6
        <3>3. Len(result'.sites) = Cardinality(Is(text', "site"))
            BY <1>1, <2>2, <2>5, <2>8
        <3>4. \A b \in Is(text', "site") :
                 result'.sites[Rank(text', b)] = Meaning(text', b)
            BY <1>1, <2>2, <2>7
        <3> QED BY <3>1, <3>2, <3>3, <3>4 DEF AcceptedAsWritten
    <2>10. RejectedForCause'
        BY <2>2 DEF RejectedForCause, Rejected
    <2> QED BY <1>1, <2>2, <2>9, <2>10 DEF IInv
<1> QED BY <1>3, <1>4

\* A text of which nothing is read says nothing.
LEMMA Started ==
    ASSUME Init
    PROVE  IInv
<1>1. /\ text \in Texts /\ text \in Seq(Lines) /\ n = 0 /\ top = Default
      /\ pending = <<>> /\ cur = None /\ result = [status |-> "reading"]
    BY Constants DEF Init
<1>2. Len(text) \in Nat /\ n \in 0 .. Len(text)
    BY <1>1, LenProperties
<1>3. Read = <<>>
    BY <1>1, SubSeqEmpty DEF Read
<1>4. DOMAIN Default = TopKeys /\ IsFunction(Default)
    BY DEF Default, IsFunction
<1>5. TopTyped(Default)
    <2>1. Default.brotli_quality = 11 /\ Default.gzip_level = 9
        BY DEF Default, Preset, TopKeys, Shared
    <2>2. Default.max_response_secs = 0
        BY DEF Default, Preset, TopKeys, ServerOnly
    <2>3. Default.max_file_size = UsizeMax /\ Default.max_total_bytes = UsizeMax
        BY DEF Default, Preset, TopKeys, Shared, ServerOnly
    <2>4. UsizeMax \in Nat /\ MaxSecs \in Nat
        BY Constants
    <2>5. \A k \in DOMAIN Highest : Default[k] \in 0 .. Highest[k]
        BY <2>1 DEF Highest
    <2> QED BY <1>4, <2>2, <2>3, <2>4, <2>5 DEF TopTyped
<1>6. Faithful(Read, top, pending, cur)
    <2> DEFINE e == Read
    <2>1. DOMAIN e = {} /\ \A kind : Is(e, kind) = {}
        BY <1>3 DEF Is
    <2>2. WrongLines(e) = {}
        BY <2>1 DEF WrongLines
    <2>3. \A k : TopValue(e, k) = Default[k]
        BY <2>1 DEF TopValue, LastSet
    <2>4. top = [k \in TopKeys |-> TopValue(e, k)]
        <3>1. Default = [k \in TopKeys |-> Default[k]]
            BY <1>4 DEF IsFunction
        <3> QED BY <1>1, <2>3, <3>1
    <2>5. pending \in Seq(PendingSite) /\ DOMAIN pending = {}
        BY <1>1, EmptySeq
    <2> HIDE DEF e
    <2>6. Faithful(e, top, pending, cur)
        BY <1>1, <2>1, <2>2, <2>4, <2>5 DEF Faithful
    <2> QED BY <2>6 DEF e
<1>7. SitesRead(n, pending, cur)
    BY <1>1 DEF SitesRead
<1>8. AcceptedAsWritten /\ RejectedForCause
    BY <1>1 DEF AcceptedAsWritten, RejectedForCause, Accepted, Rejected
<1> QED BY <1>1, <1>2, <1>5, <1>6, <1>7, <1>8 DEF IInv

\* The inductive invariant holds in every state.
LEMMA Inductive == Spec => []IInv
<1>1. Init => IInv
    BY Started
<1>2. IInv /\ [Next]_vars => IInv'
    <2> SUFFICES ASSUME IInv, [Next]_vars PROVE IInv'
        OBVIOUS
    <2>1. CASE Blank
        BY <2>1, BlankStep
    <2>2. CASE Junk
        BY <2>2, JunkStep
    <2>3. CASE CloseSite
        BY <2>3, CloseStep
    <2>4. CASE OpenSite
        BY <2>4, OpenStep
    <2>5. CASE RedirectRule
        BY <2>5, RuleStep
    <2>6. CASE SiteSetting
        BY <2>6, SettingStep
    <2>7. CASE TopSetting
        BY <2>7, TopStep
    <2>8. CASE Finish
        BY <2>8, FinishStep
    <2>9. CASE UNCHANGED vars
        BY <2>9 DEF vars, IInv, Read, AcceptedAsWritten, RejectedForCause,
                    Accepted, Rejected
    <2> QED BY <2>1, <2>2, <2>3, <2>4, <2>5, <2>6, <2>7, <2>8, <2>9 DEF Next
<1> QED BY <1>1, <1>2, PTL DEF Spec

----------------------------------------------------------------------------
(* The theorems *)

\* The levels, sizes and deadlines the parser holds are in range, whatever the
\* text, and every site it holds stands on a line that was read
\* (parse_compression_level, parse_deadline_secs, parse_size of
\* src/src/config.rs).
THEOREM ConfigTyped == Spec => []TypeOK
<1>1. IInv => TypeOK
    BY DEF IInv, TypeOK, TopTyped, SitesRead
<1> QED BY <1>1, Inductive, PTL

\* An accepted config is what its text says, line by line and not in the order
\* it was read: no line of it is wrong, every site is complete, and each has
\* its own last value of a key, or else the last top-level one, wherever either
\* stands (parse_config of src/src/config.rs).
THEOREM AcceptedMeansText == Spec => []AcceptedAsWritten
<1>1. IInv => AcceptedAsWritten
    BY DEF IInv
<1> QED BY <1>1, Inductive, PTL

\* No text is rejected that is right, and the line of the error is the first
\* wrong one; or no line is wrong, and what the error names is missing
\* (parse_config of src/src/config.rs).
THEOREM ErrorMeansText == Spec => []RejectedForCause
<1>1. IInv => RejectedForCause
    BY DEF IInv
<1> QED BY <1>1, Inductive, PTL

=============================================================================
