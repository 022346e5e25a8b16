---------------------------- MODULE ContentProofs ----------------------------
(***************************************************************************)
(* Theorems about Content, for every value of its constants: a promoted    *)
(* cache misses nothing that lay still, and the budget holds.              *)
(***************************************************************************)
EXTENDS Content, FiniteSetTheorems, SequenceTheorems, TLAPS

\* A step that leaves the caches alone leaves each of their two parts alone.
USE DEF caches

----------------------------------------------------------------------------
(* The inductive invariant *)

Stacks == Seq(SUBSET Paths)
Bodies == [len: Lens, mtime: Nat]
IsCache(c) == DOMAIN c \subseteq Paths /\ c \in [DOMAIN c -> Bodies]

\* The entries that the walk has still to come to.
In(st) == UNION {st[i] : i \in DOMAIN st}

Walking == pc \in {"walk", "read", "promote"}

Typed ==
    /\ node \in [Paths -> Nodes] /\ edits \in 0 .. MaxEvents
    /\ served = [s \in Sites |-> served[s]]
    /\ IsCache(map) /\ \A s \in Sites : IsCache(served[s])
    /\ pc \in {"sample", "next", "walk", "read", "promote", "sleep", "dead"}
    /\ job \in {"boot", "scan"} /\ todo \subseteq Sites /\ site \in Sites
    /\ total \in Nat /\ stack \in Stacks /\ stat \in Paths \cup {<<>>}

\* A file has one of the lengths there are.
Sized == \A p \in Paths : node[p].kind = "file" => node[p].len \in Lens

\* A walk leaves nothing behind it.
Tidy ==
    /\ ~Walking => map = Empty /\ steady = {}
    /\ pc \notin {"walk", "read"} => stack = <<>>
    /\ stat # <<>> <=> pc = "read"

\* A cache is of the content of its own site, and so is one that is being made
\* and what the walk has open.
Own(s, ps) == \A p \in ps : Site(p) = s /\ p \notin Passed
Owned ==
    /\ \A s \in Sites : Own(s, DOMAIN served[s])
    /\ Own(site, DOMAIN map)
    /\ \A p \in In(stack) : Site(p) = site
    /\ pc = "read" => Site(stat) = site /\ stat \notin Passed

\* Nothing on the way to a file that lies still was missed, unless a directory
\* above it bars the way: it has been read, or it is being read, or it or a
\* directory above it is still to come.
OnTheWay(p) == Ancestors(p) \cup {p}
Lies(p)     == /\ p \in Paths /\ Len(p) > 1 /\ p \notin Passed
               /\ node[p].kind = "file" /\ node[p].len <= MaxFileSize
               /\ \A d \in Ancestors(p) : IsDir(node, d)
Read(p)     == p \in DOMAIN map /\ map[p] = Body(p)
ToCome(p)   == stat = p \/ OnTheWay(p) \cap In(stack) # {}
Missed ==
    \A p \in steady :
        /\ Lies(p)
        /\ "r" \in node[p].mode /\ ~Barred(p) => Read(p) \/ ToCome(p)
        /\ ~Barred(p) => \A q \in In(stack) \cup {stat} :
                            q \in OnTheWay(p) => Reachable(node, q)

Base == Typed /\ Sized /\ Tidy /\ Owned
IInv == Base /\ Missed

\* The bound on faults and the two histories of silent losses.
Marked == faults \in 0 .. MaxFaults /\ lost \in BOOLEAN /\ partial \subseteq Sites

\* The steps of the server, each with the reads that may fail in it.
Signs(f)      == Sample(f) \/ StartWatch(f) \/ Scan(f)
Turns(s)      == \/ BuildSite(s, node) \/ BuildSite(s, Sealed(<<s>>))
                 \/ Consider(s, node) \/ Consider(s, Sealed(<<s>>))
WalksOver(p)  == \/ WalkEntry(p, node) \/ WalkEntry(p, Hidden(p))
                 \/ Opens(node, p) /\ WalkEntry(p, Sealed(p))
Reads         == ReadFile(node) \/ ReadFile(Sealed(stat))

\* The budget of the boot, which has one more error set with every site, and
\* that of a rebuild, which begins with all that is kept.
Errors(n) == ErrorSet * n
Built     == Cardinality(Sites \ todo)
BootBudget ==
    job = "boot" =>
        /\ Held(Sites) + cache_bytes(map) <= MaxTotalBytes
        /\ pc # "sleep" /\ (pc = "sample" => todo = Sites)
        /\ todo = Sites => Held(Sites) = 0
        /\ pc = "next" => /\ Held(Sites) + Errors(1 + Built) <= total
                          /\ todo # Sites => total <= MaxTotalBytes
        /\ Walking =>
              /\ Held(Sites) + cache_bytes(map) + Errors(1 + Built + 1) <= total
              /\ total <= MaxTotalBytes /\ site \in todo
ScanBudget ==
    job = "scan" =>
        /\ Held(Sites) + error_page_bytes <= MaxTotalBytes
        /\ Walking => /\ Seed(site) + cache_bytes(map) <= total
                      /\ total <= MaxTotalBytes

Budgets == BootBudget /\ ScanBudget

----------------------------------------------------------------------------
(* Paths *)

\* A path has at least the name of its root.
LEMMA PathForm ==
    ASSUME NEW p \in Paths
    PROVE  p \in Seq(STRING) /\ Len(p) \in Nat \ {0} /\ p # <<>>
<1> DEFINE P == Seq(STRING) \ {<<>>}
<1>1. PreOrder \in Seq(P)
    BY ConstantsAssumption DEF ConstantsAssumption
<1> HIDE DEF P
<1>2. PICK i \in 1 .. Len(PreOrder) : p = PreOrder[i]
    BY <1>1, LenProperties DEF Paths, ToSet
<1>3. p \in P
    BY <1>1, <1>2, ElementOfSeq
<1> QED BY <1>3, EmptySeq DEF P

\* The path of any number of a path's names.
LEMMA PrefixForm ==
    ASSUME NEW p \in Paths, NEW i \in 1 .. Len(p)
    PROVE  /\ SubSeq(p, 1, i) \in Paths /\ Len(SubSeq(p, 1, i)) = i
           /\ Site(SubSeq(p, 1, i)) = Site(p)
           /\ \A k \in 1 .. i : SubSeq(SubSeq(p, 1, i), 1, k) = SubSeq(p, 1, k)
           /\ Ancestors(SubSeq(p, 1, i)) = {SubSeq(p, 1, k) : k \in 1 .. (i - 1)}
<1>1. p \in Seq(STRING) /\ Len(p) \in Nat \ {0}
    BY PathForm
<1>2. \A k \in 1 .. i : p[k] \in STRING
    BY <1>1, ElementOfSeq
<1>3. /\ Len(SubSeq(p, 1, i)) = i
      /\ SubSeq(p, 1, i)[1] = p[1]
    BY <1>1, <1>2, SubSeqProperties
<1>4. \A k \in 1 .. i : SubSeq(SubSeq(p, 1, i), 1, k) = SubSeq(p, 1, k)
    <2> SUFFICES ASSUME NEW k \in 1 .. i
                 PROVE  SubSeq(SubSeq(p, 1, i), 1, k) = SubSeq(p, 1, k)
        OBVIOUS
    <2>1. 1 \in 1 .. Len(p) /\ 1 \in 1 .. (i - 1 + 1) /\ k \in 1 .. (i - 1 + 1)
        BY <1>1
    <2>2. SubSeq(SubSeq(p, 1, i), 1, k) = SubSeq(p, 1 + 1 - 1, 1 + k - 1)
        BY <1>1, <2>1, SubSeqOfSubSeq
    <2> QED BY <1>1, <2>2
<1>5. SubSeq(p, 1, i) \in Paths
    BY ConstantsAssumption DEF ConstantsAssumption
<1>6. Ancestors(SubSeq(p, 1, i)) = {SubSeq(p, 1, k) : k \in 1 .. (i - 1)}
    <2>1. \A k \in 1 .. (i - 1) : SubSeq(SubSeq(p, 1, i), 1, k) = SubSeq(p, 1, k)
        BY <1>1, <1>4
    <2> HIDE DEF Paths
    <2> QED BY <1>3, <2>1 DEF Ancestors
<1> QED BY <1>3, <1>4, <1>5, <1>6 DEF Site

\* A path's ancestors, and theirs, are paths of the same site.
LEMMA AncestorForm ==
    ASSUME NEW p \in Paths, NEW d \in Ancestors(p) \cup {p}
    PROVE  d \in Paths /\ Site(d) = Site(p) /\ Ancestors(d) \subseteq Ancestors(p)
<1>1. p \in Seq(STRING) /\ Len(p) \in Nat \ {0}
    BY PathForm
<1>2. CASE d = p
    BY <1>2
<1>3. CASE d # p
    <2>1. PICK i \in 1 .. (Len(p) - 1) : d = SubSeq(p, 1, i)
        BY <1>3 DEF Ancestors
    <2>2. i \in 1 .. Len(p)
        BY <1>1, <2>1
    <2>3. d \in Paths /\ Site(d) = Site(p)
          /\ Ancestors(d) = {SubSeq(p, 1, k) : k \in 1 .. (i - 1)}
        BY <2>1, <2>2, PrefixForm
    <2>4. \A k \in 1 .. (i - 1) : k \in 1 .. (Len(p) - 1)
        BY <1>1, <2>1
    <2> QED BY <2>3, <2>4 DEF Ancestors
<1> QED BY <1>2, <1>3

\* Below a directory on the way to a path lies the next one, or the path.
LEMMA NextDown ==
    ASSUME NEW p \in Paths, NEW d \in Ancestors(p)
    PROVE  \E c \in Ancestors(p) \cup {p} :
              /\ c \in Paths /\ Len(c) = Len(d) + 1 /\ Front(c) = d
              /\ Ancestors(c) = Ancestors(d) \cup {d}
<1>1. p \in Seq(STRING) /\ Len(p) \in Nat \ {0}
    BY PathForm
<1>2. PICK i \in 1 .. (Len(p) - 1) : d = SubSeq(p, 1, i)
    BY DEF Ancestors
<1>3. i \in 1 .. Len(p) /\ i + 1 \in 1 .. Len(p) /\ i \in 1 .. (i + 1)
      /\ i + 1 - 1 = i
    BY <1>1, <1>2
<1> DEFINE c == SubSeq(p, 1, i + 1)
<1>4. c \in Ancestors(p) \cup {p}
    <2>1. CASE i + 1 = Len(p)
        BY <1>1, <2>1, SubSeqFull
    <2>2. CASE i + 1 # Len(p)
        <3>1. i + 1 \in 1 .. (Len(p) - 1)
            BY <1>1, <1>3, <2>2
        <3> QED BY <3>1 DEF Ancestors
    <2> QED BY <2>1, <2>2
<1>5. /\ c \in Paths /\ Len(c) = i + 1 /\ SubSeq(c, 1, i) = d
      /\ Ancestors(c) = {SubSeq(p, 1, k) : k \in 1 .. (i + 1 - 1)}
    BY <1>2, <1>3, PrefixForm
<1>6. Len(d) = i /\ Ancestors(d) = {SubSeq(p, 1, k) : k \in 1 .. (i - 1)}
    BY <1>2, <1>3, PrefixForm
<1> HIDE DEF c
<1>7. Front(c) = d
    BY <1>3, <1>5 DEF Front
<1>8. Ancestors(c) = Ancestors(d) \cup {d}
    <2>1. \A k : k \in 1 .. (i + 1 - 1) <=> k \in 1 .. (i - 1) \/ k = i
        BY <1>3
    <2> QED BY <1>2, <1>5, <1>6, <2>1
<1> QED BY <1>4, <1>5, <1>6, <1>7, <1>8

\* The root of a site is above all its content; the entries of a directory are
\* of the same site.
LEMMA RootAbove ==
    ASSUME NEW p \in Paths, Len(p) > 1
    PROVE  <<Site(p)>> \in Ancestors(p) /\ Ancestors(<<Site(p)>>) = {}
<1>1. p \in Seq(STRING) /\ Len(p) \in Nat \ {0}
    BY PathForm
<1>2. \A k \in 1 .. 1 : p[k] \in STRING
    BY <1>1, ElementOfSeq
<1>3. SubSeq(p, 1, 1) = <<p[1]>>
    <2> DEFINE a == SubSeq(p, 1, 1)
               b == <<p[1]>>
    <2>1. a \in Seq(STRING) /\ Len(a) = 1 /\ a[1] = p[1]
        BY <1>2, SubSeqProperties
    <2>2. b \in Seq(STRING) /\ Len(b) = 1 /\ b[1] = p[1]
        BY <1>2
    <2>3. \A i \in 1 .. Len(a) : a[i] = b[i]
        BY <2>1, <2>2
    <2> HIDE DEF a, b
    <2>4. a = b
        BY <2>1, <2>2, <2>3, SeqEqual
    <2> QED BY <2>4 DEF a, b
<1>4. 1 \in 1 .. (Len(p) - 1) /\ 1 \in 1 .. Len(p)
    BY <1>1
<1>5. Ancestors(SubSeq(p, 1, 1)) = {SubSeq(p, 1, k) : k \in 1 .. (1 - 1)}
    BY <1>4, PrefixForm
<1> QED BY <1>3, <1>4, <1>5 DEF Ancestors, Site

\* The entries of a directory are paths of its own site.
LEMMA EntriesForm ==
    ASSUME NEW d \in Paths, NEW p \in Entries(d)
    PROVE  p \in Paths /\ Site(p) = Site(d)
<1>1. p \in Paths /\ Len(p) = Len(d) + 1 /\ d = Front(p)
    BY DEF Entries
<1>2. Len(p) \in Nat \ {0} /\ Len(d) \in Nat \ {0}
    BY <1>1, PathForm
<1>3. Len(p) - 1 \in 1 .. Len(p)
    BY <1>1, <1>2
<1> QED BY <1>1, <1>3, PrefixForm DEF Front
----------------------------------------------------------------------------
(* The open directories *)

\* Every stack but the empty one is what lies under its top, and the top.
LEMMA StackForm ==
    ASSUME NEW st \in Stacks, st # <<>>
    PROVE  /\ Len(st) \in Nat \ {0} /\ st[Len(st)] \subseteq Paths
           /\ Front(st) \in Stacks
           /\ In(st) = In(Front(st)) \cup st[Len(st)]
<1> DEFINE S == SUBSET Paths
<1>1. st \in Seq(S) /\ Len(st) \in Nat \ {0} /\ DOMAIN st = 1 .. Len(st)
    BY EmptySeq, LenProperties DEF Stacks
<1> HIDE DEF S
<1>2. \A i \in 1 .. Len(st) : st[i] \in S
    BY <1>1, ElementOfSeq
<1>3. /\ Front(st) \in Seq(S) /\ Len(Front(st)) = Len(st) - 1
      /\ \A i \in 1 .. Len(st) - 1 : Front(st)[i] = st[i]
    <2>1. \A i \in 1 .. Len(st) - 1 : st[i] \in S
        BY <1>1, <1>2
    <2>2. 1 \in Int /\ Len(st) - 1 \in Int
        BY <1>1
    <2>3. /\ SubSeq(st, 1, Len(st) - 1) \in Seq(S)
          /\ Len(SubSeq(st, 1, Len(st) - 1))
                = IF 1 <= Len(st) - 1 THEN Len(st) - 1 - 1 + 1 ELSE 0
          /\ \A i \in 1 .. Len(st) - 1 - 1 + 1 :
                SubSeq(st, 1, Len(st) - 1)[i] = st[1 + i - 1]
        BY <2>1, <2>2, SubSeqProperties
    <2> QED BY <1>1, <2>3 DEF Front
<1>4. DOMAIN Front(st) = 1 .. Len(st) - 1
    BY <1>3, LenProperties
<1>5. ASSUME NEW q
      PROVE  q \in In(st) <=> q \in In(Front(st)) \/ q \in st[Len(st)]
    <2>1. q \in In(st) <=> \E i \in 1 .. Len(st) : q \in st[i]
        BY <1>1 DEF In
    <2>2. q \in In(Front(st)) <=> \E i \in 1 .. Len(st) - 1 : q \in st[i]
        BY <1>3, <1>4 DEF In
    <2>3. \A i : i \in 1 .. Len(st) <=> i \in 1 .. Len(st) - 1 \/ i = Len(st)
        BY <1>1
    <2> QED BY <2>1, <2>2, <2>3
<1> QED BY <1>1, <1>2, <1>3, <1>5 DEF S, Stacks

\* What a new top adds.
LEMMA Pushed ==
    ASSUME NEW st \in Stacks, NEW E \in SUBSET Paths
    PROVE  /\ Append(st, E) \in Stacks /\ Append(st, E) # <<>>
           /\ In(Append(st, E)) = In(st) \cup E
<1> DEFINE S == SUBSET Paths
<1>1. st \in Seq(S) /\ E \in S
    BY DEF Stacks
<1> HIDE DEF S
<1>2. /\ Append(st, E) \in Seq(S) /\ Append(st, E) # <<>>
      /\ Len(Append(st, E)) = Len(st) + 1
      /\ \A i \in 1 .. Len(st) : Append(st, E)[i] = st[i]
      /\ Append(st, E)[Len(st) + 1] = E
    BY <1>1, AppendProperties
<1>3. /\ DOMAIN st = 1 .. Len(st) /\ Len(st) \in Nat
      /\ DOMAIN Append(st, E) = 1 .. Len(st) + 1
    BY <1>1, <1>2, LenProperties
<1>4. ASSUME NEW q
      PROVE  q \in In(Append(st, E)) <=> q \in In(st) \/ q \in E
    <2>1. q \in In(Append(st, E))
                <=> \E i \in 1 .. Len(st) + 1 : q \in Append(st, E)[i]
        BY <1>3 DEF In
    <2>2. q \in In(st) <=> \E i \in 1 .. Len(st) : q \in st[i]
        BY <1>3 DEF In
    <2>3. \A i : i \in 1 .. Len(st) + 1 <=> i \in 1 .. Len(st) \/ i = Len(st) + 1
        BY <1>3
    <2> QED BY <1>2, <2>1, <2>2, <2>3
<1> QED BY <1>2, <1>4 DEF S, Stacks

\* The stack without an entry of its top.
LEMMA PassedBy ==
    ASSUME stack \in Stacks, stack # <<>>, NEW p
    PROVE  /\ Without(p) \in Stacks /\ Without(p) # <<>>
           /\ In(Without(p)) \subseteq In(stack)
           /\ \A q \in In(stack) : q # p => q \in In(Without(p))
<1>1. /\ Front(stack) \in Stacks /\ Top \ {p} \in SUBSET Paths
      /\ In(stack) = In(Front(stack)) \cup Top
    BY StackForm DEF Top
<1>2. /\ Without(p) \in Stacks /\ Without(p) # <<>>
      /\ In(Without(p)) = In(Front(stack)) \cup (Top \ {p})
    BY <1>1, Pushed DEF Without
<1> QED BY <1>1, <1>2

\* A stack of one directory, and of none.
LEMMA FirstOpened ==
    ASSUME NEW E \in SUBSET Paths
    PROVE  /\ <<E>> \in Stacks /\ In(<<E>>) = E
           /\ <<>> \in Stacks /\ In(<<>>) = {}
<1>1. <<>> \in Stacks /\ In(<<>>) = {}
    BY EmptySeq DEF Stacks, In
<1>2. <<E>> = Append(<<>>, E)
    OBVIOUS
<1> QED BY <1>1, <1>2, Pushed
----------------------------------------------------------------------------
(* Types *)

\* A cache of nothing.
LEMMA EmptyForm == IsCache(Empty) /\ DOMAIN Empty = {}
BY DEF IsCache, Empty

\* What Begin and Abort do to the walk.
LEMMA BeginKeeps ==
    ASSUME Base, ~Walking, NEW s \in Sites, Begin(s), site' = s, stat' = stat,
           total' \in Nat, job' = job, todo' = todo, UNCHANGED <<disk, served>>
    PROVE  Base'
<1>1. /\ stack' = <<Entries(<<s>>)>> /\ map' = Empty /\ pc' = "walk"
      /\ stat = <<>>
    BY DEF Begin, Base, Tidy, Walking
<1>2. <<s>> \in Paths /\ Entries(<<s>>) \in SUBSET Paths /\ Site(<<s>>) = s
    BY ConstantsAssumption DEF ConstantsAssumption, Entries, Site
<1>3. stack' \in Stacks /\ In(stack') = Entries(<<s>>)
    BY <1>1, <1>2, FirstOpened
<1>4. Typed'
    BY <1>1, <1>3, EmptyForm DEF Base, Typed, disk
<1>5. Sized' /\ Tidy'
    BY <1>1 DEF Base, Sized, Tidy, Walking, disk
<1>6. Owned'
    BY <1>1, <1>2, <1>3, EmptyForm, EntriesForm DEF Base, Owned, Own
<1> QED BY <1>4, <1>5, <1>6 DEF Base

\* A walk that is given up leaves nothing behind it.
LEMMA AbortKeeps ==
    ASSUME Base, NEW s \in Sites, Abort(s)
    PROVE  Base'
<1>1. /\ pc' \in {"dead", "next"} /\ todo' \subseteq Sites
      /\ stack' = <<>> /\ map' = Empty /\ stat' = <<>> /\ steady' = {}
      /\ UNCHANGED <<disk, served, job, site, total>>
    BY DEF Abort, Base, Typed
<1>2. stack' \in Stacks /\ In(stack') = {}
    BY <1>1, FirstOpened
<1>3. Typed'
    BY <1>1, <1>2, EmptyForm DEF Base, Typed, disk
<1>4. Sized' /\ Tidy'
    BY <1>1 DEF Base, Sized, Tidy, Walking, disk
<1>5. Owned'
    BY <1>1, <1>2, EmptyForm DEF Base, Owned, Own
<1> QED BY <1>3, <1>4, <1>5 DEF Base

\* A step that leaves the walk, the trees and the caches alone.
LEMMA IdleKeeps ==
    ASSUME Base, UNCHANGED <<disk, served, stack, stat, map, steady>>,
           ~Walking, ~Walking', pc' \in {"sample", "next", "sleep", "dead"},
           job' \in {"boot", "scan"}, todo' \subseteq Sites, site' \in Sites,
           total' \in Nat
    PROVE  Base'
<1>1. Typed'
    BY DEF Base, Typed, disk
<1>2. Sized' /\ Tidy'
    BY DEF Base, Sized, Tidy, Walking, disk
<1>3. map = Empty /\ stack = <<>> /\ pc # "read" /\ pc' # "read"
    BY DEF Base, Tidy, Walking
<1>4. In(stack) = {}
    BY <1>3, FirstOpened
<1>5. Owned'
    BY <1>3, <1>4, EmptyForm DEF Base, Owned, Own
<1> QED BY <1>1, <1>2, <1>5 DEF Base

\* Every step is one of these.
LEMMA StepForm ==
    ASSUME [Next]_vars
    PROVE  \/ UNCHANGED vars
           \/ Writers
           \/ \E f : Signs(f)
           \/ EndOfTick
           \/ \E s \in Sites : Turns(s)
           \/ \E p \in ToWalk : WalksOver(p)
           \/ Reads \/ WalkReturn \/ Promote
<1>1. CASE Server
    BY <1>1 DEF Server, Signs, Turns, WalksOver, Reads
<1>2. CASE Faults
    BY <1>2 DEF Faults, Signs, Turns, WalksOver, Reads
<1> QED BY <1>1, <1>2 DEF Next

\* A read that fails at a path sees it closed, or not at all.
LEMMA FaultForm ==
    ASSUME Base, NEW p \in Paths
    PROVE  /\ Hidden(p)[p] = NoNode /\ Sealed(p)[p].mode = {}
           /\ Sealed(p)[p].kind = node[p].kind
           /\ Hidden(p)[p] = node[p] => Hidden(p) = node
           /\ Sealed(p)[p] = node[p] => Sealed(p) = node
<1>1. node \in [Paths -> Nodes] /\ node[p] \in Nodes
    BY DEF Base, Typed
<1>2. /\ Hidden(p) = [q \in Paths |-> IF q = p THEN NoNode ELSE node[q]]
      /\ Sealed(p) = [q \in Paths |-> IF q = p THEN [node[p] EXCEPT !.mode = {}]
                                                ELSE node[q]]
    <2>1. DOMAIN node = Paths
        BY <1>1
    <2> QED BY <2>1 DEF Hidden, Sealed
<1> DEFINE closed == [node[p] EXCEPT !.mode = {}]
<1>3. closed.mode = {} /\ closed.kind = node[p].kind
    BY <1>1 DEF Nodes
<1> HIDE DEF closed
<1>4. Hidden(p)[p] = NoNode /\ Sealed(p)[p] = closed
    BY <1>2 DEF closed
<1>5. Hidden(p)[p] = node[p] => Hidden(p) = node
    BY <1>1, <1>2, <1>4
<1>6. Sealed(p)[p] = node[p] => Sealed(p) = node
    <2>1. Sealed(p) = [q \in Paths |-> IF q = p THEN closed ELSE node[q]]
        BY <1>2 DEF closed
    <2> QED BY <1>1, <1>4, <2>1
<1> QED BY <1>3, <1>4, <1>5, <1>6

\* An entry of the top is one of the paths of the site.
LEMMA TopForm ==
    ASSUME Base, NEW p \in ToWalk
    PROVE  /\ pc = "walk" /\ stack \in Stacks /\ stack # <<>> /\ p \in Top
           /\ p \in Paths /\ p \in In(stack) /\ Site(p) = site /\ p # <<>>
           /\ ~Skips(node, p) => p \notin Passed
           /\ ~Skips(node, p) /\ ~IsDir(node, p) => node[p].kind = "file"
<1>1. pc = "walk" /\ stack \in Stacks /\ stack # <<>> /\ p \in Top
    BY DEF ToWalk, Base, Typed
<1>2. p \in Paths /\ p \in In(stack)
    BY <1>1, StackForm DEF Top
<1>3. p # <<>> /\ Site(p) = site
    BY <1>2, PathForm DEF Base, Owned
<1>4. node[p].kind \in {"none", "file", "dir"}
    BY <1>2 DEF Base, Typed, Nodes
<1> QED BY <1>1, <1>2, <1>3, <1>4 DEF Skips, Visible, IsDir

\* What coming to an entry does, whether or not a read of it fails: the walk is
\* given up, it goes on without the entry, it opens a directory or it looks at
\* a file.
GoesOn(p) == stack' = Without(p) /\ UNCHANGED <<pc, stat>>
OpensDir(p) ==
    /\ stack' = Append(Without(p), Entries(p)) /\ UNCHANGED <<pc, stat, steady, lost>>
    /\ ~Skips(node, p) /\ IsDir(node, p) /\ Lists(node, p)
LooksAt(p) ==
    /\ stack' = Without(p) /\ pc' = "read" /\ stat' = p /\ UNCHANGED <<steady, lost>>
    /\ ~Skips(node, p) /\ ~IsDir(node, p)
\* A turn of the loop that goes on is one of these, a read that fails or not.
LEMMA WalkEntryForm ==
    ASSUME Base, NEW p \in ToWalk, WalksOver(p)
    PROVE  \/ Abort(site)
           \/ /\ UNCHANGED <<disk, caches, job, todo, site, total, map>>
              /\ \/ /\ GoesOn(p)
                    /\ \E f : LeavesOut(p, f) /\ (f[p] = node[p] => Skips(node, p))
                 \/ OpensDir(p)
                 \/ LooksAt(p)
<1> USE DEF loop
<1>1. p \in Paths
    BY TopForm
<1>2. CASE WalkEntry(p, node)
    <2>1. CASE Skips(node, p)
        BY <1>2, <2>1 DEF WalkEntry, GoesOn
    <2>2. CASE ~Skips(node, p)
        BY <1>2, <2>2 DEF WalkEntry, Opens, OpensDir, LooksAt
    <2> QED BY <2>1, <2>2
<1>3. CASE WalkEntry(p, Hidden(p))
    <2>1. Skips(Hidden(p), p) /\ (Hidden(p)[p] = node[p] => Skips(node, p))
        BY <1>1, FaultForm DEF Skips, Visible, NoNode
    <2> QED BY <1>3, <2>1 DEF WalkEntry, GoesOn
<1>4. CASE Opens(node, p) /\ WalkEntry(p, Sealed(p))
    <2>1. /\ IsDir(Sealed(p), p) /\ ~Opens(Sealed(p), p)
          /\ Sealed(p)[p] # node[p]
        BY <1>1, <1>4, FaultForm DEF Opens, Lists, IsDir
    <2> QED BY <1>4, <2>1 DEF WalkEntry, GoesOn
<1> QED BY <1>2, <1>3, <1>4 DEF WalksOver

\* A walk that goes on without an entry expects no more than it did.
LEMMA LeavesOutForm ==
    ASSUME NEW p, NEW f, LeavesOut(p, f)
    PROVE  /\ steady' \subseteq steady
           /\ \A x \in steady' : p \in OnTheWay(x) => f[p] = node[p]
BY DEF LeavesOut, OnTheWay

\* Coming to an entry keeps the base.
LEMMA WalkEntryTyped ==
    ASSUME Base, NEW p \in ToWalk, WalksOver(p)
    PROVE  Base'
<1>1. /\ pc = "walk" /\ stack \in Stacks /\ stack # <<>> /\ p \in Top
      /\ p \in Paths /\ Site(p) = site /\ p # <<>>
      /\ ~Skips(node, p) => p \notin Passed
    BY TopForm
<1>2. /\ Without(p) \in Stacks /\ Without(p) # <<>>
      /\ In(Without(p)) \subseteq In(stack)
    BY <1>1, PassedBy
<1>3. CASE Abort(site)
    BY <1>3, AbortKeeps DEF Base, Typed
<1>4. ASSUME stack' = Without(p) \/ stack' = Append(Without(p), Entries(p)),
             \/ UNCHANGED <<pc, stat>>
             \/ ~Skips(node, p) /\ pc' = "read" /\ stat' = p,
             UNCHANGED <<disk, served, job, todo, site, total, map>>
      PROVE  Base'
    <2>1. /\ stack' \in Stacks /\ stack' # <<>>
          /\ In(stack') \subseteq In(stack) \cup Entries(p)
        <3>1. CASE stack' = Without(p)
            BY <1>2, <3>1
        <3>2. CASE stack' = Append(Without(p), Entries(p))
            <4>1. Entries(p) \in SUBSET Paths
                BY DEF Entries
            <4> QED BY <1>2, <3>2, <4>1, Pushed
        <3> QED BY <1>4, <3>1, <3>2
    <2>2. Typed'
        BY <1>1, <1>4, <2>1 DEF Base, Typed, disk
    <2>3. Sized' /\ Tidy'
        BY <1>1, <1>4, <2>1 DEF Base, Sized, Tidy, Walking, disk
    <2>4. Owned'
        <3>1. \A q \in Entries(p) : Site(q) = site
            BY <1>1, EntriesForm
        <3>2. \A q \in In(stack) : Site(q) = site
            BY DEF Base, Owned
        <3>3. pc' = "read" => Site(stat') = site /\ stat' \notin Passed
            BY <1>1, <1>4
        <3> QED BY <1>4, <2>1, <3>1, <3>2, <3>3 DEF Base, Owned, Own
    <2> QED BY <2>2, <2>3, <2>4 DEF Base
<1>5. CASE ~Abort(site)
    <2>1. /\ UNCHANGED <<disk, served, job, todo, site, total, map>>
          /\ GoesOn(p) \/ OpensDir(p) \/ LooksAt(p)
        BY <1>5, WalkEntryForm
    <2> QED BY <1>4, <2>1 DEF GoesOn, OpensDir, LooksAt
<1> QED BY <1>3, <1>5

\* The file that is being read, when it can be, and what it makes of the map.
Readable == /\ node[stat].kind = "file" /\ "r" \in node[stat].mode
            /\ Found(node, stat)
Added == [q \in DOMAIN map \cup {stat} |-> IF q = stat THEN Body(stat) ELSE map[q]]

\* What is read is the file the walk has found, and no file the walk passes over.
LEMMA ReadForm ==
    ASSUME Base, pc = "read"
    PROVE  /\ stat \in Paths /\ stat # <<>> /\ Site(stat) = site /\ stat \notin Passed
           /\ Readable => /\ node[stat].len \in Lens /\ Stored[node[stat].len] \in Nat
                          /\ Body(stat) \in Bodies /\ IsCache(Added)
                          /\ DOMAIN Added = DOMAIN map \cup {stat}
<1>1. /\ stat \in Paths /\ stat # <<>> /\ Site(stat) = site /\ stat \notin Passed
    BY DEF Base, Typed, Tidy, Owned
<1>2. ASSUME Readable
      PROVE  /\ node[stat].len \in Lens /\ Stored[node[stat].len] \in Nat
             /\ Body(stat) \in Bodies
    <2>1. node[stat].len \in Lens /\ node[stat] \in Nodes
        BY <1>1, <1>2 DEF Readable, Base, Sized, Typed
    <2>2. Stored \in [Lens -> Nat]
        BY ConstantsAssumption DEF ConstantsAssumption
    <2> QED BY <2>1, <2>2 DEF Body, Bodies, Nodes
<1>3. Readable => IsCache(Added)
    BY <1>1, <1>2 DEF IsCache, Added, Base, Typed
<1> QED BY <1>1, <1>2, <1>3 DEF Added

\* What a read does, whether or not it fails: the build is given up over the
\* budget, the file is kept, or it is left out.
Keeps ==
    /\ Readable /\ total + Stored[node[stat].len] <= MaxTotalBytes
    /\ total' = total + Stored[node[stat].len] /\ map' = Added
    /\ UNCHANGED <<steady, lost>>
\* A read of a file that goes on adds it to the map, or leaves it out.
LEMMA ReadFileForm ==
    ASSUME Base, Reads
    PROVE  /\ pc = "read" /\ UNCHANGED disk
           /\ \/ Abort(site)
              \/ /\ pc' = "walk" /\ stat' = <<>>
                 /\ UNCHANGED <<caches, job, todo, site, stack>>
                 /\ \/ Keeps
                    \/ LeavesOut(stat, node) /\ ~Readable /\ UNCHANGED <<total, map>>
                    \/ LeavesOut(stat, Sealed(stat)) /\ UNCHANGED <<total, map>>
<1> USE DEF loop
<1>1. CASE ReadFile(node)
    BY <1>1 DEF ReadFile, Keeps, Readable, Added
<1>2. CASE ReadFile(Sealed(stat))
    <2>1. pc = "read"
        BY <1>2 DEF ReadFile
    <2>2. ~("r" \in Sealed(stat)[stat].mode)
        BY <2>1, ReadForm, FaultForm
    <2> QED BY <1>2, <2>2 DEF ReadFile
<1> QED BY <1>1, <1>2 DEF Reads

\* Reading a file keeps the base.
LEMMA ReadFileTyped ==
    ASSUME Base, Reads
    PROVE  Base'
<1>1. pc = "read" /\ UNCHANGED disk
    BY ReadFileForm
<1>2. /\ stat \in Paths /\ stat # <<>> /\ Site(stat) = site /\ stat \notin Passed
      /\ Readable => /\ Stored[node[stat].len] \in Nat /\ IsCache(Added)
                     /\ DOMAIN Added = DOMAIN map \cup {stat}
    BY <1>1, ReadForm
<1>3. CASE Abort(site)
    BY <1>3, AbortKeeps DEF Base, Typed
<1>4. ASSUME pc' = "walk", stat' = <<>>, UNCHANGED <<served, job, todo, site, stack>>,
             \/ UNCHANGED <<total, map>>
             \/ Readable /\ total' = total + Stored[node[stat].len] /\ map' = Added
      PROVE  Base'
    <2>1. total' \in Nat /\ IsCache(map') /\ DOMAIN map' \subseteq DOMAIN map \cup {stat}
        BY <1>2, <1>4 DEF Base, Typed
    <2>2. Typed'
        BY <1>1, <1>4, <2>1 DEF Base, Typed, disk
    <2>3. Sized' /\ Tidy'
        BY <1>1, <1>4, <2>1 DEF Base, Sized, Tidy, Walking, disk
    <2>4. Owned'
        BY <1>2, <1>4, <2>1 DEF Base, Owned, Own
    <2> QED BY <2>2, <2>3, <2>4 DEF Base
<1> QED BY <1>3, <1>4, ReadFileForm DEF Keeps

\* Returning to the directory above keeps the base and forgets no entry.
LEMMA WalkReturnTyped ==
    ASSUME Base, WalkReturn
    PROVE  Base' /\ In(stack') = In(stack) /\ (pc' = "promote" => stack' = <<>>)
<1>1. /\ pc = "walk" /\ stack # <<>> /\ Top = {} /\ stack' = Front(stack)
      /\ pc' = IF Len(stack) = 1 THEN "promote" ELSE "walk"
      /\ UNCHANGED <<disk, served, job, todo, site, total, stat, map, steady>>
    BY DEF WalkReturn, loop
<1>2. stack \in Stacks
    BY DEF Base, Typed
<1>3. stack' \in Stacks /\ In(stack') = In(stack)
    BY <1>1, <1>2, StackForm DEF Top
<1>4. pc' = "promote" => stack' = <<>>
    <2>1. Len(stack) = 1 => SubSeq(stack, 1, 0) = <<>>
        BY SubSeqEmpty
    <2> QED BY <1>1, <2>1 DEF Front
<1>5. Typed'
    BY <1>1, <1>3 DEF Base, Typed, disk
<1>6. Sized' /\ Tidy'
    BY <1>1, <1>4 DEF Base, Sized, Tidy, Walking, disk
<1>7. Owned'
    BY <1>1, <1>3 DEF Base, Owned, Own
<1> QED BY <1>3, <1>4, <1>5, <1>6, <1>7 DEF Base

\* Replacing the old cache keeps the base.
LEMMA PromoteTyped ==
    ASSUME Base, Promote
    PROVE  Base'
<1>1. /\ pc = "promote" /\ pc' = "next" /\ served' = [served EXCEPT ![site] = map]
      /\ todo' = todo \ {site} /\ map' = Empty /\ steady' = {}
      /\ UNCHANGED <<disk, job, site, total, stack, stat>>
    BY DEF Promote
<1>2. stack = <<>> /\ stat = <<>> /\ site \in Sites /\ In(<<>>) = {}
    BY <1>1, FirstOpened DEF Base, Typed, Tidy
<1>3. \A s \in Sites : served'[s] = IF s = site THEN map ELSE served[s]
    BY <1>1 DEF Base, Typed
<1>4. Typed'
    BY <1>1, <1>2, <1>3, EmptyForm DEF Base, Typed, disk
<1>5. Sized' /\ Tidy'
    BY <1>1, <1>2 DEF Base, Sized, Tidy, Walking, disk
<1>6. Owned'
    BY <1>1, <1>2, <1>3, EmptyForm DEF Base, Owned, Own
<1> QED BY <1>4, <1>5, <1>6 DEF Base

\* An edit touches nothing of the server's.
LEMMA EditTyped ==
    ASSUME Base, Marked, MayEdit, NEW kind, NEW changed, NEW new, Edit(kind, changed, new),
           \A p \in changed : new[p] \in Nodes
                              /\ (new[p].kind = "file" => new[p].len \in Lens)
    PROVE  Base'
<1>1. /\ edits' = edits + 1 /\ edits < MaxEvents
      /\ node' = [p \in Paths |-> IF p \in changed THEN new[p] ELSE node[p]]
      /\ steady' \subseteq steady
      /\ UNCHANGED <<served, pc, job, todo, site, total, stack, stat, map>>
    <2>1. MaxEvents \in Nat /\ MaxFaults \in Nat
        BY ConstantsAssumption DEF ConstantsAssumption
    <2>2. edits < MaxEvents
        BY <2>1 DEF MayEdit, Base, Typed, Marked
    <2> QED BY <2>2 DEF Edit, loop
<1>2. MaxEvents \in Nat
    BY ConstantsAssumption DEF ConstantsAssumption
<1>3. Typed'
    BY <1>1, <1>2 DEF Base, Typed
<1>4. Sized'
    BY <1>1 DEF Base, Sized
<1>5. Tidy' /\ Owned'
    BY <1>1 DEF Base, Tidy, Owned, Own, Walking
<1> QED BY <1>3, <1>4, <1>5 DEF Base

\* Whatever a writer does is an edit that leaves nodes of the two kinds there are.
LEMMA WriterForm ==
    ASSUME Base, Writers
    PROVE  MayEdit /\ \E kind, changed, new :
              /\ Edit(kind, changed, new)
              /\ \A p \in changed : new[p] \in Nodes
                                    /\ (new[p].kind = "file" => new[p].len \in Lens)
<1>1. /\ node \in [Paths -> Nodes] /\ edits \in Nat /\ Lens \subseteq Nat
      /\ \A p \in Paths : node[p].kind = "file" => node[p].len \in Lens
    <2>1. MaxEvents \in Nat /\ Lens \subseteq Nat
        BY ConstantsAssumption DEF ConstantsAssumption
    <2> QED BY <2>1 DEF Base, Typed, Sized
<1>2. NoNode \in Nodes /\ NoNode.kind # "file"
    BY DEF NoNode, Nodes
<1>3. ASSUME NEW p \in Paths, NEW len \in Lens, WriteFile(p, len)
      PROVE  MayEdit /\ \E kind, changed, new :
                /\ Edit(kind, changed, new)
                /\ \A q \in changed : new[q] \in Nodes
                                      /\ (new[q].kind = "file" => new[q].len \in Lens)
    <2> DEFINE n == [kind |-> "file", len |-> len, mtime |-> edits + 1,
                     mode |-> node[p].mode]
    <2>1. n \in Nodes /\ n.len \in Lens
        BY <1>1 DEF Nodes
    <2>2. MayEdit /\ Edit("write", {p}, [q \in {p} |-> n])
        BY <1>3 DEF WriteFile
    <2> HIDE DEF n
    <2> QED BY <2>1, <2>2
<1>4. ASSUME NEW p \in Paths, RemoveFile(p)
      PROVE  MayEdit /\ \E kind, changed, new :
                /\ Edit(kind, changed, new)
                /\ \A q \in changed : new[q] \in Nodes
                                      /\ (new[q].kind = "file" => new[q].len \in Lens)
    <2>1. MayEdit /\ Edit("remove", {p}, [q \in {p} |-> NoNode])
        BY <1>4 DEF RemoveFile
    <2> QED BY <1>2, <2>1
<1>5. ASSUME NEW p \in Paths, NEW mode \in Modes \cup {{}, {"r"}}, Chmod(p, mode)
      PROVE  MayEdit /\ \E kind, changed, new :
                /\ Edit(kind, changed, new)
                /\ \A q \in changed : new[q] \in Nodes
                                      /\ (new[q].kind = "file" => new[q].len \in Lens)
    <2> DEFINE n == [node[p] EXCEPT !.mode = mode]
    <2>1. mode \in SUBSET {"r", "x"}
        BY ConstantsAssumption DEF ConstantsAssumption
    <2>2. n \in Nodes /\ (n.kind = "file" => n.len \in Lens)
        BY <1>1, <2>1 DEF Nodes
    <2>3. /\ MayEdit
          /\ \/ Edit("chmod", {p}, [q \in {p} |-> n])
             \/ Edit("chmodFile", {p}, [q \in {p} |-> n])
        BY <1>5 DEF Chmod
    <2> HIDE DEF n
    <2> QED BY <2>2, <2>3
<1>6. ASSUME NEW p \in Paths, NEW q \in Paths, MoveFile(p, q)
      PROVE  MayEdit /\ \E kind, changed, new :
                /\ Edit(kind, changed, new)
                /\ \A r \in changed : new[r] \in Nodes
                                      /\ (new[r].kind = "file" => new[r].len \in Lens)
    <2> DEFINE n == [r \in {p, q} |-> IF r = p THEN NoNode ELSE node[p]]
    <2>1. \A r \in {p, q} : n[r] \in Nodes /\ (n[r].kind = "file" => n[r].len \in Lens)
        BY <1>1, <1>2
    <2>2. MayEdit /\ Edit("move", {p, q}, n)
        BY <1>6 DEF MoveFile
    <2> HIDE DEF n
    <2> QED BY <2>1, <2>2
<1> QED BY <1>3, <1>4, <1>5, <1>6 DEF Writers

\* The steps that neither walk nor promote nor edit: outside a walk before and
\* after, or the first of one.
LEMMA IdleStep ==
    ASSUME Base, ErrorSet \in Nat,
           \/ \E f : Signs(f)
           \/ EndOfTick
           \/ \E s \in Sites : Turns(s) /\ pc' # "walk"
    PROVE  /\ ~Walking /\ ~Walking' /\ total' \in Nat
           /\ UNCHANGED <<disk, caches, stack, stat, map, steady, lost>>
           /\ pc' \in {"sample", "next", "sleep", "dead"}
           /\ job' \in {"boot", "scan"} /\ todo' \subseteq Sites /\ site' \in Sites
<1> USE DEF loop, memory, walk, Walking, Base, Typed
<1>1. CASE EndOfTick \/ \E f : Signs(f)
    BY <1>1 DEF Signs, Sample, StartWatch, Scan, EndOfTick
<1>2. ASSUME NEW s \in Sites, NEW f, BuildSite(s, f), pc' # "walk"
      PROVE  /\ pc = "next" /\ pc' = "dead" /\ site' = s
             /\ UNCHANGED <<disk, caches, stack, stat, map, steady, lost, total, job,
                            todo>>
    BY <1>2 DEF BuildSite, Begin
<1>3. ASSUME NEW s \in Sites, NEW f, Consider(s, f), pc' # "walk"
      PROVE  /\ pc = "next" /\ pc' = "next" /\ site' = s /\ todo' = todo \ {s}
             /\ UNCHANGED <<disk, caches, stack, stat, map, steady, lost, total, job>>
    BY <1>3 DEF Consider, Begin
<1>4. ASSUME NEW s \in Sites, Turns(s), pc' # "walk"
      PROVE  /\ pc = "next" /\ pc' \in {"next", "dead"} /\ site' = s
             /\ todo' \subseteq todo
             /\ UNCHANGED <<disk, caches, stack, stat, map, steady, lost, total, job>>
    BY <1>2, <1>3, <1>4 DEF Turns
<1> QED BY <1>1, <1>4

\* The first step of a walk.
LEMMA FirstStep ==
    ASSUME Base, NEW s \in Sites, Turns(s), pc' = "walk"
    PROVE  /\ ~Walking /\ Begin(s) /\ Lists(node, <<s>>) /\ site' = s
           /\ \/ job = "boot" /\ total' = total + ErrorSet /\ s \in todo
                    /\ total' <= MaxTotalBytes
              \/ job = "scan" /\ total' = Seed(s)
           /\ pc = "next" /\ UNCHANGED <<disk, caches, stat, job, todo>>
<1>1. <<s>> \in Paths
    BY ConstantsAssumption DEF ConstantsAssumption
<1>2. ~Lists(Sealed(<<s>>), <<s>>)
    BY <1>1, FaultForm DEF Lists
<1>3. ASSUME NEW f, BuildSite(s, f) \/ Consider(s, f), Lists(f, <<s>>) => Lists(node, <<s>>)
      PROVE  /\ ~Walking /\ Begin(s) /\ Lists(node, <<s>>) /\ site' = s
             /\ \/ job = "boot" /\ total' = total + ErrorSet /\ s \in todo
                      /\ total' <= MaxTotalBytes
                \/ job = "scan" /\ total' = Seed(s)
             /\ pc = "next" /\ UNCHANGED <<disk, caches, stat, job, todo>>
    BY <1>3 DEF BuildSite, Consider, loop, memory, Walking, Base, Typed
<1> QED BY <1>2, <1>3 DEF Turns
----------------------------------------------------------------------------
(* Bytes *)

\* What a function takes the members of a finite set to.
LEMMA FiniteImage ==
    ASSUME NEW S, IsFiniteSet(S), NEW f, DOMAIN f = S
    PROVE  IsFiniteSet({f[x] : x \in S})
<1> DEFINE T == {f[x] : x \in S}
           g == [x \in S |-> f[x]]
<1>1. g \in Surjection(S, T)
    BY DEF Surjection
<1> HIDE DEF g, T
<1>2. IsFiniteSet(T)
    BY <1>1, FS_Surjection
<1> QED BY <1>2 DEF T

\* There are finitely many paths.
LEMMA FinitePaths == IsFiniteSet(Paths)
<1> DEFINE P == Seq(STRING) \ {<<>>}
<1>1. PreOrder \in Seq(P)
    BY ConstantsAssumption DEF ConstantsAssumption
<1> HIDE DEF P
<1>2. DOMAIN PreOrder = 1 .. Len(PreOrder) /\ Len(PreOrder) \in Int
    BY <1>1, LenProperties
<1>3. IsFiniteSet(1 .. Len(PreOrder))
    BY <1>2, FS_Interval
<1>4. IsFiniteSet({PreOrder[i] : i \in DOMAIN PreOrder})
    BY <1>2, <1>3, FiniteImage
<1> QED BY <1>4 DEF Paths, ToSet

\* The bytes of one file, and of a cache.
LEMMA FileBytes ==
    ASSUME NEW p, NEW len \in Lens
    PROVE  /\ IsFiniteSet({p} \X (1 .. Stored[len])) /\ Stored[len] \in Nat
           /\ Cardinality({p} \X (1 .. Stored[len])) = Stored[len]
<1>1. Stored[len] \in Nat
    BY ConstantsAssumption DEF ConstantsAssumption
<1>2. /\ IsFiniteSet(1 .. Stored[len]) /\ Cardinality(1 .. Stored[len]) = Stored[len]
    BY <1>1, FS_Interval
<1>3. IsFiniteSet({p}) /\ Cardinality({p}) = 1
    BY FS_Singleton
<1>4. \A P, B : IsFiniteSet(P) /\ IsFiniteSet(B) =>
         IsFiniteSet(P \X B) /\ Cardinality(P \X B) = Cardinality(P) * Cardinality(B)
    BY FS_Product, ZenonT(30)
<1>5. /\ IsFiniteSet({p} \X (1 .. Stored[len]))
      /\ Cardinality({p} \X (1 .. Stored[len])) = 1 * Stored[len]
    BY <1>2, <1>3, <1>4, ZenonT(30)
<1> QED BY <1>1, <1>5

\* The bytes of a cache are finitely many.
LEMMA CacheBytes ==
    ASSUME NEW c, IsCache(c)
    PROVE  IsFiniteSet(Bytes(c)) /\ cache_bytes(c) \in Nat
<1> DEFINE D == DOMAIN c
           f == [p \in D |-> {p} \X (1 .. Stored[c[p].len])]
<1>1. D \subseteq Paths /\ \A p \in D : c[p].len \in Lens
    BY DEF IsCache, Bodies
<1>2. IsFiniteSet(D)
    BY <1>1, FinitePaths, FS_Subset
<1>3. \A p \in D : f[p] = {p} \X (1 .. Stored[c[p].len]) /\ IsFiniteSet(f[p])
    BY <1>1, FileBytes
<1>4. DOMAIN f = D
    OBVIOUS
<1>5. UNION {f[p] : p \in D} = Bytes(c)
    BY DEF Bytes
<1> HIDE DEF D, f
<1>6. IsFiniteSet({f[p] : p \in D})
    BY <1>2, <1>4, FiniteImage
<1>7. IsFiniteSet(UNION {f[p] : p \in D})
    BY <1>3, <1>6, FS_UNION
<1> QED BY <1>5, <1>7, FS_CardinalityType DEF cache_bytes

\* An empty cache holds nothing.
LEMMA EmptyBytes == cache_bytes(Empty) = 0
<1>1. Bytes(Empty) = {}
    BY DEF Bytes, Empty
<1> QED BY <1>1, FS_EmptySet DEF cache_bytes

\* A file that is added costs what it is charged.
LEMMA AddedBytes ==
    ASSUME Base, pc = "read", Readable
    PROVE  cache_bytes(Added) <= cache_bytes(map) + Stored[node[stat].len]
<1> DEFINE F == {stat} \X (1 .. Stored[node[stat].len])
<1>1. /\ node[stat].len \in Lens /\ IsCache(Added)
      /\ DOMAIN Added = DOMAIN map \cup {stat}
    BY ReadForm
<1>2. IsFiniteSet(Bytes(map)) /\ IsFiniteSet(Bytes(Added))
    BY <1>1, CacheBytes DEF Base, Typed
<1>3. IsFiniteSet(F) /\ Cardinality(F) = Stored[node[stat].len]
      /\ Stored[node[stat].len] \in Nat
    BY <1>1, FileBytes
<1>4. Bytes(Added) \subseteq Bytes(map) \cup F
    <2>1. \A q \in DOMAIN Added :
              Added[q].len = IF q = stat THEN node[stat].len ELSE map[q].len
        BY DEF Added, Body
    <2> QED BY <1>1, <2>1 DEF Bytes
<1> HIDE DEF F
<1>5. /\ IsFiniteSet(Bytes(map) \cup F)
      /\ Cardinality(Bytes(map) \cup F)
            = Cardinality(Bytes(map)) + Cardinality(F) - Cardinality(Bytes(map) \cap F)
    BY <1>2, <1>3, FS_Union
<1>6. /\ Cardinality(Bytes(map) \cap F) \in Nat
      /\ Cardinality(Bytes(map)) \in Nat /\ Cardinality(Bytes(Added)) \in Nat
    BY <1>2, FS_CardinalityType, FS_Intersection
<1>7. Cardinality(Bytes(Added)) <= Cardinality(Bytes(map) \cup F)
    BY <1>4, <1>5, FS_Subset
<1>8. Cardinality(Bytes(map) \cup F) <= Cardinality(Bytes(map)) + Stored[node[stat].len]
    BY <1>3, <1>5, <1>6
<1>9. Cardinality(Bytes(map) \cup F) \in Nat
    BY <1>5, FS_CardinalityType
<1> QED BY <1>3, <1>6, <1>7, <1>8, <1>9 DEF cache_bytes

\* What several sites hold.
HeldBy(sites) == UNION {Bytes(served[s]) : s \in sites}

\* What some sites hold is finite, and fewer sites hold no more.
LEMMA HeldForm ==
    ASSUME Base, NEW S \in SUBSET Sites, NEW T \in SUBSET S
    PROVE  /\ IsFiniteSet(HeldBy(S)) /\ Held(S) = Cardinality(HeldBy(S))
           /\ Held(S) \in Nat /\ Held(T) \in Nat /\ Held(T) <= Held(S)
<1>1. ASSUME NEW X \in SUBSET Sites
      PROVE  IsFiniteSet(HeldBy(X))
    <2> DEFINE f == [s \in X |-> Bytes(served[s])]
    <2>1. IsFiniteSet(X)
        BY ConstantsAssumption, FS_Subset DEF ConstantsAssumption
    <2>2. \A s \in X : f[s] = Bytes(served[s]) /\ IsFiniteSet(f[s])
        BY CacheBytes DEF Base, Typed
    <2>3. DOMAIN f = X /\ UNION {f[s] : s \in X} = HeldBy(X)
        BY DEF HeldBy
    <2> HIDE DEF f
    <2>4. IsFiniteSet({f[s] : s \in X})
        BY <2>1, <2>3, FiniteImage
    <2>5. IsFiniteSet(UNION {f[s] : s \in X})
        BY <2>2, <2>4, FS_UNION
    <2> QED BY <2>3, <2>5
<1>2. IsFiniteSet(HeldBy(S)) /\ IsFiniteSet(HeldBy(T)) /\ HeldBy(T) \subseteq HeldBy(S)
    BY <1>1 DEF HeldBy
<1>3. Held(S) = Cardinality(HeldBy(S)) /\ Held(T) = Cardinality(HeldBy(T))
    BY DEF Held, HeldBy
<1> QED BY <1>2, <1>3, FS_Subset, FS_CardinalityType

\* A cache in place of another, of a new state.
LEMMA HeldPromoted ==
    ASSUME Base, Base', served' = [served EXCEPT ![site] = map]
    PROVE  Held(Sites)' <= Held(Sites \ {site}) + cache_bytes(map) /\ Held(Sites)' \in Nat
<1> DEFINE A == HeldBy(Sites \ {site})
           B == Bytes(map)
<1>1. /\ IsFiniteSet(A) /\ Held(Sites \ {site}) = Cardinality(A)
      /\ IsFiniteSet(B) /\ cache_bytes(map) = Cardinality(B)
    BY HeldForm, CacheBytes DEF Base, Typed, cache_bytes
<1>2. UNION {Bytes(served'[s]) : s \in Sites} \subseteq A \cup B
    <2>1. \A s \in Sites : served'[s] = IF s = site THEN map ELSE served[s]
        BY DEF Base, Typed
    <2> QED BY <2>1 DEF HeldBy
<1> DEFINE C == UNION {Bytes(served'[s]) : s \in Sites}
<1>3. Held(Sites)' = Cardinality(C)
    BY DEF Held
<1> HIDE DEF A, B, C
<1>4. /\ IsFiniteSet(A \cup B)
      /\ Cardinality(A \cup B) = Cardinality(A) + Cardinality(B) - Cardinality(A \cap B)
    BY <1>1, FS_Union
<1>5. Cardinality(A \cap B) \in Nat /\ Cardinality(A) \in Nat /\ Cardinality(B) \in Nat
    BY <1>1, FS_CardinalityType, FS_Intersection
<1>6. C \subseteq A \cup B
    BY <1>2 DEF C
<1>7. IsFiniteSet(C) /\ Cardinality(C) <= Cardinality(A \cup B)
    BY <1>4, <1>6, FS_Subset
<1>8. Cardinality(C) \in Nat
    BY <1>7, FS_CardinalityType
<1> QED BY <1>1, <1>3, <1>4, <1>5, <1>7, <1>8
----------------------------------------------------------------------------
(* Every step keeps the types *)

\* Whatever a budget is charged with is a number.
LEMMA Charges ==
    /\ ErrorSet \in Nat /\ MaxTotalBytes \in Nat /\ error_page_bytes \in Nat
    /\ Base => \A s \in Sites : Seed(s) \in Nat
<1>1. ErrorSet \in Nat /\ MaxTotalBytes \in Nat /\ Cardinality(Sites) \in Nat
    BY ConstantsAssumption, FS_CardinalityType DEF ConstantsAssumption
<1>2. error_page_bytes \in Nat
    BY <1>1 DEF error_page_bytes
<1>3. ASSUME Base, NEW s \in Sites
      PROVE  Seed(s) \in Nat
    <2>1. Sites \ {s} \in SUBSET Sites
        OBVIOUS
    <2>2. Held(Sites \ {s}) \in Nat
        BY <1>3, <2>1, HeldForm
    <2> QED BY <1>2, <2>2 DEF Seed
<1> QED BY <1>1, <1>2, <1>3

\* Every step keeps the base.
LEMMA BaseStep ==
    ASSUME Base, Marked, [Next]_vars
    PROVE  Base'
<1>1. CASE UNCHANGED vars
    BY <1>1 DEF vars, disk, memory, loop, walk, Base, Typed, Sized, Tidy, Owned,
                Own, Walking
<1>2. CASE Writers
    BY <1>2, WriterForm, EditTyped
<1>3. CASE Reads \/ WalkReturn \/ Promote
    BY <1>3, ReadFileTyped, WalkReturnTyped, PromoteTyped
<1>4. CASE \E p \in ToWalk : WalksOver(p)
    BY <1>4, WalkEntryTyped
<1>5. CASE \/ \E f : Signs(f)
           \/ EndOfTick
           \/ \E s \in Sites : Turns(s) /\ pc' # "walk"
    BY <1>5, Charges, IdleStep, IdleKeeps
<1>6. ASSUME NEW s \in Sites, Turns(s), pc' = "walk"
      PROVE  Base'
    <2>1. /\ ~Walking /\ Begin(s) /\ site' = s
          /\ total' \in {total + ErrorSet, Seed(s)}
          /\ UNCHANGED <<disk, served, stat, job, todo>>
        BY <1>6, FirstStep
    <2>2. total' \in Nat
        BY <2>1, Charges DEF Base, Typed
    <2> QED BY <2>1, <2>2, BeginKeeps
<1> QED BY <1>1, <1>2, <1>3, <1>4, <1>5, <1>6, StepForm

\* Every step keeps the bound on faults and the types of the histories.
LEMMA MarkedStep ==
    ASSUME Base, Marked, [Next]_vars
    PROVE  Marked'
<1>1. faults' \in 0 .. MaxFaults
    <2>1. MaxFaults \in Nat
        BY ConstantsAssumption DEF ConstantsAssumption
    <2> QED BY <2>1 DEF Marked, Next, Server, Faults, Writers, vars
<1> SUFFICES lost' \in BOOLEAN /\ partial' \subseteq Sites
    BY <1>1 DEF Marked
<1>2. ASSUME NEW s, Abort(s)
      PROVE  lost' \in BOOLEAN /\ partial' = partial
    BY <1>2 DEF Abort
<1>3. ASSUME NEW p, NEW f, LeavesOut(p, f)
      PROVE  lost' \in BOOLEAN
    BY <1>3 DEF LeavesOut
<1>4. CASE UNCHANGED vars \/ WalkReturn
    BY <1>4 DEF vars, walk, WalkReturn, Marked
<1>5. CASE Writers
    BY <1>5, WriterForm DEF Edit, Marked
<1>6. CASE Reads
    <2>1. CASE ~Abort(site)
        BY <1>3, <1>6, <2>1, ReadFileForm DEF Keeps, Marked
    <2> QED BY <1>2, <2>1 DEF Marked
<1>7. CASE Promote
    BY <1>7 DEF Promote, Marked, Base, Typed
<1>8. CASE \E p \in ToWalk : WalksOver(p)
    <2>1. PICK p \in ToWalk : WalksOver(p)
        BY <1>8
    <2>2. CASE ~Abort(site)
        BY <1>3, <2>1, <2>2, WalkEntryForm DEF OpensDir, LooksAt, Marked
    <2> QED BY <1>2, <2>2 DEF Marked
<1>9. CASE \/ \E f : Signs(f)
           \/ EndOfTick
           \/ \E s \in Sites : Turns(s) /\ pc' # "walk"
    BY <1>9, Charges, IdleStep DEF Marked
<1>10. CASE \E s \in Sites : Turns(s) /\ pc' = "walk"
    BY <1>10, FirstStep DEF Begin, Marked
<1> QED BY <1>4, <1>5, <1>6, <1>7, <1>8, <1>9, <1>10, StepForm

\* The base holds before the first site is built.
LEMMA BaseInit == Init => Base
<1> SUFFICES ASSUME Init PROVE Base
    OBVIOUS
<1>1. In(<<>>) = {} /\ <<>> \in Stacks
    BY FirstOpened
<1>2. Typed
    BY <1>1, EmptyForm, ConstantsAssumption DEF Init, Typed, ConstantsAssumption
<1>3. Sized
    BY ConstantsAssumption DEF Init, Sized, ConstantsAssumption
<1>4. Tidy /\ Owned
    BY <1>1, EmptyForm DEF Init, Tidy, Owned, Own, Walking
<1> QED BY <1>2, <1>3, <1>4 DEF Base

----------------------------------------------------------------------------
(* Nothing is missed *)

\* A walk that begins has the root's entries to come, and so all that lies
\* below the root.
LEMMA BeginMisses ==
    ASSUME Base, ~Walking, NEW s \in Sites, Begin(s), Lists(node, <<s>>),
           stat' = stat, site' = s, UNCHANGED disk
    PROVE  Missed'
<1>1. /\ stack' = <<Entries(<<s>>)>> /\ steady' = Cacheable(s) /\ map' = Empty
      /\ node' = node /\ stat' = <<>>
    BY DEF Begin, Base, Tidy, Walking, disk
<1>2. <<s>> \in Paths /\ Entries(<<s>>) \in SUBSET Paths /\ Site(<<s>>) = s
    BY ConstantsAssumption DEF ConstantsAssumption, Entries, Site
<1>3. In(stack') = Entries(<<s>>)
    BY <1>1, <1>2, FirstOpened
<1>4. ASSUME NEW p \in Cacheable(s)
      PROVE  /\ Lies(p)
             /\ OnTheWay(p) \cap Entries(<<s>>) # {}
             /\ ~Barred(p) => \A q \in Entries(<<s>>) : Reachable(node, q)
    <2>1. /\ Lies(p) /\ Site(p) = s
        BY <1>4 DEF Cacheable, Under, Lies, Visible
    <2>2. <<s>> \in Ancestors(p) /\ Ancestors(<<s>>) = {}
        BY <2>1, RootAbove DEF Lies
    <2>3. PICK c \in OnTheWay(p) : c \in Paths /\ Len(c) = Len(<<s>>) + 1
                                   /\ Front(c) = <<s>>
        BY <2>1, <2>2, NextDown DEF Lies, OnTheWay
    <2>4. node[c].kind # "none"
        BY <2>1, <2>3 DEF Lies, OnTheWay, IsDir
    <2>5. c \in Entries(<<s>>)
        BY <2>3, <2>4 DEF Entries
    <2>6. ASSUME ~Barred(p), NEW q \in Entries(<<s>>)
          PROVE  Reachable(node, q)
        <3>1. q \in Paths /\ Len(q) = 1 + 1 /\ Site(q) = s
            BY <1>2, EntriesForm DEF Entries
        <3>2. q \in Seq(STRING) /\ Front(q) = <<s>>
            BY <3>1, PathForm DEF Entries
        <3>3. Ancestors(q) = {SubSeq(q, 1, k) : k \in 1 .. 1}
            BY <3>1 DEF Ancestors
        <3>4. SubSeq(q, 1, 1) = <<s>>
            BY <3>1, <3>2 DEF Front
        <3>5. \A d \in Ancestors(q) : d = <<s>>
            <4>1. \A k \in 1 .. 1 : k = 1
                OBVIOUS
            <4> QED BY <3>3, <3>4, <4>1, Zenon
        <3>6. Lists(node, <<s>>) /\ Enters(node, <<s>>)
            BY <2>2, <2>6 DEF Barred
        <3> QED BY <3>5, <3>6, Zenon DEF Reachable
    <2> QED BY <2>1, <2>3, <2>5, <2>6
<1>5. ASSUME NEW p \in steady'
      PROVE  /\ Lies(p)' /\ ToCome(p)'
             /\ Barred(p)' = Barred(p)
             /\ ~Barred(p) => \A q \in In(stack') \cup {stat'} :
                                 q \in OnTheWay(p) => Reachable(node', q)
    <2>1. p \in Cacheable(s)
        BY <1>1
    <2>2. Lies(p)' /\ ToCome(p)'
        BY <1>1, <1>3, <1>4, <2>1 DEF Lies, ToCome, Body
    <2>3. \A d \in OnTheWay(p) : d # <<>>
        BY <1>4, <2>1, AncestorForm, PathForm DEF OnTheWay, Lies
    <2>4. Barred(p)' = Barred(p)
        BY <1>1 DEF Barred, Lists, Enters, IsDir
    <2> QED BY <1>1, <1>3, <1>4, <2>1, <2>2, <2>3, <2>4
<1> QED BY <1>5 DEF Missed, Lies, ToCome

\* Above an entry are its directory and what is above that.
LEMMA EntryAncestors ==
    ASSUME NEW d \in Paths, NEW q \in Entries(d)
    PROVE  Ancestors(q) = Ancestors(d) \cup {d}
<1>1. q \in Paths /\ Len(q) = Len(d) + 1 /\ d = SubSeq(q, 1, Len(q) - 1)
    BY DEF Entries, Front
<1>2. Len(q) \in Nat /\ Len(d) \in Nat \ {0}
    BY <1>1, PathForm
<1> DEFINE i == Len(d)
<1>3. i \in 1 .. Len(q) /\ d = SubSeq(q, 1, i) /\ Len(q) - 1 = i
    BY <1>1, <1>2
<1>4. Ancestors(d) = {SubSeq(q, 1, k) : k \in 1 .. (i - 1)}
    BY <1>1, <1>3, PrefixForm
<1>5. Ancestors(q) = {SubSeq(q, 1, k) : k \in 1 .. i}
    BY <1>3 DEF Ancestors
<1>6. \A k : k \in 1 .. i <=> k \in 1 .. (i - 1) \/ k = i
    BY <1>2
<1> HIDE DEF i
<1> QED BY <1>3, <1>4, <1>5, <1>6

\* A path lies on its own way, and nothing else that is not a directory.
LEMMA WayForm ==
    ASSUME NEW x, Lies(x), NEW d \in OnTheWay(x)
    PROVE  /\ d \in Paths /\ d # <<>> /\ d \notin Passed /\ OnTheWay(d) \subseteq OnTheWay(x)
           /\ node[d].kind # "none" /\ Visible(node, d)
           /\ IsDir(node, d) <=> d \in Ancestors(x)
           /\ ~IsDir(node, d) => d = x /\ node[d].len <= MaxFileSize
<1>1. d \in Paths /\ Ancestors(d) \subseteq Ancestors(x)
    BY AncestorForm DEF Lies, OnTheWay
<1>2. d # <<>>
    BY <1>1, PathForm
<1>3. d \in Ancestors(x) => IsDir(node, d)
    BY DEF Lies
<1>4. d \notin Ancestors(x) => d = x /\ node[d].kind = "file" /\ d \notin Passed
                               /\ node[d].len <= MaxFileSize
    BY DEF Lies, OnTheWay
<1> QED BY <1>1, <1>2, <1>3, <1>4 DEF OnTheWay, IsDir, Visible

\* An entry on the way to a file that lies still, and that the walk can come to,
\* is not passed over.
LEMMA NotSkipped ==
    ASSUME Base, NEW x, Lies(x), NEW p \in OnTheWay(x), Reachable(node, p)
    PROVE  ~Skips(node, p)
<1>1. p \in Paths /\ Visible(node, p) /\ (~IsDir(node, p) => node[p].len <= MaxFileSize)
    BY WayForm
<1>2. node[p].len \in Nat /\ MaxFileSize \in Nat
    BY <1>1, ConstantsAssumption DEF Base, Typed, Nodes, ConstantsAssumption
<1> QED BY <1>1, <1>2 DEF Skips, Reachable, Found

\* What a step must show of a file that lies still, when it changes no node.
Kept(x) == /\ "r" \in node[x].mode /\ ~Barred(x) => Read(x)' \/ ToCome(x)'
           /\ ~Barred(x) => \A q \in In(stack') \cup {stat'} :
                               q \in OnTheWay(x) => Reachable(node, q)
\* A step that does so for each of the files keeps the invariant of the walk.
LEMMA KeptIsEnough ==
    ASSUME IInv, UNCHANGED disk, steady' \subseteq steady, \A x \in steady' : Kept(x)
    PROVE  Missed'
<1>1. node' = node
    BY DEF disk
<1>2. ASSUME NEW x \in steady'
      PROVE  Lies(x)' /\ Barred(x)' = Barred(x) /\ Kept(x)
    <2>1. Lies(x)
        BY <1>2 DEF IInv, Missed
    <2> QED BY <1>1, <1>2, <2>1 DEF Lies, Barred, Lists, Enters, IsDir
<1> QED BY <1>1, <1>2 DEF Missed, Kept, OnTheWay

\* The walk misses nothing that lies still as it comes to an entry.
LEMMA WalkEntryMisses ==
    ASSUME IInv, NEW p \in ToWalk, WalksOver(p)
    PROVE  Missed'
<1>1. /\ pc = "walk" /\ stack \in Stacks /\ stack # <<>> /\ stat = <<>>
      /\ p \in Paths /\ p \in In(stack) /\ p # <<>>
    BY TopForm DEF IInv, Base, Tidy
<1>2. /\ Without(p) \in Stacks /\ In(Without(p)) \subseteq In(stack)
      /\ \A q \in In(stack) : q # p => q \in In(Without(p))
    BY <1>1, PassedBy
<1>3. CASE Abort(site)
    BY <1>3 DEF Abort, Missed
<1>4. ASSUME NEW x \in steady
      PROVE  /\ Lies(x)
             /\ "r" \in node[x].mode /\ ~Barred(x) => Read(x) \/ ToCome(x)
             /\ ~Barred(x) => \A q \in In(stack) : q \in OnTheWay(x) => Reachable(node, q)
             /\ ToCome(x) => OnTheWay(x) \cap In(stack) # {}
             /\ \A d \in OnTheWay(x) : d # <<>>
    <2>1. /\ Lies(x)
          /\ "r" \in node[x].mode /\ ~Barred(x) => Read(x) \/ ToCome(x)
          /\ ~Barred(x) => \A q \in In(stack) : q \in OnTheWay(x) => Reachable(node, q)
        BY <1>4 DEF IInv, Missed
    <2>2. \A d \in OnTheWay(x) : d # <<>>
        BY <2>1, WayForm
    <2> QED BY <1>1, <2>1, <2>2 DEF ToCome, OnTheWay
<1>5. ASSUME UNCHANGED <<disk, map>>, GoesOn(p), NEW f, LeavesOut(p, f),
             f[p] = node[p] => Skips(node, p)
      PROVE  Missed'
    <2>1. steady' \subseteq steady /\ \A x \in steady' : p \in OnTheWay(x) => f[p] = node[p]
        BY <1>5, LeavesOutForm
    <2>2. ASSUME NEW x \in steady'
          PROVE  Kept(x)
        <3>1. x \in steady
            BY <2>1
        <3>2. Read(x)' = Read(x)
            BY <1>5 DEF disk, Read, Body
        <3>3. ~Barred(x) => p \notin OnTheWay(x)
            BY <1>1, <1>4, <1>5, <2>1, <3>1, NotSkipped DEF IInv
        <3>4. ~Barred(x) /\ ToCome(x) => ToCome(x)'
            BY <1>2, <1>4, <1>5, <3>1, <3>3 DEF ToCome, GoesOn, OnTheWay
        <3>5. In(stack') \cup {stat'} \subseteq In(stack) \cup {<<>>}
            BY <1>1, <1>2, <1>5 DEF GoesOn
        <3> QED BY <1>4, <3>1, <3>2, <3>4, <3>5 DEF Kept
    <2> QED BY <1>5, <2>1, <2>2, KeptIsEnough
<1>6. ASSUME UNCHANGED <<disk, map>>, OpensDir(p)
      PROVE  Missed'
    <2>1. ASSUME NEW x \in steady'
          PROVE  Kept(x)
        <3>1. x \in steady /\ Read(x)' = Read(x)
            BY <1>6 DEF OpensDir, disk, Read, Body
        <3>2. /\ stack' = Append(Without(p), Entries(p)) /\ stat' = <<>>
              /\ IsDir(node, p) /\ Lists(node, p)
            BY <1>1, <1>6 DEF OpensDir
        <3>3. Entries(p) \in SUBSET Paths
            BY DEF Entries
        <3>4. In(stack') = In(Without(p)) \cup Entries(p)
            BY <1>2, <3>2, <3>3, Pushed
        <3>5. p \in OnTheWay(x) => OnTheWay(x) \cap Entries(p) # {}
            <4> SUFFICES ASSUME p \in OnTheWay(x)
                         PROVE  OnTheWay(x) \cap Entries(p) # {}
                OBVIOUS
            <4>1. p \in Ancestors(x) /\ x \in Paths
                BY <1>4, <3>1, <3>2, WayForm DEF Lies
            <4>2. PICK c \in OnTheWay(x) : c \in Paths /\ Len(c) = Len(p) + 1
                                           /\ Front(c) = p
                BY <4>1, NextDown DEF OnTheWay
            <4>3. node[c].kind # "none"
                BY <1>4, <3>1, <4>2, WayForm
            <4> QED BY <4>2, <4>3 DEF Entries
        <3>6. ToCome(x) => ToCome(x)'
            BY <1>2, <1>4, <3>1, <3>4, <3>5 DEF ToCome, OnTheWay
        <3>7. ASSUME ~Barred(x), NEW q \in Entries(p), q \in OnTheWay(x)
              PROVE  Reachable(node, q)
            <4>1. Ancestors(q) = Ancestors(p) \cup {p}
                BY <1>1, EntryAncestors
            <4>2. p \in Ancestors(x)
                <5>1. Ancestors(q) \subseteq Ancestors(x)
                    BY <1>4, <3>1, <3>7, AncestorForm DEF Lies, OnTheWay
                <5> QED BY <4>1, <5>1
            <4>3. Reachable(node, p)
                BY <1>1, <1>4, <3>1, <3>7, <4>2 DEF OnTheWay
            <4>4. Enters(node, p)
                BY <3>2, <3>7, <4>2 DEF Barred
            <4> QED BY <3>2, <4>1, <4>3, <4>4 DEF Reachable
        <3>8. In(stack') \cup {stat'} \subseteq In(stack) \cup Entries(p) \cup {<<>>}
            BY <1>2, <3>2, <3>4
        <3> QED BY <1>4, <3>1, <3>6, <3>7, <3>8 DEF Kept
    <2>2. steady' = steady
        BY <1>6 DEF OpensDir
    <2> QED BY <1>6, <2>1, <2>2, KeptIsEnough
<1>7. ASSUME UNCHANGED <<disk, map>>, LooksAt(p)
      PROVE  Missed'
    <2>1. ASSUME NEW x \in steady'
          PROVE  Kept(x)
        <3>1. x \in steady /\ Read(x)' = Read(x)
            BY <1>7 DEF LooksAt, disk, Read, Body
        <3>2. stack' = Without(p) /\ stat' = p /\ ~IsDir(node, p)
            BY <1>7 DEF LooksAt
        <3>3. p \in OnTheWay(x) => p = x
            BY <1>4, <3>1, <3>2, WayForm
        <3>4. ToCome(x) => ToCome(x)'
            BY <1>2, <1>4, <3>1, <3>2, <3>3 DEF ToCome, OnTheWay
        <3>5. In(stack') \cup {stat'} \subseteq In(stack)
            BY <1>1, <1>2, <3>2
        <3> QED BY <1>4, <3>1, <3>4, <3>5 DEF Kept
    <2>2. steady' = steady
        BY <1>7 DEF LooksAt
    <2> QED BY <1>7, <2>1, <2>2, KeptIsEnough
<1>8. CASE ~Abort(site)
    <2>1. /\ UNCHANGED <<disk, map>>
          /\ \/ /\ GoesOn(p)
                /\ \E f : LeavesOut(p, f) /\ (f[p] = node[p] => Skips(node, p))
             \/ OpensDir(p)
             \/ LooksAt(p)
        BY <1>8, WalkEntryForm DEF IInv
    <2> QED BY <1>5, <1>6, <1>7, <2>1
<1> QED BY <1>3, <1>8

\* Nor as it reads a file.
LEMMA ReadFileMisses ==
    ASSUME IInv, Reads
    PROVE  Missed'
<1>1. pc = "read" /\ UNCHANGED disk /\ stat \in Paths
    BY ReadFileForm, ReadForm DEF IInv
<1>2. CASE Abort(site)
    BY <1>2 DEF Abort, Missed
<1>3. ASSUME steady' \subseteq steady, stat' = <<>>, UNCHANGED stack,
             \/ map' = Added
             \/ map' = map /\ \A x \in steady' : stat = x => ~Readable
      PROVE  Missed'
    <2>1. ASSUME NEW x \in steady'
          PROVE  Kept(x)
        <3>1. /\ Lies(x)
              /\ "r" \in node[x].mode /\ ~Barred(x) => Read(x) \/ ToCome(x)
              /\ ~Barred(x) => \A q \in In(stack) \cup {stat} :
                                  q \in OnTheWay(x) => Reachable(node, q)
            BY <1>3 DEF IInv, Missed
        <3>2. Read(x) => Read(x)'
            BY <1>1, <1>3 DEF disk, Read, Added, Body
        <3>3. stat = x /\ "r" \in node[x].mode /\ ~Barred(x) => Read(x)'
            <4> SUFFICES ASSUME stat = x, "r" \in node[x].mode, ~Barred(x)
                         PROVE  Read(x)'
                OBVIOUS
            <4>1. Readable
                BY <3>1 DEF Readable, Lies, OnTheWay, Reachable, Found
            <4>2. map' = Added
                BY <1>3, <4>1
            <4> QED BY <1>1, <4>2 DEF disk, Read, Added, Body
        <3>4. ToCome(x) => stat = x \/ ToCome(x)'
            BY <1>3 DEF ToCome
        <3>5. \A d \in OnTheWay(x) : d # <<>>
            BY <3>1, WayForm
        <3> QED BY <1>3, <3>1, <3>2, <3>3, <3>4, <3>5 DEF Kept
    <2> QED BY <1>1, <1>3, <2>1, KeptIsEnough
<1>4. ASSUME ~Abort(site), NEW f \in {node, Sealed(stat)}, LeavesOut(stat, f),
             f = node => ~Readable, map' = map
      PROVE  /\ steady' \subseteq steady
             /\ \A x \in steady' : stat = x => ~Readable
    <2>1. /\ steady' \subseteq steady
          /\ \A x \in steady' : stat \in OnTheWay(x) => f[stat] = node[stat]
        BY <1>4, LeavesOutForm
    <2>2. f[stat] = node[stat] => f = node
        BY <1>1, <1>4, FaultForm DEF IInv
    <2>3. \A x : x \in OnTheWay(x)
        BY DEF OnTheWay
    <2> QED BY <1>4, <2>1, <2>2, <2>3
<1>5. CASE ~Abort(site)
    <2>1. /\ stat' = <<>> /\ UNCHANGED stack
          /\ \/ Keeps
             \/ LeavesOut(stat, node) /\ ~Readable /\ map' = map
             \/ LeavesOut(stat, Sealed(stat)) /\ map' = map
        BY <1>5, ReadFileForm DEF IInv
    <2>2. CASE Keeps
        BY <1>3, <2>1, <2>2 DEF Keeps
    <2>3. CASE LeavesOut(stat, node) /\ ~Readable /\ map' = map
        BY <1>3, <1>4, <1>5, <2>1, <2>3
    <2>4. CASE LeavesOut(stat, Sealed(stat)) /\ map' = map
        <3>1. CASE Sealed(stat) = node /\ Readable
            <4>1. Sealed(stat)[stat].mode = {}
                BY <1>1, FaultForm DEF IInv
            <4> QED BY <3>1, <4>1 DEF Readable
        <3>2. CASE ~(Sealed(stat) = node /\ Readable)
            BY <1>3, <1>4, <1>5, <2>1, <2>4, <3>2
        <3> QED BY <3>1, <3>2
    <2> QED BY <2>1, <2>2, <2>3, <2>4
<1> QED BY <1>2, <1>5

\* Nor when someone writes: what was touched no longer lies still.
LEMMA EditMisses ==
    ASSUME IInv, NEW kind, NEW changed, NEW new, Edit(kind, changed, new)
    PROVE  Missed'
<1>1. /\ node' = [p \in Paths |-> IF p \in changed THEN new[p] ELSE node[p]]
      /\ steady' = {p \in steady : ({p} \cup Ancestors(p)) \cap changed = {}}
      /\ UNCHANGED <<stack, stat, map>>
    BY DEF Edit
<1>2. ASSUME NEW x \in steady'
      PROVE  /\ Lies(x)'
             /\ "r" \in node'[x].mode /\ ~Barred(x)' => Read(x)' \/ ToCome(x)'
             /\ ~Barred(x)' => \A q \in In(stack') \cup {stat'} :
                                  q \in OnTheWay(x) => Reachable(node', q)
    <2>1. x \in steady /\ \A d \in OnTheWay(x) : d \notin changed
        BY <1>1 DEF OnTheWay
    <2>2. /\ Lies(x)
          /\ "r" \in node[x].mode /\ ~Barred(x) => Read(x) \/ ToCome(x)
          /\ ~Barred(x) => \A q \in In(stack) \cup {stat} :
                              q \in OnTheWay(x) => Reachable(node, q)
        BY <2>1 DEF IInv, Missed
    <2>3. \A d \in OnTheWay(x) : node'[d] = node[d]
        BY <1>1, <2>1, <2>2, WayForm
    <2>4. node'[x] = node[x] /\ \A d \in Ancestors(x) : node'[d] = node[d]
        BY <2>3 DEF OnTheWay
    <2>5. Lies(x)'
        BY <2>2, <2>4 DEF Lies, IsDir
    <2>6. Read(x)' = Read(x) /\ ToCome(x)' = ToCome(x)
        BY <1>1, <2>4 DEF Read, ToCome, Body
    <2>7. Barred(x)' = Barred(x)
        BY <2>4 DEF Barred, Lists, Enters, IsDir
    <2>8. ASSUME NEW q \in OnTheWay(x), Reachable(node, q)
          PROVE  Reachable(node', q)
        <3>1. Ancestors(q) \subseteq Ancestors(x)
            BY <2>2, AncestorForm DEF Lies, OnTheWay
        <3> QED BY <2>4, <2>8, <3>1 DEF Reachable, Lists, Enters, IsDir
    <2> QED BY <1>1, <2>2, <2>4, <2>5, <2>6, <2>7, <2>8
<1> QED BY <1>2 DEF Missed, OnTheWay

\* Nothing that lies still is missed, whatever the step.
LEMMA MissedStep ==
    ASSUME IInv, [Next]_vars
    PROVE  Missed'
<1>1. ASSUME UNCHANGED <<disk, map, stat, steady>>, In(stack') = In(stack)
      PROVE  Missed'
    <2>1. ASSUME NEW x \in steady'
          PROVE  Kept(x)
        <3>1. x \in steady /\ Read(x)' = Read(x) /\ ToCome(x)' = ToCome(x)
            BY <1>1 DEF disk, Read, ToCome, Body
        <3> QED BY <1>1, <3>1 DEF IInv, Missed, Kept
    <2> QED BY <1>1, <2>1, KeptIsEnough
<1>2. CASE UNCHANGED vars
    BY <1>1, <1>2 DEF vars, disk, walk
<1>3. CASE Writers
    BY <1>3, WriterForm, EditMisses DEF IInv
<1>4. CASE Reads
    BY <1>4, ReadFileMisses
<1>5. CASE WalkReturn
    <2>1. In(stack') = In(stack) /\ UNCHANGED <<disk, map, stat, steady>>
        BY <1>5, WalkReturnTyped DEF IInv, WalkReturn
    <2> QED BY <1>1, <2>1
<1>6. CASE Promote
    BY <1>6 DEF Promote, Missed
<1>7. CASE \E p \in ToWalk : WalksOver(p)
    BY <1>7, WalkEntryMisses
<1>8. CASE \/ \E f : Signs(f)
           \/ EndOfTick
           \/ \E s \in Sites : Turns(s) /\ pc' # "walk"
    <2>1. ~Walking /\ steady' = steady
        BY <1>8, IdleStep, Charges DEF IInv
    <2>2. steady' = {}
        BY <2>1 DEF IInv, Base, Tidy
    <2> QED BY <2>2 DEF Missed
<1>9. ASSUME NEW s \in Sites, Turns(s), pc' = "walk"
      PROVE  Missed'
    <2>1. /\ ~Walking /\ Begin(s) /\ Lists(node, <<s>>) /\ site' = s
          /\ stat' = stat /\ UNCHANGED disk
        BY <1>9, FirstStep DEF IInv
    <2> QED BY <2>1, BeginMisses DEF IInv
<1> QED BY <1>2, <1>3, <1>4, <1>5, <1>6, <1>7, <1>8, <1>9, StepForm

\* The inductive invariant holds in every state.
LEMMA Inductive == Spec => [](IInv /\ Marked)
<1>1. Init => IInv /\ Marked
    <2>1. Init => Marked
        <3>1. MaxFaults \in Nat
            BY ConstantsAssumption DEF ConstantsAssumption
        <3>2. Init => faults = 0 /\ lost = FALSE /\ partial = {}
            BY DEF Init
        <3> HIDE DEF Init
        <3>3. 0 \in 0 .. MaxFaults
            BY <3>1
        <3> QED BY <3>2, <3>3 DEF Marked
    <2> QED BY <2>1, BaseInit DEF IInv, Missed, Init
<1>2. IInv /\ Marked /\ [Next]_vars => IInv' /\ Marked'
    BY BaseStep, MissedStep, MarkedStep DEF IInv
<1> QED BY <1>1, <1>2, PTL DEF Spec
----------------------------------------------------------------------------
(* The budget *)

\* The sums that the budget is about are of natural numbers, and every site
\* adds one error set.
LEMMA Sums ==
    ASSUME Base
    PROVE  /\ Held(Sites) \in Nat /\ cache_bytes(map) \in Nat /\ total \in Nat
           /\ \A s \in Sites : /\ Held(Sites \ {s}) \in Nat
                               /\ Held(Sites \ {s}) <= Held(Sites)
           /\ Built \in Nat /\ MaxTotalBytes \in Nat /\ error_page_bytes \in Nat
           /\ ErrorSet \in Nat /\ Errors(1) = ErrorSet
           /\ \A n \in Nat : Errors(n) \in Nat /\ Errors(n + 1) = Errors(n) + ErrorSet
           /\ todo = Sites => Built = 0
           /\ todo = {} => Errors(1 + Built) = error_page_bytes
<1>1. ErrorSet \in Nat /\ MaxTotalBytes \in Nat /\ error_page_bytes \in Nat
    BY Charges
<1>2. cache_bytes(map) \in Nat /\ total \in Nat
    BY CacheBytes DEF Base, Typed
<1>3. ASSUME NEW S \in SUBSET Sites
      PROVE  Held(S) \in Nat /\ Held(S) <= Held(Sites)
    BY HeldForm
<1>4. \A n \in Nat : Errors(n) \in Nat /\ Errors(n + 1) = Errors(n) + ErrorSet
    BY <1>1 DEF Errors
<1>5. /\ Built \in Nat
      /\ todo = Sites => Built = 0
      /\ todo = {} => Built = Cardinality(Sites)
    <2>1. IsFiniteSet(Sites \ todo)
        BY ConstantsAssumption, FS_Difference DEF ConstantsAssumption
    <2>2. todo = Sites => Sites \ todo = {}
        OBVIOUS
    <2>3. todo = {} => Sites \ todo = Sites
        OBVIOUS
    <2> QED BY <2>1, <2>2, <2>3, FS_CardinalityType, FS_EmptySet DEF Built
<1>6. Errors(1) = ErrorSet /\ (todo = {} => Errors(1 + Built) = error_page_bytes)
    BY <1>1, <1>5 DEF Errors, error_page_bytes
<1>7. \A s \in Sites : Sites \ {s} \in SUBSET Sites
    OBVIOUS
<1> QED BY <1>1, <1>2, <1>3, <1>4, <1>5, <1>6, <1>7

\* What the sites hold depends on their caches alone.
LEMMA SameHeld ==
    ASSUME served' = served
    PROVE  \A S : Held(S)' = Held(S)
BY DEF Held, Bytes

\* The one step that changes what is held.
LEMMA PromoteBudget ==
    ASSUME Base, Base', Budgets, Promote
    PROVE  Budgets'
<1>1. /\ pc = "promote" /\ pc' = "next" /\ served' = [served EXCEPT ![site] = map]
      /\ todo' = todo \ {site} /\ map' = Empty /\ total' = total /\ job' = job
      /\ site \in Sites
    BY DEF Promote, Base, Typed
<1>2. /\ Held(Sites)' <= Held(Sites \ {site}) + cache_bytes(map)
      /\ Held(Sites)' \in Nat /\ cache_bytes(map') = 0
    BY <1>1, HeldPromoted, EmptyBytes
<1>3. /\ Held(Sites) \in Nat /\ cache_bytes(map) \in Nat /\ total \in Nat
      /\ Held(Sites \ {site}) \in Nat /\ Held(Sites \ {site}) <= Held(Sites)
      /\ MaxTotalBytes \in Nat /\ error_page_bytes \in Nat /\ Built \in Nat
    BY <1>1, Sums
<1>4. CASE job = "boot"
    <2>1. /\ Held(Sites) + cache_bytes(map) + Errors(1 + Built + 1) <= total
          /\ total <= MaxTotalBytes /\ site \in todo
        BY <1>1, <1>4 DEF Budgets, BootBudget, Walking
    <2>2. Built' = Built + 1
        <3>1. IsFiniteSet(Sites \ todo)
            BY ConstantsAssumption, FS_Difference DEF ConstantsAssumption
        <3>2. Sites \ (todo \ {site}) = (Sites \ todo) \cup {site}
            BY <1>1
        <3> QED BY <1>1, <2>1, <3>1, <3>2, FS_AddElement DEF Built
    <2>3. Errors(1 + Built + 1) \in Nat
        BY <1>3, Sums
    <2>4. Held(Sites)' + Errors(1 + Built + 1) <= total
        BY <1>2, <1>3, <2>1, <2>3
    <2>5. Errors(1 + Built)' = Errors(1 + Built + 1)
        BY <1>3, <2>2 DEF Errors
    <2>6. Held(Sites)' + cache_bytes(map') <= MaxTotalBytes
        BY <1>2, <1>3, <2>1, <2>3, <2>4
    <2>7. todo' # Sites
        BY <1>1
    <2>8. BootBudget'
        BY <1>1, <2>1, <2>4, <2>5, <2>6, <2>7 DEF BootBudget, Walking
    <2> QED BY <1>1, <1>4, <2>8 DEF Budgets, ScanBudget
<1>5. CASE job # "boot"
    <2>1. Held(Sites \ {site}) + error_page_bytes + cache_bytes(map) <= MaxTotalBytes
        <3>1. job = "scan"
            BY <1>5 DEF Base, Typed
        <3>2. Seed(site) + cache_bytes(map) <= total /\ total <= MaxTotalBytes
            BY <1>1, <3>1 DEF Budgets, ScanBudget, Walking
        <3> QED BY <1>3, <3>2 DEF Seed
    <2>2. Held(Sites)' + error_page_bytes <= MaxTotalBytes
        BY <1>2, <1>3, <2>1
    <2>3. error_page_bytes' = error_page_bytes
        BY DEF error_page_bytes
    <2> QED BY <1>1, <1>5, <2>2, <2>3 DEF Budgets, BootBudget, ScanBudget, Walking
<1> QED BY <1>4, <1>5

\* A file that is read is charged before it is kept.
LEMMA ReadFileBudget ==
    ASSUME Base, Base', Budgets, Reads, ~Abort(site)
    PROVE  Budgets'
<1>1. /\ pc = "read" /\ pc' = "walk"
      /\ UNCHANGED <<served, job, todo, site>>
      /\ \/ UNCHANGED <<total, map>>
         \/ /\ Readable /\ total + Stored[node[stat].len] <= MaxTotalBytes
            /\ total' = total + Stored[node[stat].len] /\ map' = Added
    BY ReadFileForm DEF Keeps
<1>2. CASE UNCHANGED <<total, map>>
    BY <1>1, <1>2, SameHeld DEF Budgets, BootBudget, ScanBudget, Walking, Seed,
                                error_page_bytes, Built, Errors, cache_bytes, Bytes
<1>3. CASE /\ Readable /\ total + Stored[node[stat].len] <= MaxTotalBytes
           /\ total' = total + Stored[node[stat].len] /\ map' = Added
    <2> DEFINE k == Stored[node[stat].len]
    <2>1. k \in Nat /\ total' = total + k /\ total' <= MaxTotalBytes
        BY <1>1, <1>3, ReadForm
    <2>2. cache_bytes(map') <= cache_bytes(map) + k /\ cache_bytes(map') \in Nat
        <3>1. cache_bytes(Added) <= cache_bytes(map) + k
            BY <1>1, <1>3, AddedBytes
        <3>2. cache_bytes(map)' = cache_bytes(map')
            BY DEF cache_bytes, Bytes
        <3>3. cache_bytes(Added) \in Nat
            BY <1>1, <1>3, ReadForm, CacheBytes
        <3> QED BY <1>3, <3>1, <3>2, <3>3
    <2> HIDE DEF k
    <2>3. /\ Held(Sites) \in Nat /\ cache_bytes(map) \in Nat /\ total \in Nat
          /\ Held(Sites \ {site}) \in Nat /\ error_page_bytes \in Nat
          /\ Errors(1 + Built + 1) \in Nat /\ MaxTotalBytes \in Nat
        <3>1. 1 + Built + 1 \in Nat /\ site \in Sites
            BY Sums DEF Base, Typed
        <3> QED BY <3>1, Sums
    <2>4. /\ Held(Sites)' = Held(Sites) /\ Seed(site)' = Seed(site)
          /\ Errors(1 + Built + 1)' = Errors(1 + Built + 1)
          /\ Seed(site) \in Nat /\ error_page_bytes' = error_page_bytes
        BY <1>1, <2>3, SameHeld DEF Seed, error_page_bytes, Errors, Built
    <2>5. ASSUME job = "boot"
          PROVE  BootBudget'
        <3>1. /\ Held(Sites) + cache_bytes(map) + Errors(1 + Built + 1) <= total
              /\ todo = Sites => Held(Sites) = 0
              /\ site \in todo
            BY <1>1, <2>5 DEF Budgets, BootBudget, Walking
        <3>2. Held(Sites) + cache_bytes(map') + Errors(1 + Built + 1) <= total'
            BY <2>1, <2>2, <2>3, <3>1
        <3>3. Held(Sites) + cache_bytes(map') <= MaxTotalBytes
            BY <2>1, <2>2, <2>3, <3>2
        <3> QED BY <1>1, <2>1, <2>4, <3>1, <3>2, <3>3 DEF BootBudget, Walking
    <2>6. ASSUME job = "scan"
          PROVE  ScanBudget'
        <3>1. /\ Held(Sites) + error_page_bytes <= MaxTotalBytes
              /\ Seed(site) + cache_bytes(map) <= total
            BY <1>1, <2>6 DEF Budgets, ScanBudget, Walking
        <3>2. Seed(site) + cache_bytes(map') <= total'
            BY <2>1, <2>2, <2>3, <2>4, <3>1
        <3> QED BY <2>1, <2>4, <3>1, <3>2 DEF ScanBudget
    <2> QED BY <1>1, <2>5, <2>6 DEF Budgets, BootBudget, ScanBudget
<1> QED BY <1>1, <1>2, <1>3

\* A step of a walk that charges nothing, and one that gives the walk up.
LEMMA WalkOnBudget ==
    ASSUME Budgets, pc' = pc \/ (Walking /\ Walking'),
           UNCHANGED <<served, job, todo, site, total, map>>
    PROVE  Budgets'
<1>1. /\ \A S : Held(S)' = Held(S)
      /\ Seed(site)' = Seed(site) /\ error_page_bytes' = error_page_bytes
      /\ cache_bytes(map') = cache_bytes(map)
      /\ Built' = Built
    BY SameHeld DEF Seed, error_page_bytes, Built
<1>2. Errors(1 + Built)' = Errors(1 + Built)
      /\ Errors(1 + Built + 1)' = Errors(1 + Built + 1)
    BY <1>1 DEF Errors
<1>3. BootBudget'
    BY <1>1, <1>2 DEF Budgets, BootBudget, Walking
<1>4. ScanBudget'
    BY <1>1 DEF Budgets, ScanBudget, Walking
<1> QED BY <1>3, <1>4 DEF Budgets

\* A boot that ends, or a rebuild that is given up, keeps the budgets.
LEMMA StopBudget ==
    ASSUME Base, Budgets, UNCHANGED <<served, job>>, map' = Empty,
           \/ pc' = "dead" /\ todo' = todo
           \/ job = "scan" /\ pc' = "next"
    PROVE  Budgets'
<1>1. /\ \A S : Held(S)' = Held(S)
      /\ cache_bytes(map') = 0 /\ error_page_bytes' = error_page_bytes
    BY SameHeld, EmptyBytes DEF error_page_bytes
<1>2. /\ Held(Sites) \in Nat /\ cache_bytes(map) \in Nat /\ MaxTotalBytes \in Nat
    BY Sums
<1>3. job = "boot" => Held(Sites) + cache_bytes(map') <= MaxTotalBytes
    BY <1>1, <1>2 DEF Budgets, BootBudget
<1>4. BootBudget'
    BY <1>1, <1>3 DEF Budgets, BootBudget, Walking
<1>5. ScanBudget'
    BY <1>1 DEF Budgets, ScanBudget, Walking
<1> QED BY <1>4, <1>5 DEF Budgets

\* The ends of the boot: the first sample, and the start of the watcher.
LEMMA BootBudgetEnds ==
    ASSUME Base, Budgets, NEW f, Sample(f) \/ StartWatch(f)
    PROVE  Budgets'
<1> USE DEF loop, memory, walk
<1>1. /\ \A S : Held(S)' = Held(S)
      /\ map' = map /\ error_page_bytes' = error_page_bytes
      /\ ~Walking /\ ~Walking' /\ map = Empty /\ cache_bytes(map) = 0
    <2>1. served' = served /\ map' = map /\ ~Walking /\ ~Walking'
        BY DEF Sample, StartWatch, Walking
    <2>2. map = Empty
        BY <2>1 DEF Base, Tidy
    <2> QED BY <2>1, <2>2, SameHeld, EmptyBytes DEF error_page_bytes
<1>2. /\ Held(Sites) \in Nat /\ MaxTotalBytes \in Nat /\ total \in Nat
      /\ error_page_bytes \in Nat
    BY Sums
<1>3. CASE Sample(f)
    <2>1. /\ pc = "sample" /\ pc' = "next" /\ total' = ErrorSet
          /\ UNCHANGED <<job, todo>>
        BY <1>3 DEF Sample
    <2>2. ASSUME job = "boot"
          PROVE  BootBudget'
        <3>1. todo = Sites /\ Held(Sites) = 0
            BY <2>1, <2>2 DEF Budgets, BootBudget
        <3>2. Built' = 0 /\ Errors(1) = ErrorSet /\ ErrorSet \in Nat
            BY <2>1, <3>1, Sums DEF Built
        <3>3. Held(Sites)' + Errors(1 + Built)' <= total'
            BY <1>1, <2>1, <3>1, <3>2 DEF Errors
        <3> QED BY <1>1, <1>2, <2>1, <3>1, <3>3 DEF BootBudget
    <2>3. ScanBudget'
        BY <1>1, <2>1 DEF Budgets, ScanBudget
    <2> QED BY <2>1, <2>2, <2>3 DEF Budgets, BootBudget
<1>4. CASE StartWatch(f)
    <2>1. pc = "next" /\ job = "boot" /\ todo = {} /\ job' = "scan" /\ site \in Sites
        BY <1>4 DEF StartWatch, Base, Typed
    <2>2. Held(Sites) + Errors(1 + Built) <= total /\ total <= MaxTotalBytes
        BY <2>1 DEF Budgets, BootBudget
    <2>3. Errors(1 + Built) = error_page_bytes
        BY <2>1, Sums
    <2>4. Held(Sites) + error_page_bytes <= MaxTotalBytes
        BY <1>2, <2>2, <2>3
    <2> QED BY <1>1, <2>1, <2>4 DEF Budgets, BootBudget, ScanBudget
<1> QED BY <1>3, <1>4

\* What the first charge of a walk is made of.
LEMMA BeginBudget ==
    ASSUME Base, Budgets, NEW s \in Sites, Turns(s), pc' = "walk"
    PROVE  Budgets'
<1>1. /\ Begin(s) /\ site' = s /\ pc = "next" /\ UNCHANGED <<served, job, todo>>
      /\ \/ job = "boot" /\ total' = total + ErrorSet /\ s \in todo
               /\ total' <= MaxTotalBytes
         \/ job = "scan" /\ total' = Seed(s)
    BY FirstStep
<1>2. /\ \A S : Held(S)' = Held(S)
      /\ cache_bytes(map') = 0 /\ error_page_bytes' = error_page_bytes
      /\ Built' = Built
    BY <1>1, SameHeld, EmptyBytes DEF error_page_bytes, Begin, Built
<1>3. /\ Held(Sites) \in Nat /\ MaxTotalBytes \in Nat /\ total \in Nat
      /\ error_page_bytes \in Nat /\ ErrorSet \in Nat
      /\ Held(Sites \ {s}) \in Nat /\ Held(Sites \ {s}) <= Held(Sites)
    BY Sums
<1>4. CASE job = "boot"
    <2>1. Held(Sites) + Errors(1 + Built) <= total
          /\ (todo = Sites => Held(Sites) = 0)
        BY <1>1, <1>4 DEF Budgets, BootBudget
    <2>2. /\ Errors(1 + Built) \in Nat
          /\ Errors(1 + Built + 1) = Errors(1 + Built) + ErrorSet
        <3>1. 1 + Built \in Nat
            BY Sums
        <3> QED BY <3>1, Sums
    <2>3. Errors(1 + Built + 1)' = Errors(1 + Built + 1)
        BY <1>2 DEF Errors
    <2>4. /\ total' = total + ErrorSet /\ total' <= MaxTotalBytes /\ s \in todo
        BY <1>1, <1>4
    <2>5. Held(Sites) + 0 + Errors(1 + Built + 1) <= total'
        BY <1>3, <2>1, <2>2, <2>4
    <2>6. Held(Sites) + 0 <= MaxTotalBytes
        BY <1>3, <2>2, <2>4, <2>5
    <2> QED BY <1>1, <1>2, <1>4, <2>1, <2>3, <2>4, <2>5, <2>6
            DEF Budgets, BootBudget, ScanBudget
<1>5. CASE job = "scan"
    <2>1. Held(Sites) + error_page_bytes <= MaxTotalBytes /\ total' = Seed(s)
        BY <1>1, <1>5 DEF Budgets, ScanBudget
    <2>2. Seed(s) <= MaxTotalBytes /\ Seed(s) \in Nat
        BY <1>3, <2>1 DEF Seed
    <2>3. Seed(site)' = Seed(s)
        BY <1>1, <1>2 DEF Seed
    <2>4. Seed(s) + 0 <= total'
        BY <2>1, <2>2
    <2> QED BY <1>1, <1>2, <1>5, <2>1, <2>2, <2>3, <2>4
            DEF Budgets, BootBudget, ScanBudget
<1> QED BY <1>1, <1>4, <1>5

\* Every step keeps the budgets.
LEMMA BudgetsStep ==
    ASSUME Base, Base', Budgets, [Next]_vars
    PROVE  Budgets'
<1> USE DEF disk, loop, memory, walk
<1>1. CASE UNCHANGED vars
    BY <1>1, WalkOnBudget DEF vars
<1>2. CASE Writers
    <2>1. UNCHANGED <<pc, served, job, todo, site, total, map>>
        BY <1>2, WriterForm DEF Edit
    <2> QED BY <2>1, WalkOnBudget
<1>3. ASSUME NEW s \in Sites, Abort(s)
      PROVE  Budgets'
    BY <1>3, StopBudget DEF Abort
<1>4. CASE Reads \/ WalkReturn \/ Promote
    <2>1. CASE WalkReturn
        <3>1. /\ Walking /\ Walking'
              /\ UNCHANGED <<served, job, todo, site, total, map>>
            BY <2>1 DEF WalkReturn, Walking
        <3> QED BY <3>1, WalkOnBudget
    <2>2. site \in Sites
        BY DEF Base, Typed
    <2> QED BY <1>3, <1>4, <2>1, <2>2, ReadFileBudget, PromoteBudget
<1>5. ASSUME NEW p \in ToWalk, WalksOver(p)
      PROVE  Budgets'
    <2>1. CASE ~Abort(site)
        <3>1. /\ Walking /\ Walking'
              /\ UNCHANGED <<served, job, todo, site, total, map>>
            BY <1>5, <2>1, WalkEntryForm
            DEF ToWalk, Walking, GoesOn, OpensDir, LooksAt
        <3> QED BY <3>1, WalkOnBudget
    <2>2. site \in Sites
        BY DEF Base, Typed
    <2> QED BY <1>3, <2>1, <2>2
<1>6. CASE \E f : Sample(f) \/ StartWatch(f)
    BY <1>6, BootBudgetEnds
<1>7. CASE EndOfTick \/ \E f : Scan(f)
    <2>1. /\ UNCHANGED <<served, job, map>> /\ pc' \in {"next", "sleep"}
          /\ job = "scan" /\ ~Walking
        <3>1. pc = "sleep" => job = "scan"
            BY DEF Budgets, BootBudget, Base, Typed
        <3> QED BY <1>7, <3>1 DEF Scan, EndOfTick, Walking
    <2>2. map' = Empty /\ error_page_bytes' = error_page_bytes
        BY <2>1 DEF Base, Tidy, error_page_bytes
    <2> QED BY <2>1, <2>2, SameHeld DEF Budgets, BootBudget, ScanBudget, Walking
<1>8. ASSUME NEW s \in Sites, Turns(s), pc' # "walk"
      PROVE  Budgets'
    <2>1. /\ UNCHANGED <<served, job, map>> /\ ~Walking
          /\ \/ pc' = "dead" /\ todo' = todo
             \/ job = "scan" /\ pc' = "next"
        BY <1>8 DEF Turns, BuildSite, Consider, Begin, Walking
    <2>2. map' = Empty
        BY <2>1 DEF Base, Tidy
    <2> QED BY <2>1, <2>2, StopBudget
<1>9. ASSUME NEW s \in Sites, Turns(s), pc' = "walk"
      PROVE  Budgets'
    BY <1>9, BeginBudget
<1> QED BY <1>1, <1>2, <1>4, <1>5, <1>6, <1>7, <1>8, <1>9, StepForm DEF Signs

\* The budgets hold before the first site is built.
LEMMA BudgetsInit == Init => Budgets
<1> SUFFICES ASSUME Init PROVE Budgets
    OBVIOUS
<1>1. pc = "sample" /\ job = "boot" /\ todo = Sites /\ map = Empty
    BY DEF Init
<1>2. Held(Sites) = 0
    <2>1. \A s \in Sites : Bytes(served[s]) = {}
        BY DEF Init, Bytes, Empty
    <2>2. UNION {Bytes(served[s]) : s \in Sites} = {}
        BY <2>1
    <2> QED BY <2>2, FS_EmptySet DEF Held
<1>3. 0 + 0 <= MaxTotalBytes
    BY Charges
<1> QED BY <1>1, <1>2, <1>3, EmptyBytes DEF Budgets, BootBudget, ScanBudget, Walking

----------------------------------------------------------------------------
(* The theorems *)

\* The watcher's thread is always at one place of a boot, a scan or a walk, and
\* no cache holds what is not content of its site: no hidden name, no symlink
\* and nothing of another root (`walk` of src/src/cache.rs).
THEOREM ContentTyped == Spec => []TypeOK
<1>1. IInv /\ Marked => TypeOK
    <2> SUFFICES ASSUME IInv, Marked PROVE TypeOK
        OBVIOUS
    <2>1. stack # <<>> => pc \in {"walk", "read"}
        BY DEF IInv, Base, Tidy
    <2> QED BY <2>1 DEF IInv, Base, Typed, Tidy, Owned, Own, Marked, TypeOK
<1> QED BY <1>1, Inductive, PTL

\* A cache that is installed has every readable file that lay still while the
\* tree was walked, whatever the writers did around it and whichever other reads
\* failed, unless a directory above it lists its entries and does not let the
\* server reach them: `walk` gives the build up before it passes over a directory
\* it cannot list, and passes over an entry only if lstat or the read of that
\* very entry fails.
THEOREM PromotionIsComplete == Spec => []PromotedComplete
<1>1. IInv => PromotedComplete
    <2> SUFFICES ASSUME IInv, pc = "promote", NEW p \in steady,
                        "r" \in node[p].mode, ~Barred(p)
                 PROVE  p \in DOMAIN map /\ map[p] = Body(p)
        BY DEF PromotedComplete
    <2>1. stack = <<>> /\ stat = <<>> /\ In(<<>>) = {}
        BY FirstOpened DEF IInv, Base, Tidy, Typed
    <2>2. Lies(p) /\ (Read(p) \/ ToCome(p))
        BY DEF IInv, Missed
    <2>3. ~ToCome(p)
        BY <2>1, <2>2, PathForm DEF ToCome, Lies
    <2> QED BY <2>2, <2>3 DEF Read
<1> QED BY <1>1, Inductive, PTL

\* All caches and error responses together stay within max_total_bytes, at boot
\* and after every rebuild, and while a rebuild goes on within twice of it:
\* every byte is charged before it is kept, and a rebuild is charged first with
\* what the other sites hold (`build_cache`, `build_vhosts` and `watch`).
THEOREM BudgetIsKept == Spec => []BudgetKept
<1>1. IInv /\ Budgets => BudgetKept
    <2> SUFFICES ASSUME IInv, Budgets PROVE BudgetKept
        OBVIOUS
    <2>1. /\ Held(Sites) \in Nat /\ cache_bytes(map) \in Nat /\ total \in Nat
          /\ error_page_bytes \in Nat /\ MaxTotalBytes \in Nat
          /\ Held(Sites \ {site}) \in Nat
        BY Sums DEF IInv, Base, Typed
    <2>2. CASE job = "boot"
        BY <2>2 DEF Budgets, BootBudget, BudgetKept
    <2>3. CASE job = "scan"
        <3>1. Held(Sites) + error_page_bytes <= MaxTotalBytes
            BY <2>3 DEF Budgets, ScanBudget
        <3>2. cache_bytes(map) <= MaxTotalBytes
            <4>1. CASE Walking
                <5>1. Seed(site) + cache_bytes(map) <= total /\ total <= MaxTotalBytes
                    BY <2>3, <4>1 DEF Budgets, ScanBudget
                <5> QED BY <2>1, <5>1 DEF Seed
            <4>2. CASE ~Walking
                BY <2>1, <4>2, EmptyBytes DEF IInv, Base, Tidy
            <4> QED BY <4>1, <4>2
        <3>3. Held(Sites) + error_page_bytes + cache_bytes(map) <= 2 * MaxTotalBytes
            BY <2>1, <3>1, <3>2
        <3> QED BY <2>3, <3>1, <3>3 DEF BudgetKept
    <2> QED BY <2>2, <2>3 DEF IInv, Base, Typed
<1>2. Init => Budgets
    BY BudgetsInit
<1>3. IInv /\ IInv' /\ Budgets /\ [Next]_vars => Budgets'
    BY BudgetsStep DEF IInv
<1> QED BY <1>1, <1>2, <1>3, Inductive, PTL DEF Spec
=============================================================================
