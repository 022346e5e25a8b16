------------------------------ MODULE Content ------------------------------
(***************************************************************************)
(* The content caches of the sites under `storage = memory`: the build of  *)
(* a cache from a document tree (`build_cache` and `walk` of               *)
(* src/src/cache.rs), the tree signature that asks for it                  *)
(* (`dir_signature`), and the part of the watcher that rebuilds one site   *)
(* at a time within one byte budget (src/src/main.rs).  Writers go on      *)
(* changing the trees between any two reads of the walk, and any read may  *)
(* fail for a reason of its own (no descriptor left, an error of the disk).*)
(*                                                                         *)
(* A tree is a function from paths to nodes; a path is the sequence of its *)
(* names from the root on, and a site is named by its root.  The mode of a *)
(* node is what the server may do with it: "r" reads a file and lists a    *)
(* directory, "x" reaches the entries of a directory.  A file's bytes are  *)
(* identified by its mtime, which every write moves.  Signatures are       *)
(* compared as the sequences that are folded into the hash.                *)
(***************************************************************************)
EXTENDS Integers, SequencesExt

CONSTANTS
    Sites,          \* the sites with a document root
    PreOrder,       \* all paths that can exist, each directory before its
                    \* entries and these sorted by name
    Passed,         \* hidden names and symlinks: no part of the content
    InitTrees,      \* the trees there may be before the first edit
    Lens,           \* the lengths a file can have
    Stored,         \* bytes a cached file of each length retains
    MaxFileSize,    \* max_file_size
    MaxTotalBytes,  \* max_total_bytes
    ErrorSet,       \* bytes of one set of precomputed error responses
    EditKinds,      \* what the writers do
    Modes,          \* the modes a chmod gives a directory
    Returns,        \* may a change of content leave a tree with a signature
                    \* that was seen before?
    MaxEvents,      \* bound: edits, and reads that fail by themselves, together
    MaxFaults       \* bound: reads that fail by themselves

Paths == ToSet(PreOrder)
Nodes == [kind: {"none", "file", "dir"}, len: Nat, mtime: Nat,
          mode: SUBSET {"r", "x"}]
Kinds == {"write", "remove", "move", "chmod", "chmodFile"}

ASSUME ConstantsAssumption ==
    /\ PreOrder \in Seq(Seq(STRING) \ {<<>>})
    /\ \A p \in Paths : \A i \in 1 .. Len(p) : SubSeq(p, 1, i) \in Paths
    /\ IsFiniteSet(Sites) /\ \A s \in Sites : <<s>> \in Paths
    /\ Passed \subseteq Paths
    /\ InitTrees \subseteq [Paths -> Nodes]
    /\ \A f \in InitTrees : \A p \in Paths :
          f[p].kind = "file" => f[p].len \in Lens
    /\ Lens \subseteq Nat \ {0} /\ Stored \in [Lens -> Nat]
    /\ \A l \in Lens : Stored[l] >= l
    /\ {MaxFileSize, MaxTotalBytes, ErrorSet, MaxEvents, MaxFaults} \subseteq Nat
    /\ Modes \subseteq SUBSET {"r", "x"}
    /\ EditKinds \subseteq Kinds
    /\ Returns \in BOOLEAN

VARIABLES
    node, edits,                \* the document trees, and the edits so far
    past,                       \* history: the signatures a tree had
    faults,                     \* the reads so far that failed by themselves
    served,                     \* the live cache of every site
    partial,                    \* history: the sites whose live cache was made
                                \* by a walk that left something out
    tree_applied, tree_last,    \* what watch() remembers of every site
    pc, job,                    \* where the thread is: "boot" or "scan"
    sigs, todo, site,           \* the scan, and the site it is at
    total, stack, stat, map,    \* build_cache: budget, open directories,
                                \* the file being read, the new cache
    steady,                     \* history: the files that lie still, and no
                                \* read of which fails by itself
    lost                        \* history: has the walk left something out?

disk   == <<node, edits, past>>
caches == <<served, partial>>
memory == <<tree_applied, tree_last>>
loop   == <<job, sigs, todo>>
walk   == <<total, stack, stat, map, steady, lost>>
vars   == <<disk, faults, caches, memory, pc, loop, site, walk>>

----------------------------------------------------------------------------
(* Trees *)

NoNode == [kind |-> "none", len |-> 0, mtime |-> 0, mode |-> {"r"}]

\* Hidden names and symlinks are no content (mutant: they are).
Everything(f, p) == f[p].kind # "none"
Visible(f, p)    == f[p].kind # "none" /\ p \notin Passed

Site(p)         == p[1]
Name(p)         == Last(p)
Ancestors(p)    == {SubSeq(p, 1, i) : i \in 1 .. (Len(p) - 1)}
IsDir(f, p)     == f[p].kind = "dir" /\ p \notin Passed

\* read_dir of a directory; lstat or open of a path, which takes no more than
\* the right to pass through the directories above; and a path that read_dir
\* and lstat come to from the root on.
Lists(f, d)     == IsDir(f, d) /\ "r" \in f[d].mode
Enters(f, d)    == IsDir(f, d) /\ "x" \in f[d].mode
Found(f, p)     == \A d \in Ancestors(p) : Enters(f, d)
Reachable(f, p) == \A d \in Ancestors(p) : Lists(f, d) /\ Enters(f, d)
Under(f, s)     == {p \in Paths : /\ Site(p) = s /\ Len(p) > 1
                                  /\ Visible(f, p)
                                  /\ \A d \in Ancestors(p) : IsDir(f, d)}

\* What dir_signature folds in of a visible entry: the name, and a file's
\* length and mtime.
Folded(f, p) == IF IsDir(f, p) THEN <<Name(p)>>
                ELSE <<Name(p), f[p].len, f[p].mtime>>

\* dir_signature: the entries in sorted order, those of a directory right
\* behind its name; one that cannot be listed adds none, nor does one whose
\* entries cannot be reached.
tree_signature(f, s) ==
    LET listed(p) == /\ Site(p) = s /\ Len(p) > 1
                     /\ Visible(f, p) /\ Reachable(f, p)
        order     == SelectSeq(PreOrder, listed)
    IN  [i \in DOMAIN order |-> Folded(f, order[i])]

Entries(d)   == {p \in Paths : Len(p) = Len(d) + 1 /\ Front(p) = d
                                /\ node[p].kind # "none"}
Body(p)      == [len |-> node[p].len, mtime |-> node[p].mtime]
Cacheable(s) == {p \in Under(node, s) : node[p].kind = "file"
                                        /\ node[p].len <= MaxFileSize}
ContentOf(s) == [p \in Cacheable(s) |-> Body(p)]

\* The trees as a read finds them that fails by itself at p: an entry that
\* read_dir or lstat has an error for, and a directory or a file that cannot
\* be opened.
Hidden(p) == [node EXCEPT ![p] = NoNode]
Sealed(p) == [node EXCEPT ![p].mode = {}]

\* cache_bytes: the bytes a cache retains, as <<path, offset>>, and their number
\* in all of several sites; error_page_bytes.
Bytes(cache)       == UNION {{p} \X (1 .. Stored[cache[p].len]) :
                                p \in DOMAIN cache}
cache_bytes(cache) == Cardinality(Bytes(cache))
Held(sites)        == Cardinality(UNION {Bytes(served[s]) : s \in sites})
error_page_bytes   == ErrorSet * (1 + Cardinality(Sites))

----------------------------------------------------------------------------
(* Building one site's cache.  Every read of the disk is given the trees   *)
(* as it finds them, f: those there are, unless it fails by itself.        *)

Empty == [p \in {} |-> <<>>]

\* build_cache: the root itself could be listed, and the walk begins.
Begin(s) ==
    /\ stack' = <<Entries(<<s>>)>>
    /\ map' = Empty
    /\ steady' = Cacheable(s)
    /\ lost' = FALSE
    /\ pc' = "walk"

\* A build that fails: fatal at boot; a rebuild keeps the cache that is served
\* and leaves tree_applied alone, so that the next tick tries again.
\* (mutant: the failed signature counts as applied).
GivesUp(s)    == [tree_applied EXCEPT ![s] = sigs[s]]
TriesAgain(s) == tree_applied
Abort(s) ==
    /\ \/ /\ job = "boot"
          /\ pc' = "dead"
          /\ UNCHANGED <<memory, todo>>
       \/ /\ job = "scan"
          /\ tree_applied' = TriesAgain(s)
          /\ tree_last' = [tree_last EXCEPT ![s] = sigs[s]]
          /\ todo' = todo \ {s}
          /\ pc' = "next"
    /\ stack' = <<>> /\ map' = Empty /\ stat' = <<>>
    /\ steady' = {} /\ lost' = FALSE
    /\ UNCHANGED <<disk, caches, job, sigs, site, total>>

Top        == stack[Len(stack)]
Without(p) == Append(Front(stack), Top \ {p})

\* A directory that cannot be listed fails the build (mutant: it is passed over).
Passes(f, p) == TRUE
Opens(f, p)  == Lists(f, p)

\* What walk passes over: hidden names, entries lstat does not find (any more),
\* symlinks and oversized files.
Skips(f, p) == \/ ~Visible(f, p) \/ ~Found(f, p)
               \/ ~IsDir(f, p) /\ f[p].len > MaxFileSize

\* The walk goes on without p, which may be content that is there.
IsContent(p) == \/ p \in Cacheable(site)
                \/ p \in Under(node, site) /\ IsDir(node, p)
LeavesOut(p, f) ==
    /\ lost' = (lost \/ IsContent(p))
    /\ steady' = IF f[p] = node[p] THEN steady
                 ELSE {q \in steady : p \notin {q} \cup Ancestors(q)}

\* walk: the next entry that read_dir returns, in no particular order.
ToWalk == IF pc = "walk" /\ stack # <<>> THEN Top ELSE {}
WalkEntry(p, f) ==
    /\ \/ /\ Skips(f, p)
          /\ stack' = Without(p)
          /\ LeavesOut(p, f)
          /\ UNCHANGED <<caches, memory, pc, loop, site, total, stat, map>>
       \/ /\ ~Skips(f, p) /\ IsDir(f, p) /\ Opens(f, p)
          /\ stack' = Append(Without(p), IF Lists(f, p) THEN Entries(p) ELSE {})
          /\ UNCHANGED <<caches, memory, pc, loop, site, total, stat, map,
                         steady, lost>>
       \/ /\ ~Skips(f, p) /\ IsDir(f, p) /\ ~Opens(f, p)
          /\ Abort(site)
       \/ /\ ~Skips(f, p) /\ ~IsDir(f, p)
          /\ total + f[p].len <= MaxTotalBytes
          /\ stack' = Without(p)
          /\ stat' = p
          /\ pc' = "read"
          /\ UNCHANGED <<caches, memory, loop, site, total, map, steady, lost>>
       \/ /\ ~Skips(f, p) /\ ~IsDir(f, p)
          /\ total + f[p].len > MaxTotalBytes
          /\ Abort(site)
    /\ UNCHANGED disk

\* The file is read some time after its size was; one that cannot be read is
\* left out.  What is charged is what the cache retains.
ReadFile(f) ==
    /\ pc = "read"
    /\ LET p      == stat
           found  == /\ f[p].kind = "file" /\ "r" \in f[p].mode
                     /\ Found(f, p)
           stored == Stored[f[p].len]
       IN
       \/ /\ ~found
          /\ LeavesOut(p, f)
          /\ pc' = "walk"
          /\ stat' = <<>>
          /\ UNCHANGED <<caches, memory, loop, total, stack, map>>
       \/ /\ found /\ total + stored <= MaxTotalBytes
          /\ total' = total + stored
          /\ map' = [q \in DOMAIN map \cup {p} |->
                        IF q = p THEN Body(p) ELSE map[q]]
          /\ pc' = "walk"
          /\ stat' = <<>>
          /\ UNCHANGED <<caches, memory, loop, stack, steady, lost>>
       \/ /\ found /\ total + stored > MaxTotalBytes
          /\ Abort(site)
    /\ UNCHANGED <<disk, site>>

\* walk returns to the directory above, and at last to build_cache.
WalkReturn ==
    /\ pc = "walk" /\ stack # <<>> /\ Top = {}
    /\ stack' = Front(stack)
    /\ pc' = IF Len(stack) = 1 THEN "promote" ELSE "walk"
    /\ UNCHANGED <<disk, caches, memory, loop, site, total, stat, map, steady,
                   lost>>

\* What a rebuild records as applied: the signature of before the walk
\* (mutant: that of the tree after it).
SignedAfter(s)  == tree_signature(node, s)
SignedBefore(s) == sigs[s]

\* The new cache replaces the old one, whatever the walk left out.
Promote ==
    /\ pc = "promote"
    /\ served' = [served EXCEPT ![site] = map]
    /\ partial' = IF lost THEN partial \cup {site} ELSE partial \ {site}
    /\ todo' = todo \ {site}
    /\ pc' = "next"
    /\ \/ /\ job = "boot"
          /\ UNCHANGED memory
       \/ /\ job = "scan"
          /\ tree_applied' = [tree_applied EXCEPT ![site] = SignedBefore(site)]
          /\ tree_last' = [tree_last EXCEPT ![site] = sigs[site]]
    /\ map' = Empty /\ steady' = {} /\ lost' = FALSE
    /\ UNCHANGED <<disk, job, sigs, site, total, stack, stat>>

----------------------------------------------------------------------------
(* Boot and the scan of every tick *)

\* main: sample every tree, then build_vhosts on one budget.
Sample(f) ==
    /\ pc = "sample"
    /\ tree_applied' = [s \in Sites |-> tree_signature(f, s)]
    /\ total' = ErrorSet
    /\ pc' = "next"
    /\ UNCHANGED <<disk, caches, tree_last, loop, site, stack, stat, map,
                   steady, lost>>

\* build_vhosts, one site: its error set, the ceiling, its root, its content.
BuildSite(s, f) ==
    /\ pc = "next" /\ job = "boot" /\ s \in todo
    /\ LET charged == total + ErrorSet IN
       \/ /\ charged <= MaxTotalBytes /\ Lists(f, <<s>>)
          /\ total' = charged
          /\ Begin(s)
       \/ /\ charged > MaxTotalBytes \/ ~Lists(f, <<s>>)
          /\ pc' = "dead"
          /\ UNCHANGED <<total, stack, map, steady, lost>>
    /\ site' = s
    /\ UNCHANGED <<disk, caches, memory, loop, stat>>

\* The listeners are up; watch() seeds tree_last.
StartWatch(f) ==
    /\ pc = "next" /\ job = "boot" /\ todo = {}
    /\ tree_last' = [s \in Sites |-> tree_signature(f, s)]
    /\ job' = "scan"
    /\ pc' = "sleep"
    /\ UNCHANGED <<disk, caches, tree_applied, sigs, todo, site, walk>>

\* A tick: hash every tree, then look at the sites one after the other.
Scan(f) ==
    /\ pc = "sleep"
    /\ sigs' = [s \in Sites |-> tree_signature(f, s)]
    /\ todo' = Sites
    /\ pc' = "next"
    /\ UNCHANGED <<disk, caches, memory, job, site, walk>>

Due(s) == sigs[s] # tree_applied[s] /\ sigs[s] = tree_last[s]

\* A rebuild is charged with what all other sites hold (mutant: with nothing).
FreshBudget(s) == 0
Seed(s)        == Held(Sites \ {s}) + error_page_bytes

Consider(s, f) ==
    /\ pc = "next" /\ job = "scan" /\ s \in todo
    /\ site' = s
    /\ \/ /\ Due(s) /\ Lists(f, <<s>>)
          /\ total' = Seed(s)
          /\ Begin(s)
          /\ UNCHANGED <<tree_last, todo>>
       \/ /\ ~Due(s) \/ ~Lists(f, <<s>>)
          /\ tree_last' = [tree_last EXCEPT ![s] = sigs[s]]
          /\ todo' = todo \ {s}
          /\ UNCHANGED <<pc, total, stack, map, steady, lost>>
    /\ UNCHANGED <<disk, caches, tree_applied, job, sigs, stat>>

EndOfTick ==
    /\ pc = "next" /\ job = "scan" /\ todo = {}
    /\ pc' = "sleep"
    /\ UNCHANGED <<disk, caches, memory, loop, site, walk>>

----------------------------------------------------------------------------
(* Writers *)

\* The signature a tree has once all of it can be read again.
Opened(f)           == [p \in Paths |-> [f[p] EXCEPT !.mode = {"r", "x"}]]
OpenSignature(f, s) == tree_signature(Opened(f), s)

\* A change of content may bring back a signature only if Returns; one of modes
\* always may.
Edit(kind, changed, new) ==
    /\ kind \in EditKinds
    /\ edits' = edits + 1
    /\ LET s    == Site(CHOOSE p \in changed : TRUE)
           f    == [p \in Paths |-> IF p \in changed THEN new[p] ELSE node[p]]
           seen == past[s] \cup {tree_applied[s], tree_last[s], sigs[s]}
       IN  /\ \/ Returns \/ kind \in {"chmod", "chmodFile"}
              \/ OpenSignature(f, s) \notin seen
           /\ node' = f
           /\ past' = [past EXCEPT
                  ![s] = @ \cup {tree_signature(f, s), OpenSignature(f, s)}]
    /\ steady' = {p \in steady : ({p} \cup Ancestors(p)) \cap changed = {}}
    /\ UNCHANGED <<caches, memory, pc, loop, site, total, stack, stat, map, lost>>

MayEdit      == edits + faults < MaxEvents /\ pc # "dead"
Plain(p)     == Len(p) > 1 /\ p \notin Passed
HasParent(p) == node[Front(p)].kind = "dir"

WriteFile(p, len) ==
    /\ MayEdit /\ Plain(p) /\ HasParent(p) /\ node[p].kind # "dir"
    /\ Edit("write", {p}, [q \in {p} |->
            [kind |-> "file", len |-> len, mtime |-> edits + 1,
             mode |-> node[p].mode]])

RemoveFile(p) ==
    /\ MayEdit /\ Plain(p) /\ node[p].kind = "file"
    /\ Edit("remove", {p}, [q \in {p} |-> NoNode])

\* rename(2) keeps the length and the mtime.
MoveFile(p, q) ==
    /\ MayEdit /\ Plain(p) /\ Plain(q) /\ HasParent(q) /\ Site(p) = Site(q)
    /\ node[p].kind = "file" /\ node[q].kind = "none"
    /\ Edit("move", {p, q}, [r \in {p, q} |->
            IF r = p THEN NoNode ELSE node[p]])

\* chmod and chown change neither.
Chmod(p, mode) ==
    /\ MayEdit /\ p \notin Passed /\ node[p].mode # mode
    /\ \/ /\ node[p].kind = "dir" /\ mode \in Modes
          /\ Edit("chmod", {p}, [q \in {p} |-> [node[p] EXCEPT !.mode = mode]])
       \/ /\ node[p].kind = "file" /\ mode \in {{}, {"r"}}
          /\ Edit("chmodFile", {p}, [q \in {p} |-> [node[p] EXCEPT !.mode = mode]])

----------------------------------------------------------------------------

Init ==
    /\ node \in InitTrees /\ edits = 0
    /\ past = [s \in Sites |-> {tree_signature(node, s), OpenSignature(node, s)}]
    /\ faults = 0
    /\ served = [s \in Sites |-> Empty] /\ partial = {}
    /\ tree_applied = [s \in Sites |-> <<>>]
    /\ tree_last = [s \in Sites |-> <<>>]
    /\ pc = "sample" /\ job = "boot"
    /\ sigs = [s \in Sites |-> <<>>] /\ todo = Sites
    /\ site \in Sites
    /\ total = 0 /\ stack = <<>> /\ stat = <<>> /\ map = Empty
    /\ steady = {} /\ lost = FALSE

Server ==
    /\ UNCHANGED faults
    /\ \/ Sample(node) \/ StartWatch(node) \/ Scan(node) \/ EndOfTick
       \/ \E s \in Sites : BuildSite(s, node) \/ Consider(s, node)
       \/ \E p \in ToWalk : WalkEntry(p, node)
       \/ ReadFile(node) \/ WalkReturn \/ Promote

\* A read of the server's fails though the mode allows it: one of a signature,
\* read_dir of a root, lstat of an entry or its read_dir, or the read of a file.
Misread(p) == {Hidden(p), Sealed(p)}
Faults ==
    /\ faults < MaxFaults /\ edits + faults < MaxEvents
    /\ faults' = faults + 1
    /\ \/ \E p \in Paths : \E f \in Misread(p) :
             /\ Sample(f) \/ StartWatch(f) \/ Scan(f)
             /\ tree_signature(f, Site(p)) # tree_signature(node, Site(p))
       \/ \E s \in Sites : BuildSite(s, Sealed(<<s>>))
       \/ \E s \in Sites : Due(s) /\ Consider(s, Sealed(<<s>>))
       \/ \E p \in ToWalk : ~Skips(node, p) /\ WalkEntry(p, Hidden(p))
       \/ \E p \in ToWalk : Opens(node, p) /\ WalkEntry(p, Sealed(p))
       \/ ReadFile(Sealed(stat))

Writers ==
    /\ UNCHANGED faults
    /\ \/ \E p \in Paths, len \in Lens : WriteFile(p, len)
       \/ \E p \in Paths : RemoveFile(p)
       \/ \E p \in Paths, mode \in Modes \cup {{}, {"r"}} : Chmod(p, mode)
       \/ \E p, q \in Paths : MoveFile(p, q)

Next == Server \/ Faults \/ Writers

\* The server's own thread keeps running; nobody has to edit anything, and
\* reads do not fail for ever.
Spec == Init /\ [][Next]_vars /\ WF_vars(Server)

----------------------------------------------------------------------------
(* Properties *)

TypeOK ==
    /\ node \in [Paths -> Nodes] /\ edits \in 0 .. MaxEvents
    /\ \A s \in Sites : \A p \in DOMAIN served[s] :
          Site(p) = s /\ p \notin Passed
    /\ pc \in {"sample", "next", "walk", "read", "promote", "sleep", "dead"}
    /\ job \in {"boot", "scan"} /\ todo \subseteq Sites /\ site \in Sites
    /\ stat # <<>> <=> pc = "read"
    /\ stack # <<>> => pc \in {"walk", "read"}
    /\ faults \in 0 .. MaxFaults /\ lost \in BOOLEAN /\ partial \subseteq Sites

\* docs/CONFIGURATION.md, max_total_bytes: the caches of a boot never exceed the
\* budget, with the one being built; afterwards what all sites retain together,
\* with the error responses, stays within it after every rebuild, and a rebuild
\* in progress needs no more than twice of it.
BudgetKept ==
    /\ job = "boot" => Held(Sites) + cache_bytes(map) <= MaxTotalBytes
    /\ job = "scan" =>
          /\ Held(Sites) + error_page_bytes <= MaxTotalBytes
          /\ Held(Sites) + error_page_bytes + cache_bytes(map)
                <= 2 * MaxTotalBytes

\* A directory that can be listed, but whose entries cannot be reached, is no
\* error to walk: its entries are passed over one by one.
Barred(p) == \E d \in Ancestors(p) : Lists(node, d) /\ ~Enters(node, d)

\* A cache that is promoted holds every readable file that lay unchanged in the
\* tree while it was walked, also when a directory above it cannot be listed:
\* such a directory fails the build.  (A read that fails by itself and a
\* directory that bars the way to its entries do not: what they hide is missing
\* from the new cache.)
PromotedComplete ==
    pc = "promote" =>
        \A p \in steady : "r" \in node[p].mode /\ ~Barred(p)
                            => p \in DOMAIN map /\ map[p] = Body(p)

Buildable(s) == \A d \in Under(node, s) \cup {<<s>>} :
                   d = <<s>> \/ IsDir(node, d)
                      => Lists(node, d) /\ Enters(node, d)
Fits(bytes) == bytes + error_page_bytes <= MaxTotalBytes

\* What is served is what lies on the disk; less of it only if the walk that
\* made the cache left something out that does not show in the signature, and
\* never anything else.
UpToDate(s) ==
    \/ pc = "dead"
    \/ served[s] = ContentOf(s)
    \/ /\ s \in partial
       /\ \A p \in DOMAIN served[s] : p \in Cacheable(s) /\ served[s][p] = Body(p)
       /\ tree_applied[s] = tree_signature(node, s)

\* A site whose tree stays readable, and fits beside what the others hold, is
\* in the end served as it is, whatever becomes of the other trees and whatever
\* it was built from in between: files that were written, directories that were
\* closed and opened again, signatures that were misread.
SiteConverges ==
    \A s \in Sites :
        <>[](Buildable(s) /\ Fits(Held(Sites \ {s})
                                   + cache_bytes(ContentOf(s))))
            => <>[]UpToDate(s)

\* When all trees fit together, the budget cannot wedge the rebuilds: the
\* site that shrank makes room for the one that grew.
BudgetNeverWedges ==
    <>[](/\ \A s \in Sites : Buildable(s)
         /\ Fits(Cardinality(UNION {Bytes(ContentOf(s)) : s \in Sites})))
        => <>[](\A s \in Sites : UpToDate(s))

=============================================================================
