------------------------------ MODULE Serving ------------------------------
(***************************************************************************)
(* What a request is answered from: the snapshot directories that          *)
(* `storage = disk` builds the caches into (`build_cache`, `make_disk_entry`*)
(* and `BuildDir` of src/src/cache.rs), the references that keep a         *)
(* superseded cache and its directory, and the choice of a representation  *)
(* (`serve_mem`, `serve_disk` of src/src/main.rs).  A build is identified  *)
(* by its number and is a new version of every file, so a body is a build, *)
(* a file and a coding; an ETag, a hash of the body, is the body.          *)
(*                                                                         *)
(* `Arc`s are not counted: a cache lives as long as something refers to it,*)
(* and the step that ends the last reference removes its directory.        *)
(***************************************************************************)
EXTENDS Integers, Sequences

CONSTANTS
    Procs,          \* the server processes that share one `disk_cache`
    Conns,          \* connections
    Files,          \* what a site's tree holds, by URL
    Size, Packed,   \* bytes of a file, and of its gzip and br forms
    Compressible,   \* the files of a compressible type
    MinCompress,    \* min_compress_bytes
    MaxCompress,    \* max_gzip_bytes and max_brotli_bytes
    Storages,       \* the `storage` settings in use
    AcceptFields,   \* the Accept-Encoding fields that clients send
    Exclusive,      \* does a process start only when no other is up?
    MaxBuilds       \* bound: builds in all

Codings == {"gzip", "br"}
Entries == [name : Codings \cup {"*"}, zero : BOOLEAN]

ASSUME ConstantsAssumption ==
    /\ Size \in [Files -> Nat] /\ Packed \in [Files \X Codings -> Nat]
    /\ Compressible \subseteq Files /\ MinCompress \in Nat
    /\ MaxCompress \in [Codings -> Nat]
    /\ Storages \subseteq {"memory", "disk"}
    /\ AcceptFields \subseteq Seq(Entries)
    /\ Exclusive \in BOOLEAN /\ MaxBuilds \in Nat

VARIABLES
    status,     \* "off", "boot" or "up"
    booted,     \* the storage a process started with, or "none"
    BUILD_SEQ,  \* the number of its next snapshot directory
    cur,        \* its runtime
    job,        \* what it builds a cache for
    building,   \* that build, or 0
    left,       \* the files the walk has still to come to
    made,       \* how many builds there were
    builds,     \* of each build that is alive: its directory and its index
    runtimes,   \* of each runtime: its process and the cache of its site
    disk,       \* of each directory build-N: its files
    conn,       \* the runtime a connection was accepted with, or 0
    req,        \* the request on it
    held,       \* the last body the client of it got
    answer      \* history: the status of its last answer, or 0

process == <<status, booted, BUILD_SEQ, cur, job, building, left>>
clients == <<conn, req, held, answer>>
caches  == <<made, builds, runtimes>>
vars    == <<process, caches, disk, clients>>

NoDir    == -1
NoBody   == <<>>
NoReq    == [cache |-> 0]

----------------------------------------------------------------------------
(* Representations *)

Body(b, f, c) == <<b, f, c>>

\* compress_variants: a coded form exists where policy allows it, and only
\* when it is smaller than the file.
HasCoded(f, c) == /\ f \in Compressible
                  /\ MinCompress <= Size[f] /\ Size[f] <= MaxCompress[c]
                  /\ Packed[<<f, c>>] < Size[f]
Coded(f)    == {c \in Codings : HasCoded(f, c)}
Variants(f) == {"identity"} \cup Coded(f)

\* Where make_disk_entry puts a body (mutant: a suffix on a shared name).
SuffixedPath(f, c) == IF c = "identity" THEN <<f>>
                      ELSE <<f \o (IF c = "gzip" THEN ".gz" ELSE ".br")>>
SnapshotPath(f, c) == <<c, f>>

\* The variants of a file that are written before its variant c.
Precedes(d, c)      == \/ d = "identity" /\ c # "identity"
                       \/ d = "gzip" /\ c = "br"
WrittenBefore(f, c) == {d \in Variants(f) : Precedes(d, c)}

\* etag_for: a hash of the bytes sent.
etag_for(b, f, c) == Body(b, f, c)

\* accepts_encoding: the first explicit entry wins over a wildcard, of which the
\* last one counts (mutant: no weights).
Names(e, token)              == e.name = token
names_encoding(field, token) ==
    \E i \in DOMAIN field : Names(field[i], token) \/ Names(field[i], "*")
accepts_encoding(field, token) ==
    \/ \E i \in DOMAIN field :
          /\ Names(field[i], token) /\ ~field[i].zero
          /\ \A k \in 1 .. (i - 1) : ~Names(field[k], token)
    \/ /\ \A i \in DOMAIN field : ~Names(field[i], token)
       /\ \E i \in DOMAIN field :
             /\ Names(field[i], "*") /\ ~field[i].zero
             /\ \A k \in (i + 1) .. Len(field) : ~Names(field[k], "*")

\* The best variant there is: br before gzip before the file itself.
Selected(f, field) ==
    LET ok(c) == c \in Coded(f) /\ accepts_encoding(field, c)
    IN  IF ok("br") THEN "br" ELSE IF ok("gzip") THEN "gzip" ELSE "identity"

----------------------------------------------------------------------------
(* References and directories *)

\* The caches something refers to: what the site of a live runtime holds, what
\* a request in flight was pinned to, and the builds in progress.
LiveRuntimes == ({cur[p] : p \in Procs} \cup {conn[c] : c \in Conns}) \ {0}
Slots        == {runtimes[r].cache : r \in LiveRuntimes}
Pinned       == {req[c].cache : c \in Conns} \ {0}
Referenced   == Slots \cup Pinned \cup ({building[p] : p \in Procs} \ {0})

\* Directories: the files of one, a file put into one (which is made when it
\* is missing), and what is left when BuildDir is dropped for all caches that
\* lose their last reference in this step.
FilesOf(f, d)    == IF d \in DOMAIN f THEN f[d] ELSE [x \in {} |-> NoBody]
Over(g, f)       == [x \in DOMAIN f \cup DOMAIN g |->
                        IF x \in DOMAIN g THEN g[x] ELSE f[x]]
Put(f, d, files) == Over([x \in {d} |-> Over(files, FilesOf(f, d))], f)
Without(f, dirs) == [d \in (DOMAIN f) \ dirs |-> f[d]]
Dropped(f)       == Without(f, {builds[b].dir : b \in Referenced \ Referenced'})
Alive            == [b \in Referenced' |-> builds[b]]

----------------------------------------------------------------------------
(* The life of a process *)

\* The connections of a process that ends end with it; with a connection ends
\* what its request was pinned to (mutant: the pin stays).
Of(p) == {c \in Conns : conn[c] # 0 /\ runtimes[conn[c]].proc = p}
HangUpLeaking(cs) ==
    /\ conn' = [c \in Conns |-> IF c \in cs THEN 0 ELSE conn[c]]
    /\ UNCHANGED req
HangUp(cs) ==
    /\ conn' = [c \in Conns |-> IF c \in cs THEN 0 ELSE conn[c]]
    /\ req' = [c \in Conns |-> IF c \in cs THEN NoReq ELSE req[c]]

Ended(p) ==
    /\ status' = [status EXCEPT ![p] = "off"]
    /\ cur' = [cur EXCEPT ![p] = 0]
    /\ building' = [building EXCEPT ![p] = 0]
    /\ left' = [left EXCEPT ![p] = {}]
    /\ job' = [job EXCEPT ![p] = "none"]
    /\ booted' = [booted EXCEPT ![p] = "none"]
    /\ BUILD_SEQ' = [BUILD_SEQ EXCEPT ![p] = 0]

\* main: under disk storage clear_stale_builds removes every build-* that is
\* there (mutant: it is left out), before the listeners are bound.
Kept(s)    == disk
Cleared(s) == IF s = "disk" THEN Without(disk, DOMAIN disk) ELSE disk

Boot(p, s) ==
    /\ status[p] = "off"
    /\ Exclusive => \A q \in Procs : status[q] = "off"
    /\ status' = [status EXCEPT ![p] = "boot"]
    /\ booted' = [booted EXCEPT ![p] = s]
    /\ disk' = Cleared(s)
    /\ UNCHANGED <<BUILD_SEQ, cur, job, building, left, caches, clients>>

\* A kill runs no destructor: the directories stay.
Kill(p) ==
    /\ status[p] # "off"
    /\ Ended(p)
    /\ HangUp(Of(p))
    /\ UNCHANGED <<made, runtimes, disk, held, answer>>
    /\ builds' = Alive

----------------------------------------------------------------------------
(* Building a cache *)

StorageOf(b) == IF builds[b].dir = NoDir THEN "memory" ELSE "disk"

\* The first build, the rebuild of a site whose tree moved, and the build of a
\* new runtime, whose config may name another storage.
MayBuild(p, j, s) ==
    /\ building[p] = 0
    /\ CASE j = "boot"   -> status[p] = "boot" /\ s = booted[p]
         [] j = "swap"   -> /\ status[p] = "up"
                            /\ s = StorageOf(runtimes[cur[p]].cache)
         [] j = "reload" -> status[p] = "up"

StartBuild(p, j, s) ==
    /\ MayBuild(p, j, s)
    /\ made < MaxBuilds
    /\ made' = made + 1
    /\ LET dir == IF s = "disk" THEN BUILD_SEQ[p] ELSE NoDir
       IN  /\ builds' = Over([b \in {made'} |-> [dir |-> dir, index |-> {}]],
                            builds)
           /\ disk' = IF s = "disk" THEN Put(disk, dir, FilesOf(disk, dir))
                                    ELSE disk
    /\ BUILD_SEQ' = [BUILD_SEQ EXCEPT ![p] = IF s = "disk" THEN @ + 1 ELSE @]
    /\ building' = [building EXCEPT ![p] = made']
    /\ left' = [left EXCEPT ![p] = Files]
    /\ job' = [job EXCEPT ![p] = j]
    /\ UNCHANGED <<status, booted, cur, runtimes, clients>>

\* The variants of a file are written one after the other; one that fails
\* leaves those before it behind, and the file out of the cache.
Written(b, f, done) == [x \in {SnapshotPath(f, c) : c \in done} |->
                            Body(b, f, CHOOSE c \in done : SnapshotPath(f, c) = x)]

CacheFile(p, f) ==
    LET b   == building[p]
        dir == builds[b].dir
    IN  /\ f \in left[p]
        /\ \/ /\ builds' = [builds EXCEPT ![b].index = @ \cup {f}]
              /\ disk' = IF dir = NoDir THEN disk
                                        ELSE Put(disk, dir, Written(b, f, Variants(f)))
           \/ /\ dir # NoDir
              /\ \E c \in Variants(f) : disk' =
                    Put(disk, dir, Written(b, f, WrittenBefore(f, c)))
              /\ UNCHANGED builds
        /\ left' = [left EXCEPT ![p] = @ \ {f}]
        /\ UNCHANGED <<status, booted, BUILD_SEQ, cur, job, building, made,
                       runtimes, clients>>

\* A build that fails (its directory cannot be made, a directory of the tree
\* cannot be read, the budget is exceeded) drops its directory with it; it is
\* fatal at the start and costs a running server nothing.
FailBuild(p) ==
    /\ building[p] # 0
    /\ \/ status[p] = "boot" /\ Ended(p)
       \/ /\ status[p] = "up"
          /\ building' = [building EXCEPT ![p] = 0]
          /\ left' = [left EXCEPT ![p] = {}]
          /\ job' = [job EXCEPT ![p] = "none"]
          /\ UNCHANGED <<status, booted, BUILD_SEQ, cur>>
    /\ UNCHANGED <<made, runtimes, clients>>
    /\ disk' = Dropped(disk) /\ builds' = Alive

\* A finished build is the cache of a new runtime, or takes the place of the
\* cache that the current runtime's site had.
Publish(p) ==
    /\ building[p] # 0 /\ left[p] = {}
    /\ IF job[p] = "swap"
       THEN /\ runtimes' = [runtimes EXCEPT ![cur[p]].cache = building[p]]
            /\ UNCHANGED cur
       ELSE /\ runtimes' = Append(runtimes,
                                  [proc |-> p, cache |-> building[p]])
            /\ cur' = [cur EXCEPT ![p] = Len(runtimes) + 1]
    /\ status' = [status EXCEPT ![p] = "up"]
    /\ building' = [building EXCEPT ![p] = 0]
    /\ job' = [job EXCEPT ![p] = "none"]
    /\ UNCHANGED <<booted, BUILD_SEQ, left, made, clients>>
    /\ disk' = Dropped(disk) /\ builds' = Alive

----------------------------------------------------------------------------
(* Requests *)

\* A connection keeps the runtime that was current when it was accepted.
Connect(c) ==
    /\ conn[c] = 0
    /\ \E p \in Procs : status[p] = "up" /\ conn' = [conn EXCEPT ![c] = cur[p]]
    /\ UNCHANGED <<process, caches, disk, req, held, answer>>

Disconnect(c) ==
    /\ conn[c] # 0
    /\ HangUp({c})
    /\ UNCHANGED <<process, made, runtimes, held, answer>>
    /\ disk' = Dropped(disk) /\ builds' = Alive

\* If-None-Match: absent, "*", or the ETag of what the client has stored.
Conditions(c) == {"none", "*"} \cup (IF held[c] = NoBody THEN {} ELSE {"tag"})
StoredTag(c)  == etag_for(held[c][1], held[c][2], held[c][3])

\* handle_one clones the Arc of the cache that the site has now.
Request(c, f, field, inm) ==
    /\ conn[c] # 0 /\ req[c] = NoReq
    /\ inm \in Conditions(c)
    /\ req' = [req EXCEPT ![c] = [cache |-> runtimes[conn[c]].cache, file |-> f,
                                  accept |-> field, inm |-> inm]]
    /\ answer' = [answer EXCEPT ![c] = 0]
    /\ UNCHANGED <<process, caches, disk, conn, held>>

\* What the index promises for a request, and the bytes that are there for it:
\* a buffer of the cache, or the snapshot file.  An open file outlives its
\* name, so opening and streaming are one step.
Promised(r) == Body(r.cache, r.file, Selected(r.file, r.accept))
Delivered(r) ==
    LET dir  == builds[r.cache].dir
        path == SnapshotPath(r.file, Selected(r.file, r.accept))
        snap == FilesOf(disk, dir)
    IN  IF dir = NoDir THEN Promised(r)
        ELSE IF path \in DOMAIN snap THEN snap[path] ELSE NoBody

Reply(c, code, body) ==
    /\ answer' = [answer EXCEPT ![c] = code]
    /\ held' = [held EXCEPT ![c] = IF code = 200 THEN body ELSE @]
    /\ req' = [req EXCEPT ![c] = NoReq]
    /\ conn' = [conn EXCEPT ![c] = IF code = 500 THEN 0 ELSE @]
    /\ UNCHANGED <<process, made, runtimes>>
    /\ disk' = Dropped(disk) /\ builds' = Alive

Matches(c) ==
    LET r == req[c]
    IN  \/ r.inm = "*"
        \/ r.inm = "tag"
           /\ StoredTag(c) = etag_for(r.cache, r.file,
                                      Selected(r.file, r.accept))

NotFound(c) ==
    /\ req[c] # NoReq /\ req[c].file \notin builds[req[c].cache].index
    /\ Reply(c, 404, NoBody)

NotModified(c) ==
    /\ req[c] # NoReq /\ req[c].file \in builds[req[c].cache].index
    /\ Matches(c)
    /\ Reply(c, 304, NoBody)

\* The header goes out once the file is open; without it the answer is a 500
\* and the end of the connection.
Serve(c) ==
    /\ req[c] # NoReq /\ req[c].file \in builds[req[c].cache].index
    /\ ~Matches(c)
    /\ LET body == Delivered(req[c])
       IN  Reply(c, IF body = NoBody THEN 500 ELSE 200, body)

----------------------------------------------------------------------------

Init ==
    /\ status = [p \in Procs |-> "off"]
    /\ booted = [p \in Procs |-> "none"]
    /\ BUILD_SEQ = [p \in Procs |-> 0]
    /\ cur = [p \in Procs |-> 0] /\ building = [p \in Procs |-> 0]
    /\ job = [p \in Procs |-> "none"] /\ left = [p \in Procs |-> {}]
    /\ made = 0 /\ builds = [b \in {} |-> <<>>] /\ runtimes = <<>>
    /\ disk = [d \in {} |-> <<>>]
    /\ conn = [c \in Conns |-> 0] /\ req = [c \in Conns |-> NoReq]
    /\ held = [c \in Conns |-> NoBody] /\ answer = [c \in Conns |-> 0]

Next ==
    \/ \E p \in Procs :
          \/ Kill(p) \/ FailBuild(p) \/ Publish(p)
          \/ \E s \in Storages : Boot(p, s)
          \/ \E s \in Storages, j \in {"boot", "swap", "reload"} :
                StartBuild(p, j, s)
          \/ \E f \in Files : CacheFile(p, f)
    \/ \E c \in Conns :
          \/ Connect(c) \/ Disconnect(c)
          \/ NotFound(c) \/ NotModified(c) \/ Serve(c)
          \/ \E f \in Files, field \in AcceptFields, inm \in {"none", "*", "tag"} :
                Request(c, f, field, inm)

Spec == Init /\ [][Next]_vars

----------------------------------------------------------------------------
(* Properties *)

TypeOK ==
    /\ status \in [Procs -> {"off", "boot", "up"}]
    /\ \A p \in Procs :
          /\ cur[p] \in 0 .. Len(runtimes) /\ building[p] \in 0 .. made
          /\ status[p] = "up" <=> cur[p] # 0
          /\ building[p] # 0 <=> job[p] # "none"
          /\ left[p] \subseteq Files
          /\ booted[p] = "none" <=> status[p] = "off"
    /\ DOMAIN builds = Referenced
    /\ \A c \in Conns : conn[c] = 0 => req[c] = NoReq

\* serve_disk: "should never happen, since the BuildDir is pinned by this cache
\* Arc".  Every cache that a request or a runtime holds has, for all it
\* promises, its own bytes in its snapshot: no rebuild, reload, restart or other
\* file of the site takes them away or writes over them.
PinnedIntact ==
    \A b \in Slots \cup Pinned : builds[b].dir # NoDir =>
        \A f \in builds[b].index : \A c \in Variants(f) :
            LET snap == FilesOf(disk, builds[b].dir)
            IN  SnapshotPath(f, c) \in DOMAIN snap
                /\ snap[SnapshotPath(f, c)] = Body(b, f, c)

\* A process that was started with disk storage leaves no snapshot on the disk
\* that nothing refers to: neither its predecessors' nor its own.
NoOrphans ==
    \A p \in Procs : booted[p] = "disk" =>
        \A d \in DOMAIN disk : \E b \in Referenced : builds[b].dir = d

\* What a field accepts, as RFC 9110 12.5.3 has it: a coding that it names, or
\* that its wildcard stands for, with a weight above zero.
Wanted(field, c) ==
    \/ \E i \in DOMAIN field : field[i] = [name |-> c, zero |-> FALSE]
    \/ /\ ~\E i \in DOMAIN field : field[i].name = c
       /\ \E i \in DOMAIN field : field[i] = [name |-> "*", zero |-> FALSE]
Clear(field) ==
    \A i, j \in DOMAIN field : field[i].name = field[j].name => i = j

AcceptableCoding(c) ==
    LET sent   == held'[c][3]
        field  == req[c].accept
        wanted == {d \in Coded(req[c].file) : Wanted(field, d)}
    IN  /\ sent # "identity" => sent \in wanted
        /\ sent = "identity" /\ Clear(field) => wanted = {}

\* The client's stored body is the one that a 200 would carry now.
NotModifiedTruthful(c) == held[c] = Promised(req[c])

\* A coded body goes only to a client that accepts the coding, and a client that
\* accepts one of the coded forms there are is not sent the plain file; a 304
\* to the ETag of a stored body confirms this very body, in a coding the client
\* accepts now, whatever was rebuilt since.
RightRepresentation ==
    [][\A c \in Conns : req[c] # NoReq =>
          /\ answer'[c] = 200 => AcceptableCoding(c)
          /\ answer'[c] = 304 /\ req[c].inm = "tag"
                => NotModifiedTruthful(c)]_vars

=============================================================================
