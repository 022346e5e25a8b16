--------------------------- MODULE ServingProofs ---------------------------
(***************************************************************************)
(* Theorems about Serving, for every value of its constants under which    *)
(* one process at a time uses a `disk_cache`.                              *)
(***************************************************************************)
EXTENDS Serving, SequenceTheorems, TLAPS

----------------------------------------------------------------------------
(* The inductive invariant *)

Reps     == {"identity"} \cup Codings
Bodies   == Nat \X Files \X Reps
Requests == [cache: Nat \ {0}, file: Files, accept: AcceptFields,
             inm: {"none", "*", "tag"}]

\* The range of every variable but two: that of builds is below, and what a
\* snapshot directory holds is in Intact.
Typed ==
    /\ status \in [Procs -> {"off", "boot", "up"}]
    /\ booted \in [Procs -> {"none", "memory", "disk"}]
    /\ BUILD_SEQ \in [Procs -> Nat] /\ cur \in [Procs -> Nat]
    /\ building \in [Procs -> Nat] /\ left \in [Procs -> SUBSET Files]
    /\ job \in [Procs -> {"none", "boot", "swap", "reload"}]
    /\ made \in Nat
    /\ runtimes \in Seq([proc: Procs, cache: Nat \ {0}])
    /\ conn \in [Conns -> Nat] /\ req \in [Conns -> {NoReq} \cup Requests]
    /\ held \in [Conns -> {NoBody} \cup Bodies] /\ answer \in [Conns -> Nat]

\* What is known of each build that something refers to, and of no other.
Built == builds \in [Referenced -> [dir: Nat \cup {NoDir}, index: SUBSET Files]]

\* A process that is down holds nothing; no two are up together.
Lives ==
    /\ \A p \in Procs :
          /\ status[p] = "up" <=> cur[p] # 0
          /\ status[p] = "off" <=> booted[p] = "none"
          /\ building[p] # 0 <=> job[p] # "none"
          /\ job[p] = "boot" => status[p] = "boot"
          /\ job[p] \in {"swap", "reload"} => status[p] = "up"
          /\ left[p] # {} => building[p] # 0
    /\ \A p, q \in Procs : status[p] # "off" /\ status[q] # "off" => p = q

\* Numbers are those of builds and runtimes there have been, and a process runs
\* a runtime of its own.
Known ==
    /\ \A p \in Procs : cur[p] <= Len(runtimes) /\ building[p] <= made
    /\ \A p \in Procs : cur[p] # 0 => runtimes[cur[p]].proc = p
    /\ \A r \in 1 .. Len(runtimes) : runtimes[r].cache <= made
    /\ \A c \in Conns : conn[c] <= Len(runtimes) /\ req[c].cache <= made

\* A connection is one of a process that is up, and a request is on one; it has
\* no answer yet, and a condition on a stored body has that body.
Connected ==
    \A c \in Conns :
        /\ conn[c] # 0 => status[runtimes[conn[c]].proc] = "up"
        /\ req[c] # NoReq => conn[c] # 0 /\ answer[c] = 0
        /\ req[c] # NoReq /\ req[c].inm = "tag" => held[c] # NoBody

\* No two caches share a directory, and none has one that is still to be given
\* out.
OwnDirs ==
    /\ \A a, b \in Referenced :
          builds[a].dir = builds[b].dir /\ builds[a].dir # NoDir => a = b
    /\ \A p \in Procs : status[p] # "off" =>
          \A b \in Referenced : builds[b].dir < BUILD_SEQ[p]

\* PinnedIntact, also of the caches that are being built.
Whole(b, f) ==
    LET snap == FilesOf(disk, builds[b].dir)
    IN  \A c \in Variants(f) : /\ SnapshotPath(f, c) \in DOMAIN snap
                               /\ snap[SnapshotPath(f, c)] = Body(b, f, c)
Intact ==
    \A b \in Referenced : builds[b].dir # NoDir =>
        \A f \in builds[b].index : Whole(b, f)

IInv ==
    /\ Typed /\ Built /\ Lives /\ Known /\ Connected /\ OwnDirs
    /\ Intact /\ NoOrphans

\* The builds that something refers to, one by one.
LEMMA References ==
    \A b : b \in Referenced <=>
        \/ \E p \in Procs : cur[p] # 0 /\ b = runtimes[cur[p]].cache
        \/ \E c \in Conns : conn[c] # 0 /\ b = runtimes[conn[c]].cache
        \/ \E c \in Conns : req[c].cache # 0 /\ b = req[c].cache
        \/ \E p \in Procs : building[p] # 0 /\ b = building[p]
BY DEF Referenced, Slots, LiveRuntimes, Pinned

\* The same of the next state.
LEMMA NextReferences ==
    \A b : b \in Referenced' <=>
        \/ \E p \in Procs : cur'[p] # 0 /\ b = runtimes'[cur'[p]].cache
        \/ \E c \in Conns : conn'[c] # 0 /\ b = runtimes'[conn'[c]].cache
        \/ \E c \in Conns : req'[c].cache # 0 /\ b = req'[c].cache
        \/ \E p \in Procs : building'[p] # 0 /\ b = building'[p]
BY DEF Referenced, Slots, LiveRuntimes, Pinned

\* What is where in the runtimes and the requests.
LEMMA Parts ==
    ASSUME Typed, Known
    PROVE  /\ Len(runtimes) \in Nat
           /\ \A r \in 1 .. Len(runtimes) :
                 /\ runtimes[r].proc \in Procs /\ runtimes[r].cache \in Nat \ {0}
                 /\ runtimes[r].cache <= made
           /\ \A p \in Procs : cur[p] # 0 => cur[p] \in 1 .. Len(runtimes)
           /\ \A c \in Conns : conn[c] # 0 => conn[c] \in 1 .. Len(runtimes)
           /\ NoReq.cache = 0 /\ NoReq \notin Requests
           /\ \A c \in Conns : req[c] # NoReq => req[c] \in Requests /\ req[c].cache # 0
<1>1. Len(runtimes) \in Nat /\ \A r \in 1 .. Len(runtimes) :
            runtimes[r] \in [proc: Procs, cache: Nat \ {0}]
    <2> DEFINE R == [proc: Procs, cache: Nat \ {0}]
    <2>1. runtimes \in Seq(R)
        BY DEF Typed
    <2> HIDE DEF R
    <2>2. Len(runtimes) \in Nat /\ \A r \in 1 .. Len(runtimes) : runtimes[r] \in R
        BY <2>1, ElementOfSeq, LenProperties
    <2> QED BY <2>2 DEF R
<1>2. NoReq.cache = 0 /\ \A r \in Requests : r.cache # 0
    BY DEF NoReq, Requests
<1>3. \A c \in Conns : req[c] # NoReq => req[c] \in Requests
    BY DEF Typed
<1>4. /\ \A p \in Procs : cur[p] # 0 => cur[p] \in 1 .. Len(runtimes)
      /\ \A c \in Conns : conn[c] # 0 => conn[c] \in 1 .. Len(runtimes)
    BY <1>1 DEF Typed, Known
<1>5. \A r \in 1 .. Len(runtimes) : runtimes[r].cache <= made
    BY DEF Known
<1> QED BY <1>1, <1>2, <1>3, <1>4, <1>5

\* A reference is to a build there has been; a process that is down, with
\* nobody connected, refers to none.
LEMMA ReferencedKnown ==
    ASSUME Typed, Known
    PROVE  Referenced \subseteq 1 .. made
<1> SUFFICES ASSUME NEW b \in Referenced PROVE b \in 1 .. made
    OBVIOUS
<1>1. CASE \E p \in Procs : cur[p] # 0 /\ b = runtimes[cur[p]].cache
    <2>1. PICK p \in Procs : cur[p] # 0 /\ b = runtimes[cur[p]].cache
        BY <1>1
    <2>2. cur[p] \in 1 .. Len(runtimes)
        BY <2>1, Parts
    <2>3. b \in Nat \ {0} /\ b <= made /\ made \in Nat
        BY <2>1, <2>2, Parts DEF Typed
    <2> QED BY <2>3
<1>2. CASE \E c \in Conns : conn[c] # 0 /\ b = runtimes[conn[c]].cache
    <2>1. PICK c \in Conns : conn[c] # 0 /\ b = runtimes[conn[c]].cache
        BY <1>2
    <2>2. conn[c] \in 1 .. Len(runtimes)
        BY <2>1, Parts
    <2>3. b \in Nat \ {0} /\ b <= made /\ made \in Nat
        BY <2>1, <2>2, Parts DEF Typed
    <2> QED BY <2>3
<1>3. CASE \E c \in Conns : req[c].cache # 0 /\ b = req[c].cache
    <2>1. PICK c \in Conns : req[c].cache # 0 /\ b = req[c].cache
        BY <1>3
    <2>2. req[c] \in Requests
        BY <2>1, Parts
    <2> QED BY <2>1, <2>2 DEF Requests, Known, Typed
<1>4. CASE \E p \in Procs : building[p] # 0 /\ b = building[p]
    BY <1>4 DEF Typed, Known
<1> QED BY References, <1>1, <1>2, <1>3, <1>4

\* Where no process is up, no build is in use.
LEMMA NothingReferenced ==
    ASSUME Typed, Known, Lives, Connected, \A q \in Procs : status[q] = "off"
    PROVE  Referenced = {}
<1>1. \A p \in Procs : cur[p] = 0 /\ building[p] = 0
    BY DEF Typed, Lives
<1>2. \A c \in Conns : conn[c] = 0
    BY Parts DEF Connected
<1>3. \A c \in Conns : req[c].cache = 0
    BY <1>2, Parts DEF Connected
<1> QED BY References, <1>1, <1>2, <1>3
----------------------------------------------------------------------------
(* Processes, connections and requests *)

Control == Typed /\ Lives /\ Known /\ Connected

\* The end of a process, whose connections end with it.
LEMMA EndedKeeps ==
    ASSUME Control, NEW p \in Procs, Ended(p), HangUp(Of(p)),
           UNCHANGED <<made, runtimes, held, answer>>
    PROVE  Control'
<1>1. /\ status' = [status EXCEPT ![p] = "off"] /\ cur' = [cur EXCEPT ![p] = 0]
      /\ building' = [building EXCEPT ![p] = 0] /\ left' = [left EXCEPT ![p] = {}]
      /\ job' = [job EXCEPT ![p] = "none"] /\ booted' = [booted EXCEPT ![p] = "none"]
      /\ BUILD_SEQ' = [BUILD_SEQ EXCEPT ![p] = 0]
    BY DEF Ended
<1>2. /\ conn' = [c \in Conns |-> IF c \in Of(p) THEN 0 ELSE conn[c]]
      /\ req' = [c \in Conns |-> IF c \in Of(p) THEN NoReq ELSE req[c]]
    BY DEF HangUp
<1>3. Typed'
    BY <1>1, <1>2 DEF Control, Typed
<1>4. Lives'
    BY <1>1 DEF Control, Typed, Lives
<1>5. Known'
    <2>1. NoReq.cache <= made
        BY Parts DEF Control, Typed
    <2>2. ASSUME NEW c \in Conns
          PROVE  conn'[c] <= Len(runtimes) /\ req'[c].cache <= made
        BY <1>2, <2>1, Parts DEF Control, Known
    <2>3. ASSUME NEW q \in Procs
          PROVE  /\ cur'[q] <= Len(runtimes) /\ building'[q] <= made
                 /\ cur'[q] # 0 => runtimes[cur'[q]].proc = q
        BY <1>1, Parts DEF Control, Typed, Known
    <2> QED BY <2>2, <2>3 DEF Control, Known
<1>6. ASSUME NEW c \in Conns
      PROVE  /\ conn'[c] # 0 => status'[runtimes'[conn'[c]].proc] = "up"
             /\ req'[c] # NoReq => conn'[c] # 0 /\ answer'[c] = 0
             /\ req'[c] # NoReq /\ req'[c].inm = "tag" => held'[c] # NoBody
    <2>1. CASE c \in Of(p)
        BY <2>1, <1>2
    <2>2. CASE c \notin Of(p)
        <3>1. conn'[c] = conn[c] /\ req'[c] = req[c]
            BY <2>2, <1>2
        <3>2. conn[c] # 0 => runtimes[conn[c]].proc \in Procs \ {p}
            BY <2>2, Parts DEF Of, Control
        <3> QED BY <1>1, <3>1, <3>2 DEF Control, Typed, Connected
    <2> QED BY <2>1, <2>2
<1> QED BY <1>3, <1>4, <1>5, <1>6 DEF Control, Connected

\* What a step of a process that leaves the connections alone owes to them.
LEMMA ConnectedKept ==
    ASSUME Control, UNCHANGED clients,
           \A r \in 1 .. Len(runtimes) : runtimes'[r].proc = runtimes[r].proc,
           \A p \in Procs : status[p] = "up" => status'[p] = "up"
    PROVE  Connected'
BY Parts DEF Control, Connected, clients

\* What a process does before it publishes a build keeps the control state.
LEMMA ProcessStep ==
    ASSUME Control, Exclusive, NEW p \in Procs,
           \/ Kill(p) \/ FailBuild(p)
           \/ \E s \in Storages : Boot(p, s)
           \/ \E s \in Storages, j \in {"boot", "swap", "reload"} : StartBuild(p, j, s)
           \/ \E f \in Files : CacheFile(p, f)
    PROVE  Control'
<1> USE DEF process, clients, caches
<1>1. CASE Kill(p)
    BY <1>1, EndedKeeps DEF Kill
<1>2. CASE FailBuild(p)
    <2>1. CASE status[p] = "boot" /\ Ended(p)
        <3>1. Of(p) = {}
            BY <2>1, Parts DEF Of, Control, Connected
        <3>2. HangUp(Of(p)) /\ UNCHANGED <<made, runtimes, held, answer>>
            BY <1>2, <3>1 DEF FailBuild, HangUp, Control, Typed
        <3> QED BY <2>1, <3>2, EndedKeeps
    <2>2. CASE /\ status[p] = "up"
               /\ building' = [building EXCEPT ![p] = 0]
               /\ left' = [left EXCEPT ![p] = {}]
               /\ job' = [job EXCEPT ![p] = "none"]
               /\ UNCHANGED <<status, booted, BUILD_SEQ, cur>>
        <3>1. UNCHANGED <<made, runtimes, clients>>
            BY <1>2 DEF FailBuild
        <3>2. Typed'
            BY <2>2, <3>1 DEF Control, Typed
        <3>3. Lives' /\ Known'
            BY <2>2, <3>1 DEF Control, Typed, Lives, Known
        <3>4. Connected'
            BY <2>2, <3>1, ConnectedKept
        <3> QED BY <3>2, <3>3, <3>4 DEF Control
    <2> QED BY <1>2, <2>1, <2>2 DEF FailBuild
<1>3. ASSUME NEW s \in Storages, Boot(p, s)
      PROVE  Control'
    <2>1. /\ \A q \in Procs : status[q] = "off"
          /\ status' = [status EXCEPT ![p] = "boot"]
          /\ booted' = [booted EXCEPT ![p] = s]
          /\ UNCHANGED <<BUILD_SEQ, cur, job, building, left, made, runtimes, clients>>
        BY <1>3 DEF Boot
    <2>2. s \in {"memory", "disk"}
        BY ConstantsAssumption DEF ConstantsAssumption
    <2>3. Typed'
        BY <2>1, <2>2 DEF Control, Typed
    <2>4. Lives'
        BY <2>1, <2>2 DEF Control, Typed, Lives
    <2>5. Known' /\ Connected'
        BY <2>1, ConnectedKept DEF Control, Known
    <2> QED BY <2>3, <2>4, <2>5 DEF Control
<1>4. ASSUME NEW s \in Storages, NEW j \in {"boot", "swap", "reload"}, StartBuild(p, j, s)
      PROVE  Control'
    <2>1. /\ building[p] = 0 /\ made' = made + 1
          /\ j = "boot" => status[p] = "boot"
          /\ j # "boot" => status[p] = "up"
          /\ BUILD_SEQ' = [BUILD_SEQ EXCEPT ![p] = IF s = "disk" THEN @ + 1 ELSE @]
          /\ building' = [building EXCEPT ![p] = made']
          /\ left' = [left EXCEPT ![p] = Files]
          /\ job' = [job EXCEPT ![p] = j]
          /\ UNCHANGED <<status, booted, cur, runtimes, clients>>
        BY <1>4 DEF StartBuild, MayBuild
    <2>2. Typed'
        BY <2>1 DEF Control, Typed
    <2>3. Lives'
        BY <2>1 DEF Control, Typed, Lives
    <2>4. Known'
        <3>1. made \in Nat /\ made' = made + 1
            BY <2>1 DEF Control, Typed
        <3>2. \A r \in 1 .. Len(runtimes') :
                    runtimes'[r].cache \in Nat /\ runtimes'[r].cache <= made'
            BY <2>1, <3>1, Parts DEF Control
        <3>3. \A c \in Conns : req[c].cache \in Nat
            BY Parts DEF Control, Requests
        <3> QED BY <2>1, <3>1, <3>2, <3>3 DEF Control, Typed, Known
    <2>5. Connected'
        BY <2>1, ConnectedKept
    <2> QED BY <2>2, <2>3, <2>4, <2>5 DEF Control
<1>5. ASSUME NEW f \in Files, CacheFile(p, f)
      PROVE  Control'
    <2>1. /\ f \in left[p] /\ left' = [left EXCEPT ![p] = @ \ {f}]
          /\ UNCHANGED <<status, booted, BUILD_SEQ, cur, job, building, made,
                         runtimes, clients>>
        BY <1>5 DEF CacheFile
    <2>2. Typed' /\ Known'
        BY <2>1 DEF Control, Typed, Known
    <2>3. Lives'
        BY <2>1 DEF Control, Typed, Lives
    <2>4. Connected'
        BY <2>1, ConnectedKept
    <2> QED BY <2>2, <2>3, <2>4 DEF Control
<1> QED BY <1>1, <1>2, <1>3, <1>4, <1>5

\* So does publishing, which gives a runtime this build or leaves it alone.
LEMMA PublishStep ==
    ASSUME Control, NEW p \in Procs, Publish(p)
    PROVE  /\ Control'
           /\ \A r \in 1 .. Len(runtimes) :
                 runtimes'[r].cache \in {runtimes[r].cache, building[p]}
<1> USE DEF clients
<1> DEFINE b == building[p]
           R == [proc: Procs, cache: Nat \ {0}]
<1>1. /\ b # 0 /\ left[p] = {} /\ job[p] # "none"
      /\ status' = [status EXCEPT ![p] = "up"]
      /\ building' = [building EXCEPT ![p] = 0]
      /\ job' = [job EXCEPT ![p] = "none"]
      /\ UNCHANGED <<booted, BUILD_SEQ, left, made, clients>>
    BY DEF Publish, Control, Lives
<1>2. b \in Nat \ {0} /\ b <= made /\ made \in Nat /\ runtimes \in Seq(R)
      /\ Len(runtimes) \in Nat
    BY <1>1, Parts DEF Control, Typed, Known
<1>3. status[p] # "off"
    BY <1>1 DEF Control, Lives, Typed
<1> HIDE DEF b
<1>4. CASE job[p] = "swap"
    <2>1. /\ runtimes' = [runtimes EXCEPT ![cur[p]].cache = b] /\ cur' = cur
          /\ status[p] = "up" /\ cur[p] \in 1 .. Len(runtimes)
        BY <1>4, Parts DEF Publish, Control, Lives, b
    <2>2. /\ Len(runtimes') = Len(runtimes) /\ runtimes' \in Seq(R)
          /\ \A r \in 1 .. Len(runtimes) :
                /\ runtimes'[r].proc = runtimes[r].proc
                /\ runtimes'[r].cache = IF r = cur[p] THEN b ELSE runtimes[r].cache
        <3> DEFINE x == [runtimes[cur[p]] EXCEPT !.cache = b]
        <3>1. runtimes' = [runtimes EXCEPT ![cur[p]] = x]
            BY <2>1
        <3>2. runtimes[cur[p]] \in R
            BY <1>2, <2>1, ElementOfSeq
        <3>3. x \in R /\ x.proc = runtimes[cur[p]].proc /\ x.cache = b
            BY <1>2, <3>2
        <3>0. cur[p] \in 1 .. Len(runtimes)
            BY <2>1
        <3> HIDE DEF x, R
        <3>4. runtimes' \in Seq(R) /\ Len(runtimes') = Len(runtimes)
              /\ \A r \in 1 .. Len(runtimes) :
                    runtimes'[r] = IF r = cur[p] THEN x ELSE runtimes[r]
            BY <1>2, <3>0, <3>1, <3>3, ExceptSeq, SMTT(30)
        <3> QED BY <3>3, <3>4
    <2> HIDE DEF R
    <2>3. status' = status
        BY <1>1, <2>1 DEF Control, Typed
    <2>4. Typed'
        <3>1. job' \in [Procs -> {"none", "boot", "swap", "reload"}]
            BY <1>1 DEF Control, Typed
        <3>2. building' \in [Procs -> Nat]
            BY <1>1 DEF Control, Typed
        <3> QED BY <1>1, <2>1, <2>2, <2>3, <3>1, <3>2 DEF Control, Typed, R
    <2>5. Lives'
        BY <1>1, <2>1, <2>3 DEF Control, Typed, Lives
    <2>6. Known'
        <3>1. \A r \in 1 .. Len(runtimes') : runtimes'[r].cache <= made'
            BY <1>1, <1>2, <2>2 DEF Control, Known
        <3>2. \A q \in Procs : cur'[q] <= Len(runtimes') /\ building'[q] <= made'
            BY <1>1, <1>2, <2>1, <2>2 DEF Control, Typed, Known
        <3>3. \A q \in Procs : cur'[q] # 0 => runtimes'[cur'[q]].proc = q
            BY <2>1, <2>2, Parts DEF Control, Known
        <3> QED BY <1>1, <2>2, <3>1, <3>2, <3>3 DEF Control, Known
    <2>7. Connected'
        BY <1>1, <2>2, <2>3, ConnectedKept
    <2> QED BY <2>2, <2>4, <2>5, <2>6, <2>7 DEF Control, b
<1>5. CASE job[p] # "swap"
    <2> DEFINE x == [proc |-> p, cache |-> b]
    <2>1. /\ runtimes' = Append(runtimes, x)
          /\ cur' = [cur EXCEPT ![p] = Len(runtimes) + 1]
        BY <1>5 DEF Publish, b
    <2>2. x \in R /\ x.cache = b
        BY <1>2
    <2> HIDE DEF x, R
    <2>3. /\ Len(runtimes') = Len(runtimes) + 1 /\ runtimes' \in Seq(R)
          /\ \A r \in 1 .. Len(runtimes) : runtimes'[r] = runtimes[r]
          /\ runtimes'[Len(runtimes) + 1] = x
        BY <1>2, <2>1, <2>2, AppendProperties
    <2>4. Typed'
        <3>1. cur' \in [Procs -> Nat] /\ building' \in [Procs -> Nat]
            BY <1>1, <1>2, <2>1 DEF Control, Typed
        <3>2. /\ status' \in [Procs -> {"off", "boot", "up"}]
              /\ job' \in [Procs -> {"none", "boot", "swap", "reload"}]
            BY <1>1 DEF Control, Typed
        <3> QED BY <1>1, <2>3, <3>1, <3>2 DEF Control, Typed, R
    <2>5. Lives'
        BY <1>1, <1>2, <1>3, <2>1 DEF Control, Typed, Lives
    <2>6. Known'
        <3>1. \A r \in 1 .. Len(runtimes') : runtimes'[r].cache <= made'
            <4>1. \A r \in 1 .. Len(runtimes) : runtimes[r].cache <= made
                BY DEF Control, Known
            <4> QED BY <1>1, <1>2, <2>2, <2>3, <4>1
        <3>2. \A q \in Procs : cur'[q] <= Len(runtimes') /\ building'[q] <= made'
            <4>1. \A q \in Procs : /\ cur[q] \in Nat /\ building[q] \in Nat
                                   /\ cur[q] <= Len(runtimes) /\ building[q] <= made
                BY DEF Control, Typed, Known
            <4>2. \A q \in Procs : /\ cur'[q] \in {cur[q], Len(runtimes) + 1}
                                   /\ building'[q] \in {building[q], 0}
                BY <1>1, <2>1 DEF Control, Typed
            <4>3. \A q \in Procs : cur'[q] <= Len(runtimes')
                BY <1>2, <2>3, <4>1, <4>2
            <4>4. \A q \in Procs : building'[q] <= made'
                BY <1>1, <1>2, <4>1, <4>2
            <4> QED BY <4>3, <4>4
        <3>3. \A c \in Conns : conn'[c] <= Len(runtimes') /\ req'[c].cache <= made'
            BY <1>1, <1>2, <2>3 DEF Control, Typed, Known
        <3>4. ASSUME NEW q \in Procs, cur'[q] # 0
              PROVE  runtimes'[cur'[q]].proc = q
            <4>1. CASE q = p
                BY <4>1, <2>1, <2>3 DEF Control, Typed, x
            <4>2. CASE q # p
                <5>1. cur'[q] = cur[q] /\ cur[q] # 0
                    BY <3>4, <4>2, <2>1 DEF Control, Typed
                <5> QED BY <5>1, <2>3, Parts DEF Control, Known
            <4> QED BY <4>1, <4>2
        <3> QED BY <3>1, <3>2, <3>3, <3>4 DEF Known
    <2>7. \A q \in Procs : status[q] = "up" => status'[q] = "up"
        BY <1>1 DEF Control, Typed
    <2>8. Connected'
        BY <1>1, <2>3, <2>7, ConnectedKept
    <2> QED BY <2>3, <2>4, <2>5, <2>6, <2>8 DEF Control
<1> QED BY <1>4, <1>5

\* The answer to a request is the body that the index of its cache promises.
LEMMA Delivery ==
    ASSUME Control, Built, Intact, NEW c \in Conns, req[c] # NoReq,
           req[c].file \in builds[req[c].cache].index
    PROVE  /\ Delivered(req[c]) = Promised(req[c])
           /\ Promised(req[c]) \in Bodies /\ Promised(req[c]) # NoBody
<1> DEFINE r == req[c]
           v == Selected(r.file, r.accept)
<1>1. r \in Requests /\ r.cache # 0
    BY Parts DEF Control
<1>2. r.cache \in Referenced /\ r.cache \in Nat /\ r.file \in Files
    BY <1>1, References DEF Requests
<1>3. v \in Variants(r.file) /\ v \in Reps
    BY DEF Selected, Variants, Coded, Reps, Codings
<1>4. r.file \in builds[r.cache].index
    OBVIOUS
<1> HIDE DEF r, v
<1>5. Body(r.cache, r.file, v) \in Bodies /\ Body(r.cache, r.file, v) # NoBody
    BY <1>2, <1>3 DEF Body, Bodies, NoBody
<1>6. builds[r.cache].dir # NoDir =>
         LET snap == FilesOf(disk, builds[r.cache].dir)
         IN  /\ SnapshotPath(r.file, v) \in DOMAIN snap
             /\ snap[SnapshotPath(r.file, v)] = Body(r.cache, r.file, v)
    BY <1>2, <1>3, <1>4 DEF Intact, Whole
<1>7. Promised(r) = Body(r.cache, r.file, v)
    BY DEF Promised, v
<1>8. Delivered(r) = Promised(r)
    BY <1>6, <1>7 DEF Delivered, v
<1> QED BY <1>5, <1>7, <1>8 DEF r

\* What an answer does to the client, of whatever kind it is.
LEMMA ReplyKeeps ==
    ASSUME Control, NEW c \in Conns, NEW code \in Nat, NEW body,
           code = 200 => body \in Bodies, Reply(c, code, body), UNCHANGED process
    PROVE  Control'
<1> USE DEF process
<1>1. /\ answer' = [answer EXCEPT ![c] = code]
      /\ held' = [held EXCEPT ![c] = IF code = 200 THEN body ELSE @]
      /\ req' = [req EXCEPT ![c] = NoReq]
      /\ conn' = [conn EXCEPT ![c] = IF code = 500 THEN 0 ELSE @]
      /\ UNCHANGED <<made, runtimes>>
    BY DEF Reply
<1>2. Typed'
    <2>1. /\ answer' \in [Conns -> Nat] /\ conn' \in [Conns -> Nat]
          /\ req' \in [Conns -> {NoReq} \cup Requests]
        BY <1>1 DEF Control, Typed
    <2>2. held' \in [Conns -> {NoBody} \cup Bodies]
        BY <1>1 DEF Control, Typed
    <2> QED BY <1>1, <2>1, <2>2 DEF Control, Typed
<1>3. Lives'
    BY <1>1 DEF Control, Lives
<1>4. Known'
    <2>1. NoReq.cache <= made
        BY Parts DEF Control, Typed
    <2>2. ASSUME NEW d \in Conns
          PROVE  conn'[d] <= Len(runtimes) /\ req'[d].cache <= made
        BY <1>1, <2>1, Parts DEF Control, Typed, Known
    <2> QED BY <1>1, <2>2 DEF Control, Known
<1>5. ASSUME NEW d \in Conns
      PROVE  /\ conn'[d] # 0 => status'[runtimes'[conn'[d]].proc] = "up"
             /\ req'[d] # NoReq => conn'[d] # 0 /\ answer'[d] = 0
             /\ req'[d] # NoReq /\ req'[d].inm = "tag" => held'[d] # NoBody
    BY <1>1 DEF Control, Typed, Connected
<1> QED BY <1>2, <1>3, <1>4, <1>5 DEF Control, Connected

\* A client touches neither the disk nor what a process has built.
LEMMA ClientStep ==
    ASSUME Control, Built, Intact, NEW c \in Conns,
           \/ Connect(c) \/ Disconnect(c)
           \/ NotFound(c) \/ NotModified(c) \/ Serve(c)
           \/ \E f \in Files, field \in AcceptFields, inm \in {"none", "*", "tag"} :
                 Request(c, f, field, inm)
    PROVE  Control' /\ UNCHANGED process
<1> USE DEF process, caches
<1>1. CASE Connect(c)
    <2>1. PICK p \in Procs : status[p] = "up" /\ conn' = [conn EXCEPT ![c] = cur[p]]
        BY <1>1 DEF Connect
    <2>2. conn[c] = 0 /\ UNCHANGED <<process, caches, disk, req, held, answer>>
        BY <1>1 DEF Connect
    <2>3. Typed' /\ Lives' /\ Known'
        BY <2>1, <2>2 DEF Control, Typed, Lives, Known
    <2>4. cur[p] \in 1 .. Len(runtimes) /\ status[runtimes[cur[p]].proc] = "up"
        BY <2>1, Parts DEF Control, Lives, Known
    <2>5. Connected'
        BY <2>1, <2>2, <2>4 DEF Control, Typed, Connected
    <2> QED BY <2>2, <2>3, <2>5 DEF Control
<1>2. CASE Disconnect(c)
    <2>1. /\ conn' = [d \in Conns |-> IF d = c THEN 0 ELSE conn[d]]
          /\ req' = [d \in Conns |-> IF d = c THEN NoReq ELSE req[d]]
          /\ UNCHANGED <<process, made, runtimes, held, answer>>
        BY <1>2 DEF Disconnect, HangUp
    <2>2. Typed' /\ Lives'
        BY <2>1 DEF Control, Typed, Lives
    <2>3. Known'
        <3>1. NoReq.cache <= made
            BY Parts DEF Control, Typed
        <3>2. ASSUME NEW d \in Conns
              PROVE  conn'[d] <= Len(runtimes) /\ req'[d].cache <= made
            BY <2>1, <3>1, Parts DEF Control, Typed, Known
        <3> QED BY <2>1, <3>2 DEF Control, Known
    <2>4. Connected'
        BY <2>1 DEF Control, Connected
    <2> QED BY <2>1, <2>2, <2>3, <2>4 DEF Control
<1>3. CASE NotFound(c)
    <2>1. Reply(c, 404, NoBody)
        BY <1>3 DEF NotFound
    <2>2. UNCHANGED process
        BY <2>1 DEF Reply
    <2> QED BY <2>1, <2>2, ReplyKeeps
<1>4. CASE NotModified(c)
    <2>1. Reply(c, 304, NoBody)
        BY <1>4 DEF NotModified
    <2>2. UNCHANGED process
        BY <2>1 DEF Reply
    <2> QED BY <2>1, <2>2, ReplyKeeps
<1>5. CASE Serve(c)
    <2>1. req[c] # NoReq /\ req[c].file \in builds[req[c].cache].index
        BY <1>5 DEF Serve
    <2>2. Delivered(req[c]) \in Bodies /\ Delivered(req[c]) # NoBody
        BY <2>1, Delivery
    <2>3. Reply(c, 200, Delivered(req[c])) /\ UNCHANGED process
        BY <1>5, <2>2 DEF Serve, Reply
    <2> QED BY <2>2, <2>3, ReplyKeeps
<1>6. ASSUME NEW f \in Files, NEW field \in AcceptFields, NEW inm \in {"none", "*", "tag"},
             Request(c, f, field, inm)
      PROVE  Control' /\ UNCHANGED process
    <2> DEFINE r == [cache |-> runtimes[conn[c]].cache, file |-> f,
                     accept |-> field, inm |-> inm]
    <2>1. /\ conn[c] # 0 /\ inm \in Conditions(c)
          /\ req' = [req EXCEPT ![c] = r] /\ answer' = [answer EXCEPT ![c] = 0]
          /\ UNCHANGED <<process, caches, disk, conn, held>>
        BY <1>6 DEF Request
    <2>2. r \in Requests /\ r.cache <= made /\ r.inm = inm
        BY <2>1, Parts DEF Control, Requests
    <2>3. inm = "tag" => held[c] # NoBody
        BY <2>1 DEF Conditions
    <2> HIDE DEF r
    <2>4. Typed'
        BY <2>1, <2>2 DEF Control, Typed
    <2>5. Lives'
        BY <2>1 DEF Control, Lives
    <2>6. Known'
        <3>1. \A d \in Conns : req'[d].cache <= made
            BY <2>1, <2>2 DEF Control, Typed, Known
        <3> QED BY <2>1, <3>1 DEF Control, Known
    <2>7. Connected'
        BY <2>1, <2>2, <2>3 DEF Control, Typed, Connected
    <2> QED BY <2>1, <2>4, <2>5, <2>6, <2>7 DEF Control
<1> QED BY <1>1, <1>2, <1>3, <1>4, <1>5, <1>6
----------------------------------------------------------------------------
(* Caches and their directories *)

Caches == Built /\ OwnDirs /\ Intact /\ NoOrphans

\* What Put, Without and Over leave of a directory.
LEMMA PutFiles ==
    ASSUME NEW f, NEW d, NEW files
    PROVE  /\ DOMAIN Put(f, d, files) = DOMAIN f \cup {d}
           /\ FilesOf(Put(f, d, files), d) = Over(files, FilesOf(f, d))
BY DEF Put, Over, FilesOf

\* A file written under one directory leaves all others as they were.
LEMMA PutElsewhere ==
    ASSUME NEW f, NEW d, NEW files, NEW e, e # d
    PROVE  FilesOf(Put(f, d, files), e) = FilesOf(f, e)
BY DEF Put, Over, FilesOf

\* Directories that are removed take their own files along and no other.
LEMMA WithoutFiles ==
    ASSUME NEW f, NEW dirs
    PROVE  /\ DOMAIN Without(f, dirs) = DOMAIN f \ dirs
           /\ \A e : e \notin dirs => FilesOf(Without(f, dirs), e) = FilesOf(f, e)
BY DEF Without, FilesOf

\* When caches lose their last reference, the others keep their directories.
LEMMA DropKeeps ==
    ASSUME Caches, Referenced' \subseteq Referenced,
           builds' = Alive, disk' = Dropped(disk),
           \A p \in Procs : /\ status'[p] # "off" =>
                                  status[p] # "off" /\ BUILD_SEQ'[p] = BUILD_SEQ[p]
                            /\ booted'[p] = "disk" => booted[p] = "disk"
    PROVE  Caches'
<1> DEFINE dirs == {builds[b].dir : b \in Referenced \ Referenced'}
<1>1. /\ DOMAIN disk' = DOMAIN disk \ dirs
      /\ \A e : e \notin dirs => FilesOf(disk', e) = FilesOf(disk, e)
    <2>1. disk' = Without(disk, dirs)
        BY DEF Dropped
    <2> HIDE DEF dirs
    <2>2. DOMAIN Without(disk, dirs) = DOMAIN disk \ dirs
        BY WithoutFiles
    <2>3. \A e : e \notin dirs => FilesOf(Without(disk, dirs), e) = FilesOf(disk, e)
        BY WithoutFiles
    <2> QED BY <2>1, <2>2, <2>3
<1>2. /\ DOMAIN builds' = Referenced' /\ builds' = [b \in Referenced' |-> builds[b]]
      /\ \A b \in Referenced' : builds'[b] = builds[b]
    BY DEF Alive
<1>3. \A b \in Referenced' : builds[b].dir # NoDir => builds[b].dir \notin dirs
    BY DEF Caches, OwnDirs
<1>4. Built'
    BY <1>2 DEF Caches, Built
<1>5. OwnDirs'
    BY <1>2 DEF Caches, OwnDirs
<1>6. ASSUME NEW b \in Referenced', builds'[b].dir # NoDir, NEW f \in builds'[b].index
      PROVE  Whole(b, f)'
    <2>1. FilesOf(disk', builds'[b].dir) = FilesOf(disk, builds[b].dir)
        BY <1>1, <1>2, <1>3, <1>6
    <2>2. Whole(b, f)
        BY <1>2, <1>6 DEF Caches, Intact
    <2> QED BY <2>1, <2>2 DEF Whole
<1>7. ASSUME NEW p \in Procs, booted'[p] = "disk", NEW d \in DOMAIN disk'
      PROVE  \E b \in Referenced' : builds'[b].dir = d
    <2>1. d \in DOMAIN disk /\ d \notin dirs /\ booted[p] = "disk"
        BY <1>1, <1>7
    <2>2. PICK b \in Referenced : builds[b].dir = d
        BY <2>1 DEF Caches, NoOrphans
    <2>3. b \in Referenced'
        BY <2>1, <2>2
    <2> QED BY <2>2, <2>3, <1>2
<1> QED BY <1>4, <1>5, <1>6, <1>7 DEF Caches, Intact, NoOrphans

\* A step that changes neither the references nor the disk.
LEMMA CachesSame ==
    ASSUME Caches, Referenced' = Referenced, UNCHANGED <<builds, disk>>,
           \A p \in Procs : /\ status'[p] # "off" =>
                                  status[p] # "off" /\ BUILD_SEQ'[p] = BUILD_SEQ[p]
                            /\ booted'[p] = "disk" => booted[p] = "disk"
    PROVE  Caches'
<1>1. Built' /\ OwnDirs'
    BY DEF Caches, Built, OwnDirs
<1>2. Intact'
    BY DEF Caches, Intact, Whole
<1>3. NoOrphans'
    BY DEF Caches, NoOrphans
<1> QED BY <1>1, <1>2, <1>3 DEF Caches

\* A build that starts, and sweeps the directory, keeps what is in use.
LEMMA StartBuildCaches ==
    ASSUME Control, Caches, NEW p \in Procs, NEW s \in Storages,
           NEW j \in {"boot", "swap", "reload"}, StartBuild(p, j, s)
    PROVE  Caches'
<1> USE DEF clients
<1> DEFINE n   == made + 1
           dir == IF s = "disk" THEN BUILD_SEQ[p] ELSE NoDir
           new == [dir |-> dir, index |-> {}]
<1>1. /\ status[p] # "off" /\ building[p] = 0 /\ building' = [building EXCEPT ![p] = n]
      /\ builds' = Over([b \in {n} |-> new], builds)
      /\ disk' = IF s = "disk" THEN Put(disk, dir, FilesOf(disk, dir)) ELSE disk
      /\ BUILD_SEQ' = [BUILD_SEQ EXCEPT ![p] = IF s = "disk" THEN @ + 1 ELSE @]
      /\ UNCHANGED <<status, booted, cur, runtimes, clients>>
    BY DEF StartBuild, MayBuild
<1>2. n \in Nat \ {0} /\ n \notin Referenced /\ dir \in Nat \cup {NoDir}
      /\ BUILD_SEQ[p] \in Nat
    BY ReferencedKnown DEF Control, Typed
<1>3. new.dir = dir /\ new.index = {}
    OBVIOUS
<1> HIDE DEF n, dir
<1>4. Referenced' = Referenced \cup {n}
    <2>1. \A q \in Procs : building'[q] = IF q = p THEN n ELSE building[q]
        BY <1>1 DEF Control, Typed
    <2> QED BY <1>1, <1>2, <2>1, References, NextReferences
<1>5. new \in [dir: Nat \cup {NoDir}, index: SUBSET Files]
    BY <1>2
<1> HIDE DEF new
<1>6. /\ DOMAIN builds = Referenced /\ DOMAIN builds' = Referenced'
      /\ builds'[n] = new /\ \A b \in Referenced : builds'[b] = builds[b]
    BY <1>1, <1>2, <1>4 DEF Caches, Built, Over
<1>7. Built'
    <2>1. builds' = [b \in Referenced' |-> builds'[b]]
        BY <1>1, <1>6 DEF Over
    <2> QED BY <1>4, <1>5, <1>6, <2>1 DEF Caches, Built
<1>8. \A b \in Referenced : /\ builds[b].dir < BUILD_SEQ[p]
                            /\ builds[b].dir \in Nat \cup {NoDir}
                            /\ builds[b].dir = dir => dir = NoDir
    BY <1>1, <1>2 DEF Caches, OwnDirs, Built, dir
<1>9. OwnDirs'
    <2>1. ASSUME NEW a \in Referenced', NEW b \in Referenced',
                 builds'[a].dir = builds'[b].dir, builds'[a].dir # NoDir
          PROVE  a = b
        BY <2>1, <1>3, <1>4, <1>6, <1>8 DEF Caches, OwnDirs
    <2>2. ASSUME NEW q \in Procs, status'[q] # "off", NEW b \in Referenced'
          PROVE  builds'[b].dir < BUILD_SEQ'[q]
        <3>1. q = p
            BY <1>1, <2>2 DEF Control, Lives
        <3>2. BUILD_SEQ'[p] = IF s = "disk" THEN BUILD_SEQ[p] + 1 ELSE BUILD_SEQ[p]
            BY <1>1 DEF Control, Typed
        <3>3. CASE b = n
            BY <1>2, <1>3, <1>6, <3>1, <3>2, <3>3 DEF dir, NoDir
        <3>4. CASE b \in Referenced
            BY <1>2, <1>6, <1>8, <3>1, <3>2, <3>4 DEF NoDir
        <3> QED BY <1>4, <3>3, <3>4
    <2> QED BY <2>1, <2>2 DEF OwnDirs
<1>10. /\ \A e : e # dir => FilesOf(disk', e) = FilesOf(disk, e)
       /\ DOMAIN disk' = IF s = "disk" THEN DOMAIN disk \cup {dir} ELSE DOMAIN disk
    <2> DEFINE put == Put(disk, dir, FilesOf(disk, dir))
    <2>1. /\ DOMAIN put = DOMAIN disk \cup {dir}
          /\ \A e : e # dir => FilesOf(put, e) = FilesOf(disk, e)
        <3>1. DOMAIN put = DOMAIN disk \cup {dir}
            BY PutFiles
        <3>2. \A e : e # dir => FilesOf(put, e) = FilesOf(disk, e)
            BY PutElsewhere
        <3> QED BY <3>1, <3>2
    <2>2. disk' = IF s = "disk" THEN put ELSE disk
        BY <1>1
    <2> HIDE DEF put
    <2> QED BY <2>1, <2>2
<1>11. ASSUME NEW b \in Referenced', builds'[b].dir # NoDir, NEW f \in builds'[b].index
       PROVE  Whole(b, f)'
    <2>1. b \in Referenced /\ builds'[b] = builds[b]
        BY <1>3, <1>4, <1>6, <1>11
    <2>2. Whole(b, f)
        BY <1>11, <2>1 DEF Caches, Intact
    <2>3. FilesOf(disk', builds[b].dir) = FilesOf(disk, builds[b].dir)
        BY <1>8, <1>10, <1>11, <2>1
    <2> QED BY <2>1, <2>2, <2>3 DEF Whole
<1>12. ASSUME NEW q \in Procs, booted'[q] = "disk", NEW d \in DOMAIN disk'
       PROVE  \E b \in Referenced' : builds'[b].dir = d
    <2>1. CASE d \in DOMAIN disk
        BY <1>1, <1>4, <1>6, <1>12, <2>1 DEF Caches, NoOrphans
    <2>2. CASE d \notin DOMAIN disk
        BY <1>3, <1>4, <1>6, <1>10, <1>12, <2>2
    <2> QED BY <2>1, <2>2
<1> QED BY <1>7, <1>9, <1>11, <1>12 DEF Caches, Intact, NoOrphans

\* One more file in its cache, with every variant written, or some variants of
\* it written and the file left out.
LEMMA CacheFileCaches ==
    ASSUME Control, Caches, NEW p \in Procs, NEW f \in Files, CacheFile(p, f)
    PROVE  Caches'
<1> USE DEF clients
<1> DEFINE b   == building[p]
           dir == builds[b].dir
<1>1. /\ f \in left[p]
      /\ UNCHANGED <<status, booted, BUILD_SEQ, cur, job, building, made,
                     runtimes, clients>>
      /\ \/ /\ builds' = [builds EXCEPT ![b].index = @ \cup {f}]
            /\ disk' = IF dir = NoDir THEN disk
                                      ELSE Put(disk, dir, Written(b, f, Variants(f)))
         \/ /\ dir # NoDir /\ UNCHANGED builds
            /\ \E c \in Variants(f) : disk' =
                  Put(disk, dir, Written(b, f, WrittenBefore(f, c)))
    BY DEF CacheFile
<1>2. b # 0 /\ b \in Referenced
    <2>1. b # 0
        BY <1>1 DEF Control, Lives
    <2> QED BY <2>1, References
<1>3. Referenced' = Referenced
    BY <1>1 DEF Referenced, Slots, LiveRuntimes, Pinned
<1>4. builds[b] \in [dir: Nat \cup {NoDir}, index: SUBSET Files]
    BY <1>2 DEF Caches, Built
<1> HIDE DEF b
<1>5. /\ \A a \in Referenced : a # b => builds'[a] = builds[a]
      /\ builds'[b].dir = dir /\ builds'[b].index \in {builds[b].index, builds[b].index \cup {f}}
      /\ Built'
    <2>1. CASE UNCHANGED builds
        BY <2>1, <1>2, <1>3 DEF Caches, Built
    <2>2. CASE builds' = [builds EXCEPT ![b].index = @ \cup {f}]
        <3> DEFINE x == [builds[b] EXCEPT !.index = @ \cup {f}]
        <3>1. builds' = [builds EXCEPT ![b] = x]
            BY <2>2
        <3>2. /\ x \in [dir: Nat \cup {NoDir}, index: SUBSET Files] /\ x.dir = dir
              /\ x.index = builds[b].index \cup {f}
            BY <1>4
        <3> HIDE DEF x, dir
        <3>3. DOMAIN builds = Referenced
            BY DEF Caches, Built
        <3>4. builds'[b] = x /\ \A a \in Referenced : a # b => builds'[a] = builds[a]
            BY <1>2, <3>1, <3>3
        <3>5. Built'
            BY <1>3, <3>1, <3>2 DEF Caches, Built
        <3> QED BY <3>2, <3>4, <3>5
    <2> QED BY <1>1, <2>1, <2>2
<1> HIDE DEF dir
<1>6. OwnDirs'
    BY <1>1, <1>2, <1>3, <1>5 DEF Caches, OwnDirs, dir
<1>7. PICK done \in SUBSET Variants(f) :
         /\ disk' = IF dir = NoDir THEN disk ELSE Put(disk, dir, Written(b, f, done))
         /\ builds'[b].index # builds[b].index => done = Variants(f)
    <2>1. CASE dir # NoDir /\ UNCHANGED builds
               /\ \E c \in Variants(f) : disk' =
                     Put(disk, dir, Written(b, f, WrittenBefore(f, c)))
        <3>1. \A c : WrittenBefore(f, c) \in SUBSET Variants(f)
            BY DEF WrittenBefore
        <3> QED BY <2>1, <3>1
    <2>2. CASE disk' = IF dir = NoDir THEN disk
                                      ELSE Put(disk, dir, Written(b, f, Variants(f)))
        BY <2>2
    <2> QED BY <1>1, <2>1, <2>2
<1>8. /\ DOMAIN Written(b, f, done) = {SnapshotPath(f, c) : c \in done}
      /\ \A c \in done : Written(b, f, done)[SnapshotPath(f, c)] = Body(b, f, c)
    <2>1. \A c, d : SnapshotPath(f, c) = SnapshotPath(f, d) => c = d
        BY DEF SnapshotPath
    <2>2. ASSUME NEW c \in done
          PROVE  (CHOOSE d \in done : SnapshotPath(f, d) = SnapshotPath(f, c)) = c
        BY <2>1
    <2> QED BY <2>2 DEF Written
<1>9. ASSUME dir # NoDir
      PROVE  /\ DOMAIN disk' = DOMAIN disk \cup {dir}
             /\ FilesOf(disk', dir) = Over(Written(b, f, done), FilesOf(disk, dir))
             /\ \A e : e # dir => FilesOf(disk', e) = FilesOf(disk, e)
    <2> DEFINE put == Put(disk, dir, Written(b, f, done))
    <2>1. disk' = put
        BY <1>7, <1>9
    <2>2. DOMAIN put = DOMAIN disk \cup {dir}
        BY PutFiles
    <2>3. FilesOf(put, dir) = Over(Written(b, f, done), FilesOf(disk, dir))
        BY PutFiles
    <2>4. \A e : e # dir => FilesOf(put, e) = FilesOf(disk, e)
        BY PutElsewhere
    <2> HIDE DEF put
    <2> QED BY <2>1, <2>2, <2>3, <2>4
<1>10. ASSUME NEW a \in Referenced', builds'[a].dir # NoDir, NEW g \in builds'[a].index
       PROVE  Whole(a, g)'
    <2>1. CASE a # b
        <3>1. builds'[a] = builds[a] /\ builds[a].dir # dir /\ Whole(a, g)
            BY <1>2, <1>3, <1>5, <1>10, <2>1 DEF Caches, OwnDirs, Intact, dir
        <3>2. FilesOf(disk', builds[a].dir) = FilesOf(disk, builds[a].dir)
            BY <1>7, <1>9, <3>1
        <3> QED BY <3>1, <3>2 DEF Whole
    <2>2. CASE a = b /\ g # f
        <3>1. dir # NoDir /\ g \in builds[b].index /\ builds'[b].dir = dir
            BY <1>5, <1>10, <2>2
        <3>2. Whole(b, g)
            BY <1>2, <3>1 DEF Caches, Intact, dir
        <3>3. \A c, d : SnapshotPath(g, c) # SnapshotPath(f, d)
            BY <2>2 DEF SnapshotPath
        <3>4. \A c : SnapshotPath(g, c) \notin DOMAIN Written(b, f, done)
            BY <1>8, <3>3
        <3>5. \A c \in Variants(g) :
                 /\ SnapshotPath(g, c) \in DOMAIN FilesOf(disk', dir)
                 /\ FilesOf(disk', dir)[SnapshotPath(g, c)] = Body(b, g, c)
            BY <1>9, <3>1, <3>2, <3>4 DEF Whole, Over, dir
        <3> QED BY <2>2, <3>1, <3>5 DEF Whole
    <2>3. CASE a = b /\ g = f
        <3>1. dir # NoDir /\ builds'[b].dir = dir
            BY <1>5, <1>10, <2>3
        <3>2. \A c \in Variants(f) :
                 /\ SnapshotPath(f, c) \in DOMAIN FilesOf(disk', dir)
                 /\ FilesOf(disk', dir)[SnapshotPath(f, c)] = Body(b, f, c)
            <4>1. CASE done = Variants(f)
                BY <1>8, <1>9, <3>1, <4>1 DEF Over
            <4>2. CASE builds'[b].index = builds[b].index
                \* f was in the index already: what is written is the same again.
                <5>1. Whole(b, f)
                    BY <1>2, <1>10, <2>3, <3>1, <4>2 DEF Caches, Intact, dir
                <5>2. ASSUME NEW c \in Variants(f)
                      PROVE  /\ SnapshotPath(f, c) \in DOMAIN FilesOf(disk', dir)
                             /\ FilesOf(disk', dir)[SnapshotPath(f, c)] = Body(b, f, c)
                    <6>1. /\ SnapshotPath(f, c) \in DOMAIN FilesOf(disk, dir)
                          /\ FilesOf(disk, dir)[SnapshotPath(f, c)] = Body(b, f, c)
                        BY <5>1 DEF Whole, dir
                    <6>2. SnapshotPath(f, c) \in DOMAIN Written(b, f, done)
                            => Written(b, f, done)[SnapshotPath(f, c)] = Body(b, f, c)
                        BY <1>8 DEF SnapshotPath
                    <6> QED BY <1>9, <3>1, <6>1, <6>2 DEF Over
                <5> QED BY <5>2
            <4> QED BY <1>7, <4>1, <4>2
        <3> QED BY <2>3, <3>1, <3>2 DEF Whole
    <2> QED BY <2>1, <2>2, <2>3
<1>11. ASSUME NEW q \in Procs, booted'[q] = "disk", NEW d \in DOMAIN disk'
       PROVE  \E a \in Referenced' : builds'[a].dir = d
    <2>1. \A a \in Referenced : builds'[a].dir = builds[a].dir
        BY <1>5 DEF dir
    <2>2. d \in DOMAIN disk \/ d = dir
        BY <1>7, <1>9, <1>11
    <2> QED BY <1>1, <1>2, <1>3, <1>5, <1>11, <2>1, <2>2 DEF Caches, NoOrphans
<1> QED BY <1>5, <1>6, <1>10, <1>11 DEF Caches, Intact, NoOrphans

\* A process starts: nothing is referred to, and under disk storage whatever its
\* predecessors left is removed.
LEMMA BootCaches ==
    ASSUME Control, Control', Caches, Exclusive, NEW p \in Procs, NEW s \in Storages,
           Boot(p, s)
    PROVE  Caches'
<1> USE DEF clients, caches
<1>1. /\ \A q \in Procs : status[q] = "off"
      /\ booted' = [booted EXCEPT ![p] = s] /\ disk' = Cleared(s)
      /\ UNCHANGED <<cur, building, builds, runtimes, clients>>
    BY DEF Boot
<1>2. Referenced = {} /\ Referenced' = {}
    <2>1. Referenced = {}
        BY <1>1, NothingReferenced DEF Control
    <2> QED BY <1>1, <2>1, References, NextReferences
<1>3. Built' /\ OwnDirs' /\ Intact'
    BY <1>1, <1>2 DEF Caches, Built, OwnDirs, Intact
<1>4. ASSUME NEW q \in Procs, booted'[q] = "disk"
      PROVE  DOMAIN disk' = {}
    <2>1. q = p /\ s = "disk"
        BY <1>1, <1>4 DEF Control, Typed, Lives
    <2> QED BY <1>1, <2>1 DEF Cleared, Without
<1> QED BY <1>3, <1>4 DEF Caches, NoOrphans

\* A kill leaves the directories, but no process that answers for them.
LEMMA KillCaches ==
    ASSUME Control, Control', Caches, NEW p \in Procs, Kill(p)
    PROVE  Caches'
<1>1. /\ status[p] # "off" /\ status' = [status EXCEPT ![p] = "off"]
      /\ booted' = [booted EXCEPT ![p] = "none"] /\ builds' = Alive
      /\ cur' = [cur EXCEPT ![p] = 0] /\ building' = [building EXCEPT ![p] = 0]
    BY DEF Kill, Ended
<1>2. \A q \in Procs : status'[q] = "off"
    <2>1. \A q \in Procs \ {p} : status[q] = "off"
        BY <1>1 DEF Control, Lives
    <2> QED BY <1>1, <2>1 DEF Control, Typed
<1>3. \A q \in Procs : booted'[q] = "none"
    BY <1>2 DEF Control, Lives
<1>4. Referenced' = {}
    <2>1. \A q \in Procs : cur'[q] = 0 /\ building'[q] = 0
        <3>1. \A q \in Procs : status'[q] # "up" /\ booted'[q] = "none"
            BY <1>2, <1>3
        <3>2. \A q \in Procs : cur'[q] = 0
            BY <3>1 DEF Control, Lives
        <3>3. \A q \in Procs : job'[q] = "none"
            <4>1. \A q \in Procs : /\ job'[q] \in {"none", "boot", "swap", "reload"}
                                   /\ job'[q] = "boot" => status'[q] = "boot"
                                   /\ job'[q] \in {"swap", "reload"} => status'[q] = "up"
                BY DEF Control, Typed, Lives
            <4> QED BY <1>2, <4>1
        <3>4. \A q \in Procs : building'[q] = 0
            BY <3>3 DEF Control, Lives
        <3> QED BY <3>2, <3>4
    <2>2. \A c \in Conns : conn'[c] = 0
        <3>1. ASSUME NEW c \in Conns, conn'[c] # 0
              PROVE  FALSE
            <4>1. conn'[c] = conn[c] /\ c \notin Of(p) /\ conn[c] # 0
                BY <3>1 DEF Kill, HangUp
            <4>2. runtimes[conn[c]].proc \in Procs \ {p}
                BY <4>1, Parts DEF Of, Control
            <4>3. status[runtimes[conn[c]].proc] = "up"
                BY <4>1 DEF Control, Connected
            <4> QED BY <1>1, <4>2, <4>3 DEF Control, Lives
        <3> QED BY <3>1
    <2>3. \A c \in Conns : req'[c] = NoReq /\ NoReq.cache = 0
        BY <2>2, Parts DEF Control, Connected
    <2> QED BY <2>1, <2>2, <2>3, NextReferences
<1>5. Built' /\ OwnDirs' /\ Intact'
    BY <1>1, <1>4 DEF Built, OwnDirs, Intact, Alive
<1> QED BY <1>3, <1>5 DEF Caches, NoOrphans

\* The steps at which a cache may lose its last reference.
LEMMA LetGo ==
    ASSUME Control, Caches,
           \/ \E p \in Procs : FailBuild(p) \/ Publish(p)
           \/ \E c \in Conns : Disconnect(c) \/ NotFound(c) \/ NotModified(c) \/ Serve(c)
    PROVE  Caches'
<1> USE DEF process, clients
<1>1. ASSUME NEW p \in Procs, FailBuild(p)
      PROVE  Caches'
    <2>1. /\ UNCHANGED <<made, runtimes, clients>>
          /\ disk' = Dropped(disk) /\ builds' = Alive
          /\ building' = [building EXCEPT ![p] = 0]
          /\ \/ cur' = cur /\ UNCHANGED <<status, booted, BUILD_SEQ>>
             \/ /\ cur' = [cur EXCEPT ![p] = 0]
                /\ status' = [status EXCEPT ![p] = "off"]
                /\ booted' = [booted EXCEPT ![p] = "none"]
                /\ BUILD_SEQ' = [BUILD_SEQ EXCEPT ![p] = 0]
        BY <1>1 DEF FailBuild, Ended
    <2>2. \A q \in Procs : building'[q] \in {building[q], 0} /\ cur'[q] \in {cur[q], 0}
        BY <2>1 DEF Control, Typed
    <2>3. Referenced' \subseteq Referenced
        BY <2>1, <2>2, References, NextReferences
    <2>4. \A q \in Procs : /\ status'[q] # "off" =>
                                 status[q] # "off" /\ BUILD_SEQ'[q] = BUILD_SEQ[q]
                           /\ booted'[q] = "disk" => booted[q] = "disk"
        BY <2>1 DEF Control, Typed
    <2> QED BY <2>1, <2>3, <2>4, DropKeeps
<1>2. ASSUME NEW p \in Procs, Publish(p)
      PROVE  Caches'
    <2>1. /\ building[p] # 0 /\ building' = [building EXCEPT ![p] = 0]
          /\ UNCHANGED <<booted, BUILD_SEQ, clients>>
          /\ status' = [status EXCEPT ![p] = "up"]
          /\ disk' = Dropped(disk) /\ builds' = Alive
        BY <1>2 DEF Publish
    <2>2. status[p] # "off"
        BY <2>1 DEF Control, Typed, Lives
    <2>3. \A r \in 1 .. Len(runtimes) :
             runtimes'[r].cache \in {runtimes[r].cache, building[p]}
        BY <1>2, PublishStep
    <2>4. \/ cur' = cur
          \/ /\ cur' = [cur EXCEPT ![p] = Len(runtimes) + 1]
             /\ runtimes'[Len(runtimes) + 1].cache = building[p]
        <3>1. CASE job[p] = "swap"
            BY <1>2, <3>1 DEF Publish
        <3>2. CASE job[p] # "swap"
            <4> DEFINE x == [proc |-> p, cache |-> building[p]]
                       R == [proc: Procs, cache: Nat \ {0}]
            <4>1. /\ runtimes' = Append(runtimes, x) /\ x.cache = building[p]
                  /\ cur' = [cur EXCEPT ![p] = Len(runtimes) + 1]
                BY <1>2, <3>2 DEF Publish
            <4>2. x \in R /\ runtimes \in Seq(R)
                BY <2>1 DEF Control, Typed
            <4> HIDE DEF x, R
            <4> QED BY <4>1, <4>2, AppendProperties
        <3> QED BY <3>1, <3>2
    <2>5. building[p] \in Referenced
        BY <2>1, References
    <2>6. ASSUME NEW b \in Referenced'
          PROVE  b \in Referenced
        <3>1. CASE \E q \in Procs : cur'[q] # 0 /\ b = runtimes'[cur'[q]].cache
            <4>1. PICK q \in Procs : cur'[q] # 0 /\ b = runtimes'[cur'[q]].cache
                BY <3>1
            <4>2. CASE cur'[q] = cur[q]
                <5>1. cur[q] \in 1 .. Len(runtimes) /\ cur[q] # 0
                    BY <4>1, <4>2, Parts DEF Control
                <5>2. b \in {runtimes[cur[q]].cache, building[p]}
                    BY <2>3, <4>1, <4>2, <5>1
                <5> QED BY <2>5, <5>1, <5>2, References
            <4>3. CASE cur'[q] # cur[q]
                <5>1. b = building[p]
                    BY <2>4, <4>1, <4>3 DEF Control, Typed
                <5> QED BY <2>5, <5>1
            <4> QED BY <4>2, <4>3
        <3>2. CASE \E c \in Conns : conn'[c] # 0 /\ b = runtimes'[conn'[c]].cache
            <4>1. PICK c \in Conns : conn[c] # 0 /\ b = runtimes'[conn[c]].cache
                BY <2>1, <3>2
            <4>2. b \in {runtimes[conn[c]].cache, building[p]}
                BY <2>3, <4>1, Parts DEF Control
            <4> QED BY <2>5, <4>1, <4>2, References
        <3>3. CASE \E c \in Conns : req'[c].cache # 0 /\ b = req'[c].cache
            BY <2>1, <3>3, References
        <3>4. CASE \E q \in Procs : building'[q] # 0 /\ b = building'[q]
            <4>1. \A q \in Procs : building'[q] \in {building[q], 0}
                BY <2>1 DEF Control, Typed
            <4> QED BY <3>4, <4>1, References
        <3> QED BY NextReferences, <3>1, <3>2, <3>3, <3>4
    <2>7. \A q \in Procs : /\ status'[q] # "off" =>
                                 status[q] # "off" /\ BUILD_SEQ'[q] = BUILD_SEQ[q]
                           /\ booted'[q] = "disk" => booted[q] = "disk"
        BY <2>1, <2>2 DEF Control, Typed
    <2>8. Referenced' \subseteq Referenced
        BY <2>6
    <2> QED BY <2>1, <2>7, <2>8, DropKeeps
<1>3. ASSUME NEW c \in Conns, Disconnect(c) \/ NotFound(c) \/ NotModified(c) \/ Serve(c)
      PROVE  Caches'
    <2>1. /\ UNCHANGED <<process, made, runtimes>>
          /\ disk' = Dropped(disk) /\ builds' = Alive
          /\ \A d \in Conns : conn'[d] \in {conn[d], 0} /\ req'[d] \in {req[d], NoReq}
        <3>1. CASE Disconnect(c)
            BY <3>1 DEF Disconnect, HangUp
        <3>2. CASE \E status_, body : Reply(c, status_, body)
            BY <3>2 DEF Reply, Control, Typed
        <3>3. CASE NotFound(c) \/ NotModified(c) \/ Serve(c)
            BY <3>2, <3>3 DEF NotFound, NotModified, Serve
        <3> QED BY <1>3, <3>1, <3>3
    <2>2. \A d \in Conns : conn'[d] \in {conn[d], 0} /\ req'[d] \in {req[d], NoReq}
        BY <2>1
    <2>3. Referenced' \subseteq Referenced
        <3> SUFFICES ASSUME NEW b \in Referenced'
                     PROVE  b \in Referenced
            OBVIOUS
        <3>1. NoReq.cache = 0
            BY Parts DEF Control
        <3>2. CASE \E q \in Procs : cur'[q] # 0 /\ b = runtimes'[cur'[q]].cache
            BY <2>1, <3>2, References
        <3>3. CASE \E q \in Procs : building'[q] # 0 /\ b = building'[q]
            BY <2>1, <3>3, References
        <3>4. CASE \E d \in Conns : conn'[d] # 0 /\ b = runtimes'[conn'[d]].cache
            BY <2>1, <2>2, <3>4, References
        <3>5. CASE \E d \in Conns : req'[d].cache # 0 /\ b = req'[d].cache
            BY <2>2, <3>1, <3>5, References
        <3> QED BY <3>2, <3>3, <3>4, <3>5, NextReferences
    <2> QED BY <2>1, <2>3, DropKeeps
<1> QED BY <1>1, <1>2, <1>3

\* Every step keeps the inductive invariant while one process has the directory.
LEMMA InvStep ==
    ASSUME IInv, Exclusive, [Next]_vars
    PROVE  IInv'
<1> USE DEF process, clients, caches
<1>1. Control /\ Caches
    BY DEF IInv, Control, Caches
<1> SUFFICES Control' /\ Caches'
    BY DEF IInv, Control, Caches
<1>2. ASSUME NEW p \in Procs, Kill(p)
      PROVE  Control' /\ Caches'
    BY <1>1, <1>2, ProcessStep, KillCaches
<1>3. ASSUME NEW p \in Procs, FailBuild(p)
      PROVE  Control' /\ Caches'
    BY <1>1, <1>3, ProcessStep, LetGo
<1>4. ASSUME NEW p \in Procs, Publish(p)
      PROVE  Control' /\ Caches'
    BY <1>1, <1>4, PublishStep, LetGo
<1>5. ASSUME NEW p \in Procs, NEW s \in Storages, Boot(p, s)
      PROVE  Control' /\ Caches'
    BY <1>1, <1>5, ProcessStep, BootCaches
<1>6. ASSUME NEW p \in Procs, NEW s \in Storages, NEW j \in {"boot", "swap", "reload"},
             StartBuild(p, j, s)
      PROVE  Control' /\ Caches'
    BY <1>1, <1>6, ProcessStep, StartBuildCaches
<1>7. ASSUME NEW p \in Procs, NEW f \in Files, CacheFile(p, f)
      PROVE  Control' /\ Caches'
    BY <1>1, <1>7, ProcessStep, CacheFileCaches
<1>8. ASSUME NEW c \in Conns, Connect(c)
      PROVE  Control' /\ Caches'
    <2>1. Control'
        BY <1>1, <1>8, ClientStep DEF Caches
    <2>2. PICK p \in Procs : status[p] = "up" /\ conn' = [conn EXCEPT ![c] = cur[p]]
        BY <1>8 DEF Connect
    <2>3. UNCHANGED <<process, caches, disk, req>> /\ conn[c] = 0
        BY <1>8 DEF Connect
    <2>4. cur[p] # 0
        BY <1>1, <2>2 DEF Control, Lives
    <2>5. Referenced' = Referenced
        <3>1. \A d \in Conns : conn'[d] = IF d = c THEN cur[p] ELSE conn[d]
            BY <1>1, <2>2 DEF Control, Typed
        <3>2. /\ cur' = cur /\ runtimes' = runtimes /\ req' = req /\ building' = building
            BY <2>3
        <3>3. ASSUME NEW b \in Referenced'
              PROVE  b \in Referenced
            BY <2>4, <3>1, <3>2, References, NextReferences
        <3>4. ASSUME NEW b \in Referenced
              PROVE  b \in Referenced'
            BY <2>3, <3>1, <3>2, References, NextReferences
        <3> QED BY <3>3, <3>4
    <2> QED BY <1>1, <2>1, <2>3, <2>5, CachesSame
<1>9. ASSUME NEW c \in Conns,
             Disconnect(c) \/ NotFound(c) \/ NotModified(c) \/ Serve(c)
      PROVE  Control' /\ Caches'
    BY <1>1, <1>9, ClientStep, LetGo DEF Caches
<1>10. ASSUME NEW c \in Conns, NEW f \in Files, NEW field \in AcceptFields,
              NEW inm \in {"none", "*", "tag"}, Request(c, f, field, inm)
       PROVE  Control' /\ Caches'
    <2>1. Control'
        BY <1>1, <1>10, ClientStep DEF Caches
    <2>2. /\ conn[c] # 0 /\ req[c] = NoReq
          /\ \A d \in Conns : IF d = c THEN req'[d].cache = runtimes[conn[c]].cache
                                       ELSE req'[d] = req[d]
          /\ UNCHANGED <<process, caches, disk, conn>>
        BY <1>1, <1>10 DEF Request, Control, Typed
    <2>3. NoReq.cache = 0
        BY DEF NoReq
    <2>4. Referenced' = Referenced
        <3>1. /\ cur' = cur /\ runtimes' = runtimes /\ conn' = conn
              /\ building' = building
            BY <2>2
        <3>2. ASSUME NEW b \in Referenced'
              PROVE  b \in Referenced
            <4>1. CASE \E d \in Conns : req'[d].cache # 0 /\ b = req'[d].cache
                BY <2>2, <4>1, References
            <4> QED BY <3>1, <4>1, References, NextReferences
        <3>3. ASSUME NEW b \in Referenced
              PROVE  b \in Referenced'
            <4>1. CASE \E d \in Conns : req[d].cache # 0 /\ b = req[d].cache
                BY <2>2, <2>3, <4>1, NextReferences
            <4> QED BY <3>1, <4>1, References, NextReferences
        <3> QED BY <3>2, <3>3
    <2> QED BY <1>1, <2>1, <2>2, <2>4, CachesSame
<1>11. CASE UNCHANGED vars
    <2>1. Typed' /\ Lives' /\ Known' /\ Connected'
        BY <1>1, <1>11 DEF vars, Control, Typed, Lives, Known, Connected
    <2>2. Referenced' = Referenced
        BY <1>11, References, NextReferences DEF vars
    <2>3. Caches'
        BY <1>1, <1>11, <2>2, CachesSame DEF vars
    <2> QED BY <2>1, <2>3 DEF Control
<1> QED
    BY <1>2, <1>3, <1>4, <1>5, <1>6, <1>7, <1>8, <1>9, <1>10, <1>11 DEF Next

\* The inductive invariant holds at first.
LEMMA InvInit == Init => IInv
<1> SUFFICES ASSUME Init PROVE IInv
    OBVIOUS
<1>1. Typed
    <2>1. /\ status = [p \in Procs |-> "off"] /\ booted = [p \in Procs |-> "none"]
          /\ BUILD_SEQ = [p \in Procs |-> 0] /\ cur = [p \in Procs |-> 0]
          /\ building = [p \in Procs |-> 0] /\ left = [p \in Procs |-> {}]
          /\ job = [p \in Procs |-> "none"] /\ made = 0
        BY DEF Init
    <2>2. /\ conn = [c \in Conns |-> 0] /\ req = [c \in Conns |-> NoReq]
          /\ held = [c \in Conns |-> NoBody] /\ answer = [c \in Conns |-> 0]
        BY DEF Init
    <2>3. runtimes \in Seq([proc: Procs, cache: Nat \ {0}])
        BY DEF Init
    <2> QED BY <2>1, <2>2, <2>3 DEF Typed
<1>2. Lives
    BY DEF Init, Lives
<1>3. Known /\ Connected
    BY DEF Init, Known, Connected, NoReq
<1>4. Referenced = {}
    BY References DEF Init, NoReq
<1>5. Built
    BY <1>4, Zenon DEF Init, Built
<1>6. OwnDirs /\ Intact
    BY <1>4 DEF OwnDirs, Intact
<1>7. NoOrphans
    BY DEF Init, NoOrphans
<1> QED BY <1>1, <1>2, <1>3, <1>5, <1>6, <1>7 DEF IInv

\* The inductive invariant holds in every state.
LEMMA Inductive ==
    ASSUME Exclusive
    PROVE  Spec => []IInv
<1>1. Init => IInv
    BY InvInit
<1>2. IInv /\ [Next]_vars => IInv'
    BY InvStep
<1> QED BY <1>1, <1>2, PTL DEF Spec
----------------------------------------------------------------------------
(* The theorems *)

\* The type invariant follows from the parts of the inductive one.
LEMMA TypeFollows ==
    ASSUME IInv
    PROVE  TypeOK
<1>1. ASSUME NEW p \in Procs
      PROVE  cur[p] \in 0 .. Len(runtimes) /\ building[p] \in 0 .. made
    <2>1. Len(runtimes) \in Nat
        BY Parts DEF IInv
    <2>2. cur[p] \in Nat /\ building[p] \in Nat /\ made \in Nat
        BY DEF IInv, Typed
    <2>3. cur[p] <= Len(runtimes) /\ building[p] <= made
        BY DEF IInv, Known
    <2> QED BY <2>1, <2>2, <2>3
<1>2. DOMAIN builds = Referenced
    BY DEF IInv, Built
<1>3. \A p \in Procs : left[p] \subseteq Files
    BY DEF IInv, Typed
<1>4. \A c \in Conns : conn[c] = 0 => req[c] = NoReq
    BY DEF IInv, Connected
<1>5. \A p \in Procs : /\ status[p] = "up" <=> cur[p] # 0
                       /\ building[p] # 0 <=> job[p] # "none"
                       /\ booted[p] = "none" <=> status[p] = "off"
    BY DEF IInv, Lives
<1> QED BY <1>1, <1>2, <1>3, <1>4, <1>5 DEF TypeOK, IInv, Typed

\* A process has a runtime exactly while it is up and a job exactly while it
\* builds, and a cache is kept as long as something refers to it, no longer
\* (`TypeOK`: the `Arc`s of `Server`, `Slot` and `handle_one`).
THEOREM ServingTyped ==
    ASSUME Exclusive
    PROVE  Spec => []TypeOK
BY Inductive, TypeFollows, PTL

\* What a runtime serves or a request is pinned to keeps every byte that its
\* index promises, through rebuilds, reloads, restarts and failed builds
\* (`serve_disk`: "should never happen, since the BuildDir is pinned").
THEOREM PinnedIsIntact ==
    ASSUME Exclusive
    PROVE  Spec => []PinnedIntact
<1>1. ASSUME IInv
      PROVE  PinnedIntact
    <2>1. Slots \cup Pinned \subseteq Referenced
        BY DEF Referenced
    <2> QED BY <1>1, <2>1 DEF IInv, Intact, Whole, PinnedIntact
<1> QED BY <1>1, Inductive, PTL

\* No snapshot outlives what refers to it: `clear_stale_builds` takes those of
\* the processes before, `Drop for BuildDir` a process's own.
THEOREM NoneIsOrphaned ==
    ASSUME Exclusive
    PROVE  Spec => []NoOrphans
<1>1. IInv => NoOrphans
    BY DEF IInv
<1> QED BY <1>1, Inductive, PTL

\* The field's first entry for a coding is the one that counts, and the last of
\* its wildcards, so what is accepted is wanted; a field that says nothing twice
\* is not misread either way.
LEMMA Accepts ==
    ASSUME NEW field \in Seq(Entries), NEW c \in Codings
    PROVE  /\ accepts_encoding(field, c) => Wanted(field, c)
           /\ Clear(field) /\ Wanted(field, c) => accepts_encoding(field, c)
<1>1. /\ DOMAIN field = 1 .. Len(field) /\ Len(field) \in Nat
      /\ \A i \in DOMAIN field : field[i] \in Entries
    <2> DEFINE E == Entries
    <2> HIDE DEF E
    <2>1. field \in Seq(E)
        BY DEF E
    <2> QED BY <2>1, ElementOfSeq, LenProperties DEF E
<1>2. ASSUME NEW i \in DOMAIN field, NEW token
      PROVE  Names(field[i], token) /\ ~field[i].zero
                <=> field[i] = [name |-> token, zero |-> FALSE]
    <2>1. field[i] = [name |-> field[i].name, zero |-> field[i].zero]
          /\ field[i].zero \in BOOLEAN
        BY <1>1 DEF Entries
    <2> QED BY <2>1 DEF Names
<1>3. ASSUME accepts_encoding(field, c)
      PROVE  Wanted(field, c)
    BY <1>2, <1>3 DEF accepts_encoding, Wanted, Names
<1>4. ASSUME Clear(field), Wanted(field, c)
      PROVE  accepts_encoding(field, c)
    <2>1. CASE \E i \in DOMAIN field : field[i] = [name |-> c, zero |-> FALSE]
        <3>1. PICK i \in DOMAIN field : field[i] = [name |-> c, zero |-> FALSE]
            BY <2>1
        <3>2. Names(field[i], c) /\ ~field[i].zero
            BY <1>2, <3>1
        <3>3. \A k \in 1 .. (i - 1) : ~Names(field[k], c)
            BY <1>1, <1>4, <3>2 DEF Clear, Names
        <3> QED BY <3>2, <3>3 DEF accepts_encoding
    <2>2. CASE /\ ~\E i \in DOMAIN field : field[i].name = c
               /\ \E i \in DOMAIN field : field[i] = [name |-> "*", zero |-> FALSE]
        <3>1. PICK i \in DOMAIN field : field[i] = [name |-> "*", zero |-> FALSE]
            BY <2>2
        <3>2. Names(field[i], "*") /\ ~field[i].zero
            BY <1>2, <3>1
        <3>3. \A k \in (i + 1) .. Len(field) : ~Names(field[k], "*")
            BY <1>1, <1>4, <3>2 DEF Clear, Names
        <3> QED BY <2>2, <3>2, <3>3 DEF accepts_encoding, Names
    <2> QED BY <1>4, <2>1, <2>2 DEF Wanted
<1> QED BY <1>3, <1>4

\* The coding that is selected is wanted, and the plain file is selected only
\* for a clear field that wants none of the coded forms.
LEMMA SelectedIsWanted ==
    ASSUME NEW f \in Files, NEW field \in AcceptFields
    PROVE  LET sent   == Selected(f, field)
               wanted == {d \in Coded(f) : Wanted(field, d)}
           IN  /\ sent # "identity" => sent \in wanted
               /\ sent = "identity" /\ Clear(field) => wanted = {}
<1>1. field \in Seq(Entries)
    BY ConstantsAssumption DEF ConstantsAssumption
<1>2. \A d \in Codings : /\ accepts_encoding(field, d) => Wanted(field, d)
                         /\ Clear(field) /\ Wanted(field, d)
                                => accepts_encoding(field, d)
    BY <1>1, Accepts
<1>3. Coded(f) \subseteq Codings /\ "br" \in Codings /\ "gzip" \in Codings
      /\ \A d \in Codings : d = "br" \/ d = "gzip"
    BY DEF Coded, Codings
<1> QED BY <1>2, <1>3 DEF Selected

\* A request is answered by one of three steps, all of them its own.
LEMMA Answered ==
    ASSUME IInv, [Next]_vars, NEW c \in Conns, req[c] # NoReq, answer'[c] # 0
    PROVE  NotFound(c) \/ NotModified(c) \/ Serve(c)
<1> USE DEF clients, process, caches
<1>1. answer \in [Conns -> Nat] /\ answer[c] = 0
    BY DEF IInv, Typed, Connected
<1>2. answer' # answer
    BY <1>1
<1>3. \A p \in Procs : ~Kill(p) /\ ~FailBuild(p) /\ ~Publish(p)
    BY <1>2 DEF Kill, FailBuild, Publish
<1>4. /\ \A p \in Procs, s \in Storages : ~Boot(p, s)
      /\ \A p \in Procs, s \in Storages, j \in {"boot", "swap", "reload"} :
            ~StartBuild(p, j, s)
      /\ \A p \in Procs, f \in Files : ~CacheFile(p, f)
    BY <1>2 DEF Boot, StartBuild, CacheFile
<1>5. ~UNCHANGED vars /\ \A d \in Conns : ~Connect(d) /\ ~Disconnect(d)
    BY <1>2 DEF Connect, Disconnect, vars
<1>6. \A d \in Conns, f \in Files, field \in AcceptFields,
         inm \in {"none", "*", "tag"} : ~Request(d, f, field, inm)
    BY <1>1 DEF Request
<1>7. PICK d \in Conns : NotFound(d) \/ NotModified(d) \/ Serve(d)
    BY <1>3, <1>4, <1>5, <1>6 DEF Next
<1>8. PICK code : answer' = [answer EXCEPT ![d] = code]
    BY <1>7 DEF NotFound, NotModified, Serve, Reply
<1>9. d = c
    BY <1>1, <1>8
<1> QED BY <1>7, <1>9

\* Whatever a request is answered from is, in its coding, what the client asked
\* for, and a 304 to a client's ETag is about the very body it has, across all
\* rebuilds in between (`accepts_encoding`, `serve_mem`, `serve_disk`).
THEOREM RepresentationIsRight ==
    ASSUME Exclusive
    PROVE  Spec => RightRepresentation
<1>1. ASSUME IInv, [Next]_vars, NEW c \in Conns, req[c] # NoReq
      PROVE  /\ answer'[c] = 200 => AcceptableCoding(c)
             /\ answer'[c] = 304 /\ req[c].inm = "tag" => NotModifiedTruthful(c)
    <2>1. /\ req[c] \in Requests /\ answer \in [Conns -> Nat]
          /\ held \in [Conns -> {NoBody} \cup Bodies]
        BY <1>1, Parts DEF IInv, Typed
    <2>2. ASSUME answer'[c] = 200
          PROVE  AcceptableCoding(c)
        <3> DEFINE r == req[c]
                   v == Selected(r.file, r.accept)
        <3>1. Serve(c)
            BY <1>1, <2>1, <2>2, Answered DEF NotFound, NotModified, Reply
        <3>2. r.file \in builds[r.cache].index
            BY <3>1 DEF Serve
        <3>3. held'[c] = Delivered(r)
            BY <2>1, <2>2, <3>1 DEF Serve, Reply
        <3>4. Delivered(r) = Body(r.cache, r.file, v)
            BY <1>1, <3>2, Delivery DEF IInv, Control, Promised
        <3>5. held'[c][3] = v
            BY <3>3, <3>4 DEF Body
        <3>6. r.file \in Files /\ r.accept \in AcceptFields
            BY <2>1 DEF Requests
        <3> HIDE DEF r
        <3>7. LET wanted == {d \in Coded(r.file) : Wanted(r.accept, d)}
              IN  /\ v # "identity" => v \in wanted
                  /\ v = "identity" /\ Clear(r.accept) => wanted = {}
            BY <3>6, SelectedIsWanted
        <3> HIDE DEF v
        <3> QED BY <3>5, <3>7 DEF AcceptableCoding, r
    <2>3. ASSUME answer'[c] = 304, req[c].inm = "tag"
          PROVE  NotModifiedTruthful(c)
        <3>1. NotModified(c)
            BY <1>1, <2>1, <2>3, Answered DEF NotFound, Serve, Reply
        <3>2. StoredTag(c) = etag_for(req[c].cache, req[c].file,
                                      Selected(req[c].file, req[c].accept))
            BY <2>3, <3>1 DEF NotModified, Matches
        <3>3. held[c] \in Bodies
            BY <1>1, <2>1, <2>3 DEF IInv, Connected
        <3>4. held[c] = <<held[c][1], held[c][2], held[c][3]>>
            BY <3>3 DEF Bodies
        <3> QED BY <3>2, <3>4 DEF NotModifiedTruthful, Promised, StoredTag,
                                  etag_for, Body
    <2> QED BY <2>2, <2>3
<1>2. IInv /\ [Next]_vars
        => [\A c \in Conns : req[c] # NoReq =>
               /\ answer'[c] = 200 => AcceptableCoding(c)
               /\ answer'[c] = 304 /\ req[c].inm = "tag"
                     => NotModifiedTruthful(c)]_vars
    BY <1>1
<1> QED BY <1>2, Inductive, PTL DEF Spec, RightRepresentation
=============================================================================
