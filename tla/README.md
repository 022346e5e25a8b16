# A formal model of bare-server

`bare-server` is a static web server in Rust: thread per connection, TLS by
rustls, all content precompressed into memory (or into a snapshot on disk), and
every setting, certificate and document tree reloaded while it runs. This
directory holds TLA+ models of its concurrent parts, TLC configurations that
check them on small instances, and theorems about them whose proofs TLAPS
checks. Paths are those of the repository; line numbers are of
`src/src/main.rs` unless another file is named.

    tlc -workers 2 -config WatcherReload.cfg MCWatcher.tla
    tlapm WatcherProofs.tla

and so for every run of section 3 and every module of section 6.

## 1. The system

### Components, their state and their operations

| Component | State | Operations |
|---|---|---|
| Hot-reload watcher (`main`, `watch`; `sample`, `tls_signature`, `root_links`, `dir_signature` in cache.rs) | what was recorded as applied and what the last tick saw, for config, certificates, symlinked roots and trees; pending listener addresses; backoff | boot; a tick every 2 s: take signatures, decide, rebuild everything / certificates only, swap, reconcile listeners, back off, scan and rebuild trees |
| Shared runtime (`Runtime`, `SharedRuntime`) | `vhosts` and `tls`, behind one `RwLock<Arc<..>>`, and one cache per site behind a lock of its own | swapped by the watcher, read per connection |
| Listeners and admission (`start_listener`, `rebind`, `retire`, `spawn_accept`, `Semaphore`, `PeerLimiter`) | accept loops with a generation each; slots of the semaphore; connections per address; the limit itself | start, stop and move a listener; accept, admit, refuse, spawn a worker, end it; change the limit |
| Connection thread (`handle_connection`, `handle_plain`, `serve_over`, `DeadlineIo`) | receive buffer, requests so far, head deadline, progress window, response deadline | handshake, read a head, answer it, drain it, close |
| Redirect rules (`Redirects` in config.rs) | exact and prefix rules | `push`, `finish`, `resolve`, `loops_forever` |
| Request routing (`handle_request`, `canonical_form`, `resolve`) | none | one decision per request |
| Negotiation and conditional requests (`accepts_encoding`, `inm_matches`) | none | pick a body variant, 304 or 200 |
| Content cache, size budget (`build_cache`, `walk`) | map of URL to entry, bytes charged | build, charge against `max_total_bytes` |
| Disk snapshots (`BuildDir`, `clear_stale_builds`) | directories under `disk_cache` | made by a build, removed with the last handle, swept at boot |
| Tree signature (`dir_signature`) | none | fold of the names, sizes and mtimes of a tree |
| Config parser (`parse_config`) | the line, the block being read, the top-level values so far | text to `Config` or an error |

### Interactions

* The **watcher** owns the main thread. It hands the accept loops its changes
  through shared memory: a `RwLock` for the runtime, one atomic generation per
  accept loop, one atomic for the limit of each `PeerLimiter`. To wake a loop
  blocked in `accept()` it connects to the loop's own socket (`retire`, 2310).
* An **accept loop** takes a semaphore permit, accepts, looks at its generation
  again, asks the limiter, and spawns a **connection thread** that owns both
  permits and drops them when it ends.
* **Operators** edit the config, the certificates, the trees and the symlinks at
  any moment, and other processes take and free ports; the watcher sees only the
  disk and what `bind()` says.
* The **client** decides how fast bytes come and go; the deadlines are enforced
  below rustls, in the socket wrapper, since rustls loops over reads by itself.

### What is hard

The watcher reads the same files at several points of a tick and the disk changes in
between. What it records as applied decides whether a change will ever be looked at
again, so a signature taken a moment too late silently loses a deploy. Two listeners are
moved one after the other and either bind may fail. An accept loop may be at any point
of its body when it is retired, the probe that is to wake it may be lost, and all its
slots may be taken. A limit may change between its load and its use. Between a notification and the moment its thread has the mutex again, that
thread's deadline may pass or another take the slot. A tree is hashed, walked and hashed
again while people write to it and change its modes, any of these reads may fail, and
sites share one byte budget. A cache, and the files
it was snapshotted to, live as long as any request or connection refers to them, and not
a step longer. Permits are dropped on every early exit. A client can stall any call, and
deadlines checked in the wrong layer are never reached. `PROJECT.json` lists these
hazards at their lines.

### What makes each component correct

* Watcher: no edit, renewal or deploy is recorded as applied and not served; listeners
  and limits follow the live config, through failed binds; once the operators stop on
  something usable, it ends up being served.
* Listeners: slots are conserved; no thread sleeps beside a free slot; address counts
  are exact; one live loop per listener; retired loops exit; clients in the queue are
  answered; the cap holds.
* Connection: each phase is bounded in time; pipelined requests are neither lost nor
  answered twice; idle time is not charged to a response; every connection ends.
* Redirects and routing: the most specific rule decides; the server's own redirects are
  few, stay on HTTPS and end at the document; a challenge is answered where it is asked
  for.
* Content: no cache is installed that misses a subtree which could not be listed; the budget holds over every
  sequence of rebuilds and never blocks one for good; the sites end up served as their
  trees are.
* Snapshots and negotiation: what a request is pinned to stays whole; what nothing
  refers to is gone; a client gets a body it accepts, and a 304 only for what it has.
* Config parser: the config is what the text says wherever its lines stand, or the error
  names the line that is wrong.

## 2. The modules

| Module | Models |
|---|---|
| `Watcher` | `main` from `load_config` on, all of `watch`, and the sampling functions |
| `MCWatcher` | two sites, two certificates, one symlinked root with two releases, three addresses, and the config texts operators write |
| `Listeners` | accept loops, `retire`/`rebind`/`start_listener`, semaphore, limiter, the workers as far as their permits go |
| `MCListeners` | a pool for each listener |
| `Slots` | what the semaphore promises its callers, in the abstract: a counter |
| `Semaphore` | `Semaphore` and `Permit` with the mutex, the condition variable and the deadlines; implements `Slots` |
| `MCSemaphore` | four threads at two slots |
| `Connection` | one connection thread with a clock, TLS or plain |
| `Redirects` | the rule set of a site, as operators |
| `Routing` | reading a site block's redirect lines, the decisions of `handle_request`, a client that follows redirects |
| `MCRouting` | site blocks, documents, paths and requests |
| `Reload` | what hot reload promises, in the abstract; `Watcher` implements it |
| `Content` | the caches in memory: `build_cache` and `walk` step by step beside writers, `dir_signature`, and the budget over boot and rebuilds |
| `MCContent` | a tree with a directory and a tree with one file |
| `Serving` | snapshot directories and the references that keep them, kill and restart, the choice of a body, conditional requests |
| `MCServing` | a page with coded forms and a file named as one of them would be |
| `ConfigFile` | `parse_config`, line by line |
| `MCConfigFile` | config texts |
| `WatcherProofs` | theorems about `Watcher`, and that it implements `Reload` |
| `ListenersProofs` | the inductive invariant of `Listeners`, and what follows from it: permits, counts, live loops, the cap |
| `ConfigFileProofs` | that the parser and the meaning of a text agree |
| `SemaphoreProofs` | theorems about `Semaphore`, and that it implements `Slots` |
| `ConnectionProofs`, `RoutingProofs`, `ContentProofs`, `ServingProofs` | theorems about the module of that name |

### Watcher

Every write to a watched object gives it a new signature, a version number; a
signature stands for the content as size and mtime in nanoseconds do in the code.
A tree, a PEM pair and a config text also say whether they can be used. `pc` names
the point the thread is at and `job` what it is doing (`boot`, `config`, `certs` or
nothing). Reads of the disk whose order matters to what is recorded or served are
actions of their own. Taken together are reads that only decide whether a change is acted on
in this tick or a later one (`cfg_now` and `tls_now` in `Wake`, the `*_last` signatures in
`Start` and `Swap`), and a signature or a walk over several files (`Content` opens up the
walk):

    load -> sample -> links -> tls -> vhosts -> start            (boot)
    sleep -> decide -> load -> sample -> links -> tls -> vhosts -> swap
             -> https -> http -> account -> scan -> rebuild* -> sleep
                        (certs: load -> tls -> https)

`cfg_applied`, `cfg_last`, `tls_applied`, `links_applied`, `tree_applied`,
`tree_last`, `pending`, `backoff` and `failed_at` are the locals of the same names.
`retry_at` is `wait`, the number of ticks it lies ahead; a tick may take longer
than its interval, so `Wake` lets any number of them pass. `closing` holds the
addresses of retired loops whose socket is still open: `CanBind` refuses them, as
the kernel does. A site is identified with its block; several host names of one
block share a `Site` in the code as well. `Rebuild(s)` is taken once per site, in
any order, as the iteration over a `HashMap` is.

The environment is `Edit`: the config is replaced by any text of `Configs`, a pair
or a tree is written (to a usable or an unusable state), a root is repointed or
broken, a port is taken or freed. `CalmWindows` is an assumption about operators, a
set of `<<kind of edit, job, pc>>` in which they do nothing. It is empty in the run
that shows why it is needed (`BootFlip`). In the passing run it holds two
windows: the config is not rewritten between the first two steps of `main`, and
no root is repointed between `sample()` hashing the trees and `build_vhosts`
walking them. Everything else is free to happen anywhere.

`response_secs` is set together with the limit `max` and is left out. Logging,
`last_err` and `tree_failed` (which only silence repeated messages) are left out.

### Listeners

A *pool* is what a `ListenerCtl` passes from an accept loop to its successor: the
semaphore and the limiter. Loops, pools and connections are drawn from finite sets of
identifiers that are used again once nothing refers to them. The steps of a loop are
those at which another thread can act: the generation test at the top,
`acquire_timeout`, `accept`, the second generation test, `try_acquire`, the spawn.
`Exit` is `return` (permit, accepted socket, listening socket and its queue are
dropped), `Again` is `continue`. `try_acquire` is two steps: `Admit` reads the limit, which
is an atomic (618), and `Count` goes by what was read, `cap`, once it has the lock of the counts
(622-628); `SetMax` and other loops on the same limiter may come in between. `retire` is two
steps, the bump of the generation and the probe. The probe may always be lost: the code
sends none if the address does not resolve, tries the first address only, and takes no
notice of a connect that fails (2314-2317). The semaphore is the
counter of `Slots`: a slot is taken in one step, and `acquire_timeout` gives up only
when there is none. `Admit` includes the failing `peer_addr()`, `SpawnWorker` the
failing spawn, `AcceptFails` EMFILE and the like. A worker's two permits are dropped in
two steps.

### Semaphore and Slots

What is done with the mutex held is one action: `Locked` is the loop of `acquire_timeout`
from one lock or wait to the next wait or return, `Drop` is `Permit::drop`. Between two of
them any other thread may have the mutex. A thread is `waiting` (in `wait_timeout`),
`notified`, or `woken` without a notification, at its timeout or for no reason;
`notify_one` picks any of the waiting. Time is one bit per thread, `late`, that may be set
anywhere between the call and the return, also while the thread stands before the mutex.
`permits` counts those that are alive, whoever holds them. `Slots` has the numbers of free
and of held slots and the threads that are inside `acquire_timeout`, and four actions: ask, take,
refuse, give back. `Semaphore` instantiates it as `Abstract`; `ImplementsSlots` is
`Abstract!Spec`. Waiting, waking, notifying and being late are stutters of it.

### Connection

Time is a clock that moves only while the thread is blocked in a system call, and
no call outlasts the socket timeout. Bytes are counted in units: `heads` holds the
sizes of the complete request heads in the buffer and `part` what follows them.
`Recv` over TLS may return nothing to `serve_over` and read the socket again: this
is what rustls does within a record, and the reason for `DeadlineIo`. `Read` and `Write`
are the checks before the system call, `Recv`/`RecvEnds` and `Send`/`SendFails` its
outcomes. `handle_request` is any response of 1 to `MaxBody` units with or without
keep-alive. Handshake writes are bounded by `FLIGHT` units in all.

### Redirects and Routing

A path is a sequence of segments; a segment has a name and says whether ".html"
follows it and whether it was sent percent-encoded. Rules match it as sent, everything
else looks at the decoded path, as in the code. A redirect target is a sequence of
segments, `$0` and `/$1`; expanding it, the probes of `loops_forever`, the order of
`finish` and the three tables of `resolve` are computed as in config.rs. What `push`
refuses for its syntax is one mark, `Malformed`.

`Routing` reads the lines of a block one by one (`ReadLine`, `CloseBlock`) and then lets
a client send one request (`Send`). `Reject` is every error before a decision on the
path, in the order of the code; then come rules, canonical URL, upgrade, challenge
token, documents, an action each. A redirect to this host is followed: the next request
goes to the path and the listener the Location names. `MAX_PATH_LEN`, in segments, ends
walks whose path grows. HEAD is GET, and head syntax is one flag of the request.

### Reload

Five variables: the config file, the version read last, the version the sites are
built from, the one the certificates are chosen by, and the connection cap. Four
actions: a text is written; one that parses is read; what was read is adopted by
sites, certificates and cap in one step; certificates are renewed. `Watcher`
instantiates it as `R` with a refinement mapping (`served` and `certs` are `None`
until the listeners are up; `limit` is HTTPS's cap), and `ImplementsReload` is
`R!Spec`. All else the watcher does (failed loads and builds, binds, backoff, scans)
is a stutter of it.

### Content

A tree is a function from paths to nodes (kind, length, mtime, mode); bytes are
identified by the mtime. The mode says what the server may do: `r` lists a directory or
reads a file, `x` reaches the entries of a directory. `walk` is a stack of directories with the
entries still to come: `WalkEntry` is one turn of its loop up to the size test, `ReadFile` the
rest of it, some time later. As in the code, a directory that cannot be listed and a budget
that is exceeded abort the build, while an entry that cannot be reached (any more) and a file
that cannot be read are left out of a cache that is promoted all the same. `tree_signature` is the sequence that is folded into the hash,
so two trees have one signature exactly if the code feeds the hash the same numbers.
`Scan`, `Consider` and `Promote` are the content half of a tick; `Sample`, `BuildSite`
and `StartWatch` are the boot. `Bytes` are what an entry retains; a file and its coded
forms are one number, `Stored`.

Every step that reads the disk is given the trees as it finds them. For the steps of `Server`
these are the trees there are. `Faults` has the same steps with a read that fails by itself
(EMFILE, EIO): of an entry (`Hidden`), or of the opening of a directory or a file (`Sealed`), in a
signature, at a root or anywhere in the walk. `lost` notes whether the walk under way left out
content that was there, and `partial` the sites whose live cache was made by such a walk;
`steady` has the files that lay still and met no failed read.

Writers write, remove, move and chmod at any point. `Returns` says whether an edit of content
may leave a tree with a signature it had before. The passing run assumes not (mtimes move on);
section 5 says what happens otherwise. Chmods are free to, so a directory may be closed and
opened again: an edit of content is judged by the signature that the tree would have with
every mode put right (`OpenSignature`).

### Serving

A process boots with a storage mode, builds caches (`boot`; `swap` for a rebuilt site;
`reload` for a new runtime, whose config may name the other storage), serves, and is
killed at any point; then directories stay and `BUILD_SEQ` starts at 0 again. A build is
a number, and a body is a build, a file and a coding. `Arc`s are not counted: the caches
that a current runtime, a connection's runtime, a pinned request or a build in progress
refers to are `Referenced`, and each step that ends the last reference removes the
directory in the same step, as `Drop` does. A snapshot write may fail after any of the
variants of a file. One site stands for all, and connections start at the runtime that
is current when they are accepted. `disk` may already hold the directory that a build
is given.

`Request` pins the cache, and the answer comes later: `NotFound`, `NotModified`, or
`Serve`, whose body is read from the snapshot when the request gets there. A field is a
sequence of codings with a weight that is zero or not.

### ConfigFile

A line is its kind, with a key and a value for a setting and a form for `site` and
`redirect` (which of the refusals applies). A value is a word or a number with a unit;
all keys are there, each with the parser of its values. `Lines` says what a line can be,
and `Texts` may be any set of sequences of them. `EndError` has the checks of the end in
the order of the code, the second check of the deferred overrides (855) among them. The
parser is one action per kind of line, in or out of a block, with `Finish` for the
checks of the end and the resolution of the overrides. What a text means is stated a
second time, by where its lines stand and without the parser's state (`TopValue`,
`SiteValue`, `Wrong`, operators of a text), and the properties compare the two.

### How the modules fit together

`Watcher` sees a listener as an address, a cap and, after retirement, a socket that
is closed some time later. `Listeners` has the loops behind that: its
`RetiredLoopsExit` justifies the fairness of `CloseRetired`, as long as probes arrive or
clients connect.
`Semaphore` stands behind the counter in `Listeners`: `ImplementsSlots` justifies that
`Acquire` is one step that gives up only at zero, `AcquireReturns` that it is fair even if
no permit is ever dropped.
`Listeners` in turn sees a connection as a worker that ends some time, or never;
`EventuallyClosed` of `Connection` is what justifies the premise of
`ClientsAnswered`. `Content` opens up the steps `BuildVhosts` and `Rebuild`, in which
`Watcher` builds a tree at once: its `SiteConverges` is what justifies that, and its
exceptions (what a walk left out among them) are the exceptions to `Converges`. `Serving` follows a cache from
the swap, where `Content` ends, to the last byte sent from it. `ConfigFile` is what
stands behind the bit "parses" of a text in `Watcher`, and its `RedirectRule` behind
`ReadLine` of `Routing`. The modules are linked by these assumptions and are not composed
into one state space.

## 3. The runs

| Run | What it shows |
|---|---|
| `WatcherReload` | The safety of the reload, its convergence and that it implements `Reload`, with three edits of any kinds at any points. |
| `Listeners` | Conservation of slots, exact counts, one live loop, no admission by a loop retired in time, the cap; retired loops exit, clients are answered. |
| `Connection` | Time bounds of every phase, pipelining, the connection ends. |
| `Routing` | Rules by specificity, walks that are short and end at the document, HTTPS kept, challenges exempt. |
| `Content` | Complete caches, the budget, and convergence of every site, with writers at work during the walk, directories closed and opened, and a read that fails by itself. |
| `Serving` | Snapshots whole while anything refers to them and gone afterwards, over kill and restart; the right body or 304. |
| `ConfigFile` | The config is what the text says; a rejection names the first wrong line. |
| `Semaphore` | No slot and no wakeup is lost, a free slot is taken without anyone's timeout, callers come back, and all of it is a counter. |
| `BootFlip`, `Takeover`, `ResponseCap`, `MovedUnseen` | Each a claim of the documentation or of a comment that the code does not keep (section 5). |

**Bounds of `WatcherReload`.** Three config texts: a content site with a
redirect-only one; a text that does not parse; two blocks on one root, with
another certificate, HTTPS on a third address, no HTTP, and another cap. At most
two config edits, two flips of the link, one renewal, one deploy and one change of a
port, three in all: three suffice for "an edit, another while the first is being
built, and a third that makes the second fail or succeed". `MaxBackoff = 2` ticks,
so that the delay reaches its cap. The server starts on any of the three texts.

**Bounds of `Listeners`.** Two loops (both listeners, or one and its successor), two clients
from one address, two slots per pool, so that a loop holds one while a worker holds the
other and two workers saturate the pool; a queue of one, so that a probe also finds it full;
the limit off, 1 or 2, so that it can be lowered below what an address holds, raised, and
switched on and off. For more addresses, loops, clients and slots the safety properties
are theorems (section 6).

**Bounds of `Connection`.** Timeouts of a few clock steps that keep the order and
the divisibility of the real ones where a property depends on it; heads of up to
two units, responses of up to three, two units per call, two heads ahead, two
requests. All phases, the rolling of the progress window, a retried write and both
limits of the head phase are reached.

**Bounds of `Routing`.** Seventeen blocks: seven good ones (nested prefixes in both
orders, all three kinds together, a catch-all, a target with a query, one that loops)
and ten that are refused: total loops in five spellings, three duplicates, `$1` in an
exact rule, a syntax error. Five sets of documents: none configured, empty, flat
pages, directory indexes, both. Fourteen first paths: of each shape (root, `.html`,
`index.html`, directory with and without slash, encoded, challenge). Requests have at
most one flaw, on each listener and with each SNI name, with and without a body. Paths
are cut at five segments, two more than any of the server's own redirects needs.

**Bounds of `Content`.** `r1` has a directory with a file and room for a file beside it; `r2`
has a file and a hidden one. Lengths 1 to 3 with a `max_file_size` of 2, a budget of 9 that the
first trees leave room in and that larger or further files exceed, in one site or only in both
together. A directory may have any of the modes none, `r` and `rx` (`Modes`), and the one of
`r1` starts with `r` or `rx` (`InitTrees`). Two events (`MaxEvents`), at most one of them a read
that fails by itself (`MaxFaults`): one during a walk and one during the rebuild that it causes,
or one in each site, or a directory closed and opened, or a file written below a closed
directory that is then opened. 223,000 states. `MovedUnseen` has one edit, a move, and a tree
in which names repeat at two depths.

**Bounds of `Serving`.** One process at a time, three builds (`MaxBuilds`) over all its
lives: a boot, a rebuild and a reload, or two boots and a rebuild, or three boots. One
connection with one request at a time; it can be opened, used and closed any number of
times. Two files, the page `x` with both coded forms and the file `x.gz`; five
Accept-Encoding fields (none, gzip, both, a wildcard with a refusal, a refused wildcard
with gzip).

**Bounds of `ConfigFile`.** From a text with two sites (one with a root, one with a
redirect) all its beginnings, all texts with a line left out, with any of 51 lines added at
any place, with any two of the ten lines that interact added at any two places, and with
one of those for one left out. `UsizeMax` is 63 and K is 4, so that products overflow;
`MaxSecs` is 30.

**Bounds of `Semaphore`.** Two slots and four threads, each calling any number of times. Two
permits can be dropped while two threads wait, so that two notifications are under way at
once; a third thread still waits, and a fourth gets in between.

### Fairness

* `Watcher`: weak fairness of the thread (it sleeps for bounded times and does not
  block on anything but the disk) and of `CloseRetired`. The latter is an assumption about
  the world as well: `RetiredLoopsExit` checks that a retired loop exits, except from
  `accept()` with its probe lost and no client to wake it. Nothing is assumed of operators.
* `Listeners`: weak fairness of the watcher and of every loop, and strong fairness of
  `Accept`: with clients waiting, `accept()` does not fail for ever. Workers are not
  assumed to end in `RetiredLoopsExit`; that they do is the premise of
  `ClientsAnswered`.
* `Connection`: weak fairness of the thread, strong fairness of the clock, which does
  not stand still however often bytes arrive. Nothing is assumed of the client.
* `Content`: weak fairness of `Server`, the watcher's thread, which only ever waits for
  the disk and for its interval, and whose reads do not fail for ever. Nothing is assumed of
  writers.
* `Semaphore`: weak fairness of `Locked`: a thread that wants the mutex gets it in the end.
  Nothing more is assumed for `SlotsTaken`, neither that time passes nor that permits are
  dropped. `AcquireReturns` adds as its premise that deadlines pass and that a wait is over
  once its timeout is.
* `Routing`: weak fairness of `Handle`, that is of a client that follows what it is
  told; nothing is assumed of which requests are sent.

## 4. What the properties say

`Watcher`
* `NoLostConfigEdit`, `NoLostRenewal`, `NoLostDeploy`: as long as what is recorded as
  applied equals what is on disk, what is served is what is on disk. A build that
  records a signature taken after the build breaks these, and so does one slot
  shared by two sites with one root.
* `ListenersFollowConfig`, `NoTornListeners`: caps are adopted with the swap; the
  addresses are reached or still pending; HTTP is touched only with HTTPS in place.
* `Converges`: the server ends up in step with a usable disk, through failures,
  backoff and busy ports.
* `ImplementsReload`: no step mixes two texts, serves one that does not parse or goes back
  to an older one; only certificates may be ahead. A `build_vhosts` that read the config
  anew breaks it.

`Listeners`
* `PermitsConserved`, `PeerCountsExact`, `AdmittedWithinCap`, `OneLiveLoop`,
  `RetiredAdmitsNone`, `RetiredLoopsExit`, `ClientsAnswered`.
  `AdmittedWithinCap` goes by the limit the loop has read (`cap`), and is about addresses
  whose connections were all admitted under a limit; that the limit may have been lowered since,
  and that uncounted connections do not count, is in section 5. What it excludes is two loops
  on one limiter that both take the last place, and an uncounted connection while a limit is set.
  `RetiredLoopsExit` leaves a retired loop one place to stay, `accept()` with nothing queued;
  there only a lost probe leaves it.

`Semaphore`
* `NoLostWakeup`: threads wait only while each free slot has a notified thread of its own that
  has yet to look. A `drop` that notifies for the first free slot only breaks it.
* `SlotsTaken`: so a free slot is taken though no timeout ever ends. `acquire_timeout` keeps
  this since it looks at the count before the clock; a thread that looks at the clock first
  swallows its notification and leaves the others asleep beside the slot.
* `AcquireReturns`: the promise of the comment at 551: with every slot held for good, callers
  come back.
* `ImplementsSlots`: a counter, to its callers. A thread that takes its slot for granted once
  it was notified breaks it.

`Connection`
* `PhasesBounded` (handshake and head), `ResponseBounded`: the bounds are what the
  code gives, a deadline plus the call that was under way when it passed; for a
  response, one progress window and one call for every `MIN_PROGRESS` moved.
* `PipelineKept`, `NoStaleWindow`, `EventuallyClosed`.

`Routing`
* `RulesKept`: about the rules a block ends up with, `MostSpecificWins` and `NoTotalLoop`.
  The second is what the check of `push` does guarantee; `NoSelfRedirect` is more than that.
* `ShortWalks`, `WalksEnd`, `DocumentKept`: the four kinds of redirect the code emits,
  each by a test of its own, fit together. Without rules a walk ends, after two hops
  at most, and at a document if there is one at the path the client sent.
* `AcmeDirect`: a challenge is answered where it was asked for, in any spelling.

`Content`
* `PromotedComplete`: a cache that is installed has every readable file that lay unchanged
  in the tree while it was walked, also below what cannot be listed. Excepted are the files
  that the code passes over: below a directory that lists but lets nothing through (`Barred`), and
  where a read failed. A walk that skips the directories it cannot open breaks it.
* `BudgetKept`: all sites together stay within `max_total_bytes`, and a rebuild in progress
  within twice that, over any sequence of rebuilds. A rebuild charged against a budget
  of its own breaks it.
* `SiteConverges`: a site whose directories stay readable and that fits beside the others
  ends up served as it is, whatever modes, signatures and contents it was built from on the way.
  Only if the last walk left something out (`partial`) and the signature is the same without it
  may less be served, and even then nothing that is not there. `BudgetNeverWedges`: if all trees fit together, all sites do,
  in whichever order room is freed and taken. Marking an aborted rebuild as applied breaks the
  second, taking the signature after the walk the first.

`Serving`
* `PinnedIntact`: what a live cache promises is on the disk, its own bytes, whatever is
  rebuilt, reloaded, killed or swept; it is the "should never happen" of `serve_disk`
  (1557). Variants named by a suffix instead of a directory per coding break it.
* `NoOrphans`: a process started with disk storage leaves nothing there that nothing
  refers to, its own or its predecessors'. A boot that does not sweep breaks it.
* `RightRepresentation`: the body is in a coding the client accepts, a compressed one if
  it accepts one; and a 304 confirms what the client has and could be sent.

`ConfigFile`
* `AcceptedAsWritten`, `RejectedForCause`: parser and meaning of a text agree. Both use the
  same value parsers, so that a value is bounded at all is for `TypeOK` to say: levels,
  deadlines and sizes of the file, and the levels that blocks override.

## 5. Where the code and its documentation differ

Four runs end in a counterexample.

* `BootFlip` (cache.rs:873, 193, 469): a root is resolved three times at boot. If
  the link moves in between, the site has no slot in `tree_applied`, the scan takes
  every signature for the applied one, and later deploys into that tree are not
  served until the link or the config changes.
* `Takeover` (352): the config moves HTTPS to the address HTTP holds. HTTPS is bound
  first and HTTP is not touched before that succeeds, so neither ever moves.
* `ResponseCap` (1766): `max_response_secs` starts with the connection, not with the
  response; on a kept-alive connection it cuts off a response that has just begun.
* `MovedUnseen` (cache.rs:748): the signature folds bare names and has no mark for the
  end of a directory. A file that is moved, with its mtime, from the end of a directory
  to the place behind it leaves the signature as it was. The old URL goes on being served
  and the new one is a 404.

For the next ones a module states the claim, or a run's property fails under other
constants; a line says how to see it.

* `NoLostConfigEdit` at boot (2422, 2443): `main` parses the config before it takes its
  signature. An edit in between is recorded as applied and never served, which is what
  cache.rs:827-830 means to prevent. In `watch` the order is right, and there it is
  proved that no edit is lost. (`Watcher`: `Configs <- Renamed`, `MaxEdits <-
  ConfigEdits`, `MaxTotal = 1`, `CalmWindows <- NoCalm`.)
* `PeerCap` (619): connections admitted with the limit off are not counted once it is
  switched on, so an address may hold more than the limit (CONFIGURATION.md:157).
  (`Listeners`: the constants of `Listeners.cfg`.)
* `PeerCap` again (618): the limit is loaded before the lock of the counts is taken. One that is
  lowered in between still lets the connection in by the old one.
* `NoSelfRedirect` (config.rs:103): the self-redirect check tries one probe per pattern.
  `/docs/* -> /docs/x` and `* -> /x` pass it and send the client of one path to that
  path for ever (CONFIGURATION.md:312-314). (`Routing`: `Files <- PartialLoops`, `Faults
  <- PlainOnly`.)
* `QueryCarried` (1319): the query is appended behind a target's fragment, where the
  client does not send it on (CONFIGURATION.md:308). (`Routing`: `Files <-
  FragmentFiles`, `Faults <- PlainOnly`.)
* `CommentsStripped` (config.rs:662): only the first `#` of a line can open a comment.
  In `csp = url(#a) # note` the note becomes part of the header (CONFIGURATION.md:51).
  (`ConfigFile`: `Texts <- HashTexts`.)
* `SiteConverges` with `Returns = TRUE`: a file written during the walk and removed again
  leaves a cache with a file that is not there. (`Content`: `EditKinds = {"write", "remove"}`,
  `MaxEvents = 2`, `MaxFaults = 0`.)
* A truncated cache is promoted and its tree counted as applied, which the comment at
  cache.rs:648-653 says cannot happen ("Skipping it yields a truncated cache promoted with a
  normal "cached N files" line", so the build is to fail). It can: below a directory with `r` and
  no `x`, `read_dir` succeeds and every entry is skipped (666-669); an entry that `read_dir` has an
  error for is dropped (659); a file whose `fs::read` fails for any reason, EMFILE or a mode, is
  left out (691-696); and a directory that is closed after its `read_dir` loses its entries. The
  first of these recovers, since opening the directory changes the signature. The others leave no
  trace in the signature if the read works the next time: a file that was unreadable stays a 404
  after a chmod, and so does one that met a transient error, until an edit of the tree. The
  properties say so: `Barred` and `steady` in `PromotedComplete`, `partial` in `SiteConverges`.
  (`Content.cfg` with the last disjunct of `UpToDate` left out shows it.)
* `PinnedIntact` with `Exclusive = FALSE` (2437): a second process started on the same
  `disk_cache` sweeps the snapshots of the first before it finds that it cannot bind.
  The first answers 500 until its next rebuild. (`Serving`: `Procs = {"p1", "p2"}`,
  `Storages = {"disk"}`, `Files = {"x"}`, `AcceptFields = {}`, `MaxBuilds = 2`.)

Some more are behaviours of the models that no property is about.

* The certificate arm (341) loads the config as it is now and keeps the live sites. If
  the config changed since, sites and certificates come from different texts until
  the next config reload; `Reload` allows exactly this.
* A tick debounces the signature and `load_config` (256) reads the file again. A
  text written in between goes live before any tick has seen it.
* While the config does not parse, a renewal waits for it (333).
* When the probe of `retire` is lost (2314-2317), the old loop stays in `accept()` and its
  socket open until a client connects to the old address; that client is not answered. Until
  then the config cannot take the address back.
* A stopped and restarted HTTP listener gets a fresh semaphore (2373) beside the
  workers of the old one, so the two together may exceed the cap.
* A connection keeps the runtime it was accepted with (2273). After a config reload, requests on
  a kept-alive connection still go to the old sites, and under disk storage the
  snapshot of those lives as long: it is "no connection", not only "no request in flight"
  (CONFIGURATION.md:118-120), that must still use it. A rebuilt site, on the other hand,
  is seen by the next request.
* Superseded caches that requests or connections still hold come on top of the "twice" of
  `max_total_bytes` (CONFIGURATION.md:150); `BudgetKept` counts live caches and the one being
  built.
* With `canonical_urls`, a directory that is named `x.html` and has an index cannot be
  reached: `/x.html/` is folded to `/x/`, which is a 404. And a page
  `.well-known/acme-challenge.html` (".well-known" is not hidden, cache.rs:584) is folded to
  a path inside the challenge directory. These are what the hypothesis of
  `DocumentsAreKept` excludes.
* A rule `/foo/ -> /foo.html` on a site with `canonical_urls` sends a client back and
  forth for ever: each half is fine by itself.
* With both `about.html` and `about/index.html` on disk, `/about.html` names the first
  and its canonical form `/about/` the second.

## 6. The theorems

Eight modules hold proofs. What they prove holds for every value of the constants that
satisfies the module's `ConstantsAssumption` (what a config or a config text is made of, that
what is counted is finite, that the marks for "nothing" are not values, that timeouts
are positive) and the hypotheses named below. For each module the argument is one
inductive invariant, with one step per action. TLC checks the properties
that the theorems state on the instances of section 3.

| Module | Theorem | Property | Hypothesis |
|---|---|---|---|
| `WatcherProofs` | `Typed` | `TypeOK` | |
| | `ConfigEditsKept`, `RenewalsKept` | `NoLostConfigEdit`, `NoLostRenewal` | no config edit between the first two steps of `main` |
| | `DeploysKept` | `NoLostDeploy` | `LinksHeldStill` |
| | `ListenersFollow`, `ListenersNeverTorn` | `ListenersFollowConfig`, `NoTornListeners` | |
| | `Refines`, `ServedInOrder` | `ImplementsReload`, `R!Ordered` | |
| `ListenersProofs` | `ListenersTyped` | `TypeOK` | |
| | `PermitsAreConserved`, `PeerCountsAreExact` | `PermitsConserved`, `PeerCountsExact` | |
| | `OneLoopIsLive`, `RetiredLoopsAdmitNone` | `OneLiveLoop`, `RetiredAdmitsNone` | |
| | `AdmissionsWithinCap` | `AdmittedWithinCap` | |
| `ConnectionProofs` | `ConnectionTyped`, `PipelineIsKept` | `TypeOK`, `PipelineKept` | |
| | `PhasesAreBounded`, `ResponseIsBounded`, `WindowIsFresh` | `PhasesBounded`, `ResponseBounded`, `NoStaleWindow` | |
| `RoutingProofs` | `RoutingTyped`, `RulesAreKept` | `TypeOK`, `RulesKept` | |
| | `ChallengesAreDirect`, `WalksAreShort` | `AcmeDirect`, `ShortWalks` | |
| | `DocumentsAreKept` | `DocumentKept` | `PlainDocuments` |
| `ContentProofs` | `ContentTyped`, `PromotionIsComplete`, `BudgetIsKept` | `TypeOK`, `PromotedComplete`, `BudgetKept` | |
| `ServingProofs` | `ServingTyped`, `PinnedIsIntact`, `NoneIsOrphaned`, `RepresentationIsRight` | `TypeOK`, `PinnedIntact`, `NoOrphans`, `RightRepresentation` | `Exclusive` |
| `ConfigFileProofs` | `ConfigTyped`, `AcceptedMeansText`, `ErrorMeansText` | `TypeOK`, `AcceptedAsWritten`, `RejectedForCause` | |
| `SemaphoreProofs` | `CountTyped`, `NoSlotLost` | `TypeOK`, `SlotsConserved` | |
| | `NoWakeupLost`, `Refines` | `NoLostWakeup`, `ImplementsSlots` | |

### The hypotheses

All four are assumptions about the world around the server, which the instances of
section 3 meet. Section 5 says for each what happens without it.

* The window `<<"config", "boot", "sample">>` in `CalmWindows`: an edit there is lost.
* `LinksHeldStill`: operators do not repoint a root from the sampling of its tree to the
  end of the walk; `BootFlip` is what happens otherwise. The config may still be edited,
  and trees and certificates written, at any point.
* `Exclusive`: one process at a time on a `disk_cache`. Processes may still be killed and
  started any number of times.
* `PlainDocuments`: no document lies in the challenge directory or is the page beside it,
  none has an empty name on its path, and no directory's name ends in ".html".

### Watcher

`TypeOK` is not inductive. `BuildTls` keeps types only if `cfg` is a config that parsed,
`Rebuild(s)` only if `s` is a live site whose signature was just taken, and
`ReconcileHttp` only if there is something pending. `Coherent` says these things: which
jobs go with which stage of a tick, that HTTPS is bound from the start of `watch`
on, that content is known for exactly the sites with a directory, and that a scan
goes over the live sites. `TypeOK /\ Coherent` is inductive.

`NoLostConfigEdit` needs `ConfigTaken`: a recorded or sampled signature is never ahead of
the file, and as long as the signature that goes with the parsed text is the
file's, the text is the file's. A write of the config makes all signatures taken
before it stale (`ConfigWritten`); every other step keeps the relation
(`ConfigStep`). `PemTaken` and `TlsTaken` say the same of the certificates: what was sampled
for a set of files is not ahead of them, and what a build loaded is not behind its sample.

`NoLostDeploy` rests on a chain of inequalities, from the sample through the walk
to the disk. While a build is under way they hold of what was sampled and built
(`TreesTaken`), from the swap on of what is recorded and served (`TreesApplied`). The
property follows since a recorded signature that equals the disk's leaves no room between.
That the chain speaks of one directory is where the links must hold still.

`ListenersFollowConfig` needs `Reconciling`: what is pending is what the live config asks
for, and the HTTP arm is entered only with HTTPS in place. `ListenersNeverTorn` is a
consequence: of the actions that change HTTP's address, one is at boot and the other
is that arm.

`Refines` has one step per action (`RefinedStep`): the swap and the start are `Adopt`, the
certificate arm's `BuildTls` is `Renew`, a `Load` that parses is `Read`, an edit of the config
is `Write`, and the rest leave the five mapped values alone. It needs `Parsed`: whatever is
being built was parsed, and the certificates waiting for the swap come from the same text
as the sites (`ParsedStep`). The windows of `CalmWindows` play no part in it.
`ServedInOrder` follows from it by an invariant of `Reload` alone (`OrderedStep`).

### Listeners

`Inv` says who holds what: a permit from acquire to the hand-over and an accepted socket
from accept to the hand-over (`LoopsShaped`), what a connection has at each stage of its
life (`ConnsShaped`), that a socket is in exactly one hand, a queue's, a loop's or its worker's
(`Located`, `OnePlace`), and what the watcher's task is about (`WatcherShaped`). Permits and
counts are sums over finite sets; each action puts one element into one of them and takes
it out of another, and `OneMore` is the arithmetic of that. For `OneLiveLoop` the proof
adds `LiveShaped`: two listeners have two loops, the loop the watcher is retiring is the one its
listener has and is retired or gone, and the one it is about to start is not yet a listener's.
`RetiredLoopsAdmitNone` and `AdmissionsWithinCap` are properties of steps and follow
from the invariant and the exact counts; the latter also from `CapShaped`, that a loop goes by a
limit only between the two halves of `try_acquire`, and by none that is off. The limit in force
may be another by then, and is not in the statement.

### Connection

The bounds in time are the ones a test cannot reach. For a phase the invariant carries,
at each `pc`, what has passed since the phase began: at most the deadline when a call
starts, one `IO_TIMEOUT` more when it returns (`HeadPhase`, `Handshake`; the latter
counts, in `Said`, how much of `FLIGHT` has been written and hence how many calls there were).
For a response, `Window` bounds the age of the progress window by one `Lap`, a window and
a call, and `Windows` says when that window can have begun: with the response or before
it, or after it by at most one lap and one more for every `MIN_PROGRESS` units moved
before the window.

### Routing

`MostSpecificWins` needs that `Finish` sorts. The sort is defined without recursion: each
rule's place is the number of rules ahead of it. It is proved that the order is total, that
places are distinct and fill `1..n`, and hence that the result has all rules, longest
first; that the first match is the longest then follows. Paths made by an
expansion are flattened sequences of sequences. `FlattenSeq` is a recursive function, and that
it has a value for every argument and yields a path is shown by induction. The library's
induction theorems cannot be used (their argument is an operator), so `Induction` states
induction for a set of naturals and is derived from the well-foundedness of finite sets.

`IInv` is `Typed`, `Walked` (what the last hop leaves true of the next request: after a fold
or a directory index the path ends in a slash and is plain, after an upgrade the listener is
HTTPS's and there is nothing to fold) and `Related` (how the path of the request comes from
the one asked for). `DocumentsAreKept` then says what each of the three hops does to
where a document is found: nothing, since canonical form and lookup fold the same names.

### Content

`Missed` is the invariant of the walk: every readable file that lay still since the walk
began, met no failed read and is not `Barred`, is in the map already, or is the entry just
looked at, or it or a directory above it is still on the stack; and what is on the stack on the
way to it can be reached. `PromotionIsComplete` is that with an empty stack. A read that fails by
itself is a step on other trees than there are (`FaultForm`), and what it makes the walk
leave out is taken out of `steady` in the same step (`LeavesOutForm`), so one lemma serves
both kinds of step. `BudgetKept`
needs two accounts, `BootBudget` and `ScanBudget`: what the live caches retain and what the
build in progress has charged, against what is left for it when it starts.

### Serving

`IInv` has a control part (`Typed`, `Lives`: what a process has at each status, `Known`:
numbers are those of builds and runtimes there have been, `Connected`: a connection is
to a process that is up) and one about files: there is a build for whatever is referred
to (`Built`), no two of them have one directory and none has one still to be given out
(`OwnDirs`), each has on the disk what its index promises (`Intact`), and after a sweep
no directory is without a build (`NoOrphans`). Removing a dead build's directory keeps
`Intact` because of `OwnDirs`. `BUILD_SEQ` may start again at 0 because nothing is
referred to when a process starts.

### ConfigFile

The invariant, `Faithful`, says that the parser's state after `n` lines is the meaning of
those lines, taken as a text of their own: `top` has the last value set outside every block
or the default, each finished block and the one being read describe the block that starts at
their line (`Describes`), blocks stand in the order of their lines, and no line was wrong. The
proof is about what one more line does to the meaning of a text. `WithinKept`, `BlockKept`,
`LastKept` and `WrongKept` say what stays, `BlockGrown` and `LastGrown` what changes, and there
is a lemma for each kind of line (`TopLine`, `CloseLine`, `OpenLine`, `RuleLine`, `SiteLine`,
`OverrideLine`). A line that is refused is the first wrong one of the whole text, since the
lines before it are not (`FirstWrong`).

At the end three facts are needed about data. `Resolved`: folding the overrides over the
defaults gives each key the value of its last override, which is shown by induction along the
fold. `Ranked`: the lines of the finished blocks, in order, are the `site` lines by their rank,
so the i-th site of the config is the i-th of the text. `SiteMeant` puts the two together: a
default written below a block reaches it all the same. `ErrorMeant` shows on the way that
the second check of the overrides never refuses anything: values were checked at their own
line, so the `map_err` of 855 is dead code. Multiplications stay below `UsizeMax` or are
errors (`SizeTyped`).

### Semaphore

`IInv` is `TypeOK /\ SlotsConserved /\ NoLostWakeup`, and is inductive as it stands because the
three need each other: a slot is taken or given back together with at most one notification,
and only a thread that has looked at the count stops being notified. `LockedStep` has the case
that matters: a notified thread that leaves without a slot has seen none. `Refines` follows
from `TypeOK`. `SlotsConserved` is a definition of the proof module: every slot is free or
stands behind one permit.

### Checked on instances only

Liveness: `Converges`, `RetiredLoopsExit`, `ClientsAnswered`, `EventuallyClosed`, `WalksEnd`,
`SiteConverges`, `BudgetNeverWedges`, `SlotsTaken`, `AcquireReturns`. The prover has no reasoning
under fairness. Every invariant, action property and refinement that a passing run checks is
a theorem, under the hypotheses above. The type invariants of `Watcher`, `Listeners`,
`Connection`, `Routing` and `Semaphore`, which say little more than that variables have their
types, are proved and left out of the runs.

## 7. What is not modelled

* The syntax of heads, Host names, ports and percent-escapes; a `%2F` that makes two
  segments of one; `$$`, and `$0` or `$1` glued to the rest of a segment.
* The text of config lines and the host names of a block.
* Writes that fall within one hashing of a tree: `tree_signature` is one step, the walk
  is not. A hash of half an edit differs from that of the whole, and the next tick sees it.
* The budget under disk storage (headers only), and two blocks on one root in `Content`;
  `Watcher` has the latter.
* A collision of the 64-bit hash itself: a signature is what is fed into it.
* Memory ordering of the atomics, and a poisoned mutex (recovered from wherever one is locked).
* `disk_cache` moved to another path by a reload; a remove_dir_all that fails.
* TLS, compression and sockets themselves; banner, MIME table, build script.

## 8. Plan

Done: all modules of section 2 and the theorems of section 6.

What is left is what connects the modules: the tree signature of `Content` as a version
number of `Watcher`, and `Listeners` with its pools as instances of `Slots`.
