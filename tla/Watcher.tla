------------------------------ MODULE Watcher ------------------------------
(***************************************************************************)
(* The hot-reload thread of bare-server: `main` up to the call of `watch`, *)
(* and `watch` (src/src/main.rs), with the sampling functions of           *)
(* src/src/cache.rs.  The thread polls the config file, the certificates   *)
(* and the document trees, builds a new runtime off to the side and swaps  *)
(* it in, while operators go on editing all of them.                       *)
(*                                                                         *)
(* Every write to a watched object gives it a new signature (size and      *)
(* mtime in nanoseconds never repeat together), here a version number.     *)
(* The thread reads the disk at several points of one tick, and the        *)
(* operators act between any two of them: one action per such point.       *)
(***************************************************************************)
EXTENDS Naturals

CONSTANTS
    Sites,          \* site blocks a config may hold
    Roots,          \* configured `root` paths (possibly symlinks)
    Certs,          \* cert/key pairs on disk
    Dirs,           \* directories a root can resolve to
    Addrs,          \* addresses a listener can be bound to
    NoRoot,         \* a redirect-only site has no root
    NoDir,          \* a root that does not resolve to a directory
    NoAddr,         \* no `listen_http`
    None,           \* Option::None
    Configs,        \* the config texts operators write
    MaxEdits,       \* bound: how often each kind of object is edited
    MaxTotal,       \* bound: edits altogether
    CalmWindows,    \* assumption: <<kind, job, pc>> at which no such edit falls
    MaxBackoff      \* bound: longest retry delay, in ticks (60 s in the code)

\* What parse_config makes of a text: ok is FALSE when it rejects it.
Config == [ok: BOOLEAN, sites: SUBSET Sites,
           root: [Sites -> Roots \cup {NoRoot}], cert: [Sites -> Certs],
           https: Addrs, http: Addrs \cup {NoAddr}, max: Nat]

EditKinds == {"config", "pem", "link", "tree", "port"}

ASSUME ConstantsAssumption ==
    /\ Configs \subseteq Config
    /\ MaxEdits \in [EditKinds -> Nat] /\ MaxTotal \in Nat
    /\ MaxBackoff \in Nat \ {0}
    /\ NoRoot \notin Roots /\ NoDir \notin Dirs /\ NoAddr \notin Addrs
    /\ None \notin [https: Addrs, http: Addrs \cup {NoAddr}]
    /\ None \notin [sig: Nat, val: Configs]

VARIABLES
    \* the disk and the host, changed by operators
    cfgFile, pem, link, tree, busy, edits,
    \* the shared runtime, the listeners and the sockets still to be closed
    vhosts, tls, https, http, closing,
    \* locals of watch() that live from tick to tick
    cfg_applied, cfg_last, tls_files, tls_applied, tls_last,
    links_applied, links_last, tree_applied, tree_last,
    pending, wait, backoff, failed_at,
    \* locals of one tick
    pc, job, cfg_now, tls_now, links_now, cfg, sampled, built, failure,
    sigs, todo

disk      == <<cfgFile, pem, link, tree, busy, edits>>
listeners == <<https, http, closing>>
live      == <<vhosts, tls, listeners>>
seen      == <<cfg_last, tls_last, links_last>>
applied   == <<cfg_applied, tls_files, tls_applied, links_applied>>
trees     == <<tree_applied, tree_last>>
retry     == <<wait, backoff, failed_at>>
now       == <<cfg_now, tls_now, links_now>>
work      == <<cfg, sampled, built>>
scan      == <<sigs, todo>>
vars == <<disk, live, seen, applied, trees, pending, retry, pc, job, now,
          work, failure, scan>>

----------------------------------------------------------------------------
(* Reading the disk *)

Rooted(c)     == {s \in c.sites : c.root[s] # NoRoot}
tls_paths(c)  == {c.cert[s] : s \in c.sites}
TlsSig(files) == [p \in files |-> pem[p].sig]
root_links(c) == [s \in Rooted(c) |-> <<c.root[s], link[c.root[s]]>>]
root_links_of == IF cfgFile.val.ok THEN root_links(cfgFile.val) ELSE None

\* The trees sample() hashes: what every root resolves to at that moment.
SampledDirs(c) == {link[c.root[s]] : s \in Rooted(c)} \ {NoDir}
TreeSigs(ds)   == [d \in ds |-> tree[d].sig]
SiteSigs(dir)  == [s \in DOMAIN dir |-> tree[dir[s]].sig]

TlsLoads(c)    == \A p \in tls_paths(c) : pem[p].ok
VhostsBuild(c) == \A s \in Rooted(c) :
                     link[c.root[s]] # NoDir /\ tree[link[c.root[s]]].ok

CanBind(a) == a \notin busy \cup closing \cup {https.addr, http.addr}

\* A failed step: fatal in main, "keep the previous state" in watch.
Fail == /\ failure' = TRUE
        /\ pc' = IF job = "boot" THEN "dead" ELSE "https"

----------------------------------------------------------------------------
(* Building a runtime: main at boot, and both reload arms of watch *)

Load ==
    /\ pc = "load"
    /\ \/ /\ cfgFile.val.ok
          /\ cfg' = cfgFile
          /\ pc' = IF job = "certs" THEN "tls" ELSE "sample"
          /\ UNCHANGED failure
       \/ /\ ~cfgFile.val.ok
          /\ Fail
          /\ UNCHANGED cfg
    /\ UNCHANGED <<disk, live, seen, applied, trees, pending, retry, job, now,
                   sampled, built, scan>>

\* sample(): file and tree signatures first ...
Sample ==
    /\ pc = "sample"
    /\ sampled' = [config |-> cfgFile.sig,
                   tls    |-> TlsSig(tls_paths(cfg.val)),
                   trees  |-> TreeSigs(SampledDirs(cfg.val)),
                   links  |-> None]
    /\ pc' = "links"
    /\ UNCHANGED <<disk, live, seen, applied, trees, pending, retry, job, now,
                   cfg, built, failure, scan>>

\* ... then root_links(), which resolves every root a second time.
SampleLinks ==
    /\ pc = "links"
    /\ sampled' = [sampled EXCEPT !.links = root_links(cfg.val)]
    /\ pc' = "tls"
    /\ UNCHANGED <<disk, live, seen, applied, trees, pending, retry, job, now,
                   cfg, built, failure, scan>>

\* build_tls(): the first half of build_runtime(), or all of the cert-only arm,
\* which swaps its result over the vhosts that are live.
BuildTls ==
    /\ pc = "tls"
    /\ LET new == [cfg |-> cfg, pem |-> TlsSig(tls_paths(cfg.val))] IN
       \/ /\ TlsLoads(cfg.val) /\ job # "certs"
          /\ built' = [built EXCEPT !.tls = new]
          /\ pc' = "vhosts"
          /\ UNCHANGED <<tls, tls_applied, failure>>
       \/ /\ TlsLoads(cfg.val) /\ job = "certs"
          /\ tls' = new
          /\ tls_applied' = tls_now
          /\ pc' = "https"
          /\ UNCHANGED <<built, failure>>
       \/ /\ ~TlsLoads(cfg.val)
          /\ Fail
          /\ UNCHANGED <<built, tls, tls_applied>>
    /\ UNCHANGED <<disk, vhosts, listeners, seen, cfg_applied, tls_files,
                   links_applied, trees, pending, retry, job, now, cfg,
                   sampled, scan>>

\* build_vhosts(): canonicalize and walk every root.
BuildVhosts ==
    /\ pc = "vhosts"
    /\ LET dir == [s \in Rooted(cfg.val) |-> link[cfg.val.root[s]]] IN
       \/ /\ VhostsBuild(cfg.val)
          /\ built' = [tls |-> built.tls, dir |-> dir,
                        content |-> SiteSigs(dir)]
          /\ pc' = IF job = "boot" THEN "start" ELSE "swap"
          /\ UNCHANGED failure
       \/ /\ ~VhostsBuild(cfg.val)
          /\ Fail
          /\ UNCHANGED built
    /\ UNCHANGED <<disk, live, seen, applied, trees, pending, retry, job, now,
                   cfg, sampled, scan>>

\* The new sites carry the config they were built from (mutant: the file as it
\* is by now).
RereadVhosts == [cfg |-> cfgFile, dir |-> built.dir, content |-> built.content]
NewVhosts    == [cfg |-> cfg, dir |-> built.dir, content |-> built.content]

\* main: bind both listeners, or die; then watch() seeds its state.
Start ==
    /\ pc = "start"
    /\ \/ LET c == cfg.val IN
          /\ CanBind(c.https) /\ (c.http = NoAddr \/ CanBind(c.http))
          /\ c.http # c.https
          /\ vhosts' = NewVhosts /\ tls' = built.tls
          /\ https' = [addr |-> c.https, max |-> c.max]
          /\ http' = [addr |-> c.http, max |-> c.max]
          /\ cfg_applied' = sampled.config /\ cfg_last' = cfgFile.sig
          /\ tls_files' = tls_paths(c)
          /\ tls_applied' = sampled.tls /\ tls_last' = TlsSig(tls_paths(c))
          /\ links_applied' = sampled.links /\ links_last' = root_links_of
          /\ tree_applied' =
                [s \in {x \in DOMAIN built.dir :
                           built.dir[x] \in DOMAIN sampled.trees}
                    |-> sampled.trees[built.dir[s]]]
          /\ tree_last' = SiteSigs(built.dir)
          /\ pc' = "sleep" /\ job' = "none"
       \/ /\ \/ ~CanBind(cfg.val.https) \/ cfg.val.http = cfg.val.https
             \/ cfg.val.http # NoAddr /\ ~CanBind(cfg.val.http)
          /\ pc' = "dead"
          /\ UNCHANGED <<vhosts, tls, https, http, seen, applied, trees, job>>
    /\ UNCHANGED <<disk, closing, pending, retry, now, work, failure, scan>>

----------------------------------------------------------------------------
(* One tick of watch() *)

\* The thread wakes and takes its signatures.  At least one interval has
\* passed, perhaps more: `wait` is how many ticks retry_at still lies ahead.
\* A new signature after a failure is not the same failure.
Wake ==
    /\ pc = "sleep"
    /\ cfg_now' = cfgFile.sig
    /\ tls_now' = TlsSig(tls_files)
    /\ \/ /\ failed_at # None /\ failed_at # <<cfg_now', tls_now'>>
          /\ wait' = 0 /\ backoff' = 1 /\ failed_at' = None
       \/ /\ failed_at = None \/ failed_at = <<cfg_now', tls_now'>>
          /\ wait' \in IF wait = 0 THEN {0} ELSE 0 .. (wait - 1)
          /\ UNCHANGED <<backoff, failed_at>>
    /\ pc' = "decide"
    /\ UNCHANGED <<disk, live, seen, applied, trees, pending, job, links_now,
                   work, failure, scan>>

\* A change counts once two ticks in a row have seen it (mutant: a repointed
\* root is not watched).
LinksUnwatched(links) == FALSE
LinksChanged(links)   == /\ links # None /\ links # links_applied
                         /\ links = links_last
CfgChanged(links)     == \/ cfg_now # cfg_applied /\ cfg_now = cfg_last
                         \/ LinksChanged(links)
TlsChanged == tls_now # tls_applied /\ tls_now = tls_last

\* The end of the config part of every tick.
RollSeen(links) == /\ cfg_last' = cfg_now
                   /\ tls_last' = tls_now
                   /\ links_last' = links

Decide ==
    /\ pc = "decide"
    /\ LET links   == root_links_of
           attempt == wait = 0 /\ (\/ CfgChanged(links) \/ TlsChanged
                                   \/ pending # None)
       IN
       /\ links_now' = links
       /\ \/ /\ attempt
             /\ failure' = FALSE
             /\ job' = IF CfgChanged(links) THEN "config"
                       ELSE IF TlsChanged THEN "certs" ELSE "none"
             /\ pc' = IF job' = "none" THEN "https" ELSE "load"
             /\ UNCHANGED seen
          \/ /\ ~attempt
             /\ RollSeen(links)
             /\ pc' = "scan"
             /\ UNCHANGED <<failure, job>>
    /\ UNCHANGED <<disk, live, applied, trees, pending, retry, cfg_now,
                   tls_now, work, scan>>

\* What a reload records as applied: the signatures read before the build, or
\* (mutants) those of the disk as it is by the time of the swap.
ConfigAfterBuild == cfgFile.sig
AppliedConfig    == cfg_now
TlsAfterBuild    == TlsSig(tls_paths(cfg.val))
AppliedTls       == sampled.tls
AppliedTrees     == [s \in DOMAIN built.dir |->
                        IF built.dir[s] \in DOMAIN sampled.trees
                        THEN sampled.trees[built.dir[s]]
                        ELSE tree[built.dir[s]].sig]

\* set_max() on a running listener (mutant: left for the next restart).
LimitKept(ctl)  == ctl
AdoptLimit(ctl) == [ctl EXCEPT !.max = cfg.val.max]

\* The config arm after a successful build: reseed, swap, adopt the limits.
Swap ==
    /\ pc = "swap"
    /\ tree_applied' = AppliedTrees
    /\ tree_last' = SiteSigs(built.dir)
    /\ links_applied' = sampled.links
    /\ vhosts' = NewVhosts /\ tls' = built.tls
    /\ https' = AdoptLimit(https) /\ http' = AdoptLimit(http)
    /\ cfg_applied' = AppliedConfig
    /\ tls_files' = tls_paths(cfg.val)
    /\ tls_applied' = AppliedTls
    /\ tls_now' = TlsSig(tls_paths(cfg.val))
    /\ pending' = [https |-> cfg.val.https, http |-> cfg.val.http]
    /\ pc' = "https"
    /\ UNCHANGED <<disk, closing, seen, retry, job, cfg_now, links_now, work,
                   failure, scan>>

\* After a bind error of HTTPS the HTTP arm is skipped (mutant: it is tried).
TriesHttp == "http"
SkipsHttp == "account"

\* rebind(): the new socket is bound before the old loop is retired.
RebindHttps ==
    /\ pc = "https"
    /\ \/ /\ pending = None
          /\ pc' = "account"
          /\ UNCHANGED <<https, closing, failure>>
       \/ /\ pending # None /\ https.addr = pending.https
          /\ pc' = "http"
          /\ UNCHANGED <<https, closing, failure>>
       \/ /\ pending # None /\ https.addr # pending.https
          /\ CanBind(pending.https)
          /\ https' = [https EXCEPT !.addr = pending.https]
          /\ closing' = closing \cup {https.addr}
          /\ pc' = "http"
          /\ UNCHANGED failure
       \/ /\ pending # None /\ https.addr # pending.https
          /\ ~CanBind(pending.https)
          /\ failure' = TRUE
          /\ pc' = SkipsHttp
          /\ UNCHANGED <<https, closing>>
    /\ UNCHANGED <<disk, vhosts, tls, http, seen, applied, trees, pending,
                   retry, job, now, work, scan>>

\* The HTTP listener, touched only once HTTPS is settled: kept, retired
\* (want = NoAddr), started or moved.
ReconcileHttp ==
    /\ pc = "http"
    /\ LET want == pending.http IN
       \/ /\ want \in {http.addr, NoAddr} \/ CanBind(want)
          /\ http' = [addr |-> want,
                      max  |-> IF http.addr = NoAddr THEN vhosts.cfg.val.max
                               ELSE http.max]
          /\ closing' = IF http.addr \in {want, NoAddr} THEN closing
                        ELSE closing \cup {http.addr}
          /\ pending' = None
          /\ UNCHANGED failure
       \/ /\ want \notin {http.addr, NoAddr} /\ ~CanBind(want)
          /\ failure' = TRUE
          /\ UNCHANGED <<http, closing, pending>>
    /\ pc' = "account"
    /\ UNCHANGED <<disk, vhosts, tls, https, seen, applied, trees, retry, job,
                   now, work, scan>>

\* The next delay doubles, up to the longest.
NextBackoff == IF 2 * backoff > MaxBackoff THEN MaxBackoff ELSE 2 * backoff

\* The end of an attempt: back off after a failure.
Account ==
    /\ pc = "account"
    /\ \/ /\ ~failure
          /\ wait' = 0 /\ backoff' = 1 /\ failed_at' = None
       \/ /\ failure
          /\ wait' = backoff
          /\ backoff' = NextBackoff
          /\ failed_at' = <<cfg_now, tls_now>>
    /\ RollSeen(links_now)
    /\ job' = "none"
    /\ pc' = "scan"
    /\ UNCHANGED <<disk, live, applied, trees, pending, now, work, failure,
                   scan>>

\* The content scan: hash every tree once ...
Scan ==
    /\ pc = "scan"
    /\ sigs' = SiteSigs(vhosts.dir)
    /\ todo' = DOMAIN vhosts.dir
    /\ pc' = IF todo' = {} THEN "sleep" ELSE "rebuild"
    /\ UNCHANGED <<disk, live, seen, applied, trees, pending, retry, job, now,
                   work, failure>>

\* ... then rebuild the sites whose tree changed and has settled.
Settled(s) ==
    /\ s \in DOMAIN tree_applied /\ tree_applied[s] # sigs[s]
    /\ s \in DOMAIN tree_last => tree_last[s] = sigs[s]

\* The slots one rebuild marks as applied (mutant: those of every site block
\* that names the same root).
OfSameRoot(s) == {x \in DOMAIN vhosts.dir : vhosts.dir[x] = vhosts.dir[s]}
OfSite(s)     == {s}

Rebuild(s) ==
    /\ pc = "rebuild" /\ s \in todo
    /\ LET t == tree[vhosts.dir[s]] IN
       \/ /\ Settled(s) /\ t.ok
          /\ vhosts' = [vhosts EXCEPT !.content[s] = t.sig]
          /\ tree_applied' = [x \in DOMAIN tree_applied |->
                IF x \in OfSite(s) THEN sigs[s] ELSE tree_applied[x]]
       \/ /\ ~(Settled(s) /\ t.ok)
          /\ UNCHANGED <<vhosts, tree_applied>>
    /\ tree_last' = [tree_last EXCEPT ![s] = sigs[s]]
    /\ todo' = todo \ {s}
    /\ pc' = IF todo' = {} THEN "sleep" ELSE "rebuild"
    /\ UNCHANGED <<disk, tls, listeners, seen, applied, pending, retry, job,
                   now, work, failure, sigs>>

----------------------------------------------------------------------------
(* The environment *)

\* A retired accept loop drops its socket.  Module Listeners shows that it does,
\* unless it stands in accept(), its probe was lost and no client connects.
CloseRetired(a) ==
    /\ a \in closing
    /\ closing' = closing \ {a}
    /\ UNCHANGED <<disk, vhosts, tls, https, http, seen, applied, trees,
                   pending, retry, pc, job, now, work, failure, scan>>

Total == edits["config"] + edits["pem"] + edits["link"] + edits["tree"]
            + edits["port"]
MayEdit(kind) == /\ edits[kind] < MaxEdits[kind] /\ Total < MaxTotal
                 /\ <<kind, job, pc>> \notin CalmWindows
                 /\ edits' = [edits EXCEPT ![kind] = @ + 1]

WriteConfig == /\ MayEdit("config")
               /\ \E c \in Configs : cfgFile' = [sig |-> cfgFile.sig + 1,
                                                 val |-> c]
               /\ UNCHANGED <<pem, link, tree, busy>>
WritePem == /\ MayEdit("pem")
            /\ \E p \in Certs, ok \in BOOLEAN :
                  pem' = [pem EXCEPT ![p] = [sig |-> @.sig + 1, ok |-> ok]]
            /\ UNCHANGED <<cfgFile, link, tree, busy>>
FlipLink == /\ MayEdit("link")
            /\ \E r \in Roots, d \in Dirs \cup {NoDir} :
                  link' = [link EXCEPT ![r] = d]
            /\ UNCHANGED <<cfgFile, pem, tree, busy>>
WriteTree == /\ MayEdit("tree")
             /\ \E d \in Dirs, ok \in BOOLEAN :
                   tree' = [tree EXCEPT ![d] = [sig |-> @.sig + 1, ok |-> ok]]
             /\ UNCHANGED <<cfgFile, pem, link, busy>>
TogglePort == /\ MayEdit("port")
              /\ \E a \in Addrs \ (closing \cup {https.addr, http.addr}) :
                    busy' = IF a \in busy THEN busy \ {a} ELSE busy \cup {a}
              /\ UNCHANGED <<cfgFile, pem, link, tree>>

Edit == /\ WriteConfig \/ WritePem \/ FlipLink \/ WriteTree \/ TogglePort
        /\ UNCHANGED <<live, seen, applied, trees, pending, retry, pc, job,
                       now, work, failure, scan>>

----------------------------------------------------------------------------
Init ==
    \* any state of the disk at the start of main
    /\ cfgFile \in [sig: {0}, val: Configs]
    /\ pem \in [Certs -> [sig: {0}, ok: {TRUE}]]
    /\ link \in [Roots -> Dirs]
    /\ tree \in [Dirs -> [sig: {0}, ok: {TRUE}]]
    /\ busy = {} /\ edits = [k \in EditKinds |-> 0]
    \* nothing runs yet
    /\ cfg = cfgFile
    /\ sampled = [config |-> 0, tls |-> <<>>, trees |-> <<>>, links |-> None]
    /\ built = [tls |-> [cfg |-> cfg, pem |-> <<>>], dir |-> <<>>,
                content |-> <<>>]
    /\ vhosts = [cfg |-> cfg, dir |-> <<>>, content |-> <<>>]
    /\ tls = built.tls
    /\ https = [addr |-> NoAddr, max |-> 0]
    /\ http = [addr |-> NoAddr, max |-> 0]
    /\ closing = {}
    /\ cfg_applied = 0 /\ cfg_last = 0 /\ cfg_now = 0
    /\ tls_files = {}
    /\ tls_applied = <<>> /\ tls_last = <<>> /\ tls_now = <<>>
    /\ links_applied = None /\ links_last = None /\ links_now = None
    /\ tree_applied = <<>> /\ tree_last = <<>>
    /\ pending = None /\ wait = 0 /\ backoff = 1 /\ failed_at = None
    /\ pc = "load" /\ job = "boot" /\ failure = FALSE
    /\ sigs = <<>> /\ todo = {}

WatcherStep ==
    \/ Load \/ Sample \/ SampleLinks \/ BuildTls \/ BuildVhosts \/ Start
    \/ Wake \/ Decide \/ Swap \/ RebindHttps \/ ReconcileHttp \/ Account
    \/ Scan \/ (\E s \in Sites : Rebuild(s))

\* A fatal boot error has ended the process.
Exited == pc = "dead" /\ UNCHANGED vars

Next == WatcherStep \/ Edit \/ Exited \/ (\E a \in Addrs : CloseRetired(a))

\* The thread is scheduled and its sleeps end; a retired socket gets its probe,
\* or in the end a client, and is closed.  Nothing is assumed of the operators.
Fairness == /\ WF_vars(WatcherStep)
            /\ \A a \in Addrs : WF_vars(CloseRetired(a))

Spec == Init /\ [][Next]_vars /\ Fairness

----------------------------------------------------------------------------
(* Properties *)

Versions == [sig: Nat, val: Configs]
Ctl      == [addr: Addrs \cup {NoAddr}, max: Nat]
Booting  == {"load", "sample", "links", "tls", "vhosts", "start"}
InTick   == {"decide", "swap", "https", "http", "account", "scan", "rebuild"}

\* A map from some of the keys D into S.
IsMap(f, D, S) == DOMAIN f \subseteq D /\ f \in [DOMAIN f -> S]
IsTls(t)    == /\ t = [cfg |-> t.cfg, pem |-> t.pem]
               /\ t.cfg \in Versions /\ IsMap(t.pem, Certs, Nat)
IsLinks(l)  == l # None => IsMap(l, Sites, Roots \X (Dirs \cup {NoDir}))
IsVhosts(v) == /\ v = [cfg |-> v.cfg, dir |-> v.dir, content |-> v.content]
               /\ v.cfg \in Versions
               /\ IsMap(v.dir, Sites, Dirs) /\ IsMap(v.content, Sites, Nat)
IsBuilt(b)  == /\ b = [tls |-> b.tls, dir |-> b.dir, content |-> b.content]
               /\ IsTls(b.tls)
               /\ IsMap(b.dir, Sites, Dirs) /\ IsMap(b.content, Sites, Nat)
IsSample(s) == /\ s = [config |-> s.config, tls |-> s.tls,
                       trees |-> s.trees, links |-> s.links]
               /\ s.config \in Nat /\ IsMap(s.tls, Certs, Nat)
               /\ IsMap(s.trees, Dirs, Nat) /\ IsLinks(s.links)

\* Every variable holds a value of its type.
TypeOK ==
    /\ cfgFile \in Versions
    /\ pem \in [Certs -> [sig: Nat, ok: BOOLEAN]]
    /\ link \in [Roots -> Dirs \cup {NoDir}]
    /\ tree \in [Dirs -> [sig: Nat, ok: BOOLEAN]]
    /\ busy \subseteq Addrs /\ edits \in [EditKinds -> Nat]
    /\ IsVhosts(vhosts) /\ IsTls(tls)
    /\ https \in Ctl /\ http \in Ctl /\ closing \subseteq Addrs
    /\ cfg_applied \in Nat /\ cfg_last \in Nat /\ cfg_now \in Nat
    /\ tls_files \subseteq Certs
    /\ IsMap(tls_applied, Certs, Nat) /\ IsMap(tls_last, Certs, Nat)
    /\ IsMap(tls_now, Certs, Nat)
    /\ IsLinks(links_applied) /\ IsLinks(links_last) /\ IsLinks(links_now)
    /\ IsMap(tree_applied, Sites, Nat) /\ IsMap(tree_last, Sites, Nat)
    /\ \/ pending = None
       \/ pending \in [https: Addrs, http: Addrs \cup {NoAddr}]
    /\ wait \in 0 .. MaxBackoff /\ backoff \in 1 .. MaxBackoff
    /\ pc \in Booting \cup InTick \cup {"sleep", "dead"}
    /\ job \in {"boot", "config", "certs", "none"}
    /\ cfg \in Versions /\ IsSample(sampled) /\ IsBuilt(built)
    /\ failure \in BOOLEAN
    /\ IsMap(sigs, Sites, Nat) /\ todo \subseteq Sites

\* The server is up: main has handed over to watch().
Running == job # "boot"

\* An edit of the config file is never swallowed: while the recorded signature
\* is the file's own, the sites being served are built from that very text,
\* whatever was written while the runtime was being built.
NoLostConfigEdit ==
    Running /\ cfg_applied = cfgFile.sig => vhosts.cfg = cfgFile

\* A renewal is never swallowed: while config and certificates both read as
\* applied, handshakes are offered the certificates now on disk.
NoLostRenewal ==
    (Running /\ cfg_applied = cfgFile.sig /\ tls_applied = TlsSig(tls_files))
        => tls.pem = TlsSig(tls_paths(cfgFile.val))

\* A deploy is never swallowed: while the links and a tree read as applied,
\* the site serves that tree, from the directory its root resolves to.
NoLostDeploy ==
    (Running /\ links_applied = root_links(vhosts.cfg.val)) =>
        \A s \in Rooted(vhosts.cfg.val) :
            LET d == link[vhosts.cfg.val.root[s]] IN
            /\ vhosts.dir[s] = d
            /\ (s \notin DOMAIN tree_applied \/ tree_applied[s] = tree[d].sig)
                  => vhosts.content[s] = tree[d].sig

\* What is applied to the running listeners is what the live config says: the
\* cap per address at every moment, the addresses once nothing is pending.
ListenersFollowConfig ==
    Running =>
        /\ https.max = vhosts.cfg.val.max
        /\ http.addr # NoAddr => http.max = vhosts.cfg.val.max
        /\ pending = None => /\ https.addr = vhosts.cfg.val.https
                             /\ http.addr = vhosts.cfg.val.http

\* Port 80 is given up or moved only by a process whose HTTPS listener is
\* already where the live config wants it (no torn pair of addresses).
NoTornListeners ==
    [][Running /\ http'.addr # http.addr
          => https.addr = vhosts.cfg.val.https]_vars

\* What the disk now says can be loaded, and the ports it names are free.
Usable == /\ cfgFile.val.ok /\ TlsLoads(cfgFile.val) /\ VhostsBuild(cfgFile.val)
          /\ {cfgFile.val.https, cfgFile.val.http} \cap busy = {}

\* What is served is what the disk says.
InSync ==
    LET c == cfgFile.val IN
    /\ vhosts.cfg.val = c /\ tls.cfg.val = c
    /\ tls.pem = TlsSig(tls_paths(c))
    /\ \A s \in Rooted(c) : /\ vhosts.dir[s] = link[c.root[s]]
                            /\ vhosts.content[s] = tree[vhosts.dir[s]].sig
    /\ https.addr = c.https /\ http.addr = c.http

\* Once the operators stop on a usable state, the server ends up serving it,
\* without a restart, whatever failed on the way.
Converges == <>[](Usable /\ pc # "dead" => InSync)

----------------------------------------------------------------------------
(* Hot reload in the abstract *)

R == INSTANCE Reload WITH
        Texts  <- Configs,
        Usable <- {c \in Configs : c.ok},
        Cap    <- [c \in Configs |-> c.max],
        file   <- cfgFile,
        read   <- cfg,
        served <- IF Running THEN vhosts.cfg ELSE None,
        certs  <- IF Running THEN tls.cfg ELSE None,
        limit  <- https.max

\* What is served is, in one piece, a text that parsed and was read after the
\* one before it: no step of the thread mixes two texts, serves a rejected one
\* or goes back to an older one.
ImplementsReload == R!Spec

----------------------------------------------------------------------------
(* Claims of the documentation that the code does not keep *)

\* "A deploy needs no restart": a readable tree ends up being served.
DeployNeedsNoRestart ==
    <>[](Running => \A s \in DOMAIN vhosts.dir :
            tree[vhosts.dir[s]].ok
               => vhosts.content[s] = tree[vhosts.dir[s]].sig)

\* "Even the listen addresses": they end up where a usable config puts them.
ListenersConverge ==
    <>[](Running /\ Usable => https.addr = cfgFile.val.https
                              /\ http.addr = cfgFile.val.http)
============================================================================
