--------------------------- MODULE WatcherProofs ---------------------------
(***************************************************************************)
(* Theorems about Watcher, for every value of its constants.               *)
(***************************************************************************)
EXTENDS Watcher, TLAPS

\* What the steps of a tick may count on; with TypeOK it is inductive.
Coherent ==
    /\ pc = "start" => job = "boot"
    /\ pc = "swap" => job = "config"
    /\ pc \in {"sample", "links", "vhosts"} => job \in {"boot", "config"}
    /\ pc \in {"load", "tls"} => job # "none"
    /\ pc \in InTick \cup {"sleep"} => job # "boot"
    /\ job # "boot" => https.addr # NoAddr
    /\ pc = "http" => pending # None
    /\ DOMAIN vhosts.content = DOMAIN vhosts.dir
    /\ DOMAIN built.content = DOMAIN built.dir
    /\ pc = "rebuild" => DOMAIN sigs = DOMAIN vhosts.dir /\ todo \subseteq DOMAIN sigs

\* The parts of a config that parses.
LEMMA ConfigParts ==
    ASSUME NEW c \in Configs
    PROVE  /\ c.sites \subseteq Sites
           /\ c.root \in [Sites -> Roots \cup {NoRoot}]
           /\ c.cert \in [Sites -> Certs]
           /\ c.https \in Addrs /\ c.http \in Addrs \cup {NoAddr}
           /\ c.max \in Nat
           /\ tls_paths(c) \subseteq Certs
           /\ Rooted(c) \subseteq Sites
           /\ \A s \in Rooted(c) : c.root[s] \in Roots
BY ConstantsAssumption DEF ConstantsAssumption, Config, tls_paths, Rooted

\* What the disk functions return, in a state that is well typed.
LEMMA DiskParts ==
    ASSUME TypeOK
    PROVE  /\ \A f \in SUBSET Certs : IsMap(TlsSig(f), Certs, Nat)
           /\ \A c \in Configs : IsLinks(root_links(c))
           /\ \A c \in Configs : SampledDirs(c) \subseteq Dirs
           /\ \A d \in SUBSET Dirs : IsMap(TreeSigs(d), Dirs, Nat)
           /\ \A f : IsMap(f, Sites, Dirs) =>
                        IsMap(SiteSigs(f), Sites, Nat) /\ DOMAIN SiteSigs(f) = DOMAIN f
           /\ IsLinks(root_links_of)
<1>1. \A f \in SUBSET Certs : IsMap(TlsSig(f), Certs, Nat)
    BY DEF TypeOK, IsMap, TlsSig
<1>2. \A c \in Configs : IsLinks(root_links(c))
    BY ConfigParts DEF TypeOK, IsMap, IsLinks, root_links
<1>3. \A c \in Configs : SampledDirs(c) \subseteq Dirs
    BY ConfigParts DEF TypeOK, SampledDirs
<1>4. \A d \in SUBSET Dirs : IsMap(TreeSigs(d), Dirs, Nat)
    BY DEF TypeOK, IsMap, TreeSigs
<1>5. \A f : IsMap(f, Sites, Dirs) =>
                IsMap(SiteSigs(f), Sites, Nat) /\ DOMAIN SiteSigs(f) = DOMAIN f
    BY DEF TypeOK, IsMap, SiteSigs
<1>6. IsLinks(root_links_of)
    BY <1>2 DEF root_links_of, TypeOK, Versions, IsLinks
<1> QED BY <1>1, <1>2, <1>3, <1>4, <1>5, <1>6

\* What Init says of the Boolean fields, as the type invariant says it.
LEMMA FreshRecords == [sig: {0}, ok: {TRUE}] \subseteq [sig: Nat, ok: BOOLEAN]
<1> DEFINE Good == {TRUE}
<1>1. Good \subseteq BOOLEAN
    BY Zenon
<1> HIDE DEF Good
<1>2. [sig: {0}, ok: Good] \subseteq [sig: Nat, ok: BOOLEAN]
    BY <1>1, SMT
<1> QED BY <1>2 DEF Good

\* The types hold at first.
LEMMA InitTyped == Init => TypeOK /\ Coherent
<1> SUFFICES ASSUME Init PROVE TypeOK /\ Coherent
    OBVIOUS
<1>1. /\ IsMap(<<>>, Certs, Nat) /\ IsMap(<<>>, Sites, Nat)
      /\ IsMap(<<>>, Sites, Dirs) /\ IsMap(<<>>, Dirs, Nat)
      /\ DOMAIN <<>> = {}
    BY SMT DEF IsMap
<1>2. cfgFile \in Versions /\ cfg \in Versions
    BY ConstantsAssumption DEF Init, Versions
<1>3. /\ pem \in [Certs -> [sig: Nat, ok: BOOLEAN]]
      /\ link \in [Roots -> Dirs \cup {NoDir}]
      /\ tree \in [Dirs -> [sig: Nat, ok: BOOLEAN]]
    <2>1. /\ pem \in [Certs -> [sig: {0}, ok: {TRUE}]]
          /\ tree \in [Dirs -> [sig: {0}, ok: {TRUE}]]
          /\ link \in [Roots -> Dirs]
        BY Zenon DEF Init
    <2>2. /\ pem \in [Certs -> [sig: Nat, ok: BOOLEAN]]
          /\ tree \in [Dirs -> [sig: Nat, ok: BOOLEAN]]
        BY <2>1, FreshRecords, Zenon
    <2> QED BY <2>1, <2>2
<1>4. IsTls(tls) /\ IsVhosts(vhosts) /\ IsBuilt(built) /\ IsSample(sampled)
    BY <1>1, <1>2 DEF Init, IsTls, IsVhosts, IsBuilt, IsSample, IsLinks
<1>5. TypeOK
    <2>1. /\ busy = {} /\ closing = {} /\ tls_files = {} /\ todo = {}
          /\ edits = [k \in EditKinds |-> 0]
          /\ https = [addr |-> NoAddr, max |-> 0] /\ http = [addr |-> NoAddr, max |-> 0]
          /\ cfg_applied = 0 /\ cfg_last = 0 /\ cfg_now = 0
          /\ tls_applied = <<>> /\ tls_last = <<>> /\ tls_now = <<>>
          /\ links_applied = None /\ links_last = None /\ links_now = None
          /\ tree_applied = <<>> /\ tree_last = <<>> /\ sigs = <<>>
          /\ pending = None /\ wait = 0 /\ backoff = 1
          /\ pc = "load" /\ job = "boot" /\ failure = FALSE
        BY Zenon DEF Init
    <2>2. /\ https \in Ctl /\ http \in Ctl /\ edits \in [EditKinds -> Nat]
          /\ IsLinks(None)
        BY <2>1 DEF Ctl, IsLinks
    <2>3. wait \in 0 .. MaxBackoff /\ backoff \in 1 .. MaxBackoff
        BY <2>1, ConstantsAssumption DEF ConstantsAssumption
    <2>4. failure \in BOOLEAN
        BY <2>1, Zenon
    <2> QED
        BY <2>1, <2>2, <2>3, <2>4, <1>1, <1>2, <1>3, <1>4 DEF TypeOK, Booting
<1>6. Coherent
    BY DEF Coherent, Init, InTick
<1> QED BY <1>5, <1>6

\* Every step keeps the types.
LEMMA StepTyped == TypeOK /\ Coherent /\ [Next]_vars => TypeOK' /\ Coherent'
<1> SUFFICES ASSUME TypeOK, Coherent, [Next]_vars
             PROVE  TypeOK' /\ Coherent'
    OBVIOUS
<1> USE DEF InTick, Booting, disk, live, listeners, seen, applied, trees, retry, now, work, scan
<1>0. cfg.val \in Configs /\ cfgFile.val \in Configs /\ vhosts.cfg.val \in Configs
    BY DEF TypeOK, Versions, IsVhosts
<1>1. CASE Load
    BY <1>1 DEF Load, Fail, TypeOK, Coherent
<1>2. CASE Sample
    <2>1. IsSample(sampled')
        BY <1>2, <1>0, DiskParts, ConfigParts DEF Sample, IsSample, IsLinks, TypeOK, Versions
    <2> QED BY <1>2, <2>1 DEF Sample, TypeOK, Coherent
<1>3. CASE SampleLinks
    <2>1. IsSample(sampled')
        BY <1>3, <1>0, DiskParts DEF SampleLinks, IsSample, TypeOK
    <2> QED BY <1>3, <2>1 DEF SampleLinks, TypeOK, Coherent
<1>4. CASE BuildTls
    <2> DEFINE new == [cfg |-> cfg, pem |-> TlsSig(tls_paths(cfg.val))]
    <2>1. IsTls(new)
        BY <1>0, DiskParts, ConfigParts DEF IsTls, TypeOK
    <2>2. IsBuilt([built EXCEPT !.tls = new]) /\ [built EXCEPT !.tls = new].dir = built.dir
          /\ [built EXCEPT !.tls = new].content = built.content
        BY <2>1 DEF IsBuilt, TypeOK
    <2> HIDE DEF new
    <2>3. \/ built' = [built EXCEPT !.tls = new] /\ UNCHANGED <<tls, tls_applied>>
          \/ tls' = new /\ tls_applied' = tls_now /\ UNCHANGED built
          \/ UNCHANGED <<built, tls, tls_applied>>
        BY <1>4 DEF BuildTls, new
    <2>4. IsTls(tls') /\ IsBuilt(built') /\ IsMap(tls_applied', Certs, Nat)
        BY <2>1, <2>2, <2>3 DEF TypeOK
    <2>5. /\ pc = "tls" /\ job' = job
          /\ pc' \in {"vhosts", "https", "dead"} /\ failure' \in {failure, TRUE}
          /\ pc' = "vhosts" => job # "certs"
          /\ pc' = "https" => job # "boot"
        BY <1>4 DEF BuildTls, Fail
    <2>6. UNCHANGED <<disk, vhosts, listeners, seen, cfg_applied, tls_files,
                      links_applied, trees, pending, retry, now, cfg,
                      sampled, scan>>
        BY <1>4 DEF BuildTls
    <2>7. TypeOK'
        BY <2>4, <2>5, <2>6 DEF TypeOK
    <2>8. Coherent'
        BY <2>2, <2>3, <2>5, <2>6 DEF Coherent, TypeOK
    <2> QED BY <2>7, <2>8
<1>5. CASE BuildVhosts
    <2> DEFINE dir == [s \in Rooted(cfg.val) |-> link[cfg.val.root[s]]]
               new == [tls |-> built.tls, dir |-> dir, content |-> SiteSigs(dir)]
    <2>1. VhostsBuild(cfg.val) => IsMap(dir, Sites, Dirs)
        BY <1>0, ConfigParts DEF IsMap, VhostsBuild, TypeOK
    <2>2. VhostsBuild(cfg.val) => IsBuilt(new) /\ DOMAIN new.content = DOMAIN new.dir
        <3> HIDE DEF dir
        <3>1. VhostsBuild(cfg.val) => IsMap(SiteSigs(dir), Sites, Nat)
                                      /\ DOMAIN SiteSigs(dir) = DOMAIN dir
            BY <2>1, DiskParts
        <3> QED BY <2>1, <3>1 DEF IsBuilt, TypeOK
    <2> HIDE DEF dir, new
    <2>3. /\ pc = "vhosts" /\ job' = job
          /\ pc' \in {"start", "swap", "https", "dead"} /\ failure' \in {failure, TRUE}
          /\ pc' = "start" => job = "boot"
          /\ pc' \in {"swap", "https"} => job # "boot"
          /\ \/ VhostsBuild(cfg.val) /\ built' = new
             \/ built' = built
        BY <1>5 DEF BuildVhosts, Fail, dir, new
    <2>4. UNCHANGED <<disk, live, seen, applied, trees, pending, retry, now,
                      cfg, sampled, scan>>
        BY <1>5 DEF BuildVhosts
    <2>5. IsBuilt(built') /\ DOMAIN built'.content = DOMAIN built'.dir
        BY <2>2, <2>3 DEF TypeOK, Coherent
    <2>6. TypeOK'
        BY <2>3, <2>4, <2>5 DEF TypeOK
    <2>7. Coherent'
        BY <2>3, <2>4, <2>5 DEF Coherent, TypeOK
    <2> QED BY <2>6, <2>7
<1>6. CASE Start
    <2>0. UNCHANGED <<disk, closing, pending, retry, now, work, failure, scan>>
        BY <1>6 DEF Start
    <2>1. CASE pc' = "dead"
        <3>1. UNCHANGED <<vhosts, tls, https, http, seen, applied, trees, job>> /\ pc = "start"
            BY <1>6, <2>1 DEF Start
        <3> QED BY <2>0, <2>1, <3>1 DEF TypeOK, Coherent
    <2>2. CASE pc' # "dead"
        <3> DEFINE c == cfg.val
                   ta == [s \in {x \in DOMAIN built.dir :
                                    built.dir[x] \in DOMAIN sampled.trees}
                             |-> sampled.trees[built.dir[s]]]
        <3>1. /\ vhosts' = NewVhosts /\ tls' = built.tls
              /\ https' = [addr |-> c.https, max |-> c.max]
              /\ http' = [addr |-> c.http, max |-> c.max]
              /\ cfg_applied' = sampled.config /\ cfg_last' = cfgFile.sig
              /\ tls_files' = tls_paths(c)
              /\ tls_applied' = sampled.tls /\ tls_last' = TlsSig(tls_paths(c))
              /\ links_applied' = sampled.links /\ links_last' = root_links_of
              /\ tree_applied' = ta /\ tree_last' = SiteSigs(built.dir)
              /\ pc' = "sleep" /\ job' = "none"
            BY <1>6, <2>2 DEF Start
        <3>2. IsVhosts(vhosts') /\ DOMAIN vhosts'.content = DOMAIN vhosts'.dir
            BY <3>1 DEF IsVhosts, IsBuilt, NewVhosts, TypeOK, Coherent
        <3>3. IsTls(tls') /\ IsLinks(links_applied') /\ IsMap(tls_applied', Certs, Nat)
              /\ cfg_applied' \in Nat /\ cfg_last' \in Nat
            BY <3>1 DEF IsBuilt, IsSample, TypeOK, Versions
        <3>4. /\ IsMap(tls_last', Certs, Nat) /\ IsLinks(links_last')
              /\ tls_files' \subseteq Certs /\ IsMap(tree_last', Sites, Nat)
            BY <3>1, <1>0, DiskParts, ConfigParts DEF IsBuilt, TypeOK
        <3>5. https' \in Ctl /\ http' \in Ctl /\ https'.addr \in Addrs
            BY <3>1, <1>0, ConfigParts DEF Ctl
        <3>6. IsMap(ta, Sites, Nat)
            BY DEF IsMap, IsBuilt, IsSample, TypeOK
        <3>7. TypeOK'
            <4> HIDE DEF ta
            <4> QED BY <3>1, <3>2, <3>3, <3>4, <3>5, <3>6, <2>0 DEF TypeOK
        <3>8. https'.addr # NoAddr
            BY <3>5, ConstantsAssumption DEF ConstantsAssumption
        <3>9. Coherent'
            BY <3>1, <3>2, <3>8, <2>0 DEF Coherent
        <3> QED BY <3>7, <3>9
    <2> QED BY <2>1, <2>2
<1>7. CASE Wake
    <2>1. /\ cfg_now' \in Nat /\ IsMap(tls_now', Certs, Nat)
        BY <1>7, DiskParts DEF Wake, TypeOK, Versions
    <2>2. wait' \in 0 .. MaxBackoff /\ backoff' \in 1 .. MaxBackoff
        BY <1>7, ConstantsAssumption DEF Wake, TypeOK, ConstantsAssumption
    <2>3. /\ pc = "sleep" /\ pc' = "decide"
          /\ UNCHANGED <<disk, live, seen, applied, trees, pending, job, links_now,
                         work, failure, scan>>
        BY <1>7 DEF Wake
    <2> QED BY <2>1, <2>2, <2>3 DEF TypeOK, Coherent
<1>8. CASE Decide
    <2>1. /\ pc = "decide" /\ links_now' = root_links_of
          /\ UNCHANGED <<disk, live, applied, trees, pending, retry, cfg_now,
                         tls_now, work, scan>>
        BY <1>8 DEF Decide
    <2>2. /\ pc' \in {"https", "load", "scan"} /\ failure' \in {failure, FALSE}
          /\ job' \in {job, "config", "certs", "none"}
          /\ pc' = "load" => job' \in {"config", "certs"}
          /\ \/ UNCHANGED seen
             \/ cfg_last' = cfg_now /\ tls_last' = tls_now /\ links_last' = root_links_of
        BY <1>8 DEF Decide, RollSeen
    <2>3. cfg_last' \in Nat /\ IsMap(tls_last', Certs, Nat) /\ IsLinks(links_last')
          /\ IsLinks(links_now')
        BY <2>1, <2>2, DiskParts DEF TypeOK
    <2>4. failure' \in BOOLEAN
        BY <2>2 DEF TypeOK
    <2>5. TypeOK'
        BY <2>1, <2>2, <2>3, <2>4 DEF TypeOK
    <2>6. Coherent'
        BY <2>1, <2>2 DEF Coherent
    <2> QED BY <2>5, <2>6
<1>9. CASE Swap
    <2>1. /\ pc = "swap" /\ pc' = "https"
          /\ tree_applied' = AppliedTrees /\ tree_last' = SiteSigs(built.dir)
          /\ links_applied' = sampled.links
          /\ vhosts' = NewVhosts /\ tls' = built.tls
          /\ https' = [https EXCEPT !.max = cfg.val.max]
          /\ http' = [http EXCEPT !.max = cfg.val.max]
          /\ cfg_applied' = cfg_now /\ tls_files' = tls_paths(cfg.val)
          /\ tls_applied' = sampled.tls /\ tls_now' = TlsSig(tls_paths(cfg.val))
          /\ pending' = [https |-> cfg.val.https, http |-> cfg.val.http]
          /\ UNCHANGED <<disk, closing, seen, retry, job, cfg_now, links_now, work,
                         failure, scan>>
        BY <1>9 DEF Swap, AdoptLimit, AppliedConfig, AppliedTls
    <2>2. IsVhosts(vhosts') /\ DOMAIN vhosts'.content = DOMAIN vhosts'.dir
        BY <2>1 DEF IsVhosts, IsBuilt, NewVhosts, TypeOK, Coherent
    <2>3. IsTls(tls') /\ IsLinks(links_applied') /\ IsMap(tls_applied', Certs, Nat)
          /\ cfg_applied' \in Nat
        BY <2>1 DEF IsBuilt, IsSample, TypeOK
    <2>4. /\ IsMap(tls_now', Certs, Nat) /\ tls_files' \subseteq Certs
          /\ IsMap(tree_last', Sites, Nat)
        BY <2>1, <1>0, DiskParts, ConfigParts DEF IsBuilt, TypeOK
    <2>5. /\ https' \in Ctl /\ http' \in Ctl /\ https'.addr = https.addr
          /\ pending' \in [https: Addrs, http: Addrs \cup {NoAddr}]
        BY <2>1, <1>0, ConfigParts DEF Ctl, TypeOK
    <2>6. IsMap(AppliedTrees, Sites, Nat)
        BY DEF AppliedTrees, IsMap, IsBuilt, IsSample, TypeOK
    <2>7. TypeOK'
        BY <2>1, <2>2, <2>3, <2>4, <2>5, <2>6 DEF TypeOK
    <2>8. Coherent'
        BY <2>1, <2>2, <2>5 DEF Coherent
    <2> QED BY <2>7, <2>8
<1>10. CASE RebindHttps
    <2>1. /\ pc = "https" /\ pc' \in {"account", "http"} /\ failure' \in {failure, TRUE}
          /\ pending' = pending /\ (pc' = "http" => pending # None)
          /\ \/ https' = https /\ closing' = closing
             \/ /\ pending # None /\ https' = [https EXCEPT !.addr = pending.https]
                /\ closing' = closing \cup {https.addr}
          /\ UNCHANGED <<disk, vhosts, tls, http, seen, applied, trees, retry, job,
                         now, work, scan>>
        BY <1>10 DEF RebindHttps, SkipsHttp
    <2>2. https' \in Ctl /\ https'.addr # NoAddr /\ closing' \subseteq Addrs
        BY <2>1, ConstantsAssumption DEF Ctl, TypeOK, Coherent, ConstantsAssumption
    <2>3. failure' \in BOOLEAN
        BY <2>1 DEF TypeOK
    <2>4. TypeOK'
        BY <2>1, <2>2, <2>3 DEF TypeOK
    <2>5. Coherent'
        BY <2>1, <2>2 DEF Coherent
    <2> QED BY <2>4, <2>5
<1>11. CASE ReconcileHttp
    <2>1. /\ pc = "http" /\ pc' = "account" /\ failure' \in {failure, TRUE}
          /\ pending' \in {pending, None}
          /\ \/ http' = http /\ closing' = closing
             \/ /\ http' = [addr |-> pending.http,
                            max  |-> IF http.addr = NoAddr THEN vhosts.cfg.val.max
                                     ELSE http.max]
                /\ closing' = IF http.addr \in {pending.http, NoAddr} THEN closing
                              ELSE closing \cup {http.addr}
          /\ UNCHANGED <<disk, vhosts, tls, https, seen, applied, trees, retry, job,
                         now, work, scan>>
        BY <1>11 DEF ReconcileHttp
    <2>2. pending \in [https: Addrs, http: Addrs \cup {NoAddr}]
        BY <2>1 DEF TypeOK, Coherent
    <2>3. vhosts.cfg.val.max \in Nat
        BY <1>0, ConfigParts
    <2>4. http' \in Ctl /\ closing' \subseteq Addrs
        BY <2>1, <2>2, <2>3 DEF Ctl, TypeOK
    <2>5. failure' \in BOOLEAN
        BY <2>1 DEF TypeOK
    <2>6. TypeOK'
        BY <2>1, <2>4, <2>5 DEF TypeOK
    <2>7. Coherent'
        BY <2>1 DEF Coherent
    <2> QED BY <2>6, <2>7
<1>12. CASE Account
    <2>1. /\ pc = "account" /\ pc' = "scan" /\ job' = "none"
          /\ cfg_last' = cfg_now /\ tls_last' = tls_now /\ links_last' = links_now
          /\ \/ wait' = 0 /\ backoff' = 1
             \/ wait' = backoff /\ backoff' = NextBackoff
          /\ UNCHANGED <<disk, live, applied, trees, pending, now, work, failure,
                         scan>>
        BY <1>12 DEF Account, RollSeen
    <2>2. wait' \in 0 .. MaxBackoff /\ backoff' \in 1 .. MaxBackoff
        BY <2>1, ConstantsAssumption DEF TypeOK, NextBackoff, ConstantsAssumption
    <2>3. TypeOK'
        BY <2>1, <2>2 DEF TypeOK
    <2>4. Coherent'
        BY <2>1 DEF Coherent
    <2> QED BY <2>3, <2>4
<1>13. CASE Scan
    <2>1. /\ pc = "scan" /\ pc' \in {"sleep", "rebuild"}
          /\ sigs' = SiteSigs(vhosts.dir) /\ todo' = DOMAIN vhosts.dir
          /\ UNCHANGED <<disk, live, seen, applied, trees, pending, retry, job, now,
                         work, failure>>
        BY <1>13 DEF Scan
    <2>2. IsMap(sigs', Sites, Nat) /\ DOMAIN sigs' = DOMAIN vhosts.dir /\ todo' \subseteq Sites
        BY <2>1, DiskParts DEF TypeOK, IsVhosts, IsMap
    <2>3. TypeOK'
        BY <2>1, <2>2 DEF TypeOK
    <2>4. Coherent'
        BY <2>1, <2>2 DEF Coherent
    <2> QED BY <2>3, <2>4
<1>14. ASSUME NEW s \in Sites, Rebuild(s)
       PROVE  TypeOK' /\ Coherent'
    <2> DEFINE t == tree[vhosts.dir[s]]
    <2>1. /\ pc = "rebuild" /\ s \in todo /\ todo' = todo \ {s}
          /\ pc' \in {"sleep", "rebuild"}
          /\ tree_last' = [tree_last EXCEPT ![s] = sigs[s]]
          /\ UNCHANGED <<disk, tls, listeners, seen, applied, pending, retry, job,
                         now, work, failure, sigs>>
        BY <1>14 DEF Rebuild
    <2>2. \/ /\ vhosts' = [vhosts EXCEPT !.content[s] = t.sig]
             /\ tree_applied' = [x \in DOMAIN tree_applied |->
                    IF x \in OfSite(s) THEN sigs[s] ELSE tree_applied[x]]
          \/ UNCHANGED <<vhosts, tree_applied>>
        BY <1>14 DEF Rebuild
    <2>3. s \in DOMAIN vhosts.dir /\ sigs[s] \in Nat
        BY <2>1 DEF TypeOK, Coherent, IsMap
    <2>4. t.sig \in Nat
        BY <2>3 DEF TypeOK, IsVhosts, IsMap
    <2>5. /\ IsVhosts(vhosts') /\ vhosts'.dir = vhosts.dir
          /\ DOMAIN vhosts'.content = DOMAIN vhosts'.dir
        <3> HIDE DEF t
        <3>1. CASE UNCHANGED vhosts
            BY <3>1 DEF TypeOK, Coherent
        <3>2. CASE vhosts' = [vhosts EXCEPT !.content[s] = t.sig]
            BY <3>2, <2>4 DEF TypeOK, Coherent, IsVhosts, IsMap
        <3> QED BY <2>2, <3>1, <3>2
    <2>6. IsMap(tree_applied', Sites, Nat)
        BY <2>2, <2>3 DEF TypeOK, IsMap
    <2>7. IsMap(tree_last', Sites, Nat)
        BY <2>1, <2>3 DEF TypeOK, IsMap
    <2>8. TypeOK'
        BY <2>1, <2>5, <2>6, <2>7 DEF TypeOK
    <2>9. Coherent'
        BY <2>1, <2>5 DEF Coherent
    <2> QED BY <2>8, <2>9
<1>15. CASE Edit
    <2>1. UNCHANGED <<live, seen, applied, trees, pending, retry, pc, job,
                      now, work, failure, scan>>
        BY <1>15 DEF Edit
    <2>2. /\ cfgFile' \in Versions
          /\ pem' \in [Certs -> [sig: Nat, ok: BOOLEAN]]
          /\ link' \in [Roots -> Dirs \cup {NoDir}]
          /\ tree' \in [Dirs -> [sig: Nat, ok: BOOLEAN]]
          /\ busy' \subseteq Addrs /\ edits' \in [EditKinds -> Nat]
        <3>1. \E k \in EditKinds : MayEdit(k)
            BY <1>15 DEF Edit, WriteConfig, WritePem, FlipLink, WriteTree, TogglePort, EditKinds
        <3>2. edits' \in [EditKinds -> Nat]
            BY <3>1 DEF MayEdit, TypeOK
        <3>3. CASE WriteConfig
            BY <3>2, <3>3 DEF WriteConfig, TypeOK, Versions
        <3>4. CASE WritePem
            BY <3>2, <3>4 DEF WritePem, TypeOK
        <3>5. CASE FlipLink
            BY <3>2, <3>5 DEF FlipLink, TypeOK
        <3>6. CASE WriteTree
            BY <3>2, <3>6 DEF WriteTree, TypeOK
        <3>7. CASE TogglePort
            BY <3>2, <3>7 DEF TogglePort, TypeOK
        <3> QED BY <1>15, <3>3, <3>4, <3>5, <3>6, <3>7 DEF Edit
    <2> QED BY <2>1, <2>2 DEF TypeOK, Coherent
<1>16. ASSUME NEW a \in Addrs, CloseRetired(a)
       PROVE  TypeOK' /\ Coherent'
    BY <1>16 DEF CloseRetired, TypeOK, Coherent
<1>17. CASE UNCHANGED vars
    BY <1>17 DEF vars, TypeOK, Coherent
<1> QED
    BY <1>1, <1>2, <1>3, <1>4, <1>5, <1>6, <1>7, <1>8, <1>9, <1>10, <1>11, <1>12, <1>13,
       <1>14, <1>15, <1>16, <1>17 DEF Next, WatcherStep, Exited

\* The types hold in every state.
LEMMA Inductive == Spec => [](TypeOK /\ Coherent)
<1>1. Init => TypeOK /\ Coherent
    BY InitTyped
<1>2. (TypeOK /\ Coherent) /\ [Next]_vars => (TypeOK /\ Coherent)'
    BY StepTyped
<1> QED BY <1>1, <1>2, PTL DEF Spec

\* The watcher keeps its types: every signature recorded, every delay, every
\* address and every stage of a tick stays in its range.
THEOREM Typed == Spec => []TypeOK
BY Inductive, PTL

----------------------------------------------------------------------------
(* No edit of the config file is lost *)

\* A signature once taken is never ahead of the file, and what was parsed is
\* the file itself as long as the signature that goes with it is the file's.
ConfigTaken ==
    /\ cfg_applied <= cfgFile.sig /\ cfg_now <= cfgFile.sig
    /\ sampled.config <= cfgFile.sig
    /\ job = "boot" /\ pc = "sample" => cfg = cfgFile
    /\ job = "boot" /\ pc \in {"links", "tls", "vhosts", "start"}
          /\ sampled.config = cfgFile.sig => cfg = cfgFile
    /\ job = "config" /\ pc \in {"sample", "links", "tls", "vhosts", "swap"}
          /\ cfg_now = cfgFile.sig => cfg = cfgFile

\* The operators' side of it: a write of the file makes every signature taken
\* before it stale, so nothing claims to have applied it.
LEMMA ConfigWritten ==
    ASSUME TypeOK, ConfigTaken, WriteConfig,
           <<"config", "boot", "sample">> \in CalmWindows,
           UNCHANGED <<cfg_applied, cfg_now, cfg, sampled, job, pc, vhosts>>
    PROVE  ConfigTaken' /\ NoLostConfigEdit'
<1>1. cfgFile'.sig = cfgFile.sig + 1 /\ cfgFile.sig \in Nat
    BY DEF WriteConfig, TypeOK, Versions
<1>2. ~(job = "boot" /\ pc = "sample")
    BY DEF WriteConfig, MayEdit
<1>3. /\ cfg_applied \in Nat /\ cfg_now \in Nat /\ sampled.config \in Nat
    BY DEF TypeOK, IsSample
<1> QED BY <1>1, <1>2, <1>3 DEF ConfigTaken, NoLostConfigEdit

\* Every step keeps the signatures taken behind the config file.
LEMMA ConfigStep ==
    ASSUME TypeOK, Coherent, ConfigTaken, NoLostConfigEdit, [Next]_vars,
           <<"config", "boot", "sample">> \in CalmWindows
    PROVE  ConfigTaken' /\ NoLostConfigEdit'
<1> USE DEF disk, live, listeners, seen, applied, trees, retry, now, work, scan
<1>0. cfgFile.sig \in Nat
    BY DEF TypeOK, Versions
<1> USE DEF ConfigTaken, NoLostConfigEdit, Running
<1>1. CASE Load
    BY <1>1 DEF Load, Fail
<1>2. CASE Sample
    <2>1. /\ sampled'.config = cfgFile.sig /\ pc = "sample" /\ pc' = "links"
          /\ UNCHANGED <<cfgFile, vhosts, cfg_applied, cfg_now, cfg, job>>
        BY <1>2 DEF Sample
    <2> QED BY <2>1, <1>0
<1>3. CASE SampleLinks
    <2>1. sampled'.config = sampled.config
        BY <1>3 DEF SampleLinks, TypeOK, IsSample
    <2> QED BY <1>3, <2>1 DEF SampleLinks
<1>4. CASE BuildTls
    <2>1. /\ pc = "tls" /\ pc' \in {"vhosts", "https", "dead"}
          /\ UNCHANGED <<cfgFile, vhosts, cfg_applied, cfg_now, cfg, job, sampled>>
        BY <1>4 DEF BuildTls, Fail
    <2> QED BY <2>1
<1>5. CASE BuildVhosts
    <2>1. /\ pc = "vhosts" /\ pc' \in {"start", "swap", "https", "dead"}
          /\ UNCHANGED <<cfgFile, vhosts, cfg_applied, cfg_now, cfg, job, sampled>>
        BY <1>5 DEF BuildVhosts, Fail
    <2> QED BY <2>1, <1>5
<1>6. CASE Start
    <2>1. /\ pc = "start" /\ job = "boot" /\ pc' \in {"sleep", "dead"}
          /\ UNCHANGED <<cfgFile, cfg_now, cfg, sampled>>
          /\ \/ UNCHANGED <<vhosts, cfg_applied, job>>
             \/ vhosts' = NewVhosts /\ cfg_applied' = sampled.config
        BY <1>6 DEF Start, Coherent
    <2> QED BY <2>1 DEF NewVhosts
<1>7. CASE Wake
    BY <1>7, <1>0 DEF Wake, Coherent, InTick
<1>8. CASE Decide
    <2>1. /\ pc = "decide" /\ pc' \in {"https", "load", "scan"}
          /\ UNCHANGED <<cfgFile, vhosts, cfg_applied, cfg_now, cfg, sampled>>
          /\ job # "boot"
        BY <1>8 DEF Decide, Coherent, InTick
    <2> QED BY <2>1
<1>9. CASE Swap
    <2>1. /\ pc = "swap" /\ job = "config" /\ pc' = "https" /\ vhosts'.cfg = cfg
          /\ cfg_applied' = cfg_now
          /\ UNCHANGED <<cfgFile, cfg_now, cfg, sampled, job>>
        BY <1>9 DEF Swap, NewVhosts, AppliedConfig, Coherent
    <2> QED BY <2>1
<1>10. CASE RebindHttps
    <2>1. /\ pc = "https" /\ pc' \in {"account", "http"}
          /\ UNCHANGED <<cfgFile, vhosts, cfg_applied, cfg_now, cfg, sampled, job>>
        BY <1>10 DEF RebindHttps, SkipsHttp
    <2> QED BY <2>1
<1>11. CASE ReconcileHttp
    <2>1. /\ pc = "http" /\ pc' = "account"
          /\ UNCHANGED <<cfgFile, vhosts, cfg_applied, cfg_now, cfg, sampled, job>>
        BY <1>11 DEF ReconcileHttp
    <2> QED BY <2>1
<1>12. CASE Account
    BY <1>12 DEF Account, Coherent, InTick
<1>13. CASE Scan
    BY <1>13 DEF Scan
<1>14. ASSUME NEW s \in Sites, Rebuild(s)
       PROVE  ConfigTaken' /\ NoLostConfigEdit'
    <2>1. /\ pc = "rebuild" /\ pc' \in {"sleep", "rebuild"}
          /\ UNCHANGED <<cfgFile, cfg_applied, cfg_now, cfg, sampled, job>>
        BY <1>14 DEF Rebuild
    <2>2. vhosts'.cfg = vhosts.cfg
        BY <1>14 DEF Rebuild, TypeOK, IsVhosts
    <2> QED BY <2>1, <2>2
<1>15. CASE Edit
    <2>1. UNCHANGED <<cfg_applied, cfg_now, cfg, sampled, job, pc, vhosts>>
        BY <1>15 DEF Edit
    <2>2. CASE WriteConfig
        BY <2>1, <2>2, ConfigWritten
    <2>3. CASE ~WriteConfig
        BY <1>15, <2>1, <2>3 DEF Edit, WritePem, FlipLink, WriteTree, TogglePort
    <2> QED BY <2>2, <2>3
<1>16. ASSUME NEW a \in Addrs, CloseRetired(a)
       PROVE  ConfigTaken' /\ NoLostConfigEdit'
    BY <1>16 DEF CloseRetired
<1>17. CASE UNCHANGED vars
    BY <1>17 DEF vars
<1> QED
    BY <1>1, <1>2, <1>3, <1>4, <1>5, <1>6, <1>7, <1>8, <1>9, <1>10, <1>11, <1>12, <1>13,
       <1>14, <1>15, <1>16, <1>17 DEF Next, WatcherStep, Exited

\* An edit of the config file is never swallowed, whenever it lands: the thread
\* records the signature it took before it read the text (watch), so that an
\* edit made while it builds is seen at the next tick.  At boot that order is
\* the other way round, hence the one window the operators must leave alone.
THEOREM ConfigEditsKept ==
    ASSUME <<"config", "boot", "sample">> \in CalmWindows
    PROVE  Spec => []NoLostConfigEdit
<1>1. Init => ConfigTaken /\ NoLostConfigEdit
    BY DEF Init, ConfigTaken, NoLostConfigEdit, Running
<1>2. TypeOK /\ Coherent /\ ConfigTaken /\ NoLostConfigEdit /\ [Next]_vars
        => (ConfigTaken /\ NoLostConfigEdit)'
    BY ConfigStep
<1> QED BY <1>1, <1>2, Inductive, PTL DEF Spec

----------------------------------------------------------------------------
(* The listeners follow the live config *)

\* What is still to be reconciled is what the live config asks for, and the
\* HTTP arm is reached only with HTTPS already in place.
Reconciling ==
    /\ pending # None => /\ pending.https = vhosts.cfg.val.https
                         /\ pending.http = vhosts.cfg.val.http
    /\ pc = "http" => https.addr = vhosts.cfg.val.https
    /\ ~Running => pending = None

\* Every step keeps the listeners in step with the config.
LEMMA ListenersStep ==
    ASSUME TypeOK, Coherent, Reconciling, ListenersFollowConfig, [Next]_vars
    PROVE  Reconciling' /\ ListenersFollowConfig'
<1> USE DEF disk, live, listeners, seen, applied, trees, retry, now, work, scan
<1> USE DEF Reconciling, ListenersFollowConfig, Running
<1>1. CASE Load \/ Sample \/ SampleLinks \/ Wake \/ Scan
    <2>1. /\ UNCHANGED <<vhosts, https, http, pending, job>> /\ pc' # "http"
        BY <1>1 DEF Load, Fail, Sample, SampleLinks, Wake, Scan
    <2> QED BY <2>1
<1>2. CASE BuildTls
    <2>1. /\ UNCHANGED <<vhosts, https, http, pending, job>> /\ pc' # "http"
        BY <1>2 DEF BuildTls, Fail
    <2> QED BY <2>1
<1>3. CASE BuildVhosts
    <2>1. /\ UNCHANGED <<vhosts, https, http, pending, job>> /\ pc' # "http"
        BY <1>3 DEF BuildVhosts, Fail
    <2> QED BY <2>1
<1>4. CASE Start
    <2>1. /\ pc = "start" /\ job = "boot" /\ pc' # "http" /\ pending' = pending
          /\ \/ UNCHANGED <<vhosts, https, http, job>>
             \/ /\ vhosts'.cfg = cfg
                /\ https' = [addr |-> cfg.val.https, max |-> cfg.val.max]
                /\ http' = [addr |-> cfg.val.http, max |-> cfg.val.max]
        BY <1>4 DEF Start, NewVhosts, Coherent
    <2> QED BY <2>1
<1>5. CASE Decide
    <2>1. /\ UNCHANGED <<vhosts, https, http, pending>> /\ pc' # "http"
          /\ job # "boot" /\ job' # "boot"
        BY <1>5 DEF Decide, Coherent, InTick
    <2> QED BY <2>1
<1>6. CASE Swap
    <2>1. /\ pc' = "https" /\ job # "boot" /\ job' = job /\ vhosts'.cfg = cfg
          /\ https' = [https EXCEPT !.max = cfg.val.max]
          /\ http' = [http EXCEPT !.max = cfg.val.max]
          /\ pending' = [https |-> cfg.val.https, http |-> cfg.val.http]
        BY <1>6 DEF Swap, AdoptLimit, NewVhosts, Coherent
    <2>2. cfg.val.https \in Addrs /\ cfg.val.http \in Addrs \cup {NoAddr}
        BY ConfigParts DEF TypeOK, Versions
    <2>3. pending' # None
        <3>1. None \notin [https: Addrs, http: Addrs \cup {NoAddr}]
            BY ConstantsAssumption, Zenon DEF ConstantsAssumption
        <3> QED BY <2>1, <2>2, <3>1
    <2> QED BY <2>1, <2>3 DEF TypeOK, Ctl
<1>7. CASE RebindHttps
    <2>1. /\ pc = "https" /\ UNCHANGED <<vhosts, http, pending, job>>
          /\ \/ pc' # "http" /\ https' = https
             \/ /\ pending # None /\ https.addr = pending.https /\ https' = https
             \/ /\ pending # None /\ https' = [https EXCEPT !.addr = pending.https]
        BY <1>7 DEF RebindHttps, SkipsHttp
    <2> QED BY <2>1 DEF TypeOK, Ctl
<1>8. CASE ReconcileHttp
    <2>1. /\ pc = "http" /\ pc' = "account" /\ job # "boot" /\ pending # None
          /\ UNCHANGED <<vhosts, https, job>>
          /\ \/ http' = http /\ pending' = pending
             \/ /\ http' = [addr |-> pending.http,
                            max  |-> IF http.addr = NoAddr THEN vhosts.cfg.val.max
                                     ELSE http.max]
                /\ pending' = None
        BY <1>8 DEF ReconcileHttp, Coherent, InTick
    <2> QED BY <2>1
<1>9. CASE Account
    <2>1. /\ job # "boot" /\ job' = "none" /\ pc' = "scan"
          /\ UNCHANGED <<vhosts, https, http, pending>>
        BY <1>9 DEF Account, Coherent, InTick
    <2> QED BY <2>1
<1>10. ASSUME NEW s \in Sites, Rebuild(s)
       PROVE  Reconciling' /\ ListenersFollowConfig'
    <2>1. pc' # "http" /\ UNCHANGED <<https, http, pending, job>>
        BY <1>10 DEF Rebuild
    <2>2. vhosts'.cfg = vhosts.cfg
        BY <1>10 DEF Rebuild, TypeOK, IsVhosts
    <2> QED BY <2>1, <2>2
<1>11. CASE Edit
    BY <1>11 DEF Edit
<1>12. ASSUME NEW a \in Addrs, CloseRetired(a)
       PROVE  Reconciling' /\ ListenersFollowConfig'
    BY <1>12 DEF CloseRetired
<1>13. CASE UNCHANGED vars
    BY <1>13 DEF vars
<1> QED
    BY <1>1, <1>2, <1>3, <1>4, <1>5, <1>6, <1>7, <1>8, <1>9, <1>10, <1>11, <1>12, <1>13
    DEF Next, WatcherStep, Exited

\* The listeners are in step with the config in every state.
LEMMA ListenersInv == Spec => [](Reconciling /\ ListenersFollowConfig)
<1>1. Init => Reconciling /\ ListenersFollowConfig
    BY DEF Init, Reconciling, ListenersFollowConfig, Running
<1>2. TypeOK /\ Coherent /\ Reconciling /\ ListenersFollowConfig /\ [Next]_vars
        => (Reconciling /\ ListenersFollowConfig)'
    BY ListenersStep
<1> QED BY <1>1, <1>2, Inductive, PTL DEF Spec

\* Whatever fails to bind and however often it is retried, the running
\* listeners have the cap of the live config at every moment, and its
\* addresses as soon as nothing is pending (watch, rebind).
THEOREM ListenersFollow == Spec => []ListenersFollowConfig
BY ListenersInv, PTL

\* HTTP is moved, started or given up only once HTTPS is where the live config
\* puts it: a bind error never leaves a torn pair of addresses (watch).
THEOREM ListenersNeverTorn == Spec => NoTornListeners
<1>1. TypeOK /\ Coherent /\ Reconciling /\ [Next]_vars
        => [Running /\ http'.addr # http.addr
              => https.addr = vhosts.cfg.val.https]_vars
    <2> SUFFICES ASSUME TypeOK, Coherent, Reconciling, Next, Running,
                        http'.addr # http.addr
                 PROVE  https.addr = vhosts.cfg.val.https
        OBVIOUS
    <2> USE DEF live, listeners
    <2>1. CASE ReconcileHttp
        BY <2>1 DEF ReconcileHttp, Reconciling
    <2>2. CASE Start
        BY <2>2 DEF Start, Coherent, Running
    <2>3. CASE Swap
        BY <2>3 DEF Swap, AdoptLimit, TypeOK, Ctl
    <2>4. CASE Load \/ Sample \/ SampleLinks \/ BuildTls \/ BuildVhosts \/ Wake
               \/ Decide \/ RebindHttps \/ Account \/ Scan
               \/ (\E s \in Sites : Rebuild(s)) \/ Edit \/ Exited
               \/ (\E a \in Addrs : CloseRetired(a))
        <3>1. http' = http
            BY <2>4 DEF Load, Sample, SampleLinks, BuildTls, BuildVhosts, Wake, Decide,
               RebindHttps, Account, Scan, Rebuild, Edit, Exited, CloseRetired, vars
        <3> QED BY <3>1
    <2> QED BY <2>1, <2>2, <2>3, <2>4 DEF Next, WatcherStep
<1> QED BY <1>1, Inductive, ListenersInv, PTL DEF Spec, NoTornListeners

----------------------------------------------------------------------------
(* No renewal is lost *)

\* No key that two maps share has a later version in the first.
NotAhead(f, g) == \A x \in DOMAIN f \cap DOMAIN g : f[x] <= g[x]

\* Every certificate version recorded, built or served is one of the past; what
\* reads as applied is not ahead of what is served; and what is served covers
\* the names of its config.
PemTaken ==
    /\ NotAhead(tls_applied, tls.pem)
    /\ NotAhead(tls.pem, TlsSig(Certs))
    /\ NotAhead(tls_now, TlsSig(Certs))
    /\ NotAhead(sampled.tls, TlsSig(Certs))
    /\ NotAhead(built.tls.pem, TlsSig(Certs))
    /\ pc \in {"vhosts", "start", "swap"} =>
          /\ built.tls.cfg = cfg
          /\ DOMAIN built.tls.pem = tls_paths(cfg.val)
          /\ NotAhead(sampled.tls, built.tls.pem)
    /\ Running => /\ DOMAIN tls.pem = tls_paths(tls.cfg.val)
                  /\ tls_files = tls_paths(vhosts.cfg.val)

\* The TLS table is of the text that reads as applied, also after the cert-only
\* arm, which parses the file once more.
TlsTaken ==
    /\ Running /\ cfg_applied = cfgFile.sig => tls.cfg = cfgFile
    /\ job = "certs" /\ pc = "tls" =>
          /\ cfg_applied <= cfg.sig /\ cfg.sig <= cfgFile.sig
          /\ cfg.sig = cfgFile.sig => cfg = cfgFile

\* A version sampled before is not ahead of one sampled now.
LEMMA PemSampled ==
    ASSUME TypeOK, NEW f, IsMap(f, Certs, Nat), NotAhead(f, TlsSig(Certs)),
           NEW files \in SUBSET Certs
    PROVE  /\ NotAhead(f, TlsSig(files))
           /\ NotAhead(TlsSig(files), TlsSig(Certs))
           /\ DOMAIN TlsSig(files) = files
BY DEF NotAhead, TlsSig, TypeOK, IsMap

\* Operators only ever make a version later.
LEMMA PemGrows ==
    ASSUME TypeOK, Edit
    PROVE  \A f : IsMap(f, Certs, Nat) /\ NotAhead(f, TlsSig(Certs))
                     => NotAhead(f, TlsSig(Certs)')
<1>1. \A p \in Certs : pem'[p].sig \in Nat /\ pem[p].sig <= pem'[p].sig
    <2>1. CASE WritePem
        BY <2>1 DEF WritePem, TypeOK
    <2>2. CASE ~WritePem
        BY <2>2 DEF Edit, WriteConfig, FlipLink, WriteTree, TogglePort, TypeOK
    <2> QED BY <2>1, <2>2
<1>2. /\ \A p \in Certs : pem[p].sig \in Nat
      /\ TlsSig(Certs) = [p \in Certs |-> pem[p].sig]
      /\ TlsSig(Certs)' = [p \in Certs |-> pem'[p].sig]
    BY DEF TlsSig, TypeOK
<1> QED BY <1>1, <1>2 DEF NotAhead, IsMap

\* Where the maps of versions come from.
LEMMA PemMaps ==
    ASSUME TypeOK
    PROVE  /\ IsMap(tls_applied, Certs, Nat) /\ IsMap(tls_now, Certs, Nat)
           /\ IsMap(sampled.tls, Certs, Nat) /\ IsMap(tls.pem, Certs, Nat)
           /\ IsMap(built.tls.pem, Certs, Nat)
           /\ tls_files \subseteq Certs /\ tls_paths(cfg.val) \subseteq Certs
BY ConfigParts DEF TypeOK, IsSample, IsTls, IsBuilt, Versions

\* Every step keeps what is known of the certificates behind their files.
LEMMA PemStep ==
    ASSUME TypeOK, Coherent, PemTaken, [Next]_vars
    PROVE  PemTaken'
<1> USE DEF disk, live, listeners, seen, applied, trees, retry, now, work, scan
<1>0. CASE /\ UNCHANGED <<tls_applied, tls, tls_now, sampled, pem, tls_files, vhosts>>
           /\ pc' \in {"vhosts", "start", "swap"} => pc = "vhosts" /\ UNCHANGED cfg
           /\ built'.tls = built.tls
           /\ Running' = Running
    BY <1>0 DEF PemTaken, TlsSig
<1>1. CASE Load
    <2>1. /\ UNCHANGED <<tls_applied, tls, tls_now, sampled, pem, tls_files, vhosts, built, job>>
          /\ pc' \in {"tls", "sample", "dead", "https"}
        BY <1>1 DEF Load, Fail
    <2> QED BY <2>1, <1>0 DEF Running
<1>2. CASE Sample
    <2>1. /\ UNCHANGED <<tls_applied, tls, tls_now, pem, tls_files, vhosts, built, job>>
          /\ pc' = "links" /\ sampled'.tls = TlsSig(tls_paths(cfg.val))
        BY <1>2 DEF Sample
    <2>2. NotAhead(sampled'.tls, TlsSig(Certs))
        BY <2>1, PemMaps, PemSampled DEF PemTaken
    <2> QED BY <2>1, <2>2 DEF PemTaken, Running, TlsSig
<1>3. CASE SampleLinks
    <2>1. /\ UNCHANGED <<tls_applied, tls, tls_now, pem, tls_files, vhosts, built, job>>
          /\ pc' = "tls" /\ sampled'.tls = sampled.tls
        BY <1>3 DEF SampleLinks, TypeOK, IsSample
    <2> QED BY <2>1 DEF PemTaken, Running, TlsSig
<1>4. CASE BuildTls
    <2> DEFINE new == [cfg |-> cfg, pem |-> TlsSig(tls_paths(cfg.val))]
    <2>1. /\ new.cfg = cfg /\ new.pem = TlsSig(tls_paths(cfg.val))
        OBVIOUS
    <2>2. /\ NotAhead(new.pem, TlsSig(Certs)) /\ DOMAIN new.pem = tls_paths(cfg.val)
          /\ NotAhead(sampled.tls, new.pem) /\ NotAhead(tls_now, new.pem)
        BY <2>1, PemMaps, PemSampled DEF PemTaken
    <2> HIDE DEF new
    <2>3. /\ UNCHANGED <<vhosts, tls_files, tls_now, sampled, pem, cfg, job>>
          /\ pc' \in {"vhosts", "https", "dead"}
          /\ \/ /\ built' = [built EXCEPT !.tls = new] /\ pc' = "vhosts"
                /\ UNCHANGED <<tls, tls_applied>>
             \/ /\ tls' = new /\ tls_applied' = tls_now
                /\ pc' = "https" /\ UNCHANGED built
             \/ /\ UNCHANGED <<built, tls, tls_applied>> /\ pc' # "vhosts"
        BY <1>4 DEF BuildTls, Fail, new
    <2>4. /\ \/ built'.tls = new /\ pc' = "vhosts"
             \/ built'.tls = built.tls /\ pc' # "vhosts"
        BY <2>3 DEF TypeOK, IsBuilt
    <2> QED BY <2>1, <2>2, <2>3, <2>4 DEF PemTaken, Running, TlsSig
<1>5. CASE BuildVhosts
    <2>1. /\ UNCHANGED <<tls_applied, tls, tls_now, sampled, pem, tls_files, vhosts, cfg, job>>
          /\ pc = "vhosts" /\ built'.tls = built.tls
        BY <1>5 DEF BuildVhosts, Fail
    <2> QED BY <2>1, <1>0 DEF Running
<1>6. CASE Start
    <2>1. /\ UNCHANGED <<pem, tls_now, sampled, built, cfg>>
          /\ pc = "start" /\ pc' \in {"sleep", "dead"}
          /\ \/ UNCHANGED <<tls, tls_applied, tls_files, vhosts, job>>
             \/ /\ tls' = built.tls /\ tls_applied' = sampled.tls
                /\ tls_files' = tls_paths(cfg.val) /\ vhosts'.cfg = cfg
        BY <1>6 DEF Start, NewVhosts
    <2> QED BY <2>1 DEF PemTaken, Running, TlsSig
<1>7. CASE Wake
    <2>1. /\ UNCHANGED <<pem, tls_applied, tls, sampled, built, tls_files, vhosts, job>>
          /\ pc' = "decide" /\ tls_now' = TlsSig(tls_files)
        BY <1>7 DEF Wake
    <2>2. NotAhead(tls_now', TlsSig(Certs))
        BY <2>1, PemMaps, PemSampled DEF PemTaken
    <2> QED BY <2>1, <2>2 DEF PemTaken, Running, TlsSig
<1>8. CASE Decide
    <2>1. /\ UNCHANGED <<tls_applied, tls, tls_now, sampled, pem, tls_files, vhosts, built>>
          /\ pc' \in {"https", "load", "scan"} /\ job # "boot" /\ job' # "boot"
        BY <1>8 DEF Decide, Coherent, InTick
    <2> QED BY <2>1, <1>0 DEF Running
<1>9. CASE Swap
    <2>1. /\ UNCHANGED <<pem, sampled, built, cfg, job>> /\ pc = "swap" /\ pc' = "https"
          /\ tls' = built.tls /\ tls_applied' = sampled.tls
          /\ tls_files' = tls_paths(cfg.val) /\ vhosts'.cfg = cfg
          /\ tls_now' = TlsSig(tls_paths(cfg.val))
        BY <1>9 DEF Swap, NewVhosts, AppliedTls
    <2>2. NotAhead(tls_now', TlsSig(Certs))
        BY <2>1, PemMaps, PemSampled DEF PemTaken
    <2> QED BY <2>1, <2>2 DEF PemTaken, Running, TlsSig
<1>10. CASE RebindHttps \/ ReconcileHttp \/ Scan
    <2>1. /\ UNCHANGED <<tls_applied, tls, tls_now, sampled, pem, tls_files, vhosts, built, job>>
          /\ pc' \in {"account", "http", "sleep", "rebuild"}
        BY <1>10 DEF RebindHttps, SkipsHttp, ReconcileHttp, Scan
    <2> QED BY <2>1, <1>0 DEF Running
<1>11. CASE Account
    <2>1. /\ UNCHANGED <<tls_applied, tls, tls_now, sampled, pem, tls_files, vhosts, built>>
          /\ pc' = "scan" /\ job # "boot" /\ job' # "boot"
        BY <1>11 DEF Account, Coherent, InTick
    <2> QED BY <2>1, <1>0 DEF Running
<1>12. ASSUME NEW s \in Sites, Rebuild(s)
       PROVE  PemTaken'
    <2>1. /\ UNCHANGED <<tls_applied, tls, tls_now, sampled, pem, tls_files, built, job>>
          /\ pc' \in {"sleep", "rebuild"}
        BY <1>12 DEF Rebuild
    <2>2. vhosts'.cfg = vhosts.cfg
        BY <1>12 DEF Rebuild, TypeOK, IsVhosts
    <2> QED BY <2>1, <2>2 DEF PemTaken, Running, TlsSig
<1>13. CASE Edit
    <2>1. UNCHANGED <<tls_applied, tls, tls_now, sampled, tls_files, vhosts, built, cfg, pc, job>>
        BY <1>13 DEF Edit
    <2>2. /\ NotAhead(tls.pem, TlsSig(Certs)') /\ NotAhead(tls_now, TlsSig(Certs)')
          /\ NotAhead(sampled.tls, TlsSig(Certs)')
          /\ NotAhead(built.tls.pem, TlsSig(Certs)')
        BY <1>13, PemMaps, PemGrows DEF PemTaken
    <2> QED BY <2>1, <2>2 DEF PemTaken, Running
<1>14. CASE Exited \/ (\E a \in Addrs : CloseRetired(a)) \/ UNCHANGED vars
    <2>1. UNCHANGED <<tls_applied, tls, tls_now, sampled, pem, tls_files, vhosts, built, cfg, pc, job>>
        BY <1>14 DEF Exited, CloseRetired, vars
    <2> QED BY <2>1 DEF PemTaken, Running, TlsSig
<1> QED
    BY <1>1, <1>2, <1>3, <1>4, <1>5, <1>6, <1>7, <1>8, <1>9, <1>10, <1>11, <1>12, <1>13,
       <1>14 DEF Next, WatcherStep

\* Every step keeps the TLS table of the text that reads as applied.
LEMMA TlsStep ==
    ASSUME TypeOK, Coherent, ConfigTaken, PemTaken, TlsTaken, [Next]_vars
    PROVE  TlsTaken'
<1> USE DEF disk, live, listeners, seen, applied, trees, retry, now, work, scan
<1>0. /\ cfgFile.sig \in Nat /\ cfg.sig \in Nat /\ cfg_applied \in Nat
    BY DEF TypeOK, Versions
<1> USE DEF TlsTaken, Running
<1>1. CASE Load
    <2>1. /\ UNCHANGED <<cfgFile, cfg_applied, tls, job>>
          /\ pc' = "tls" => cfg' = cfgFile
        BY <1>1 DEF Load, Fail
    <2>2. cfg_applied <= cfgFile.sig
        BY DEF ConfigTaken
    <2> QED BY <2>1, <2>2, <1>0
<1>2. CASE Sample \/ BuildVhosts \/ RebindHttps \/ ReconcileHttp \/ Scan
    <2>1. /\ UNCHANGED <<cfgFile, cfg_applied, tls, job>> /\ pc' # "tls"
        BY <1>2 DEF Sample, BuildVhosts, Fail, RebindHttps, SkipsHttp, ReconcileHttp, Scan
    <2> QED BY <2>1
<1>3. CASE SampleLinks
    <2>1. /\ UNCHANGED <<cfgFile, cfg_applied, tls, job>> /\ job # "certs"
        BY <1>3 DEF SampleLinks, Coherent
    <2> QED BY <2>1
<1>4. CASE BuildTls
    <2>1. /\ UNCHANGED <<cfgFile, cfg_applied, job>> /\ pc = "tls" /\ pc' # "tls"
          /\ \/ tls' = tls
             \/ job = "certs" /\ tls'.cfg = cfg
        BY <1>4 DEF BuildTls, Fail
    <2> QED BY <2>1, <1>0
<1>5. CASE Start
    <2>1. /\ pc = "start" /\ job = "boot" /\ pc' # "tls" /\ UNCHANGED cfgFile
          /\ \/ UNCHANGED <<tls, cfg_applied, job>>
             \/ tls' = built.tls /\ cfg_applied' = sampled.config
        BY <1>5 DEF Start, Coherent
    <2>2. built.tls.cfg = cfg /\ (sampled.config = cfgFile.sig => cfg = cfgFile)
        BY <2>1 DEF PemTaken, ConfigTaken
    <2> QED BY <2>1, <2>2
<1>6. CASE Wake
    <2>1. UNCHANGED <<cfgFile, cfg_applied, tls, job>> /\ pc' = "decide"
        BY <1>6 DEF Wake
    <2> QED BY <2>1
<1>7. CASE Decide
    <2>1. /\ UNCHANGED <<cfgFile, cfg_applied, tls>> /\ job # "boot" /\ pc' # "tls"
        BY <1>7 DEF Decide, Coherent, InTick
    <2> QED BY <2>1
<1>8. CASE Swap
    <2>1. /\ pc = "swap" /\ job = "config" /\ job' = job /\ pc' = "https"
          /\ UNCHANGED cfgFile /\ tls' = built.tls /\ cfg_applied' = cfg_now
        BY <1>8 DEF Swap, AppliedConfig, Coherent
    <2>2. built.tls.cfg = cfg /\ (cfg_now = cfgFile.sig => cfg = cfgFile)
        BY <2>1 DEF PemTaken, ConfigTaken
    <2> QED BY <2>1, <2>2
<1>9. CASE Account
    <2>1. /\ UNCHANGED <<cfgFile, cfg_applied, tls>> /\ job # "boot" /\ pc' = "scan"
        BY <1>9 DEF Account, Coherent, InTick
    <2> QED BY <2>1
<1>10. ASSUME NEW s \in Sites, Rebuild(s)
       PROVE  TlsTaken'
    <2>1. UNCHANGED <<cfgFile, cfg_applied, tls, job>> /\ pc' # "tls"
        BY <1>10 DEF Rebuild
    <2> QED BY <2>1
<1>11. CASE Edit
    <2>1. UNCHANGED <<cfg_applied, tls, cfg, job, pc>>
        BY <1>11 DEF Edit
    <2>2. CASE WriteConfig
        <3>1. cfgFile'.sig = cfgFile.sig + 1 /\ cfg_applied <= cfgFile.sig
            BY <2>2 DEF WriteConfig, ConfigTaken
        <3> QED BY <2>1, <3>1, <1>0
    <2>3. CASE ~WriteConfig
        <3>1. cfgFile' = cfgFile
            BY <1>11, <2>3 DEF Edit, WritePem, FlipLink, WriteTree, TogglePort
        <3> QED BY <2>1, <3>1
    <2> QED BY <2>2, <2>3
<1>12. CASE Exited \/ (\E a \in Addrs : CloseRetired(a)) \/ UNCHANGED vars
    <2>1. UNCHANGED <<cfgFile, cfg_applied, tls, cfg, job, pc>>
        BY <1>12 DEF Exited, CloseRetired, vars
    <2> QED BY <2>1
<1> QED
    BY <1>1, <1>2, <1>3, <1>4, <1>5, <1>6, <1>7, <1>8, <1>9, <1>10, <1>11, <1>12
    DEF Next, WatcherStep

\* While config and certificates both read as applied, what was recorded is of
\* the names now served, no version of it is ahead of what is served, and none
\* of that is ahead of the disk: so all three are the same.
LEMMA NoRenewalLost ==
    ASSUME TypeOK, NoLostConfigEdit, PemTaken, TlsTaken
    PROVE  NoLostRenewal
<1> SUFFICES ASSUME Running, cfg_applied = cfgFile.sig, tls_applied = TlsSig(tls_files)
             PROVE  tls.pem = TlsSig(tls_paths(cfgFile.val))
    BY DEF NoLostRenewal
<1> DEFINE files == tls_paths(cfgFile.val)
<1>1. vhosts.cfg = cfgFile /\ tls.cfg = cfgFile
    BY DEF NoLostConfigEdit, TlsTaken
<1>2. files \subseteq Certs /\ tls_files = files /\ DOMAIN tls.pem = files
    BY <1>1, ConfigParts DEF PemTaken, TypeOK, Versions
<1> HIDE DEF files
<1>3. IsMap(tls.pem, Certs, Nat) /\ tls.pem = [p \in files |-> tls.pem[p]]
    BY <1>2, PemMaps DEF IsMap
<1>4. ASSUME NEW p \in files
      PROVE  tls.pem[p] = pem[p].sig
    <2>1. /\ tls_applied[p] = pem[p].sig /\ p \in DOMAIN tls_applied
          /\ p \in DOMAIN TlsSig(Certs) /\ TlsSig(Certs)[p] = pem[p].sig
        BY <1>2 DEF TlsSig
    <2>2. tls_applied[p] <= tls.pem[p] /\ tls.pem[p] <= pem[p].sig
        BY <1>2, <2>1 DEF PemTaken, NotAhead
    <2>3. tls.pem[p] \in Nat /\ pem[p].sig \in Nat
        BY <1>2, <1>3 DEF IsMap, TypeOK
    <2> QED BY <2>1, <2>2, <2>3
<1>5. tls.pem = TlsSig(files)
    BY <1>3, <1>4 DEF TlsSig
<1> QED BY <1>5 DEF files

\* A renewal of a certificate is never swallowed, whether it lands before, in
\* the middle of or after a reload, and whichever arm of watch picks it up: the
\* versions are sampled before the files are read, so that one written in
\* between is seen at the next tick.  The one window is that of ConfigEditsKept.
THEOREM RenewalsKept ==
    ASSUME <<"config", "boot", "sample">> \in CalmWindows
    PROVE  Spec => []NoLostRenewal
<1>1. Init => PemTaken /\ TlsTaken
    <2> SUFFICES ASSUME Init PROVE PemTaken /\ TlsTaken
        OBVIOUS
    <2>1. /\ tls_applied = <<>> /\ tls_now = <<>> /\ sampled.tls = <<>>
          /\ built.tls.pem = <<>> /\ tls.pem = <<>> /\ pc = "load" /\ job = "boot"
        BY DEF Init
    <2>2. \A f : NotAhead(<<>>, f)
        BY SMT DEF NotAhead
    <2> QED BY <2>1, <2>2 DEF PemTaken, TlsTaken, Running
<1>2. TypeOK /\ Coherent /\ ConfigTaken /\ PemTaken /\ TlsTaken /\ [Next]_vars
        => PemTaken' /\ TlsTaken'
    BY PemStep, TlsStep
<1>3. Init => ConfigTaken /\ NoLostConfigEdit
    BY DEF Init, ConfigTaken, NoLostConfigEdit, Running
<1>4. TypeOK /\ Coherent /\ ConfigTaken /\ NoLostConfigEdit /\ [Next]_vars
        => ConfigTaken' /\ NoLostConfigEdit'
    BY ConfigStep
<1>5. TypeOK /\ NoLostConfigEdit /\ PemTaken /\ TlsTaken => NoLostRenewal
    BY NoRenewalLost
<1> QED BY <1>1, <1>2, <1>3, <1>4, <1>5, Inductive, PTL DEF Spec
----------------------------------------------------------------------------
(* No deploy is lost *)

\* The links that go with the directories the roots of c resolved to.
LinksOf(c, dir) == [s \in Rooted(c) |-> <<c.root[s], dir[s]>>]

\* The jobs that sample and build content.
Building == job \in {"boot", "config"}

\* Assumed of the operators: they repoint no root from the moment the trees are
\* sampled to the moment they have been walked.
LinksHeldStill ==
    {"link"} \X {"boot", "config"} \X {"links", "tls", "vhosts"} \subseteq CalmWindows

\* What a build samples and what it builds are of the same directories, and the
\* sample is not the later one.
TreesTaken ==
    /\ NotAhead(sampled.trees, TreeSigs(Dirs))
    /\ Building /\ pc \in {"links", "tls", "vhosts"} =>
          DOMAIN sampled.trees = SampledDirs(cfg.val)
    /\ Building /\ pc \in {"tls", "vhosts"} => sampled.links = root_links(cfg.val)
    /\ pc \in {"start", "swap"} =>
          /\ DOMAIN built.dir = Rooted(cfg.val)
          /\ sampled.links = LinksOf(cfg.val, built.dir)
          /\ \A s \in DOMAIN built.dir :
                /\ built.dir[s] \in DOMAIN sampled.trees
                /\ sampled.trees[built.dir[s]] <= built.content[s]
                /\ built.content[s] <= tree[built.dir[s]].sig

\* The same of what is served: its links are those recorded, and every tree
\* recorded is at most as new as the content, which is at most as new as the disk.
TreesApplied ==
    /\ Running =>
          /\ DOMAIN vhosts.dir = Rooted(vhosts.cfg.val)
          /\ links_applied = LinksOf(vhosts.cfg.val, vhosts.dir)
          /\ DOMAIN tree_applied = DOMAIN vhosts.dir
          /\ \A s \in DOMAIN vhosts.dir :
                /\ tree_applied[s] <= vhosts.content[s]
                /\ vhosts.content[s] <= tree[vhosts.dir[s]].sig
    /\ pc = "rebuild" =>
          \A s \in DOMAIN sigs : sigs[s] <= tree[vhosts.dir[s]].sig

\* Operators only ever make the version of a tree later.
LEMMA TreeGrows ==
    ASSUME TypeOK, [Next]_vars
    PROVE  \A d \in Dirs : /\ tree[d].sig \in Nat /\ tree'[d].sig \in Nat
                           /\ tree[d].sig <= tree'[d].sig
<1> USE DEF disk, live, listeners
<1>1. CASE tree' = tree
    BY <1>1 DEF TypeOK
<1>2. CASE tree' # tree
    <2>1. WriteTree
        BY <1>2 DEF Next, WatcherStep, Load, Sample, SampleLinks, BuildTls, BuildVhosts,
           Start, Wake, Decide, Swap, RebindHttps, ReconcileHttp, Account, Scan, Rebuild,
           Exited, CloseRetired, Edit, WriteConfig, WritePem, FlipLink, TogglePort, vars
    <2> QED BY <2>1 DEF WriteTree, TypeOK
<1> QED BY <1>1, <1>2

\* What a step that leaves a build alone owes to it.
LEMMA TreesTakenKept ==
    ASSUME TypeOK, Coherent, TreesTaken, [Next]_vars, UNCHANGED sampled,
           Building' /\ pc' \in {"links", "tls", "vhosts"}
              => /\ Building /\ pc' = pc
                 /\ UNCHANGED <<cfg, link>>,
           pc' \in {"start", "swap"} => pc' = pc /\ UNCHANGED <<cfg, built>>
    PROVE  TreesTaken'
<1>1. NotAhead(sampled.trees, TreeSigs(Dirs)')
    <2>1. IsMap(sampled.trees, Dirs, Nat)
        BY DEF TypeOK, IsSample
    <2>2. /\ TreeSigs(Dirs) = [d \in Dirs |-> tree[d].sig]
          /\ TreeSigs(Dirs)' = [d \in Dirs |-> tree'[d].sig]
        BY DEF TreeSigs
    <2> QED BY <2>1, <2>2, TreeGrows DEF TreesTaken, NotAhead, IsMap
<1>2. ASSUME Building', pc' \in {"links", "tls", "vhosts"}
      PROVE  /\ DOMAIN sampled.trees = SampledDirs(cfg.val)'
             /\ pc' # "links" => sampled.links = root_links(cfg.val)'
    BY <1>2 DEF TreesTaken, SampledDirs, root_links, Rooted
<1>3. ASSUME pc' \in {"start", "swap"}
      PROVE  /\ DOMAIN built'.dir = Rooted(cfg'.val)
             /\ sampled'.links = LinksOf(cfg'.val, built'.dir)
             /\ \A s \in DOMAIN built'.dir :
                   /\ built'.dir[s] \in DOMAIN sampled'.trees
                   /\ sampled'.trees[built'.dir[s]] <= built'.content[s]
                   /\ built'.content[s] <= tree'[built'.dir[s]].sig
    <2>1. /\ pc \in {"start", "swap"} /\ UNCHANGED <<cfg, built, sampled>>
        BY <1>3
    <2>2. ASSUME NEW s \in DOMAIN built.dir
          PROVE  /\ built.dir[s] \in DOMAIN sampled.trees
                 /\ sampled.trees[built.dir[s]] <= built.content[s]
                 /\ built.content[s] <= tree'[built.dir[s]].sig
        <3>1. /\ built.dir[s] \in DOMAIN sampled.trees
              /\ sampled.trees[built.dir[s]] <= built.content[s]
              /\ built.content[s] <= tree[built.dir[s]].sig
            BY <2>1, <2>2 DEF TreesTaken
        <3>2. built.dir[s] \in Dirs
            BY <2>2 DEF TypeOK, IsBuilt, IsMap
        <3>3. /\ tree[built.dir[s]].sig \in Nat /\ tree'[built.dir[s]].sig \in Nat
              /\ tree[built.dir[s]].sig <= tree'[built.dir[s]].sig
            BY <3>2, TreeGrows
        <3>4. built.content[s] \in Nat
            BY <2>2 DEF TypeOK, Coherent, IsBuilt, IsMap
        <3> QED BY <3>1, <3>3, <3>4
    <2>3. /\ DOMAIN built.dir = Rooted(cfg.val)
          /\ sampled.links = LinksOf(cfg.val, built.dir)
        BY <2>1 DEF TreesTaken
    <2> QED BY <2>1, <2>2, <2>3
<1> QED
    BY <1>1, <1>2, <1>3 DEF TreesTaken

\* Every step keeps what was sampled of a tree behind the tree.
LEMMA TreesTakenStep ==
    ASSUME TypeOK, Coherent, TreesTaken, [Next]_vars, LinksHeldStill
    PROVE  TreesTaken'
<1> USE DEF disk, live, listeners, seen, applied, trees, retry, now, work, scan
<1>1. CASE Load
    <2>1. /\ UNCHANGED sampled /\ job' = job
          /\ pc' \in {"sample", "dead", "https"} \/ (pc' = "tls" /\ job = "certs")
        BY <1>1 DEF Load, Fail
    <2> QED BY <2>1, TreesTakenKept DEF Building
<1>2. CASE Sample
    <2>1. /\ pc' = "links" /\ job' = job /\ UNCHANGED <<cfg, link, tree>>
          /\ sampled'.trees = TreeSigs(SampledDirs(cfg.val))
        BY <1>2 DEF Sample
    <2>2. SampledDirs(cfg.val) \subseteq Dirs
        BY DiskParts DEF TypeOK, Versions
    <2>3. /\ DOMAIN sampled'.trees = SampledDirs(cfg.val)'
          /\ NotAhead(sampled'.trees, TreeSigs(Dirs)')
        BY <2>1, <2>2 DEF TreeSigs, NotAhead, TypeOK, SampledDirs, Rooted
    <2> QED BY <2>1, <2>3 DEF TreesTaken
<1>3. CASE SampleLinks
    <2>1. /\ pc = "links" /\ pc' = "tls" /\ job' = job /\ UNCHANGED <<cfg, link, tree>>
          /\ sampled'.trees = sampled.trees /\ sampled'.links = root_links(cfg.val)
        BY <1>3 DEF SampleLinks, TypeOK, IsSample
    <2> QED BY <2>1 DEF TreesTaken, Building, TreeSigs, SampledDirs, Rooted, root_links
<1>4. CASE BuildTls
    <2>1. /\ pc = "tls" /\ job' = job /\ UNCHANGED <<cfg, link, tree, sampled>>
          /\ pc' \in {"vhosts", "https", "dead"}
        BY <1>4 DEF BuildTls, Fail
    <2> QED BY <2>1 DEF TreesTaken, Building, TreeSigs, SampledDirs, Rooted, root_links
<1>5. CASE BuildVhosts
    <2> DEFINE c   == cfg.val
               dir == [s \in Rooted(c) |-> link[c.root[s]]]
    <2>1. /\ pc = "vhosts" /\ job' = job /\ job \in {"boot", "config"}
          /\ UNCHANGED <<cfg, link, tree, sampled>>
          /\ pc' \in {"start", "swap", "https", "dead"}
          /\ pc' \in {"start", "swap"} =>
                VhostsBuild(c) /\ built'.dir = dir /\ built'.content = SiteSigs(dir)
        BY <1>5 DEF BuildVhosts, Fail, Coherent
    <2>2. /\ DOMAIN sampled.trees = SampledDirs(c) /\ sampled.links = root_links(c)
          /\ NotAhead(sampled.trees, TreeSigs(Dirs))
        BY <2>1 DEF TreesTaken, Building
    <2>3. ASSUME pc' \in {"start", "swap"}
          PROVE  /\ DOMAIN built'.dir = Rooted(c)
                 /\ sampled.links = LinksOf(c, built'.dir)
                 /\ \A s \in DOMAIN built'.dir :
                       /\ built'.dir[s] \in DOMAIN sampled.trees
                       /\ sampled.trees[built'.dir[s]] <= built'.content[s]
                       /\ built'.content[s] <= tree[built'.dir[s]].sig
        <3>1. built'.dir = dir /\ built'.content = SiteSigs(dir) /\ VhostsBuild(c)
            BY <2>1, <2>3
        <3>2. sampled.links = LinksOf(c, dir)
            BY <2>2 DEF root_links, LinksOf
        <3>3. ASSUME NEW s \in Rooted(c)
              PROVE  /\ dir[s] \in DOMAIN sampled.trees /\ dir[s] \in Dirs
                     /\ sampled.trees[dir[s]] <= SiteSigs(dir)[s]
                     /\ SiteSigs(dir)[s] = tree[dir[s]].sig
            <4>1. dir[s] = link[c.root[s]] /\ c.root[s] \in Roots
                BY ConfigParts DEF TypeOK, Versions
            <4>2. dir[s] \in Dirs /\ dir[s] \in SampledDirs(c)
                BY <3>1, <4>1 DEF VhostsBuild, SampledDirs, TypeOK
            <4>3. SiteSigs(dir)[s] = tree[dir[s]].sig
                BY DEF SiteSigs
            <4>4. sampled.trees[dir[s]] <= TreeSigs(Dirs)[dir[s]]
                BY <2>2, <4>2 DEF NotAhead, TreeSigs
            <4> QED BY <2>2, <4>2, <4>3, <4>4 DEF TreeSigs
        <3>4. \A d \in Dirs : tree[d].sig <= tree[d].sig
            BY DEF TypeOK
        <3> HIDE DEF dir
        <3>5. DOMAIN dir = Rooted(c)
            BY DEF dir
        <3> QED BY <3>1, <3>2, <3>3, <3>4, <3>5
    <2>4. NotAhead(sampled'.trees, TreeSigs(Dirs)')
        BY <2>1, <2>2 DEF TreeSigs
    <2> QED BY <2>1, <2>3, <2>4 DEF TreesTaken
<1>6. CASE Start
    <2>1. UNCHANGED sampled /\ pc' \in {"sleep", "dead"}
        BY <1>6 DEF Start
    <2> QED BY <2>1, TreesTakenKept
<1>7. CASE Wake \/ Swap \/ RebindHttps \/ ReconcileHttp \/ Account \/ Scan
    <2>1. /\ UNCHANGED sampled
          /\ pc' \in {"decide", "https", "account", "http", "scan", "sleep", "rebuild"}
        BY <1>7 DEF Wake, Swap, RebindHttps, SkipsHttp, ReconcileHttp, Account, Scan
    <2> QED BY <2>1, TreesTakenKept
<1>8. CASE Decide
    <2>1. UNCHANGED sampled /\ pc' \in {"https", "load", "scan"}
        BY <1>8 DEF Decide
    <2> QED BY <2>1, TreesTakenKept
<1>9. ASSUME NEW s \in Sites, Rebuild(s)
      PROVE  TreesTaken'
    <2>1. UNCHANGED sampled /\ pc' \in {"sleep", "rebuild"}
        BY <1>9 DEF Rebuild
    <2> QED BY <2>1, TreesTakenKept
<1>10. CASE Edit
    <2>1. UNCHANGED <<sampled, cfg, built, pc, job>>
        BY <1>10 DEF Edit
    <2>2. Building' /\ pc' \in {"links", "tls", "vhosts"} => link' = link
        BY <2>1, <1>10 DEF Edit, WriteConfig, WritePem, FlipLink, WriteTree, TogglePort,
           MayEdit, LinksHeldStill, Building
    <2> QED BY <2>1, <2>2, TreesTakenKept DEF Building
<1>11. CASE Exited \/ (\E a \in Addrs : CloseRetired(a)) \/ UNCHANGED vars
    <2>1. UNCHANGED <<sampled, cfg, built, pc, job, link>>
        BY <1>11 DEF Exited, CloseRetired, vars
    <2> QED BY <2>1, TreesTakenKept DEF Building
<1> QED
    BY <1>1, <1>2, <1>3, <1>4, <1>5, <1>6, <1>7, <1>8, <1>9, <1>10, <1>11
    DEF Next, WatcherStep

\* What a step that neither swaps nor rebuilds owes to what is served.
LEMMA TreesAppliedKept ==
    ASSUME TypeOK, Coherent, TreesApplied, [Next]_vars,
           Running' = Running, UNCHANGED <<vhosts, links_applied, tree_applied>>,
           pc' = "rebuild" => pc = "rebuild" /\ UNCHANGED sigs
    PROVE  TreesApplied'
<1>1. ASSUME NEW s \in DOMAIN vhosts.dir
      PROVE  /\ tree[vhosts.dir[s]].sig \in Nat /\ tree'[vhosts.dir[s]].sig \in Nat
             /\ tree[vhosts.dir[s]].sig <= tree'[vhosts.dir[s]].sig
             /\ vhosts.content[s] \in Nat
             /\ s \in DOMAIN sigs => sigs[s] \in Nat
    <2>1. vhosts.dir[s] \in Dirs /\ vhosts.content[s] \in Nat
        BY <1>1 DEF TypeOK, Coherent, IsVhosts, IsMap
    <2>2. s \in DOMAIN sigs => sigs[s] \in Nat
        BY DEF TypeOK, IsMap
    <2> QED BY <2>1, <2>2, TreeGrows
<1>2. pc = "rebuild" => DOMAIN sigs = DOMAIN vhosts.dir
    BY DEF Coherent
<1>3. ASSUME Running'
      PROVE  /\ DOMAIN vhosts'.dir = Rooted(vhosts'.cfg.val)
             /\ links_applied' = LinksOf(vhosts'.cfg.val, vhosts'.dir)
             /\ DOMAIN tree_applied' = DOMAIN vhosts'.dir
             /\ \A s \in DOMAIN vhosts'.dir :
                   /\ tree_applied'[s] <= vhosts'.content[s]
                   /\ vhosts'.content[s] <= tree'[vhosts'.dir[s]].sig
    <2>1. /\ DOMAIN vhosts.dir = Rooted(vhosts.cfg.val)
          /\ links_applied = LinksOf(vhosts.cfg.val, vhosts.dir)
          /\ DOMAIN tree_applied = DOMAIN vhosts.dir
          /\ \A s \in DOMAIN vhosts.dir :
                /\ tree_applied[s] <= vhosts.content[s]
                /\ vhosts.content[s] <= tree[vhosts.dir[s]].sig
        BY <1>3 DEF TreesApplied
    <2>2. ASSUME NEW s \in DOMAIN vhosts.dir
          PROVE  vhosts.content[s] <= tree'[vhosts.dir[s]].sig
        BY <1>1, <2>1
    <2> QED BY <2>1, <2>2
<1>4. ASSUME pc' = "rebuild", NEW s \in DOMAIN sigs'
      PROVE  sigs'[s] <= tree'[vhosts'.dir[s]].sig
    <2>1. pc = "rebuild" /\ sigs' = sigs /\ vhosts' = vhosts /\ s \in DOMAIN sigs
        BY <1>4
    <2>2. sigs[s] <= tree[vhosts.dir[s]].sig
        BY <2>1 DEF TreesApplied
    <2> QED BY <1>1, <1>2, <2>1, <2>2
<1> QED BY <1>3, <1>4 DEF TreesApplied

\* A build that is installed is served with the sample of before it.
LEMMA TreesInstalled ==
    ASSUME TypeOK, Coherent, TreesTaken, pc \in {"start", "swap"},
           NEW ta, DOMAIN ta = DOMAIN built.dir,
           \A s \in DOMAIN built.dir :
              built.dir[s] \in DOMAIN sampled.trees
                 => ta[s] = sampled.trees[built.dir[s]],
           vhosts' = NewVhosts, links_applied' = sampled.links,
           tree_applied' = ta, UNCHANGED tree, pc' # "rebuild"
    PROVE  TreesApplied'
<1>1. /\ vhosts'.cfg = cfg /\ vhosts'.dir = built.dir
      /\ vhosts'.content = built.content
    BY DEF NewVhosts
<1>2. /\ DOMAIN built.dir = Rooted(cfg.val)
      /\ sampled.links = LinksOf(cfg.val, built.dir)
      /\ \A s \in DOMAIN built.dir :
            /\ built.dir[s] \in DOMAIN sampled.trees
            /\ sampled.trees[built.dir[s]] <= built.content[s]
            /\ built.content[s] <= tree[built.dir[s]].sig
    BY DEF TreesTaken
<1> QED BY <1>1, <1>2 DEF TreesApplied

\* Every step keeps what reads as applied behind what is served.
LEMMA TreesAppliedStep ==
    ASSUME TypeOK, Coherent, TreesTaken, TreesApplied, [Next]_vars
    PROVE  TreesApplied'
<1> USE DEF disk, live, listeners, seen, applied, trees, retry, now, work, scan
<1>1. CASE Start
    <2>1. CASE pc' = "dead"
        <3>1. UNCHANGED <<vhosts, links_applied, tree_applied, job>>
            BY <1>1, <2>1 DEF Start
        <3> QED BY <2>1, <3>1, TreesAppliedKept DEF Running
    <2>2. CASE pc' # "dead"
        <3> DEFINE ta == [s \in {x \in DOMAIN built.dir :
                                    built.dir[x] \in DOMAIN sampled.trees}
                             |-> sampled.trees[built.dir[s]]]
        <3>1. /\ pc = "start" /\ pc' = "sleep" /\ UNCHANGED tree
              /\ vhosts' = NewVhosts /\ links_applied' = sampled.links
              /\ tree_applied' = ta
            BY <1>1, <2>2 DEF Start
        <3>2. \A s \in DOMAIN built.dir : built.dir[s] \in DOMAIN sampled.trees
            BY <3>1 DEF TreesTaken
        <3>3. /\ DOMAIN ta = DOMAIN built.dir
              /\ \A s \in DOMAIN built.dir : ta[s] = sampled.trees[built.dir[s]]
            BY <3>2
        <3> HIDE DEF ta
        <3> QED BY <3>1, <3>3, TreesInstalled
    <2> QED BY <2>1, <2>2
<1>2. CASE Swap
    <2>1. /\ pc = "swap" /\ pc' = "https" /\ UNCHANGED tree
          /\ vhosts' = NewVhosts /\ links_applied' = sampled.links
          /\ tree_applied' = AppliedTrees
        BY <1>2 DEF Swap
    <2>2. /\ DOMAIN AppliedTrees = DOMAIN built.dir
          /\ \A s \in DOMAIN built.dir :
                built.dir[s] \in DOMAIN sampled.trees
                   => AppliedTrees[s] = sampled.trees[built.dir[s]]
        BY DEF AppliedTrees
    <2> QED BY <2>1, <2>2, TreesInstalled
<1>3. CASE Scan
    <2>1. /\ UNCHANGED <<vhosts, links_applied, tree_applied, tree, job>>
          /\ sigs' = SiteSigs(vhosts.dir)
        BY <1>3 DEF Scan
    <2>2. ASSUME NEW s \in DOMAIN sigs'
          PROVE  sigs'[s] <= tree'[vhosts'.dir[s]].sig
        <3>1. sigs'[s] = tree[vhosts.dir[s]].sig /\ s \in DOMAIN vhosts.dir
            BY <2>1, <2>2 DEF SiteSigs
        <3>2. tree[vhosts.dir[s]].sig \in Nat
            BY <3>1 DEF TypeOK, IsVhosts, IsMap
        <3> QED BY <2>1, <3>1, <3>2
    <2>3. Running' = Running
        BY <2>1 DEF Running
    <2> QED BY <2>1, <2>2, <2>3 DEF TreesApplied
<1>4. ASSUME NEW s \in Sites, Rebuild(s)
      PROVE  TreesApplied'
    <2> DEFINE d == vhosts.dir[s]
    <2>1. /\ pc = "rebuild" /\ s \in todo
          /\ UNCHANGED <<tree, links_applied, job, sigs>>
          /\ \/ UNCHANGED <<vhosts, tree_applied>>
             \/ /\ vhosts' = [vhosts EXCEPT !.content[s] = tree[d].sig]
                /\ tree_applied' = [x \in DOMAIN tree_applied |->
                      IF x \in OfSite(s) THEN sigs[s] ELSE tree_applied[x]]
        BY <1>4 DEF Rebuild
    <2>2. s \in DOMAIN sigs /\ s \in DOMAIN vhosts.dir /\ Running
        BY <2>1 DEF Coherent, Running, InTick
    <2>3. d \in Dirs /\ tree[d].sig \in Nat /\ sigs[s] <= tree[d].sig
        BY <2>1, <2>2 DEF TypeOK, IsVhosts, IsMap, TreesApplied
    <2>4. Running' = Running
        BY <2>1 DEF Running
    <2>5. CASE UNCHANGED <<vhosts, tree_applied>>
        BY <2>1, <2>4, <2>5, TreesAppliedKept
    <2>6. CASE /\ vhosts' = [vhosts EXCEPT !.content[s] = tree[d].sig]
               /\ tree_applied' = [x \in DOMAIN tree_applied |->
                     IF x \in OfSite(s) THEN sigs[s] ELSE tree_applied[x]]
        <3>1. /\ vhosts'.cfg = vhosts.cfg /\ vhosts'.dir = vhosts.dir
              /\ vhosts'.content = [vhosts.content EXCEPT ![s] = tree[d].sig]
            BY <2>6 DEF TypeOK, IsVhosts
        <3>2. /\ DOMAIN vhosts.dir = Rooted(vhosts.cfg.val)
              /\ links_applied = LinksOf(vhosts.cfg.val, vhosts.dir)
              /\ DOMAIN tree_applied = DOMAIN vhosts.dir
              /\ \A x \in DOMAIN vhosts.dir :
                    /\ tree_applied[x] <= vhosts.content[x]
                    /\ vhosts.content[x] <= tree[vhosts.dir[x]].sig
              /\ \A x \in DOMAIN sigs : sigs[x] <= tree[vhosts.dir[x]].sig
            BY <2>1, <2>2 DEF TreesApplied
        <3>3. DOMAIN vhosts.content = DOMAIN vhosts.dir
            BY DEF Coherent
        <3>4. /\ tree_applied'[s] = sigs[s] /\ vhosts'.content[s] = tree[d].sig
              /\ DOMAIN tree_applied' = DOMAIN tree_applied
            BY <2>2, <2>6, <3>1, <3>2, <3>3 DEF OfSite
        <3>5. ASSUME NEW x \in DOMAIN vhosts.dir
              PROVE  /\ tree_applied'[x] <= vhosts'.content[x]
                     /\ vhosts'.content[x] <= tree[vhosts.dir[x]].sig
            <4>1. CASE x = s
                BY <4>1, <3>4, <2>3
            <4>2. CASE x # s
                <5>1. tree_applied'[x] = tree_applied[x]
                      /\ vhosts'.content[x] = vhosts.content[x]
                    BY <4>2, <2>6, <3>1, <3>2, <3>3 DEF OfSite
                <5> QED BY <5>1, <3>2
            <4> QED BY <4>1, <4>2
        <3> QED BY <2>1, <3>1, <3>2, <3>4, <3>5 DEF TreesApplied
    <2> QED BY <2>1, <2>5, <2>6
<1>5. CASE Load \/ Sample \/ SampleLinks \/ BuildTls \/ BuildVhosts
    <2>1. /\ UNCHANGED <<vhosts, links_applied, tree_applied, job>> /\ pc' # "rebuild"
        BY <1>5 DEF Load, Fail, Sample, SampleLinks, BuildTls, BuildVhosts
    <2> QED BY <2>1, TreesAppliedKept DEF Running
<1>6. CASE Wake \/ Decide \/ RebindHttps \/ ReconcileHttp \/ Account
    <2>1. /\ UNCHANGED <<vhosts, links_applied, tree_applied>> /\ pc' # "rebuild"
          /\ job # "boot" /\ job' # "boot"
        BY <1>6 DEF Wake, Decide, RebindHttps, SkipsHttp, ReconcileHttp, Account,
           Coherent, InTick
    <2> QED BY <2>1, TreesAppliedKept DEF Running
<1>7. CASE Edit \/ Exited \/ (\E a \in Addrs : CloseRetired(a)) \/ UNCHANGED vars
    <2>1. UNCHANGED <<vhosts, links_applied, tree_applied, sigs, job, pc>>
        BY <1>7 DEF Edit, Exited, CloseRetired, vars
    <2> QED BY <2>1, TreesAppliedKept DEF Running
<1> QED BY <1>1, <1>2, <1>3, <1>4, <1>5, <1>6, <1>7 DEF Next, WatcherStep

\* While the links read as applied, every site is served from where its root
\* resolves to; and while its tree reads as applied too, what was recorded is
\* not ahead of what is served, and that is not ahead of the disk.
LEMMA NoDeployLost ==
    ASSUME TypeOK, Coherent, TreesApplied
    PROVE  NoLostDeploy
<1> DEFINE c == vhosts.cfg.val
<1> SUFFICES ASSUME Running, links_applied = root_links(c), NEW s \in Rooted(c)
             PROVE  /\ vhosts.dir[s] = link[c.root[s]]
                    /\ s \notin DOMAIN tree_applied
                          \/ tree_applied[s] = tree[link[c.root[s]]].sig
                       => vhosts.content[s] = tree[link[c.root[s]]].sig
    BY DEF NoLostDeploy
<1>1. /\ DOMAIN vhosts.dir = Rooted(c) /\ links_applied = LinksOf(c, vhosts.dir)
      /\ DOMAIN tree_applied = DOMAIN vhosts.dir
      /\ tree_applied[s] <= vhosts.content[s]
      /\ vhosts.content[s] <= tree[vhosts.dir[s]].sig
    BY DEF TreesApplied
<1>2. vhosts.dir[s] = link[c.root[s]]
    <2>1. links_applied[s] = <<c.root[s], link[c.root[s]]>>
        BY DEF root_links
    <2>2. links_applied[s] = <<c.root[s], vhosts.dir[s]>>
        BY <1>1 DEF LinksOf
    <2> QED BY <2>1, <2>2
<1>3. vhosts.content[s] \in Nat /\ tree[vhosts.dir[s]].sig \in Nat
    <2>1. vhosts.content[s] \in Nat /\ vhosts.dir[s] \in Dirs
        BY <1>1 DEF TypeOK, Coherent, IsVhosts, IsMap
    <2>2. \A d \in Dirs : tree[d].sig \in Nat
        BY DEF TypeOK
    <2> QED BY <2>1, <2>2
<1>4. s \in DOMAIN tree_applied
    BY <1>1
<1>5. tree_applied[s] = tree[vhosts.dir[s]].sig
          => vhosts.content[s] = tree[vhosts.dir[s]].sig
    BY <1>1, <1>3
<1> QED BY <1>2, <1>4, <1>5

\* A deploy is never swallowed, by a repointed root or by files written in
\* place, whenever it lands: every tree is sampled before it is walked, and the
\* links recorded are those the content was built from.  The second needs the
\* roots to hold still while a runtime is built, since main and watch resolve
\* each root three times.
THEOREM DeploysKept ==
    ASSUME LinksHeldStill
    PROVE  Spec => []NoLostDeploy
<1>1. Init => TreesTaken /\ TreesApplied
    <2> SUFFICES ASSUME Init PROVE TreesTaken /\ TreesApplied
        OBVIOUS
    <2>1. sampled.trees = <<>> /\ pc = "load" /\ job = "boot"
        BY DEF Init
    <2>2. \A f : NotAhead(<<>>, f)
        BY SMT DEF NotAhead
    <2> QED BY <2>1, <2>2 DEF TreesTaken, TreesApplied, Running
<1>2. TypeOK /\ Coherent /\ TreesTaken /\ TreesApplied /\ [Next]_vars
        => TreesTaken' /\ TreesApplied'
    BY TreesTakenStep, TreesAppliedStep
<1>3. TypeOK /\ Coherent /\ TreesApplied => NoLostDeploy
    BY NoDeployLost
<1> QED BY <1>1, <1>2, <1>3, Inductive, PTL DEF Spec

----------------------------------------------------------------------------
(* The watcher implements hot reload in the abstract (module Reload) *)

\* What a build or a swap uses was parsed, and both halves of a runtime come
\* from one text.
Parsed ==
    /\ pc \in {"sample", "links", "tls", "vhosts", "start", "swap"} => cfg.val.ok
    /\ pc \in {"vhosts", "start", "swap"} => built.tls.cfg = cfg

\* What module Reload is told of a step that changes nothing of it.
Same == UNCHANGED <<cfgFile, cfg, vhosts.cfg, tls.cfg, https.max>>

\* Every step keeps what a build or a swap uses parsed, and of one text.
LEMMA ParsedStep ==
    ASSUME TypeOK, Coherent, Parsed, [Next]_vars
    PROVE  Parsed'
<1> USE DEF Parsed, disk, live, listeners, seen, applied, trees, retry, now,
            work, scan
<1>1. CASE Load
    <2>1. \/ cfgFile.val.ok /\ cfg' = cfgFile /\ pc' \in {"tls", "sample"}
          \/ pc' \in {"dead", "https"}
        BY <1>1 DEF Load, Fail
    <2> QED BY <2>1
<1>2. CASE Sample \/ SampleLinks
    BY <1>2 DEF Sample, SampleLinks
<1>3. CASE BuildTls
    <2>1. /\ cfg' = cfg /\ pc = "tls" /\ pc' \in {"vhosts", "dead", "https"}
          /\ pc' = "vhosts" =>
                built' = [built EXCEPT !.tls = [cfg |-> cfg,
                                                pem |-> TlsSig(tls_paths(cfg.val))]]
        BY <1>3 DEF BuildTls, Fail
    <2>2. pc' = "vhosts" => built'.tls.cfg = cfg
        BY <2>1 DEF TypeOK, IsBuilt
    <2> QED BY <2>1, <2>2
<1>8. CASE BuildVhosts
    <2>1. /\ cfg' = cfg /\ pc = "vhosts"
          /\ pc' \in {"start", "swap", "dead", "https"}
          /\ built'.tls = built.tls
        BY <1>8 DEF BuildVhosts, Fail
    <2> QED BY <2>1
<1>4. CASE Start \/ Wake \/ Decide \/ Swap \/ RebindHttps \/ ReconcileHttp
           \/ Account \/ Scan \/ (\E s \in Sites : Rebuild(s))
    <2>1. pc' \notin {"sample", "links", "tls", "vhosts", "start", "swap"}
        BY <1>4 DEF Start, Wake, Decide, Swap, RebindHttps, ReconcileHttp,
           SkipsHttp, Account, Scan, Rebuild
    <2> QED BY <2>1
<1>5. CASE Edit
    BY <1>5 DEF Edit
<1>6. ASSUME NEW a \in Addrs, CloseRetired(a)
      PROVE  Parsed'
    BY <1>6 DEF CloseRetired
<1>7. CASE UNCHANGED vars
    BY <1>7 DEF vars
<1> QED
    BY <1>1, <1>2, <1>3, <1>4, <1>5, <1>6, <1>7, <1>8
    DEF Next, WatcherStep, Exited

\* What a build or a swap uses was parsed, in every state.
LEMMA ParsedInv == Spec => []Parsed
<1>1. Init => Parsed
    BY DEF Init, Parsed
<1>2. TypeOK /\ Coherent /\ Parsed /\ [Next]_vars => Parsed'
    BY ParsedStep
<1> QED BY <1>1, <1>2, Inductive, PTL DEF Spec

----------------------------------------------------------------------------

\* Every step of the thread and of the operators is a step of Reload, or none.
LEMMA RefinedStep ==
    ASSUME TypeOK, Coherent, Parsed, [Next]_vars
    PROVE  [R!Next]_(R!vars)
<1> USE DEF disk, live, listeners, seen, applied, trees, retry, now, work,
            scan, Running
<1>1. cfg.val \in Configs
    BY DEF TypeOK, Versions
<1>2. ASSUME Same, job = "boot" <=> job' = "boot"
      PROVE  UNCHANGED R!vars
    BY <1>2 DEF Same, R!vars
<1>3. CASE Load
    <2>1. /\ UNCHANGED <<cfgFile, vhosts, tls, https, job>>
          /\ \/ cfgFile.val.ok /\ cfg' = cfgFile
             \/ cfg' = cfg
        BY <1>3 DEF Load, Fail
    <2>2. CASE cfgFile.val.ok /\ cfg' = cfgFile
        <3>1. cfgFile.val \in {c \in Configs : c.ok}
            BY <2>2 DEF TypeOK, Versions
        <3>2. R!Read
            BY <2>1, <2>2, <3>1 DEF R!Read
        <3> QED BY <3>2 DEF R!Next
    <2> QED BY <2>1, <2>2, <1>2 DEF Same
<1>4. CASE BuildTls
    <2>1. /\ UNCHANGED <<cfgFile, vhosts, https, job, cfg>>
          /\ \/ tls' = tls
             \/ job = "certs" /\ tls'.cfg = cfg /\ pc = "tls"
        BY <1>4 DEF BuildTls, Fail
    <2>2. CASE job = "certs" /\ tls'.cfg = cfg /\ pc = "tls"
        <3>1. cfg.val \in {c \in Configs : c.ok}
            BY <1>1, <2>2 DEF Parsed
        <3>2. vhosts.cfg # None
            BY ConstantsAssumption
            DEF ConstantsAssumption, TypeOK, IsVhosts, Versions
        <3>3. R!Renew
            BY <2>1, <2>2, <3>1, <3>2 DEF R!Renew
        <3> QED BY <3>3 DEF R!Next
    <2> QED BY <2>1, <2>2, <1>2 DEF Same
<1>5. CASE Start
    <2>1. /\ UNCHANGED <<cfgFile, cfg>> /\ job = "boot" /\ pc = "start"
          /\ \/ UNCHANGED <<vhosts, tls, https, job>>
             \/ /\ vhosts'.cfg = cfg /\ tls' = built.tls /\ job' = "none"
                /\ https'.max = cfg.val.max
        BY <1>5 DEF Start, NewVhosts, Coherent
    <2>2. CASE job' = "none"
        <3>1. /\ tls'.cfg = cfg /\ vhosts'.cfg = cfg /\ https'.max = cfg.val.max
            BY <2>1, <2>2 DEF Parsed
        <3>2. cfg.val \in {c \in Configs : c.ok}
            BY <1>1, <2>1 DEF Parsed
        <3>3. R!Adopt
            BY <1>1, <2>1, <2>2, <3>1, <3>2 DEF R!Adopt
        <3> QED BY <3>3 DEF R!Next
    <2> QED BY <2>1, <2>2, <1>2 DEF Same
<1>6. CASE Swap
    <2>1. /\ UNCHANGED <<cfgFile, cfg, job>> /\ job = "config" /\ pc = "swap"
          /\ vhosts'.cfg = cfg /\ tls' = built.tls
          /\ https' = [https EXCEPT !.max = cfg.val.max]
        BY <1>6 DEF Swap, NewVhosts, AdoptLimit, Coherent
    <2>2. tls'.cfg = cfg /\ https'.max = cfg.val.max
        BY <2>1 DEF Parsed, TypeOK, Ctl
    <2>3. cfg.val \in {c \in Configs : c.ok}
        BY <1>1, <2>1 DEF Parsed
    <2>4. R!Adopt
        BY <1>1, <2>1, <2>2, <2>3 DEF R!Adopt
    <2> QED BY <2>4 DEF R!Next
<1>7. CASE Sample \/ SampleLinks \/ BuildVhosts \/ Wake \/ Decide \/ Account
           \/ Scan \/ ReconcileHttp
    <2>1. /\ UNCHANGED <<cfgFile, cfg, vhosts, tls, https>>
          /\ job' = job \/ (job # "boot" /\ job' # "boot")
        BY <1>7 DEF Sample, SampleLinks, BuildVhosts, Fail, Wake, Decide,
           Account, Scan, ReconcileHttp, Coherent, InTick
    <2> QED BY <2>1, <1>2 DEF Same
<1>8. CASE RebindHttps
    <2>1. /\ UNCHANGED <<cfgFile, cfg, vhosts, tls, job>>
          /\ \/ https' = https
             \/ https' = [https EXCEPT !.addr = pending.https]
        BY <1>8 DEF RebindHttps
    <2>2. https'.max = https.max
        BY <2>1 DEF TypeOK, Ctl
    <2> QED BY <2>1, <2>2, <1>2 DEF Same
<1>9. ASSUME NEW s \in Sites, Rebuild(s)
      PROVE  [R!Next]_(R!vars)
    <2>1. UNCHANGED <<cfgFile, cfg, tls, https, job>>
        BY <1>9 DEF Rebuild
    <2>2. vhosts'.cfg = vhosts.cfg
        BY <1>9 DEF Rebuild, TypeOK, IsVhosts
    <2> QED BY <2>1, <2>2, <1>2 DEF Same
<1>10. CASE Edit
    <2>1. UNCHANGED <<cfg, vhosts, tls, https, job>>
        BY <1>10 DEF Edit
    <2>2. CASE WriteConfig
        <3>1. PICK t \in Configs : cfgFile' = [sig |-> cfgFile.sig + 1, val |-> t]
            BY <2>2 DEF WriteConfig
        <3>2. R!Write
            BY <2>1, <3>1 DEF R!Write
        <3> QED BY <3>2 DEF R!Next
    <2>3. CASE ~WriteConfig
        <3>1. cfgFile' = cfgFile
            BY <1>10, <2>3 DEF Edit, WritePem, FlipLink, WriteTree, TogglePort
        <3> QED BY <2>1, <3>1, <1>2 DEF Same
    <2> QED BY <2>2, <2>3
<1>11. ASSUME NEW a \in Addrs, CloseRetired(a)
       PROVE  [R!Next]_(R!vars)
    <2>1. UNCHANGED <<cfgFile, cfg, vhosts, tls, https, job>>
        BY <1>11 DEF CloseRetired
    <2> QED BY <2>1, <1>2 DEF Same
<1>12. CASE UNCHANGED vars
    <2>1. UNCHANGED <<cfgFile, cfg, vhosts, tls, https, job>>
        BY <1>12 DEF vars
    <2> QED BY <2>1, <1>2 DEF Same
<1> QED
    BY <1>3, <1>4, <1>5, <1>6, <1>7, <1>8, <1>9, <1>10, <1>11, <1>12
    DEF Next, WatcherStep, Exited

\* The first states are first states of Reload.
LEMMA RefinedInit == Init => R!Init
BY DEF Init, R!Init, Running

\* The whole of a config that parsed is what is served, taken over in one step
\* and never mixed with another text, rejected or gone back on: hot reload, as
\* the thread does it (main, watch), implements hot reload in the abstract.
THEOREM Refines == Spec => ImplementsReload
<1>1. TypeOK /\ Coherent /\ Parsed /\ [Next]_vars => [R!Next]_(R!vars)
    BY RefinedStep
<1> QED BY <1>1, RefinedInit, Inductive, ParsedInv, PTL
        DEF Spec, ImplementsReload, R!Spec

----------------------------------------------------------------------------
(* What follows from the abstract specification *)

\* The order of Reload is kept by each of its steps.
LEMMA OrderedStep ==
    ASSUME TypeOK, R!Ordered, [R!Next]_(R!vars)
    PROVE  R!Ordered'
<1> DEFINE file == cfgFile
           served == IF Running THEN vhosts.cfg ELSE None
           certs == IF Running THEN tls.cfg ELSE None
<1>1. /\ file.sig \in Nat /\ cfg.sig \in Nat /\ vhosts.cfg.sig \in Nat
      /\ tls.cfg.sig \in Nat
    BY DEF TypeOK, Versions, IsVhosts, IsTls
<1>2. Running => vhosts.cfg # None /\ tls.cfg # None
    BY ConstantsAssumption
    DEF ConstantsAssumption, TypeOK, IsVhosts, IsTls, Versions
<1>3. /\ cfg # None /\ cfg.val \in Configs
    BY ConstantsAssumption DEF ConstantsAssumption, TypeOK, Versions
<1>4. CASE R!Write
    BY <1>1, <1>2, <1>3, <1>4 DEF R!Write, R!Ordered
<1>5. CASE R!Read
    BY <1>1, <1>2, <1>3, <1>5 DEF R!Read, R!Ordered
<1>6. CASE R!Adopt
    BY <1>1, <1>2, <1>3, <1>6 DEF R!Adopt, R!Ordered
<1>7. CASE R!Renew
    BY <1>1, <1>2, <1>3, <1>7 DEF R!Renew, R!Ordered
<1>8. CASE UNCHANGED R!vars
    BY <1>8 DEF R!vars, R!Ordered
<1> QED BY <1>4, <1>5, <1>6, <1>7, <1>8 DEF R!Next

\* The certificates offered are chosen by a config at least as new as the one
\* the sites are built from, and neither is newer than the last one read: the
\* certificate arm of watch() may run ahead of the sites, never behind.
THEOREM ServedInOrder == Spec => []R!Ordered
<1>1. Init => R!Ordered
    BY DEF Init, R!Ordered, Running
<1>2. TypeOK /\ Coherent /\ Parsed /\ R!Ordered /\ [Next]_vars => R!Ordered'
    BY RefinedStep, OrderedStep
<1> QED BY <1>1, <1>2, Inductive, ParsedInv, PTL DEF Spec

=============================================================================
