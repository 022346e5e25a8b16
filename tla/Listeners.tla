----------------------------- MODULE Listeners -----------------------------
(***************************************************************************)
(* The accept loops of bare-server and what they share with the watcher    *)
(* and with the connection threads (src/src/main.rs): `start_listener`,    *)
(* `rebind`, `retire`, `spawn_accept`, the counting `Semaphore` and the    *)
(* per-address `PeerLimiter`.                                              *)
(*                                                                         *)
(* A pool is what a ListenerCtl passes on from loop to loop: its           *)
(* semaphore and its limiter.  Identifiers of loops, pools and connections *)
(* are used again once nothing refers to them, as memory is.               *)
(***************************************************************************)
EXTENDS Naturals, Sequences, FiniteSets

CONSTANTS
    Loops, Pools, Conns, Ips,   \* identifiers, and source addresses
    KindOf,                     \* the listener a pool is made for
    MAX_CONNS,                  \* semaphore size, per kind (1024 and 256)
    Limits,                     \* values max_conns_per_ip takes; 0 = unlimited
    Backlog,                    \* bound: connections a socket queues
    Probe,                      \* the throwaway connection of retire()
    None

Kinds == {"https", "http"}

ASSUME ConstantsAssumption ==
    /\ KindOf \in [Pools -> Kinds]
    /\ MAX_CONNS \in [Kinds -> Nat \ {0}]
    /\ Limits \subseteq Nat
    /\ Backlog \in Nat \ {0}
    /\ IsFiniteSet(Loops) /\ IsFiniteSet(Conns)
    /\ Probe \notin Conns
    /\ None \notin Conns \cup Loops \cup Pools \cup Ips \cup Kinds \cup {Probe}
    /\ None \notin [loop: Loops, pool: Pools]

VARIABLES
    ctl,        \* kind -> ListenerCtl: [loop, pool], or None when not listening
    loop,       \* accept loops: [pc, pool, gen, permit, sock, cap]
    queue,      \* connections each listening socket has queued
    sem,        \* Semaphore.count of each pool
    max,        \* PeerLimiter.max of each pool
    counts,     \* PeerLimiter.counts of each pool: addresses holding a slot
    conn,       \* connections: [at, ip, pool, counted]
    per_ip,     \* watch's max_conns_per_ip
    task        \* what the watcher thread is in the middle of

limits == <<sem, max, counts>>
vars   == <<ctl, loop, queue, limits, conn, per_ip, task>>

Idle      == [step |-> "idle", kind |-> None, old |-> None, new |-> None]
NoLoop    == [pc |-> "none", pool |-> None, gen |-> 0, permit |-> FALSE,
              sock |-> None, cap |-> 0]
NoConn    == [at |-> "none", ip |-> None, pool |-> None, counted |-> FALSE]
NewLoop(p, at) == [NoLoop EXCEPT !.pool = p, !.pc = at]

FreeLoops == {l \in Loops : loop[l].pc = "none"}
FreePools(k) ==
    {p \in Pools : /\ KindOf[p] = k
                   /\ \A j \in Kinds : ctl[j] # None => ctl[j].pool # p
                   /\ \A l \in Loops : loop[l].pool # p
                   /\ \A c \in Conns : conn[c].pool # p}

----------------------------------------------------------------------------
(* The watcher thread *)

\* Only ListenerCtls hold the limiter of a running listener: set_max on both.
SetMax(m) ==
    /\ task = Idle
    /\ per_ip' = m
    /\ max' = [p \in Pools |->
                 IF \E k \in Kinds : ctl[k] # None /\ ctl[k].pool = p
                 THEN m ELSE max[p]]
    /\ UNCHANGED <<ctl, loop, queue, sem, counts, conn, task>>

\* start_listener(): a listener added at run time gets a pool of its own.
StartListener(k, l, p) ==
    /\ task = Idle /\ ctl[k] = None
    /\ l \in FreeLoops /\ p \in FreePools(k)
    /\ sem' = [sem EXCEPT ![p] = MAX_CONNS[k]]
    /\ max' = [max EXCEPT ![p] = per_ip]
    /\ counts' = [counts EXCEPT ![p] = <<>>]
    /\ loop' = [loop EXCEPT ![l] = NewLoop(p, "check")]
    /\ ctl' = [ctl EXCEPT ![k] = [loop |-> l, pool |-> p]]
    /\ UNCHANGED <<queue, conn, per_ip, task>>

\* The generation of a loop is bumped (mutant: it is not).
Unbumped(l) == loop
Bumped(l)   == [loop EXCEPT ![l].gen = 1]

\* rebind(): bind the new socket, then retire the old loop (bump its
\* generation; the probe is the next step), spawn the new one last.
Rebind(k, l) ==
    /\ task = Idle /\ ctl[k] # None /\ l \in FreeLoops
    /\ loop' = [Bumped(ctl[k].loop) EXCEPT ![l] = NewLoop(ctl[k].pool, "bound")]
    /\ task' = [step |-> "probe", kind |-> k, old |-> ctl[k].loop, new |-> l]
    /\ UNCHANGED <<ctl, queue, limits, conn, per_ip>>

\* The config no longer wants the HTTP listener.
StopHttp ==
    /\ task = Idle /\ ctl["http"] # None
    /\ loop' = Bumped(ctl["http"].loop)
    /\ task' = [step |-> "probe", kind |-> "http", old |-> ctl["http"].loop,
                new |-> None]
    /\ UNCHANGED <<ctl, queue, limits, conn, per_ip>>

\* The second half of retire(): connect to the old socket.  The connection may
\* always come to nothing: the name does not resolve now, its first address is
\* not the one that was bound, the connect fails.  Either way retire() returns.
SendProbe ==
    /\ task.step = "probe"
    /\ \/ queue' = queue
       \/ /\ loop[task.old].pc # "none" /\ Len(queue[task.old]) < Backlog
          /\ queue' = [queue EXCEPT ![task.old] = Append(@, Probe)]
    /\ \/ /\ task.new = None
          /\ ctl' = [ctl EXCEPT ![task.kind] = None]
          /\ task' = Idle
       \/ /\ task.new # None
          /\ task' = [task EXCEPT !.step = "spawn"]
          /\ UNCHANGED ctl
    /\ UNCHANGED <<loop, limits, conn, per_ip>>

SpawnLoop ==
    /\ task.step = "spawn"
    /\ loop' = [loop EXCEPT ![task.new].pc = "check"]
    /\ ctl' = [ctl EXCEPT ![task.kind].loop = task.new]
    /\ task' = Idle
    /\ UNCHANGED <<queue, limits, conn, per_ip>>

----------------------------------------------------------------------------
(* One accept loop *)

Goto(l, at) == loop' = [loop EXCEPT ![l].pc = at]

\* Permit dropped: `sem` of the pool of l, with one more slot (mutant: lost).
Leaked(l)   == sem
Returned(l) == [sem EXCEPT ![loop[l].pool] = @ + 1]

\* The connections of S are reset.
Closed(S) == [c \in Conns |-> IF c \in S THEN NoConn ELSE conn[c]]

Queued(l) == {queue[l][i] : i \in DOMAIN queue[l]}

\* `return`: the thread drops the permit, the socket it accepted and the
\* listening socket with all that is queued on it.
Exit(l) ==
    /\ loop' = [loop EXCEPT ![l] = NoLoop]
    /\ queue' = [queue EXCEPT ![l] = <<>>]
    /\ sem' = IF loop[l].permit THEN Returned(l) ELSE sem
    /\ conn' = Closed(Queued(l) \cup {loop[l].sock})
    /\ UNCHANGED <<max, counts>>

\* `continue`: the permit and the accepted socket are dropped.
Again(l) ==
    /\ loop' = [loop EXCEPT ![l] = [@ EXCEPT !.pc = "check", !.permit = FALSE,
                                             !.sock = None, !.cap = 0]]
    /\ sem' = Returned(l)
    /\ conn' = Closed({loop[l].sock})
    /\ UNCHANGED queue

CheckGen(l) ==
    /\ loop[l].pc = "check"
    /\ \/ loop[l].gen # 0 /\ Exit(l)
       \/ loop[l].gen = 0 /\ Goto(l, "acquire")
                          /\ UNCHANGED <<queue, limits, conn>>

\* acquire_timeout(): a slot, or after 500 ms without one None (mutant: it
\* waits for a slot as long as it takes).
NeverGivesUp(l) == FALSE
GivesUp(l)      == sem[loop[l].pool] = 0

Acquire(l) ==
    /\ loop[l].pc = "acquire"
    /\ \/ /\ sem[loop[l].pool] > 0
          /\ sem' = [sem EXCEPT ![loop[l].pool] = @ - 1]
          /\ loop' = [loop EXCEPT ![l] = [@ EXCEPT !.pc = "accept",
                                                   !.permit = TRUE]]
       \/ /\ GivesUp(l)
          /\ Goto(l, "check")
          /\ UNCHANGED sem
    /\ UNCHANGED <<queue, max, counts, conn>>

Accept(l) ==
    /\ loop[l].pc = "accept" /\ queue[l] # <<>>
    /\ loop' = [loop EXCEPT ![l] = [@ EXCEPT !.pc = "accepted",
                                             !.sock = Head(queue[l])]]
    /\ queue' = [queue EXCEPT ![l] = Tail(@)]
    /\ UNCHANGED <<limits, conn>>

\* accept() fails: EMFILE, an aborted connection, a signal.
AcceptFails(l) ==
    /\ loop[l].pc = "accept"
    /\ \/ loop[l].gen # 0 /\ Exit(l)
       \/ loop[l].gen = 0 /\ Again(l) /\ UNCHANGED <<max, counts>>

\* Retired while blocked in accept()?  (Mutant: not looked at again.)
NotAsked(l) == FALSE
Retired(l)  == loop[l].gen # 0

Recheck(l) ==
    /\ loop[l].pc = "accepted"
    /\ \/ Retired(l) /\ Exit(l)
       \/ ~Retired(l) /\ Goto(l, "admit") /\ UNCHANGED <<queue, limits, conn>>

Held(p, ip) == IF ip \in DOMAIN counts[p] THEN counts[p][ip] ELSE 0

\* try_acquire() reads the limit before it locks the counts: unlimited and
\* uncounted, or the limit it will go by.  A socket whose peer_addr() fails is
\* dropped before.
Admit(l) ==
    LET c == loop[l].sock
        p == loop[l].pool
    IN
    /\ loop[l].pc = "admit"
    /\ \/ /\ c # Probe /\ max[p] = 0
          /\ conn' = [conn EXCEPT ![c].at = "admitted", ![c].pool = p]
          /\ Goto(l, "spawn")
          /\ UNCHANGED <<queue, sem>>
       \/ /\ c # Probe /\ max[p] # 0
          /\ loop' = [loop EXCEPT ![l] = [@ EXCEPT !.pc = "count",
                                                   !.cap = max[p]]]
          /\ UNCHANGED <<queue, sem, conn>>
       \/ Again(l)                              \* peer_addr() fails
    /\ UNCHANGED <<max, counts>>

\* Below the limit that was read?  (Mutant: off by one.)
HasRoomOrOne(l, ip) == Held(loop[l].pool, ip) <= loop[l].cap
HasRoom(l, ip)      == Held(loop[l].pool, ip) < loop[l].cap

\* The rest of try_acquire(), with the counts locked: counted, or refused.
Count(l) ==
    LET c  == loop[l].sock
        p  == loop[l].pool
        ip == conn[c].ip
    IN
    /\ loop[l].pc = "count"
    /\ \/ /\ HasRoom(l, ip)
          /\ counts' = [counts EXCEPT ![p] =
                [i \in DOMAIN counts[p] \cup {ip} |->
                    IF i = ip THEN Held(p, ip) + 1 ELSE counts[p][i]]]
          /\ conn' = [conn EXCEPT ![c].at = "admitted", ![c].pool = p,
                                  ![c].counted = TRUE]
          /\ loop' = [loop EXCEPT ![l] = [@ EXCEPT !.pc = "spawn", !.cap = 0]]
          /\ UNCHANGED <<queue, sem>>
       \/ /\ ~HasRoom(l, ip)
          /\ Again(l) /\ UNCHANGED counts
    /\ UNCHANGED max

\* PeerPermit::drop() undoes what try_acquire did (mutant: what it would do
\* under the limit now in force).
CountsNow(c)  == max[conn[c].pool] # 0
WasCounted(c) == conn[c].counted

Uncounted(c) ==
    LET p  == conn[c].pool
        ip == conn[c].ip
        n  == counts[p]
    IN  IF ~(WasCounted(c) /\ ip \in DOMAIN n) THEN counts
        ELSE [counts EXCEPT ![p] =
                [i \in IF n[ip] = 1 THEN DOMAIN n \ {ip} ELSE DOMAIN n |->
                    IF i = ip THEN n[i] - 1 ELSE n[i]]]

\* The worker thread takes over the permit, or cannot be spawned and all the
\* closure held is dropped.
SpawnWorker(l) ==
    /\ loop[l].pc = "spawn"
    /\ LET c == loop[l].sock IN
       \/ /\ conn' = [conn EXCEPT ![c].at = "served"]
          /\ loop' = [loop EXCEPT ![l] = [@ EXCEPT !.pc = "check",
                                     !.permit = FALSE, !.sock = None]]
          /\ UNCHANGED <<queue, limits>>
       \/ /\ Again(l)
          /\ counts' = Uncounted(c)
          /\ UNCHANGED max

LoopStep(l) == CheckGen(l) \/ Acquire(l) \/ Accept(l) \/ Recheck(l) \/ Admit(l)
               \/ Count(l) \/ SpawnWorker(l)

----------------------------------------------------------------------------
(* Connections *)

\* A client connects to a socket that is bound, retired or not.
Connect(c, ip, l) ==
    /\ conn[c].at = "none" /\ loop[l].pc # "none" /\ Len(queue[l]) < Backlog
    /\ conn' = [conn EXCEPT ![c] = [NoConn EXCEPT !.at = "queued", !.ip = ip]]
    /\ queue' = [queue EXCEPT ![l] = Append(@, c)]
    /\ UNCHANGED <<ctl, loop, limits, per_ip, task>>

\* The worker ends (module Connection bounds its life): its two permits are
\* dropped one after the other.
EndWorker(c) ==
    /\ \/ /\ conn[c].at = "served"
          /\ counts' = Uncounted(c)
          /\ conn' = [conn EXCEPT ![c].at = "ending", ![c].counted = FALSE]
          /\ UNCHANGED sem
       \/ /\ conn[c].at = "ending"
          /\ sem' = [sem EXCEPT ![conn[c].pool] = @ + 1]
          /\ conn' = [conn EXCEPT ![c] = NoConn]
          /\ UNCHANGED counts
    /\ UNCHANGED <<ctl, loop, queue, max, per_ip, task>>

----------------------------------------------------------------------------
\* main has started the HTTPS listener, and the HTTP one if it is configured.
Init ==
    \E on \in {{"https"}, Kinds}, m \in Limits,
       f \in [Kinds -> Loops], g \in [Kinds -> Pools] :
      /\ f["https"] # f["http"] /\ \A k \in Kinds : KindOf[g[k]] = k
      /\ ctl = [k \in Kinds |-> IF k \in on
                                THEN [loop |-> f[k], pool |-> g[k]] ELSE None]
      /\ loop = [l \in Loops |->
                    IF \E k \in on : f[k] = l
                    THEN NewLoop(g[CHOOSE k \in on : f[k] = l], "check")
                    ELSE NoLoop]
      /\ queue = [l \in Loops |-> <<>>]
      /\ sem = [p \in Pools |-> MAX_CONNS[KindOf[p]]]
      /\ max = [p \in Pools |-> m]
      /\ counts = [p \in Pools |-> <<>>]
      /\ conn = [c \in Conns |-> NoConn]
      /\ per_ip = m /\ task = Idle

Next ==
    \/ \E m \in Limits : SetMax(m)
    \/ \E k \in Kinds, l \in Loops, p \in Pools : StartListener(k, l, p)
    \/ \E k \in Kinds, l \in Loops : Rebind(k, l)
    \/ StopHttp \/ SendProbe \/ SpawnLoop
    \/ \E l \in Loops : /\ LoopStep(l) \/ AcceptFails(l)
                        /\ UNCHANGED <<ctl, per_ip, task>>
    \/ \E c \in Conns, ip \in Ips, l \in Loops : Connect(c, ip, l)
    \/ \E c \in Conns : EndWorker(c)

\* Threads are scheduled; accept() does not fail for ever.  Whether workers end
\* is left open here.
Fairness ==
    /\ WF_vars(SendProbe \/ SpawnLoop)
    /\ \A l \in Loops :
          /\ WF_vars(LoopStep(l) /\ UNCHANGED <<ctl, per_ip, task>>)
          /\ SF_vars(Accept(l) /\ UNCHANGED <<ctl, per_ip, task>>)

Spec == Init /\ [][Next]_vars /\ Fairness

----------------------------------------------------------------------------
(* Properties *)

LoopPcs == {"none", "bound", "check", "acquire", "accept", "accepted",
            "admit", "count", "spawn"}

LoopStates == [pc: LoopPcs, pool: Pools \cup {None}, gen: {0, 1},
               permit: BOOLEAN, sock: Conns \cup {Probe, None},
               cap: Limits \cup {0}]
ConnStates == [at: {"none", "queued", "admitted", "served", "ending"},
               ip: Ips \cup {None}, pool: Pools \cup {None},
               counted: BOOLEAN]
TaskStates == [step: {"idle", "probe", "spawn"}, kind: Kinds \cup {None},
               old: Loops \cup {None}, new: Loops \cup {None}]

\* Every variable holds a value of its type.
TypeOK ==
    /\ ctl \in [Kinds -> [loop: Loops, pool: Pools] \cup {None}]
    /\ loop \in [Loops -> LoopStates]
    /\ queue \in [Loops -> Seq(Conns \cup {Probe})]
    /\ sem \in [Pools -> Nat] /\ max \in [Pools -> Limits]
    /\ DOMAIN counts = Pools
    /\ \A p \in Pools : /\ DOMAIN counts[p] \subseteq Ips
                        /\ counts[p] \in [DOMAIN counts[p] -> Nat]
    /\ conn \in [Conns -> ConnStates]
    /\ per_ip \in Limits
    /\ task \in TaskStates

LoopsHolding(p) == {l \in Loops : loop[l].permit /\ loop[l].pool = p}
Workers(p)      == {c \in Conns : /\ conn[c].at \in {"served", "ending"}
                                  /\ conn[c].pool = p}
CountedFor(p, ip) == {c \in Conns : /\ conn[c].counted /\ conn[c].pool = p
                                    /\ conn[c].ip = ip}

\* Permits are neither lost nor made: however loops retire, spawns fail and
\* workers end, the slots of a pool are free, held by one of its accept loops
\* or held by one of its workers, and add up to the size it was made with.
PermitsConserved ==
    \A p \in Pools :
        sem[p] + Cardinality(LoopsHolding(p)) + Cardinality(Workers(p))
            = MAX_CONNS[KindOf[p]]

\* A limiter counts exactly the live connections that were counted when they
\* were admitted, whatever the limit has become since, and keeps no entry for
\* an address that has none (the map cannot grow without bound).
PeerCountsExact ==
    \A p \in Pools, ip \in Ips :
        /\ Held(p, ip) = Cardinality(CountedFor(p, ip))
        /\ ip \in DOMAIN counts[p] => Held(p, ip) > 0

\* Every listener that is on has a loop that is not retired, except while the
\* watcher replaces it, and no other loop goes on accepting.
OneLiveLoop ==
    /\ \A k \in Kinds : ctl[k] # None =>
          \/ loop[ctl[k].loop].pc # "none" /\ loop[ctl[k].loop].gen = 0
          \/ task.kind = k
    /\ \A l \in Loops : loop[l].pc # "none" /\ loop[l].gen = 0 =>
          \/ \E k \in Kinds : ctl[k] # None /\ ctl[k].loop = l
          \/ task.new = l

\* A loop retired before it looked at a connection admits it no more.
RetiredAdmitsNone ==
    [][\A l \in Loops :
          loop[l].gen # 0 /\ loop[l].pc \notin {"admit", "spawn"}
             => loop'[l].pc # "admit"]_vars

Sharing(p, ip) == {c \in Conns : /\ conn[c].at \in {"admitted", "served"}
                                 /\ conn[c].pool = p /\ conn[c].ip = ip}

\* A connection is let in by the limit its loop went by, which was in force when
\* it looked at the connection and may have been changed since: uncounted only
\* if that limit was off; else only if, with it, the address holds no more than
\* that, provided all it holds was admitted under a limit.  Two loops that share
\* the limiter, the old and the new one, do not both take the last place.
AdmittedWithinCap ==
    [][\A c \in Conns, l \in Loops :
          (loop[l].sock = c /\ conn[c].at = "queued" /\ conn'[c].at = "admitted")
          => LET S == Sharing(loop[l].pool, conn[c].ip) IN
             IF loop[l].cap = 0 THEN max[loop[l].pool] = 0
             ELSE (\A o \in S : conn[o].counted)
                     => Cardinality(S) < loop[l].cap]_vars

\* A retired loop exits and closes its socket, even while every slot is taken by
\* a worker that never ends.  Only accept() can hold it, and only if the probe
\* was lost, until anything at all is queued on its socket.
RetiredLoopsExit ==
    \A l \in Loops :
        /\ loop[l].gen # 0
              ~> \/ loop[l].pc = "none"
                 \/ loop[l].pc = "accept" /\ queue[l] = <<>>
        /\ loop[l].gen # 0 /\ queue[l] # <<>> ~> loop[l].pc = "none"

\* As long as workers end, no client is left waiting in a listen queue: it is
\* served or its connection is closed.
ClientsAnswered ==
    (\A c \in Conns : WF_vars(EndWorker(c))) =>
        \A c \in Conns : conn[c].at = "queued" ~> conn[c].at # "queued"

----------------------------------------------------------------------------
(* A claim of the documentation that the code does not keep *)

\* "The most concurrent connections one source IP may hold", per listener: a
\* connection is let in only if, with it, its address holds no more than max.
PeerCap ==
    [][\A c \in Conns :
          (conn[c].at = "queued" /\ conn'[c].at = "admitted") =>
             LET p == conn'[c].pool IN
             max[p] # 0 => Cardinality(Sharing(p, conn[c].ip)) < max[p]]_vars
============================================================================
