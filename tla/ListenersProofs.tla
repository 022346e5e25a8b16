-------------------------- MODULE ListenersProofs --------------------------
(***************************************************************************)
(* Theorems about Listeners, for every value of its constants.             *)
(***************************************************************************)
EXTENDS Listeners, FiniteSetTheorems, SequenceTheorems, TLAPS

Holding  == {"accept", "accepted", "admit", "count", "spawn"}
Carrying == {"accepted", "admit", "count", "spawn"}

\* An accept loop holds a permit from acquire to the hand-over, and a socket
\* from accept to the hand-over.
LoopsShaped ==
    \A l \in Loops :
        /\ loop[l].pc = "none" => loop[l].pool = None /\ queue[l] = <<>>
        /\ loop[l].pc # "none" => loop[l].pool \in Pools
        /\ loop[l].permit <=> loop[l].pc \in Holding
        /\ loop[l].sock # None <=> loop[l].pc \in Carrying
        /\ loop[l].pc \in {"count", "spawn"} => loop[l].sock # Probe

\* A connection has a pool from its admission on.
ConnsShaped ==
    \A c \in Conns :
        /\ conn[c].at \in {"none", "queued"} =>
              conn[c].pool = None /\ ~conn[c].counted
        /\ conn[c].at \in {"admitted", "served", "ending"} =>
              conn[c].pool \in Pools
        /\ conn[c].at # "none" => conn[c].ip \in Ips
        /\ conn[c].at = "ending" => ~conn[c].counted

\* What is queued was not looked at; what a loop carries is admitted once it
\* is about to be handed over.
Located ==
    \A l \in Loops :
        /\ \A i \in DOMAIN queue[l] :
              queue[l][i] # Probe => conn[queue[l][i]].at = "queued"
        /\ loop[l].sock \in Conns =>
              /\ loop[l].pc # "spawn" => conn[loop[l].sock].at = "queued"
              /\ loop[l].pc = "spawn" =>
                    /\ conn[loop[l].sock].at = "admitted"
                    /\ conn[loop[l].sock].pool = loop[l].pool

\* A connection is in one place: one entry of one queue, or one loop's hands.
OnePlace ==
    \A l, m \in Loops :
        /\ \A i \in DOMAIN queue[l], j \in DOMAIN queue[m] :
              queue[l][i] = queue[m][j] /\ queue[l][i] # Probe => l = m /\ i = j
        /\ \A i \in DOMAIN queue[l] :
              queue[l][i] # Probe => queue[l][i] # loop[m].sock
        /\ loop[l].sock \in Conns /\ loop[l].sock = loop[m].sock => l = m

\* What the watcher is in the middle of, and what it holds.
WatcherShaped ==
    /\ task.step = "idle" => task = Idle
    /\ task.step # "idle" => /\ task.kind \in Kinds /\ task.old \in Loops
                             /\ ctl[task.kind] # None
    /\ task.step = "spawn" => task.new # None
    /\ task.new # None => /\ loop[task.new].pc = "bound"
                          /\ loop[task.new].gen = 0

\* A limiter has an entry only for an address that holds a slot.
CountsTyped ==
    /\ DOMAIN counts = Pools
    /\ \A p \in Pools : /\ DOMAIN counts[p] \subseteq Ips
                        /\ counts[p] \in [DOMAIN counts[p] -> Nat \ {0}]

Inv == TypeOK /\ LoopsShaped /\ ConnsShaped /\ Located /\ OnePlace
       /\ WatcherShaped /\ CountsTyped

\* The fields of a loop that has just been started, and of none.
LEMMA LoopParts ==
    /\ \A p, at : LET new == NewLoop(p, at)
                  IN  /\ new.pc = at /\ new.pool = p /\ new.gen = 0
                      /\ ~new.permit /\ new.sock = None
    /\ NoLoop.pc = "none" /\ NoLoop.pool = None /\ NoLoop.gen = 0
    /\ ~NoLoop.permit /\ NoLoop.sock = None
BY DEF NewLoop, NoLoop

\* The invariant holds at first.
LEMMA InitInv == Init => Inv
<1> SUFFICES ASSUME Init PROVE Inv
    OBVIOUS
<1>1. PICK on \in {{"https"}, Kinds}, m \in Limits,
           f \in [Kinds -> Loops], g \in [Kinds -> Pools] :
      /\ f["https"] # f["http"] /\ \A k \in Kinds : KindOf[g[k]] = k
      /\ ctl = [k \in Kinds |-> IF k \in on
                                THEN [loop |-> f[k], pool |-> g[k]] ELSE None]
      /\ loop = [l \in Loops |->
                    IF \E k \in on : f[k] = l
                    THEN NewLoop(g[CHOOSE k \in on : f[k] = l], "check")
                    ELSE NoLoop]
      /\ queue = [l \in Loops |-> <<>>]
      /\ sem = [p \in Pools |-> MAX_CONNS[KindOf[p]]]
      /\ max = [p \in Pools |-> m]
      /\ counts = [p \in Pools |-> <<>>]
      /\ conn = [c \in Conns |-> NoConn]
      /\ per_ip = m /\ task = Idle
    BY DEF Init
<1>2. on \subseteq Kinds
    BY DEF Kinds
<1>3. \A l \in Loops :
        \/ loop[l] = NoLoop
        \/ \E p \in Pools : loop[l] = NewLoop(p, "check")
    <2> SUFFICES ASSUME NEW l \in Loops, \E k \in on : f[k] = l
                 PROVE  \E p \in Pools : loop[l] = NewLoop(p, "check")
        BY <1>1
    <2> DEFINE k == CHOOSE x \in on : f[x] = l
    <2>1. k \in Kinds
        BY <1>2
    <2> QED BY <2>1, <1>1
<1>4. /\ NoLoop \in LoopStates
      /\ \A p \in Pools : NewLoop(p, "check") \in LoopStates
    BY DEF NoLoop, NewLoop, LoopPcs, LoopStates
<1>5. \A l \in Loops : loop[l] \in LoopStates
    BY <1>3, <1>4
<1>6. NoConn \in ConnStates
    BY DEF NoConn, ConnStates
<1>7. Idle \in TaskStates
    BY DEF Idle, TaskStates
<1>8. \A k \in Kinds : ctl[k] \in [loop: Loops, pool: Pools] \cup {None}
    BY <1>1
<1>9. sem \in [Pools -> Nat]
    BY <1>1, ConstantsAssumption DEF ConstantsAssumption
<1>10. DOMAIN <<>> = {} /\ <<>> \in Seq(Conns \cup {Probe})
    OBVIOUS
<1>11. CountsTyped
    BY <1>1, <1>10 DEF CountsTyped
<1>12. TypeOK
    BY <1>1, <1>5, <1>6, <1>7, <1>8, <1>9, <1>10, <1>11 DEF TypeOK, CountsTyped
<1>13. LoopsShaped
    <2>1. \A l \in Loops : ~loop[l].permit /\ loop[l].sock = None
        BY <1>3, LoopParts
    <2>2. \A l \in Loops :
            \/ loop[l].pc = "none" /\ loop[l].pool = None
            \/ loop[l].pc = "check" /\ loop[l].pool \in Pools
        BY <1>3, LoopParts
    <2>3. \A l \in Loops : queue[l] = <<>>
        BY <1>1
    <2> QED BY <2>1, <2>2, <2>3 DEF LoopsShaped, Holding, Carrying
<1>14. ConnsShaped
    BY <1>1 DEF ConnsShaped, NoConn
<1>15. \A l \in Loops : loop[l].sock = None /\ queue[l] = <<>>
    BY <1>1, <1>3 DEF NoLoop, NewLoop
<1>16. Located /\ OnePlace
    BY <1>10, <1>15, ConstantsAssumption DEF Located, OnePlace, ConstantsAssumption
<1>17. WatcherShaped
    BY <1>1 DEF WatcherShaped, Idle
<1> QED BY <1>11, <1>12, <1>13, <1>14, <1>16, <1>17 DEF Inv

\* The entries of a queue with one more at its end, and of one without its first.
LEMMA QueueParts ==
    ASSUME NEW S, NEW s \in Seq(S)
    PROVE  /\ \A e \in S : \A i \in DOMAIN Append(s, e) :
                \/ i \in DOMAIN s /\ Append(s, e)[i] = s[i]
                \/ i = Len(s) + 1 /\ Append(s, e)[i] = e
           /\ s # <<>> =>
                /\ Head(s) = s[1] /\ 1 \in DOMAIN s
                /\ \A i \in DOMAIN Tail(s) :
                      i + 1 \in DOMAIN s /\ Tail(s)[i] = s[i + 1] /\ i \in Nat \ {0}
<1>1. ASSUME NEW e \in S, NEW i \in DOMAIN Append(s, e)
      PROVE  \/ i \in DOMAIN s /\ Append(s, e)[i] = s[i]
             \/ i = Len(s) + 1 /\ Append(s, e)[i] = e
    <2>1. i \in 1 .. Len(s) + 1 /\ DOMAIN s = 1 .. Len(s) /\ Len(s) \in Nat
        BY AppendProperties
    <2>2. CASE i = Len(s) + 1
        BY <2>2, AppendProperties
    <2>3. CASE i # Len(s) + 1
        BY <2>1, <2>3, AppendProperties
    <2> QED BY <2>2, <2>3
<1>2. ASSUME s # <<>>
      PROVE  /\ Head(s) = s[1] /\ 1 \in DOMAIN s
             /\ \A i \in DOMAIN Tail(s) :
                   i + 1 \in DOMAIN s /\ Tail(s)[i] = s[i + 1] /\ i \in Nat \ {0}
    <2>1. /\ Len(s) \in Nat \ {0} /\ DOMAIN s = 1 .. Len(s) /\ Head(s) = s[1]
        BY <1>2, EmptySeq
    <2>2. /\ Tail(s) \in Seq(S) /\ Len(Tail(s)) = Len(s) - 1
          /\ \A i \in 1 .. Len(Tail(s)) : Tail(s)[i] = s[i + 1]
        BY <1>2, HeadTailProperties
    <2>3. DOMAIN Tail(s) = 1 .. Len(s) - 1
        BY <2>2
    <2> QED BY <2>1, <2>2, <2>3
<1> QED BY <1>1, <1>2

\* A queue is a sequence of connections and probes.
LEMMA InQueue ==
    ASSUME TypeOK, NEW l \in Loops
    PROVE  /\ queue[l] \in Seq(Conns \cup {Probe})
           /\ \A i \in DOMAIN queue[l] : queue[l][i] \in Conns \cup {Probe}
           /\ DOMAIN queue[l] = 1 .. Len(queue[l]) /\ Len(queue[l]) \in Nat
BY DEF TypeOK

\* A loop stays a loop when some of its fields change.
LEMMA StateParts ==
    ASSUME NEW x \in LoopStates
    PROVE  /\ \A at \in LoopPcs : [x EXCEPT !.pc = at] \in LoopStates
           /\ [x EXCEPT !.gen = 1] \in LoopStates
           /\ \A at \in LoopPcs, c \in Conns \cup {Probe, None} :
                [x EXCEPT !.pc = at, !.sock = c] \in LoopStates
           /\ \A at \in LoopPcs :
                /\ [x EXCEPT !.pc = at, !.permit = TRUE] \in LoopStates
                /\ [x EXCEPT !.pc = at, !.permit = FALSE, !.sock = None]
                      \in LoopStates
                /\ [x EXCEPT !.pc = at, !.permit = FALSE, !.sock = None, !.cap = 0]
                      \in LoopStates
                /\ [x EXCEPT !.pc = at, !.cap = 0] \in LoopStates
                /\ \A m \in Limits : [x EXCEPT !.pc = at, !.cap = m] \in LoopStates
BY DEF LoopStates

\* A loop that ends keeps the invariant.
LEMMA ExitKeeps ==
    ASSUME Inv, NEW l \in Loops,
           loop[l].pc \in {"check", "accept", "accepted"},
           Exit(l), UNCHANGED <<ctl, per_ip, task>>
    PROVE  Inv'
<1> USE DEF Inv
<1>1. loop' = [loop EXCEPT ![l] = NoLoop] /\ queue' = [queue EXCEPT ![l] = <<>>]
    BY DEF Exit
<1>2. \A c \in Conns :
        conn'[c] = IF c \in Queued(l) \cup {loop[l].sock} THEN NoConn
                   ELSE conn[c]
    BY DEF Exit, Closed
<1>3. NoLoop \in LoopStates /\ NoConn \in ConnStates
    BY DEF NoLoop, LoopStates, LoopPcs, NoConn, ConnStates
<1>4. <<>> \in Seq(Conns \cup {Probe}) /\ DOMAIN <<>> = {}
    OBVIOUS
<1>5. loop[l].pool \in Pools
    BY DEF LoopsShaped
<1>6. sem' \in [Pools -> Nat]
    BY <1>5 DEF Exit, Returned, TypeOK
<1>7. conn' \in [Conns -> ConnStates]
    BY <1>2, <1>3 DEF Exit, Closed, TypeOK
<1>8. TypeOK'
    BY <1>1, <1>3, <1>4, <1>6, <1>7 DEF TypeOK, Exit
<1>9. LoopsShaped'
    BY <1>1, LoopParts DEF LoopsShaped, TypeOK, Holding, Carrying
<1>10. ConnsShaped'
    BY <1>2 DEF ConnsShaped, NoConn
<1>11. \A m \in Loops : /\ loop'[m].sock = IF m = l THEN None ELSE loop[m].sock
                        /\ queue'[m] = IF m = l THEN <<>> ELSE queue[m]
    BY <1>1, LoopParts DEF TypeOK
<1>12. OnePlace'
    <2> SUFFICES ASSUME NEW m \in Loops, NEW n \in Loops
                 PROVE  (/\ \A i \in DOMAIN queue[m], j \in DOMAIN queue[n] :
                              queue[m][i] = queue[n][j] /\ queue[m][i] # Probe
                                 => m = n /\ i = j
                         /\ \A i \in DOMAIN queue[m] :
                              queue[m][i] # Probe => queue[m][i] # loop[n].sock
                         /\ loop[m].sock \in Conns /\ loop[m].sock = loop[n].sock
                              => m = n)'
        BY DEF OnePlace
    <2>1. \A i \in DOMAIN queue'[m], j \in DOMAIN queue'[n] :
              queue'[m][i] = queue'[n][j] /\ queue'[m][i] # Probe
                 => m = n /\ i = j
        BY <1>4, <1>11 DEF OnePlace
    <2>2. \A i \in DOMAIN queue'[m] : queue'[m][i] # Probe
                                         => queue'[m][i] # loop'[n].sock
        BY <1>4, <1>11, InQueue, ConstantsAssumption DEF OnePlace, ConstantsAssumption
    <2>3. loop'[m].sock \in Conns /\ loop'[m].sock = loop'[n].sock => m = n
        BY <1>11, ConstantsAssumption DEF OnePlace, ConstantsAssumption
    <2> QED BY <2>1, <2>2, <2>3
<1>13. \A m \in Loops \ {l} :
        /\ loop[m].sock \in Conns => conn'[loop[m].sock] = conn[loop[m].sock]
        /\ \A i \in DOMAIN queue[m] :
              queue[m][i] # Probe => conn'[queue[m][i]] = conn[queue[m][i]]
    <2> TAKE m \in Loops \ {l}
    <2>1. ASSUME loop[m].sock \in Conns
          PROVE  loop[m].sock \notin Queued(l) \cup {loop[l].sock}
        BY <2>1, ConstantsAssumption DEF OnePlace, Queued, ConstantsAssumption
    <2>2. ASSUME NEW i \in DOMAIN queue[m], queue[m][i] # Probe
          PROVE  queue[m][i] \in Conns \ (Queued(l) \cup {loop[l].sock})
        BY <2>2, InQueue DEF OnePlace, Queued
    <2> QED BY <1>2, <2>1, <2>2
<1>14. Located'
    BY <1>1, <1>4, <1>11, <1>13, ConstantsAssumption
    DEF Located, TypeOK, ConstantsAssumption
<1>15. WatcherShaped'
    BY <1>1 DEF WatcherShaped, TypeOK
<1>16. CountsTyped'
    BY DEF Exit, CountsTyped
<1> QED BY <1>8, <1>9, <1>10, <1>12, <1>14, <1>15, <1>16

\* A loop that turns to the next connection keeps the invariant.
LEMMA AgainKeeps ==
    ASSUME Inv, NEW l \in Loops, loop[l].pc \in {"accept", "admit", "count", "spawn"},
           Again(l), CountsTyped', UNCHANGED <<max, ctl, per_ip, task>>
    PROVE  Inv'
<1> USE DEF Inv
<1>1. /\ loop' = [loop EXCEPT ![l] = [@ EXCEPT !.pc = "check", !.permit = FALSE,
                                               !.sock = None, !.cap = 0]]
      /\ queue' = queue
    BY DEF Again
<1>2. \A c \in Conns :
        conn'[c] = IF c = loop[l].sock THEN NoConn ELSE conn[c]
    BY DEF Again, Closed
<1>3. NoConn \in ConnStates
    BY DEF NoConn, ConnStates
<1>4. loop' \in [Loops -> LoopStates]
    BY <1>1, StateParts DEF TypeOK, LoopPcs
<1>5. loop[l].pool \in Pools
    BY DEF LoopsShaped
<1>6. sem' \in [Pools -> Nat]
    BY <1>5 DEF Again, Returned, TypeOK
<1>7. conn' \in [Conns -> ConnStates]
    BY <1>2, <1>3 DEF Again, Closed, TypeOK
<1>8. TypeOK'
    BY <1>1, <1>4, <1>6, <1>7 DEF TypeOK, CountsTyped
<1>9. \A m \in Loops :
        IF m = l THEN /\ loop'[m].sock = None /\ loop'[m].pc = "check"
                      /\ loop'[m].pool = loop[m].pool /\ loop'[m].gen = loop[m].gen
                      /\ ~loop'[m].permit
                 ELSE loop'[m] = loop[m]
    BY <1>1 DEF TypeOK, LoopStates
<1>10. LoopsShaped'
    <2> SUFFICES ASSUME NEW m \in Loops
                 PROVE  (/\ loop[m].pc = "none" => loop[m].pool = None /\ queue[m] = <<>>
                         /\ loop[m].pc # "none" => loop[m].pool \in Pools
                         /\ loop[m].permit <=> loop[m].pc \in Holding
                         /\ loop[m].sock # None <=> loop[m].pc \in Carrying
                         /\ loop[m].pc \in {"count", "spawn"} => loop[m].sock # Probe)'
        BY DEF LoopsShaped
    <2>1. CASE m = l
        BY <2>1, <1>5, <1>9 DEF Holding, Carrying
    <2>2. CASE m # l
        BY <2>2, <1>1, <1>9 DEF LoopsShaped
    <2> QED BY <2>1, <2>2
<1>11. ConnsShaped'
    BY <1>2 DEF ConnsShaped, NoConn
<1>12. OnePlace'
    BY <1>1, <1>9, InQueue, ConstantsAssumption DEF OnePlace, ConstantsAssumption
<1>13. \A m \in Loops :
        /\ m # l /\ loop[m].sock \in Conns =>
              conn'[loop[m].sock] = conn[loop[m].sock]
        /\ \A i \in DOMAIN queue[m] :
              queue[m][i] # Probe => conn'[queue[m][i]] = conn[queue[m][i]]
    <2> TAKE m \in Loops
    <2>1. ASSUME loop[m].sock \in Conns, m # l
          PROVE  loop[m].sock # loop[l].sock
        BY <2>1 DEF OnePlace
    <2>2. ASSUME NEW i \in DOMAIN queue[m], queue[m][i] # Probe
          PROVE  queue[m][i] \in Conns \ {loop[l].sock}
        BY <2>2, InQueue DEF OnePlace
    <2> QED BY <1>2, <2>1, <2>2
<1>14. Located'
    BY <1>1, <1>9, <1>13, ConstantsAssumption DEF Located, ConstantsAssumption
<1>15. WatcherShaped'
    BY <1>1, <1>9 DEF WatcherShaped, TypeOK, TaskStates
<1> QED BY <1>8, <1>10, <1>11, <1>12, <1>14, <1>15

\* A step that only moves a loop on within the steps that hold and carry what
\* it does.
LEMMA GotoKeeps ==
    ASSUME Inv, NEW l \in Loops, NEW at \in LoopPcs \ {"none", "bound", "count", "spawn"},
           loop[l].pc \notin {"none", "bound", "count", "spawn"},
           at \in Holding <=> loop[l].pc \in Holding,
           at \in Carrying <=> loop[l].pc \in Carrying,
           Goto(l, at), UNCHANGED <<queue, limits, conn, ctl, per_ip, task>>
    PROVE  Inv'
<1> USE DEF Inv, limits
<1>1. loop' \in [Loops -> LoopStates]
    BY StateParts DEF Goto, TypeOK
<1>2. TypeOK'
    BY <1>1 DEF TypeOK
<1>3. \A m \in Loops :
        IF m = l THEN /\ loop'[m].sock = loop[m].sock /\ loop'[m].pc = at
                      /\ loop'[m].pool = loop[m].pool /\ loop'[m].gen = loop[m].gen
                      /\ loop'[m].permit = loop[m].permit
                 ELSE loop'[m] = loop[m]
    BY DEF Goto, TypeOK, LoopStates
<1>4. LoopsShaped'
    BY <1>3 DEF LoopsShaped
<1>5. ConnsShaped' /\ OnePlace' /\ Located' /\ CountsTyped'
    BY <1>3 DEF ConnsShaped, OnePlace, Located, CountsTyped
<1>6. WatcherShaped'
    BY <1>3 DEF WatcherShaped, TypeOK, TaskStates
<1> QED BY <1>2, <1>4, <1>5, <1>6

\* A loop that has read the limit keeps the invariant.
LEMMA LimitReadKeeps ==
    ASSUME Inv, NEW l \in Loops, loop[l].pc = "admit", loop[l].sock # Probe,
           loop' = [loop EXCEPT ![l] = [@ EXCEPT !.pc = "count",
                                                 !.cap = max[loop[l].pool]]],
           UNCHANGED <<queue, limits, conn, ctl, per_ip, task>>
    PROVE  Inv'
<1> USE DEF Inv, limits
<1>1. loop[l].pool \in Pools /\ max[loop[l].pool] \in Limits
    BY DEF LoopsShaped, TypeOK
<1>2. loop' \in [Loops -> LoopStates]
    BY <1>1, StateParts DEF TypeOK, LoopPcs
<1>3. TypeOK'
    BY <1>2 DEF TypeOK
<1>4. \A m \in Loops :
        IF m = l THEN /\ loop'[m].sock = loop[m].sock /\ loop'[m].pc = "count"
                      /\ loop'[m].pool = loop[m].pool /\ loop'[m].gen = loop[m].gen
                      /\ loop'[m].permit = loop[m].permit
                 ELSE loop'[m] = loop[m]
    BY DEF TypeOK, LoopStates
<1>5. LoopsShaped'
    BY <1>4 DEF LoopsShaped, Holding, Carrying
<1>6. ConnsShaped' /\ OnePlace' /\ Located' /\ CountsTyped'
    BY <1>4 DEF ConnsShaped, OnePlace, Located, CountsTyped
<1>7. WatcherShaped'
    BY <1>4 DEF WatcherShaped, TypeOK, TaskStates
<1> QED BY <1>3, <1>5, <1>6, <1>7

\* A loop that admits the connection it carries keeps the invariant.
LEMMA AdmissionKeeps ==
    ASSUME Inv, NEW l \in Loops, loop[l].pc \in {"admit", "count"},
           loop[l].sock \in Conns, loop[l].sock # Probe,
           NEW x \in LoopStates, loop' = [loop EXCEPT ![l] = x], x.pc = "spawn",
           x.pool = loop[l].pool, x.sock = loop[l].sock,
           x.permit = loop[l].permit,
           NEW y \in ConnStates, conn' = [conn EXCEPT ![loop[l].sock] = y],
           y.at = "admitted", y.pool = loop[l].pool,
           y.ip = conn[loop[l].sock].ip,
           UNCHANGED <<queue, sem, max, ctl, per_ip, task>>, CountsTyped'
    PROVE  Inv'
<1> USE DEF Inv
<1> DEFINE c == loop[l].sock
           p == loop[l].pool
<1>1. p \in Pools /\ loop[l].permit
    BY DEF LoopsShaped, Holding
<1>2. loop' \in [Loops -> LoopStates] /\ conn' \in [Conns -> ConnStates]
    BY DEF TypeOK
<1>3. TypeOK'
    BY <1>2 DEF TypeOK, CountsTyped
<1>4. /\ loop'[l].pc = "spawn" /\ loop'[l].pool = p /\ loop'[l].sock = c
      /\ loop'[l].permit = loop[l].permit
      /\ \A m \in Loops \ {l} : loop'[m] = loop[m]
    BY DEF TypeOK
<1>5. conn'[c] = y /\ \A d \in Conns \ {c} : conn'[d] = conn[d]
    BY DEF TypeOK
<1>6. LoopsShaped'
    <2> SUFFICES ASSUME NEW m \in Loops
                 PROVE  (/\ loop[m].pc = "none" => loop[m].pool = None /\ queue[m] = <<>>
                         /\ loop[m].pc # "none" => loop[m].pool \in Pools
                         /\ loop[m].permit <=> loop[m].pc \in Holding
                         /\ loop[m].sock # None <=> loop[m].pc \in Carrying
                         /\ loop[m].pc \in {"count", "spawn"} => loop[m].sock # Probe)'
        BY DEF LoopsShaped
    <2>1. c # None
        BY ConstantsAssumption DEF ConstantsAssumption
    <2>2. CASE m = l
        <3>1. loop'[l].permit
            BY <1>1, <1>4, Zenon
        <3> QED BY <1>1, <1>4, <2>1, <2>2, <3>1 DEF Holding, Carrying
    <2>3. CASE m # l
        BY <1>4, <2>3 DEF LoopsShaped
    <2> QED BY <2>2, <2>3
<1>7. ConnsShaped'
    <2>1. conn[c].at = "queued"
        BY DEF Located
    <2>2. conn'[c].ip \in Ips
        BY <1>5, <2>1 DEF ConnsShaped
    <2> QED BY <1>1, <1>5, <2>2 DEF ConnsShaped
<1>8. OnePlace'
    BY <1>4 DEF OnePlace
<1>9. Located'
    BY <1>4, <1>5, InQueue DEF Located, OnePlace
<1>10. WatcherShaped'
    BY <1>4 DEF WatcherShaped, TypeOK, TaskStates
<1> QED BY <1>3, <1>6, <1>7, <1>8, <1>9, <1>10

\* What the watcher does to a listener keeps the invariant.
LEMMA WatcherKeeps ==
    ASSUME Inv,
           \/ \E m \in Limits : SetMax(m)
           \/ \E k \in Kinds, l \in Loops, p \in Pools : StartListener(k, l, p)
           \/ \E k \in Kinds, l \in Loops : Rebind(k, l)
           \/ StopHttp \/ SendProbe \/ SpawnLoop
    PROVE  Inv'
<1> USE DEF Inv, limits
<1>1. ASSUME NEW m \in Limits, SetMax(m)
      PROVE  Inv'
    <2>1. max' \in [Pools -> Limits]
        BY <1>1 DEF SetMax, TypeOK
    <2>2. per_ip' \in Limits
        BY <1>1 DEF SetMax
    <2>3. UNCHANGED <<ctl, loop, queue, sem, counts, conn, task>>
        BY <1>1 DEF SetMax
    <2>4. TypeOK'
        BY <2>1, <2>2, <2>3 DEF TypeOK
    <2> QED BY <2>3, <2>4
        DEF LoopsShaped, ConnsShaped, Located, OnePlace, WatcherShaped, CountsTyped
<1>2. ASSUME NEW k \in Kinds, NEW l \in Loops, NEW p \in Pools,
             StartListener(k, l, p)
      PROVE  Inv'
    <2> DEFINE new == NewLoop(p, "check")
    <2>1. /\ loop' = [loop EXCEPT ![l] = new] /\ loop[l].pc = "none"
          /\ ctl' = [ctl EXCEPT ![k] = [loop |-> l, pool |-> p]]
          /\ sem' = [sem EXCEPT ![p] = MAX_CONNS[k]]
          /\ max' = [max EXCEPT ![p] = per_ip]
          /\ counts' = [counts EXCEPT ![p] = <<>>]
          /\ UNCHANGED <<queue, conn, per_ip, task>> /\ task = Idle
        BY <1>2 DEF StartListener, FreeLoops
    <2>2. new \in LoopStates
        BY DEF NewLoop, NoLoop, LoopStates, LoopPcs
    <2>3. /\ new.pc = "check" /\ new.pool = p /\ new.gen = 0 /\ ~new.permit
          /\ new.sock = None
        BY LoopParts
    <2> HIDE DEF new
    <2>4. MAX_CONNS[k] \in Nat
        BY ConstantsAssumption DEF ConstantsAssumption
    <2>5. sem' \in [Pools -> Nat] /\ max' \in [Pools -> Limits]
        BY <2>1, <2>4 DEF TypeOK
    <2>6. CountsTyped'
        BY <2>1 DEF CountsTyped, TypeOK
    <2>7. TypeOK'
        BY <2>1, <2>2, <2>5, <2>6 DEF TypeOK, CountsTyped
    <2>8. loop[l].sock = None
        BY <2>1 DEF LoopsShaped, Carrying
    <2>9. \A m \in Loops : /\ loop'[m] = IF m = l THEN new ELSE loop[m]
                           /\ loop'[m].sock = loop[m].sock
        BY <2>1, <2>3, <2>8 DEF TypeOK
    <2>10. LoopsShaped'
        BY <2>1, <2>3, <2>9 DEF LoopsShaped, Holding, Carrying
    <2>11. ConnsShaped' /\ OnePlace'
        BY <2>1, <2>9 DEF ConnsShaped, OnePlace
    <2>12. Located'
        BY <2>1, <2>3, <2>8, <2>9, ConstantsAssumption
        DEF Located, ConstantsAssumption
    <2>13. WatcherShaped'
        BY <2>1, ConstantsAssumption DEF WatcherShaped, Idle, ConstantsAssumption
    <2> QED BY <2>6, <2>7, <2>10, <2>11, <2>12, <2>13
<1>3. ASSUME NEW k \in Kinds, NEW l \in Loops, Rebind(k, l)
      PROVE  Inv'
    <2> DEFINE o   == ctl[k].loop
               p   == ctl[k].pool
               new == NewLoop(p, "bound")
               mid == [loop[o] EXCEPT !.gen = 1]
    <2>1. /\ loop' = [[loop EXCEPT ![o] = mid] EXCEPT ![l] = new]
          /\ loop[l].pc = "none" /\ ctl[k] # None
          /\ task' = [step |-> "probe", kind |-> k, old |-> o, new |-> l]
          /\ UNCHANGED <<ctl, queue, sem, max, counts, conn, per_ip>>
        BY <1>3 DEF Rebind, FreeLoops, Bumped
    <2>2. o \in Loops /\ p \in Pools
        BY <2>1 DEF TypeOK
    <2>3. new \in LoopStates
        BY <2>2 DEF NewLoop, NoLoop, LoopStates, LoopPcs
    <2>4. /\ new.pc = "bound" /\ new.pool = p /\ new.gen = 0 /\ ~new.permit
          /\ new.sock = None
        BY LoopParts
    <2>5. mid \in LoopStates
        BY <2>2, StateParts DEF TypeOK
    <2>6. /\ mid.pc = loop[o].pc /\ mid.pool = loop[o].pool
          /\ mid.permit = loop[o].permit /\ mid.sock = loop[o].sock
        BY <2>2 DEF TypeOK, LoopStates
    <2>7. task' \in TaskStates
        BY <2>1, <2>2 DEF TaskStates
    <2> HIDE DEF new, mid
    <2>8. TypeOK'
        <3> HIDE DEF o
        <3> QED BY <2>1, <2>2, <2>3, <2>5, <2>7 DEF TypeOK
    <2>9. loop[l].sock = None
        BY <2>1 DEF LoopsShaped, Carrying
    <2>10. /\ loop'[l] = new
           /\ \A m \in Loops \ {l} :
                /\ loop'[m].pc = loop[m].pc /\ loop'[m].pool = loop[m].pool
                /\ loop'[m].permit = loop[m].permit
                /\ loop'[m].sock = loop[m].sock
        BY <2>1, <2>2, <2>6 DEF TypeOK
    <2>15. \A m \in Loops : loop'[m].sock = loop[m].sock
        BY <2>4, <2>9, <2>10
    <2>16. UNCHANGED <<queue, conn, counts>> /\ loop[l].pc = "none"
        BY <2>1
    <2> HIDE DEF o, p
    <2>11. LoopsShaped'
        BY <2>2, <2>4, <2>10, <2>16 DEF LoopsShaped, Holding, Carrying
    <2>12. ConnsShaped' /\ OnePlace' /\ CountsTyped'
        BY <2>15, <2>16 DEF ConnsShaped, OnePlace, CountsTyped
    <2>13. Located'
        BY <2>9, <2>10, <2>15, <2>16, ConstantsAssumption
        DEF Located, ConstantsAssumption
    <2>14. WatcherShaped'
        BY <2>1, <2>2, <2>4, <2>10 DEF WatcherShaped
    <2> QED BY <2>8, <2>11, <2>12, <2>13, <2>14
<1>4. CASE StopHttp
    <2> DEFINE o   == ctl["http"].loop
               mid == [loop[o] EXCEPT !.gen = 1]
    <2>1. /\ loop' = [loop EXCEPT ![o] = mid] /\ ctl["http"] # None
          /\ task' = [step |-> "probe", kind |-> "http", old |-> o, new |-> None]
          /\ UNCHANGED <<ctl, queue, sem, max, counts, conn, per_ip>>
        BY <1>4 DEF StopHttp, Bumped
    <2>2. o \in Loops
        BY <2>1 DEF TypeOK, Kinds
    <2>3. mid \in LoopStates
        BY <2>2, StateParts DEF TypeOK
    <2>4. /\ mid.pc = loop[o].pc /\ mid.pool = loop[o].pool
          /\ mid.permit = loop[o].permit /\ mid.sock = loop[o].sock
        BY <2>2 DEF TypeOK, LoopStates
    <2>5. task' \in TaskStates
        BY <2>1, <2>2 DEF TaskStates, Kinds
    <2> HIDE DEF mid
    <2>6. TypeOK'
        <3> HIDE DEF o
        <3> QED BY <2>1, <2>2, <2>3, <2>5 DEF TypeOK
    <2>7. \A m \in Loops :
            /\ loop'[m].sock = loop[m].sock /\ loop'[m].pc = loop[m].pc
            /\ loop'[m].pool = loop[m].pool /\ loop'[m].permit = loop[m].permit
        BY <2>1, <2>2, <2>4 DEF TypeOK
    <2>8. LoopsShaped' /\ ConnsShaped' /\ OnePlace' /\ Located' /\ CountsTyped'
        BY <2>1, <2>7 DEF LoopsShaped, ConnsShaped, OnePlace, Located, CountsTyped
    <2>9. WatcherShaped'
        BY <2>1, <2>2 DEF WatcherShaped, Kinds
    <2> QED BY <2>6, <2>8, <2>9
<1>5. CASE SendProbe
    <2>1. /\ task.step = "probe" /\ UNCHANGED <<loop, sem, max, counts, conn, per_ip>>
          /\ task.kind \in Kinds /\ task.old \in Loops
        BY <1>5 DEF SendProbe, WatcherShaped
    <2>2. /\ queue' \in [Loops -> Seq(Conns \cup {Probe})]
          /\ \A l \in Loops :
                \/ queue'[l] = queue[l]
                \/ queue'[l] = Append(queue[l], Probe) /\ loop[l].pc # "none"
        <3>1. CASE queue' = queue
            BY <3>1 DEF TypeOK
        <3>2. CASE /\ loop[task.old].pc # "none"
                   /\ queue' = [queue EXCEPT ![task.old] = Append(@, Probe)]
            BY <2>1, <3>2 DEF TypeOK
        <3> QED BY <1>5, <3>1, <3>2 DEF SendProbe
    <2>3. \A l \in Loops : \A i \in DOMAIN queue'[l] :
                \/ queue'[l][i] = Probe
                \/ i \in DOMAIN queue[l] /\ queue'[l][i] = queue[l][i]
        <3> SUFFICES ASSUME NEW l \in Loops, queue'[l] = Append(queue[l], Probe),
                            NEW i \in DOMAIN queue'[l]
                     PROVE  \/ queue'[l][i] = Probe
                            \/ i \in DOMAIN queue[l] /\ queue'[l][i] = queue[l][i]
            BY <2>2
        <3>1. queue[l] \in Seq(Conns \cup {Probe})
            BY InQueue
        <3>2. \A j \in DOMAIN Append(queue[l], Probe) :
                \/ j \in DOMAIN queue[l] /\ Append(queue[l], Probe)[j] = queue[l][j]
                \/ j = Len(queue[l]) + 1 /\ Append(queue[l], Probe)[j] = Probe
            BY <3>1, QueueParts
        <3> QED BY <3>2
    <2>4. \/ /\ task' = Idle
             /\ ctl' = [ctl EXCEPT ![task.kind] = None]
          \/ /\ task' = [task EXCEPT !.step = "spawn"] /\ task.new # None
             /\ ctl' = ctl
        BY <1>5 DEF SendProbe
    <2>10. ctl' \in [Kinds -> [loop: Loops, pool: Pools] \cup {None}]
        BY <2>1, <2>4 DEF TypeOK
    <2>5. task' \in TaskStates
        <3>1. Idle \in TaskStates /\ [task EXCEPT !.step = "spawn"] \in TaskStates
            BY DEF TypeOK, TaskStates, Idle
        <3> QED BY <2>4, <3>1
    <2>6. TypeOK'
        BY <2>1, <2>2, <2>5, <2>10 DEF TypeOK
    <2>7. LoopsShaped' /\ ConnsShaped' /\ CountsTyped'
        BY <2>1, <2>2 DEF LoopsShaped, ConnsShaped, CountsTyped
    <2>8. OnePlace' /\ Located'
        BY <2>1, <2>3 DEF OnePlace, Located
    <2>9. WatcherShaped'
        <3>1. CASE task' = Idle
            BY <3>1 DEF WatcherShaped, Idle
        <3>2. CASE task' = [task EXCEPT !.step = "spawn"] /\ task.new # None
                   /\ ctl' = ctl
            <4>1. /\ task'.step = "spawn" /\ task'.kind = task.kind
                  /\ task'.old = task.old /\ task'.new = task.new
                BY <3>2 DEF TypeOK, TaskStates
            <4> QED BY <2>1, <3>2, <4>1 DEF WatcherShaped
        <3> QED BY <2>4, <3>1, <3>2
    <2> QED BY <2>6, <2>7, <2>8, <2>9
<1>6. CASE SpawnLoop
    <2> DEFINE l   == task.new
               k   == task.kind
               new == [loop[l] EXCEPT !.pc = "check"]
               c   == [ctl[k] EXCEPT !.loop = l]
    <2>1. /\ loop' = [loop EXCEPT ![l] = new] /\ ctl' = [ctl EXCEPT ![k] = c]
          /\ task' = Idle /\ UNCHANGED <<queue, sem, max, counts, conn, per_ip>>
        BY <1>6 DEF SpawnLoop
    <2>2. /\ l \in Loops /\ k \in Kinds /\ loop[l].pc = "bound" /\ ctl[k] # None
        BY <1>6 DEF SpawnLoop, WatcherShaped, TypeOK, TaskStates
    <2>3. new \in LoopStates
        BY <2>2, StateParts DEF TypeOK, LoopPcs
    <2>4. /\ new.pc = "check" /\ new.pool = loop[l].pool
          /\ new.permit = loop[l].permit /\ new.sock = loop[l].sock
        BY <2>2 DEF TypeOK, LoopStates
    <2>5. c \in [loop: Loops, pool: Pools]
        BY <2>2 DEF TypeOK
    <2>6. Idle \in TaskStates
        BY DEF Idle, TaskStates
    <2> HIDE DEF new, c
    <2>7. TypeOK'
        <3> HIDE DEF l, k
        <3> QED BY <2>1, <2>2, <2>3, <2>5, <2>6 DEF TypeOK
    <2>8. \A m \in Loops :
            /\ loop'[m].sock = loop[m].sock
            /\ loop'[m].pool = loop[m].pool /\ loop'[m].permit = loop[m].permit
            /\ loop'[m].pc = IF m = l THEN "check" ELSE loop[m].pc
        BY <2>1, <2>2, <2>4 DEF TypeOK
    <2>9. LoopsShaped' /\ ConnsShaped' /\ OnePlace' /\ CountsTyped'
        BY <2>1, <2>2, <2>8
        DEF LoopsShaped, ConnsShaped, OnePlace, Holding, Carrying, CountsTyped
    <2>10. Located'
        BY <2>1, <2>2, <2>8, ConstantsAssumption
        DEF Located, LoopsShaped, Carrying, ConstantsAssumption
    <2>11. WatcherShaped'
        BY <2>1 DEF WatcherShaped, Idle
    <2> QED BY <2>7, <2>9, <2>10, <2>11
<1> QED BY <1>1, <1>2, <1>3, <1>4, <1>5, <1>6

\* Dropping a permit leaves the entries it does not belong to, and none at zero.
LEMMA UncountedTyped ==
    ASSUME CountsTyped, NEW c \in Conns, conn[c].pool \in Pools,
           counts' = Uncounted(c)
    PROVE  CountsTyped'
<1> DEFINE p  == conn[c].pool
           ip == conn[c].ip
           n  == counts[p]
           m  == [i \in IF n[ip] = 1 THEN DOMAIN n \ {ip} ELSE DOMAIN n |->
                    IF i = ip THEN n[i] - 1 ELSE n[i]]
<1>1. CASE ~(WasCounted(c) /\ ip \in DOMAIN n)
    BY <1>1 DEF Uncounted, CountsTyped
<1>2. CASE WasCounted(c) /\ ip \in DOMAIN n
    <2>1. counts' = [counts EXCEPT ![p] = m]
        BY <1>2 DEF Uncounted
    <2>2. n[ip] \in Nat \ {0} /\ DOMAIN n \subseteq Ips
          /\ \A i \in DOMAIN n : n[i] \in Nat \ {0}
        BY <1>2 DEF CountsTyped
    <2>3. DOMAIN m \subseteq Ips /\ m \in [DOMAIN m -> Nat \ {0}]
        BY <2>2
    <2> HIDE DEF m
    <2> QED BY <2>1, <2>3 DEF CountsTyped
<1> QED BY <1>1, <1>2

\* A step of an accept loop keeps the invariant.
LEMMA LoopKeeps ==
    ASSUME Inv, NEW l \in Loops, LoopStep(l) \/ AcceptFails(l),
           UNCHANGED <<ctl, per_ip, task>>
    PROVE  Inv'
<1> USE DEF Inv, limits
<1>1. CASE CheckGen(l)
    <2>1. loop[l].pc = "check"
        BY <1>1 DEF CheckGen
    <2>2. CASE Exit(l)
        BY <2>1, <2>2, ExitKeeps
    <2>3. CASE Goto(l, "acquire") /\ UNCHANGED <<queue, limits, conn>>
        BY <2>1, <2>3, GotoKeeps DEF LoopPcs, Holding, Carrying
    <2> QED BY <1>1, <2>2, <2>3 DEF CheckGen
<1>2. CASE Acquire(l)
    <2>1. loop[l].pc = "acquire" /\ loop[l].pool \in Pools
        BY <1>2 DEF Acquire, LoopsShaped
    <2>2. CASE Goto(l, "check") /\ UNCHANGED sem
        BY <1>2, <2>1, <2>2, GotoKeeps DEF Acquire, LoopPcs, Holding, Carrying
    <2>3. CASE /\ sem[loop[l].pool] > 0
               /\ sem' = [sem EXCEPT ![loop[l].pool] = @ - 1]
               /\ loop' = [loop EXCEPT ![l] = [@ EXCEPT !.pc = "accept",
                                                        !.permit = TRUE]]
        <3>1. UNCHANGED <<queue, max, counts, conn>>
            BY <1>2 DEF Acquire
        <3>2. sem' \in [Pools -> Nat]
            BY <2>1, <2>3 DEF TypeOK
        <3>3. loop' \in [Loops -> LoopStates]
            BY <2>3, StateParts DEF TypeOK, LoopPcs
        <3>4. TypeOK'
            BY <3>1, <3>2, <3>3 DEF TypeOK
        <3>5. \A m \in Loops :
                IF m = l THEN /\ loop'[m].pc = "accept" /\ loop'[m].permit
                              /\ loop'[m].pool = loop[m].pool
                              /\ loop'[m].sock = loop[m].sock
                         ELSE loop'[m] = loop[m]
            BY <2>3 DEF TypeOK, LoopStates
        <3>6. LoopsShaped'
            BY <2>1, <3>1, <3>5 DEF LoopsShaped, Holding, Carrying
        <3>7. ConnsShaped' /\ OnePlace' /\ Located' /\ CountsTyped'
            BY <2>1, <3>1, <3>5 DEF ConnsShaped, OnePlace, Located, CountsTyped
        <3>8. WatcherShaped'
            BY <2>1, <3>5 DEF WatcherShaped, TypeOK, TaskStates
        <3> QED BY <3>4, <3>6, <3>7, <3>8
    <2> QED BY <1>2, <2>2, <2>3 DEF Acquire
<1>3. CASE Accept(l)
    <2> DEFINE q == queue[l]
    <2>1. /\ loop[l].pc = "accept" /\ q # <<>> /\ q \in Seq(Conns \cup {Probe})
          /\ loop' = [loop EXCEPT ![l] = [@ EXCEPT !.pc = "accepted",
                                                   !.sock = Head(q)]]
          /\ queue' = [queue EXCEPT ![l] = Tail(q)]
          /\ UNCHANGED <<sem, max, counts, conn>>
        BY <1>3, InQueue DEF Accept
    <2>2. /\ Head(q) \in Conns \cup {Probe} /\ Tail(q) \in Seq(Conns \cup {Probe})
          /\ Head(q) = q[1] /\ 1 \in DOMAIN q
          /\ \A i \in DOMAIN Tail(q) :
                i + 1 \in DOMAIN q /\ Tail(q)[i] = q[i + 1] /\ i \in Nat \ {0}
        BY <2>1, QueueParts, HeadTailProperties
    <2>3. loop' \in [Loops -> LoopStates]
        BY <2>1, <2>2, StateParts DEF TypeOK, LoopPcs
    <2>4. queue' \in [Loops -> Seq(Conns \cup {Probe})]
        BY <2>1, <2>2 DEF TypeOK
    <2>5. TypeOK'
        BY <2>1, <2>3, <2>4 DEF TypeOK
    <2>6. /\ loop'[l].pc = "accepted" /\ loop'[l].permit = loop[l].permit
          /\ loop'[l].pool = loop[l].pool /\ loop'[l].sock = q[1]
          /\ queue'[l] = Tail(q)
          /\ \A m \in Loops \ {l} : loop'[m] = loop[m] /\ queue'[m] = queue[m]
        BY <2>1, <2>2 DEF TypeOK, LoopStates
    <2>7. UNCHANGED conn
        BY <2>1
    <2>8. q[1] # None
        BY <2>2, ConstantsAssumption DEF ConstantsAssumption
    <2>9. LoopsShaped'
        BY <2>1, <2>6, <2>8 DEF LoopsShaped, Holding, Carrying
    <2>10. ConnsShaped' /\ CountsTyped'
        BY <2>1, <2>7 DEF ConnsShaped, CountsTyped
    <2>11. Located'
        <3>1. q[1] \in Conns => conn[q[1]].at = "queued"
            BY <2>2, ConstantsAssumption DEF Located, ConstantsAssumption
        <3>2. \A i \in DOMAIN Tail(q) : Tail(q)[i] # Probe => conn[Tail(q)[i]].at = "queued"
            BY <2>2 DEF Located
        <3> SUFFICES ASSUME NEW m \in Loops
                     PROVE  (/\ \A i \in DOMAIN queue[m] :
                                  queue[m][i] # Probe => conn[queue[m][i]].at = "queued"
                             /\ loop[m].sock \in Conns =>
                                  /\ loop[m].pc # "spawn" => conn[loop[m].sock].at = "queued"
                                  /\ loop[m].pc = "spawn" =>
                                        /\ conn[loop[m].sock].at = "admitted"
                                        /\ conn[loop[m].sock].pool = loop[m].pool)'
            BY DEF Located
        <3>3. CASE m = l
            BY <2>6, <2>7, <3>1, <3>2, <3>3
        <3>4. CASE m # l
            BY <2>6, <2>7, <3>4 DEF Located
        <3> QED BY <3>3, <3>4
    <2>12. \A m \in Loops : \A i \in DOMAIN queue'[m] :
             \E j \in DOMAIN queue[m] :
                /\ queue'[m][i] = queue[m][j]
                /\ j = IF m = l THEN i + 1 ELSE i
                /\ i \in Nat
        <3> SUFFICES ASSUME NEW m \in Loops, NEW i \in DOMAIN queue'[m]
                     PROVE  \E j \in DOMAIN queue[m] :
                                /\ queue'[m][i] = queue[m][j]
                                /\ j = IF m = l THEN i + 1 ELSE i
                                /\ i \in Nat
            OBVIOUS
        <3>1. CASE m = l
            BY <2>2, <2>6, <3>1
        <3>2. CASE m # l
            BY <2>6, <3>2, InQueue
        <3> QED BY <3>1, <3>2
    <2>13. OnePlace'
        <3> SUFFICES ASSUME NEW m \in Loops, NEW n \in Loops
                     PROVE  (/\ \A i \in DOMAIN queue[m], j \in DOMAIN queue[n] :
                                  queue[m][i] = queue[n][j] /\ queue[m][i] # Probe
                                     => m = n /\ i = j
                             /\ \A i \in DOMAIN queue[m] :
                                  queue[m][i] # Probe => queue[m][i] # loop[n].sock
                             /\ loop[m].sock \in Conns /\ loop[m].sock = loop[n].sock
                                  => m = n)'
            BY DEF OnePlace
        <3>1. ASSUME NEW i \in DOMAIN queue'[m], NEW j \in DOMAIN queue'[n],
                     queue'[m][i] = queue'[n][j], queue'[m][i] # Probe
              PROVE  m = n /\ i = j
            <4>1. PICK a \in DOMAIN queue[m] : /\ queue'[m][i] = queue[m][a]
                                               /\ a = IF m = l THEN i + 1 ELSE i
                                               /\ i \in Nat
                BY <2>12
            <4>2. PICK b \in DOMAIN queue[n] : /\ queue'[n][j] = queue[n][b]
                                               /\ b = IF n = l THEN j + 1 ELSE j
                                               /\ j \in Nat
                BY <2>12
            <4>3. m = n /\ a = b
                <5>1. queue[m][a] = queue[n][b] /\ queue[m][a] # Probe
                    BY <3>1, <4>1, <4>2
                <5> QED BY <5>1 DEF OnePlace
            <4>4. i = j
                BY <4>1, <4>2, <4>3, SMT
            <4> QED BY <4>3, <4>4
        <3>2. ASSUME NEW i \in DOMAIN queue'[m], queue'[m][i] # Probe
              PROVE  queue'[m][i] # loop'[n].sock
            <4>1. PICK a \in DOMAIN queue[m] : /\ queue'[m][i] = queue[m][a]
                                               /\ a = IF m = l THEN i + 1 ELSE i
                                               /\ i \in Nat
                BY <2>12
            <4>2. CASE n # l
                BY <2>6, <3>2, <4>1, <4>2 DEF OnePlace
            <4>3. CASE n = l
                <5>1. m = l => a # 1
                    BY <2>2, <2>6, <4>1
                <5> QED BY <2>2, <2>6, <3>2, <4>1, <4>3, <5>1 DEF OnePlace
            <4> QED BY <4>2, <4>3
        <3>3. ASSUME loop'[m].sock \in Conns, loop'[m].sock = loop'[n].sock
              PROVE  m = n
            <4>1. ASSUME NEW x \in Loops \ {l}
                  PROVE  loop[x].sock # q[1] \/ q[1] = Probe
                BY <2>2 DEF OnePlace
            <4> QED BY <2>6, <3>3, <4>1, ConstantsAssumption DEF OnePlace, ConstantsAssumption
        <3> QED BY <3>1, <3>2, <3>3
    <2>14. WatcherShaped'
        BY <2>1, <2>6 DEF WatcherShaped, TypeOK, TaskStates
    <2> QED BY <2>5, <2>9, <2>10, <2>11, <2>13, <2>14
<1>4. CASE AcceptFails(l)
    <2>1. loop[l].pc = "accept"
        BY <1>4 DEF AcceptFails
    <2>2. CASE Exit(l)
        BY <2>1, <2>2, ExitKeeps
    <2>3. CASE Again(l) /\ UNCHANGED <<max, counts>>
        BY <2>1, <2>3, AgainKeeps DEF CountsTyped
    <2> QED BY <1>4, <2>2, <2>3 DEF AcceptFails
<1>5. CASE Recheck(l)
    <2>1. loop[l].pc = "accepted"
        BY <1>5 DEF Recheck
    <2>2. CASE Exit(l)
        BY <2>1, <2>2, ExitKeeps
    <2>3. CASE Goto(l, "admit") /\ UNCHANGED <<queue, limits, conn>>
        BY <2>1, <2>3, GotoKeeps DEF LoopPcs, Holding, Carrying
    <2> QED BY <1>5, <2>2, <2>3 DEF Recheck
<1>6. CASE Admit(l) \/ Count(l)
    <2> DEFINE c == loop[l].sock
               p == loop[l].pool
    <2>1. loop[l].pc \in {"admit", "count"} /\ UNCHANGED max
        BY <1>6 DEF Admit, Count
    <2>2. CASE Again(l) /\ UNCHANGED counts
        BY <2>1, <2>2, AgainKeeps DEF CountsTyped
    <2>3. ASSUME c # Probe
          PROVE  /\ c \in Conns /\ p \in Pools
                 /\ conn[c] \in ConnStates /\ conn[c].ip \in Ips
        BY <2>1, <2>3 DEF LoopsShaped, Carrying, TypeOK, LoopStates, Located,
                          ConnsShaped
    <2>4. CASE /\ c # Probe /\ UNCHANGED <<queue, sem, counts>> /\ Goto(l, "spawn")
               /\ conn' = [conn EXCEPT ![c].at = "admitted", ![c].pool = p]
        <3> DEFINE x == [loop[l] EXCEPT !.pc = "spawn"]
                   y == [conn[c] EXCEPT !.at = "admitted", !.pool = p]
        <3>1. loop' = [loop EXCEPT ![l] = x] /\ conn' = [conn EXCEPT ![c] = y]
            BY <2>3, <2>4 DEF Goto, TypeOK
        <3>2. /\ x \in LoopStates /\ x.pc = "spawn" /\ x.pool = p /\ x.sock = c
              /\ x.permit = loop[l].permit
            <4> DEFINE a == loop[l]
            <4>1. a \in LoopStates
                BY DEF TypeOK
            <4>2. x \in LoopStates
                BY <4>1, StateParts DEF LoopPcs
            <4> HIDE DEF a, Inv
            <4> QED BY <4>1, <4>2 DEF LoopStates
        <3>3. /\ y \in ConnStates /\ y.at = "admitted" /\ y.pool = p
              /\ y.ip = conn[c].ip
            <4> HIDE DEF Inv, c, p
            <4> QED BY <2>3, <2>4 DEF ConnStates
        <3>4. CountsTyped'
            BY <2>4 DEF CountsTyped
        <3> HIDE DEF x, y
        <3> QED BY <2>1, <2>3, <2>4, <3>1, <3>2, <3>3, <3>4, AdmissionKeeps
    <2>5. CASE /\ c # Probe /\ UNCHANGED <<queue, sem>> /\ loop[l].pc = "count"
               /\ loop' = [loop EXCEPT ![l] = [@ EXCEPT !.pc = "spawn", !.cap = 0]]
               /\ counts' = [counts EXCEPT ![p] =
                    [i \in DOMAIN counts[p] \cup {conn[c].ip} |->
                        IF i = conn[c].ip THEN Held(p, conn[c].ip) + 1
                                          ELSE counts[p][i]]]
               /\ conn' = [conn EXCEPT ![c].at = "admitted", ![c].pool = p,
                                       ![c].counted = TRUE]
        <3> DEFINE x == [loop[l] EXCEPT !.pc = "spawn", !.cap = 0]
                   y == [conn[c] EXCEPT !.at = "admitted", !.pool = p,
                                        !.counted = TRUE]
        <3>1. loop' = [loop EXCEPT ![l] = x] /\ conn' = [conn EXCEPT ![c] = y]
            BY <2>3, <2>5 DEF TypeOK
        <3>2. /\ x \in LoopStates /\ x.pc = "spawn" /\ x.pool = p /\ x.sock = c
              /\ x.permit = loop[l].permit
            <4> DEFINE a == loop[l]
            <4>1. a \in LoopStates
                BY DEF TypeOK
            <4>2. x \in LoopStates
                BY <4>1, StateParts DEF LoopPcs
            <4> HIDE DEF a, Inv
            <4> QED BY <4>1, <4>2 DEF LoopStates
        <3>3. /\ y \in ConnStates /\ y.at = "admitted" /\ y.pool = p
              /\ y.ip = conn[c].ip
            <4> HIDE DEF Inv, c, p
            <4> QED BY <2>3, <2>5 DEF ConnStates
        <3>4. Held(p, conn[c].ip) \in Nat
            BY <2>3, <2>5 DEF Held, CountsTyped
        <3>5. CountsTyped'
            <4> DEFINE a == conn[c].ip
            <4>0. Held(p, a) + 1 \in Nat \ {0}
                BY <3>4
            <4>1. a \in Ips /\ p \in Pools /\ Held(p, a) + 1 \in Nat \ {0}
                BY <2>3, <2>5, <4>0, ZenonT(30)
            <4>2. counts' = [counts EXCEPT ![p] =
                      [i \in DOMAIN counts[p] \cup {a} |->
                          IF i = a THEN Held(p, a) + 1 ELSE counts[p][i]]]
                BY <2>5
            <4> HIDE DEF a, c, p, x, y, Inv
            <4>3. CountsTyped
                BY DEF Inv
            <4>4. DOMAIN counts' = Pools /\ \A q \in Pools \ {p} : counts'[q] = counts[q]
                BY <4>2, <4>3 DEF CountsTyped
            <4>5. DOMAIN counts[p] \subseteq Ips /\ counts[p] \in [DOMAIN counts[p] -> Nat \ {0}]
                BY <4>1, <4>3 DEF CountsTyped
            <4>6. counts'[p] = [i \in DOMAIN counts[p] \cup {a} |->
                                   IF i = a THEN Held(p, a) + 1 ELSE counts[p][i]]
                BY <4>1, <4>2, <4>3 DEF CountsTyped
            <4>7. /\ DOMAIN counts'[p] \subseteq Ips
                  /\ counts'[p] \in [DOMAIN counts'[p] -> Nat \ {0}]
                BY <4>1, <4>5, <4>6
            <4> QED BY <4>3, <4>4, <4>7 DEF CountsTyped
        <3> HIDE DEF x, y
        <3> QED BY <2>1, <2>3, <2>5, <3>1, <3>2, <3>3, <3>5, AdmissionKeeps
    <2>6. CASE Admit(l)
        <3>1. CASE /\ c # Probe /\ UNCHANGED <<queue, sem, conn, counts>>
                   /\ loop' = [loop EXCEPT ![l] = [@ EXCEPT !.pc = "count",
                                                            !.cap = max[p]]]
            BY <2>1, <2>6, <3>1, LimitReadKeeps DEF Admit
        <3> QED BY <2>2, <2>4, <2>6, <3>1 DEF Admit
    <2>7. CASE Count(l)
        <3>1. loop[l].pc = "count" /\ c # Probe
            BY <2>7 DEF Count, LoopsShaped
        <3> QED BY <2>2, <2>5, <2>7, <3>1 DEF Count
    <2> QED BY <1>6, <2>6, <2>7
<1>7. CASE SpawnWorker(l)
    <2> DEFINE c == loop[l].sock
    <2>1. /\ loop[l].pc = "spawn" /\ c \in Conns /\ conn[c].at = "admitted"
          /\ conn[c].pool = loop[l].pool /\ loop[l].pool \in Pools
        BY <1>7 DEF SpawnWorker, LoopsShaped, Carrying, TypeOK, LoopStates, Located
    <2>2. CASE Again(l) /\ counts' = Uncounted(c) /\ UNCHANGED max
        <3>1. CountsTyped'
            BY <2>1, <2>2, UncountedTyped
        <3> QED BY <2>1, <2>2, <3>1, AgainKeeps
    <2>3. CASE /\ conn' = [conn EXCEPT ![c].at = "served"]
               /\ loop' = [loop EXCEPT ![l] = [@ EXCEPT !.pc = "check",
                                     !.permit = FALSE, !.sock = None]]
               /\ UNCHANGED <<queue, limits>>
        <3>1. conn'[c] = [conn[c] EXCEPT !.at = "served"] /\ conn[c] \in ConnStates
            BY <2>1, <2>3 DEF TypeOK
        <3>2. /\ conn'[c].at = "served" /\ conn'[c].pool = conn[c].pool
              /\ conn'[c].ip = conn[c].ip /\ conn'[c] \in ConnStates
            BY <3>1 DEF ConnStates
        <3>3. \A d \in Conns \ {c} : conn'[d] = conn[d]
            BY <2>1, <2>3 DEF TypeOK
        <3>4. conn' \in [Conns -> ConnStates]
            BY <2>1, <2>3, <3>1, <3>2 DEF TypeOK
        <3>5. loop' \in [Loops -> LoopStates]
            BY <2>3, StateParts DEF TypeOK, LoopPcs
        <3>6. TypeOK'
            BY <2>3, <3>4, <3>5 DEF TypeOK
        <3>7. /\ loop'[l].pc = "check" /\ loop'[l].pool = loop[l].pool
              /\ loop'[l].sock = None /\ ~loop'[l].permit
              /\ \A m \in Loops \ {l} : loop'[m] = loop[m]
            BY <2>3 DEF TypeOK, LoopStates
        <3>8. LoopsShaped'
            BY <2>1, <2>3, <3>7 DEF LoopsShaped, Holding, Carrying
        <3>9. ConnsShaped'
            BY <2>1, <3>2, <3>3 DEF ConnsShaped
        <3>10. OnePlace'
            BY <2>3, <3>7, InQueue, ConstantsAssumption DEF OnePlace, ConstantsAssumption
        <3>11. Located'
            BY <2>1, <2>3, <3>3, <3>7, InQueue, ConstantsAssumption
            DEF Located, OnePlace, ConstantsAssumption
        <3>12. WatcherShaped' /\ CountsTyped'
            BY <2>1, <2>3, <3>7 DEF WatcherShaped, TypeOK, TaskStates, CountsTyped
        <3> QED BY <3>6, <3>8, <3>9, <3>10, <3>11, <3>12
    <2> QED BY <1>7, <2>2, <2>3 DEF SpawnWorker
<1> QED BY <1>1, <1>2, <1>3, <1>4, <1>5, <1>6, <1>7 DEF LoopStep

\* A connection that comes or ends keeps the invariant.
LEMMA ConnKeeps ==
    ASSUME Inv,
           \/ \E c \in Conns, ip \in Ips, l \in Loops : Connect(c, ip, l)
           \/ \E c \in Conns : EndWorker(c)
    PROVE  Inv'
<1> USE DEF Inv, limits
<1>1. ASSUME NEW c \in Conns, NEW ip \in Ips, NEW l \in Loops, Connect(c, ip, l)
      PROVE  Inv'
    <2> DEFINE y == [NoConn EXCEPT !.at = "queued", !.ip = ip]
               q == Append(queue[l], c)
    <2>1. /\ conn[c].at = "none" /\ loop[l].pc # "none" /\ c # Probe
          /\ conn' = [conn EXCEPT ![c] = y] /\ queue' = [queue EXCEPT ![l] = q]
          /\ UNCHANGED <<ctl, loop, sem, max, counts, per_ip, task>>
        BY <1>1, ConstantsAssumption DEF Connect, ConstantsAssumption
    <2>2. /\ y \in ConnStates /\ y.at = "queued" /\ y.pool = None /\ ~y.counted
          /\ y.ip = ip
        BY DEF NoConn, ConnStates
    <2>3. queue[l] \in Seq(Conns \cup {Probe})
        BY InQueue
    <2>4. /\ q \in Seq(Conns \cup {Probe})
          /\ \A i \in DOMAIN q :
                \/ i \in DOMAIN queue[l] /\ q[i] = queue[l][i]
                \/ i = Len(queue[l]) + 1 /\ q[i] = c
        BY <2>3, QueueParts
    <2> HIDE DEF y, q
    <2>5. TypeOK'
        BY <2>1, <2>2, <2>4 DEF TypeOK
    <2>6. /\ conn'[c] = y /\ \A d \in Conns \ {c} : conn'[d] = conn[d]
          /\ queue'[l] = q /\ \A m \in Loops \ {l} : queue'[m] = queue[m]
        BY <2>1 DEF TypeOK
    <2>7. UNCHANGED <<loop, counts, ctl, task>> /\ loop[l].pc # "none"
        BY <2>1
    <2>8. LoopsShaped'
        BY <2>6, <2>7 DEF LoopsShaped
    <2>9. ConnsShaped'
        BY <2>2, <2>6 DEF ConnsShaped
    <2>10. WatcherShaped' /\ CountsTyped'
        BY <2>7 DEF WatcherShaped, CountsTyped
    <2>11. \A m \in Loops : /\ loop[m].sock # c
                            /\ \A i \in DOMAIN queue[m] : queue[m][i] # c
        BY <2>1 DEF Located
    <2>12. Located'
        <3> SUFFICES ASSUME NEW m \in Loops
                     PROVE  (/\ \A i \in DOMAIN queue[m] :
                                  queue[m][i] # Probe => conn[queue[m][i]].at = "queued"
                             /\ loop[m].sock \in Conns =>
                                  /\ loop[m].pc # "spawn" => conn[loop[m].sock].at = "queued"
                                  /\ loop[m].pc = "spawn" =>
                                        /\ conn[loop[m].sock].at = "admitted"
                                        /\ conn[loop[m].sock].pool = loop[m].pool)'
            BY DEF Located
        <3>1. \A i \in DOMAIN queue[m] : queue[m][i] # Probe
                 => queue[m][i] \in Conns \ {c} /\ conn[queue[m][i]].at = "queued"
            BY <2>11, InQueue DEF Located
        <3>2. \A i \in DOMAIN queue'[m] :
                 queue'[m][i] # Probe => conn'[queue'[m][i]].at = "queued"
            BY <2>2, <2>4, <2>6, <3>1
        <3>3. loop[m].sock \in Conns => conn'[loop[m].sock] = conn[loop[m].sock]
            BY <2>6, <2>11
        <3> QED BY <2>7, <3>2, <3>3 DEF Located
    <2>13. \A m \in Loops : \A i \in DOMAIN queue'[m] :
             \/ i \in DOMAIN queue[m] /\ queue'[m][i] = queue[m][i]
             \/ m = l /\ i = Len(queue[l]) + 1 /\ queue'[m][i] = c
        BY <2>4, <2>6
    <2>14. OnePlace'
        <3> SUFFICES ASSUME NEW m \in Loops, NEW n \in Loops
                     PROVE  (/\ \A i \in DOMAIN queue[m], j \in DOMAIN queue[n] :
                                  queue[m][i] = queue[n][j] /\ queue[m][i] # Probe
                                     => m = n /\ i = j
                             /\ \A i \in DOMAIN queue[m] :
                                  queue[m][i] # Probe => queue[m][i] # loop[n].sock
                             /\ loop[m].sock \in Conns /\ loop[m].sock = loop[n].sock
                                  => m = n)'
            BY DEF OnePlace
        <3>1. \A i \in DOMAIN queue'[m], j \in DOMAIN queue'[n] :
                 queue'[m][i] = queue'[n][j] /\ queue'[m][i] # Probe
                    => m = n /\ i = j
            BY <2>11, <2>13 DEF OnePlace
        <3>2. \A i \in DOMAIN queue'[m] :
                 queue'[m][i] # Probe => queue'[m][i] # loop'[n].sock
            BY <2>7, <2>11, <2>13 DEF OnePlace
        <3> QED BY <2>7, <3>1, <3>2 DEF OnePlace
    <2> QED BY <2>5, <2>8, <2>9, <2>10, <2>12, <2>14
<1>2. ASSUME NEW c \in Conns, EndWorker(c)
      PROVE  Inv'
    <2>1. /\ conn[c].at \in {"served", "ending"} /\ conn[c].pool \in Pools
          /\ UNCHANGED <<ctl, loop, queue, max, per_ip, task>>
        BY <1>2 DEF EndWorker, ConnsShaped
    <2>2. /\ sem' \in [Pools -> Nat] /\ CountsTyped'
        <3>1. CASE counts' = Uncounted(c) /\ UNCHANGED sem
            BY <2>1, <3>1, UncountedTyped DEF TypeOK
        <3>2. CASE sem' = [sem EXCEPT ![conn[c].pool] = @ + 1] /\ UNCHANGED counts
            BY <2>1, <3>2 DEF TypeOK, CountsTyped
        <3> QED BY <1>2, <3>1, <3>2 DEF EndWorker
    <2>3. /\ \A d \in Conns \ {c} : conn'[d] = conn[d]
          /\ conn'[c] \in ConnStates /\ conn' \in [Conns -> ConnStates]
          /\ conn'[c].at \in {"ending", "none"} /\ ~conn'[c].counted
          /\ conn'[c].at = "none" => conn'[c].pool = None
          /\ conn'[c].at = "ending" => /\ conn'[c].pool = conn[c].pool
                                       /\ conn'[c].ip = conn[c].ip
        <3>1. CASE conn' = [conn EXCEPT ![c].at = "ending", ![c].counted = FALSE]
            <4> DEFINE x == conn[c]
                       y == conn'[c]
            <4>1. x \in ConnStates /\ y = [x EXCEPT !.at = "ending", !.counted = FALSE]
                BY <3>1 DEF TypeOK
            <4> HIDE DEF x, y, Inv
            <4>2. /\ y \in ConnStates /\ y.at = "ending" /\ ~y.counted
                  /\ y.pool = x.pool /\ y.ip = x.ip
                BY <4>1 DEF ConnStates
            <4>3. /\ \A d \in Conns \ {c} : conn'[d] = conn[d]
                  /\ conn' \in [Conns -> ConnStates]
                BY <3>1, <4>2 DEF TypeOK, Inv, y
            <4> QED BY <4>2, <4>3 DEF x, y
        <3>2. CASE conn' = [conn EXCEPT ![c] = NoConn]
            <4>1. NoConn \in ConnStates /\ NoConn.at = "none" /\ ~NoConn.counted
                  /\ NoConn.pool = None
                BY DEF NoConn, ConnStates
            <4> QED BY <3>2, <4>1 DEF TypeOK
        <3> QED BY <1>2, <3>1, <3>2 DEF EndWorker
    <2>4. TypeOK'
        BY <2>1, <2>2, <2>3 DEF TypeOK, CountsTyped
    <2>5. LoopsShaped' /\ OnePlace' /\ WatcherShaped'
        BY <2>1 DEF LoopsShaped, OnePlace, WatcherShaped
    <2>6. ConnsShaped'
        BY <2>1, <2>3 DEF ConnsShaped
    <2>7. Located'
        BY <2>1, <2>3, InQueue DEF Located
    <2> QED BY <2>2, <2>4, <2>5, <2>6, <2>7
<1> QED BY <1>1, <1>2

\* Every step keeps the invariant.
LEMMA StepInv == Inv /\ [Next]_vars => Inv'
<1> SUFFICES ASSUME Inv, [Next]_vars PROVE Inv'
    OBVIOUS
<1>1. CASE UNCHANGED vars
    BY <1>1 DEF vars, limits, Inv, TypeOK, LoopsShaped, ConnsShaped, Located,
                OnePlace, WatcherShaped, CountsTyped
<1>2. CASE Next
    BY <1>2, WatcherKeeps, LoopKeeps, ConnKeeps DEF Next
<1> QED BY <1>1, <1>2

\* Every variable keeps a value of its type.
THEOREM ListenersTyped == Spec => []TypeOK
<1>1. Spec => []Inv
    BY InitInv, StepInv, PTL DEF Spec
<1> QED BY <1>1, PTL DEF Inv

----------------------------------------------------------------------------
(* Permits, counts and loops: what follows from Inv *)

\* One element more, or one less, changes the size of a finite set by one.
LEMMA OneMore ==
    ASSUME NEW S, IsFiniteSet(S), NEW T \in SUBSET S, NEW U, NEW x \in S \ T,
           U = T \cup {x}
    PROVE  /\ IsFiniteSet(T) /\ IsFiniteSet(U)
           /\ Cardinality(T) \in Nat /\ Cardinality(U) = Cardinality(T) + 1
BY FS_Subset, FS_AddElement, FS_CardinalityType

\* The sets that are counted are finite.
LEMMA Sized ==
    ASSUME NEW p, NEW ip
    PROVE  /\ IsFiniteSet(LoopsHolding(p)) /\ Cardinality(LoopsHolding(p)) \in Nat
           /\ IsFiniteSet(Workers(p)) /\ Cardinality(Workers(p)) \in Nat
           /\ IsFiniteSet(CountedFor(p, ip)) /\ Cardinality(CountedFor(p, ip)) \in Nat
<1>1. LoopsHolding(p) \subseteq Loops /\ Workers(p) \subseteq Conns
      /\ CountedFor(p, ip) \subseteq Conns
    BY DEF LoopsHolding, Workers, CountedFor
<1> QED BY <1>1, ConstantsAssumption, FS_Subset, FS_CardinalityType
        DEF ConstantsAssumption

\* Which loops hold a permit of a pool, when none, one more or one less does.
LEMMA HoldsSame ==
    ASSUME \A l \in Loops : /\ loop'[l].permit <=> loop[l].permit
                            /\ loop[l].permit => loop'[l].pool = loop[l].pool
    PROVE  \A p : LoopsHolding(p)' = LoopsHolding(p)
BY DEF LoopsHolding

\* A loop that takes a permit takes one of its own pool, and of no other.
LEMMA HoldsMore ==
    ASSUME NEW l \in Loops, ~loop[l].permit, loop'[l].permit,
           \A m \in Loops \ {l} : loop'[m] = loop[m]
    PROVE  \A p : IF p = loop'[l].pool
                  THEN Cardinality(LoopsHolding(p)') = Cardinality(LoopsHolding(p)) + 1
                  ELSE LoopsHolding(p)' = LoopsHolding(p)
<1> TAKE p
<1>1. CASE p = loop'[l].pool
    <2>1. /\ LoopsHolding(p) \subseteq Loops /\ l \in Loops \ LoopsHolding(p)
          /\ LoopsHolding(p)' = LoopsHolding(p) \cup {l}
        BY <1>1 DEF LoopsHolding
    <2> QED BY <1>1, <2>1, OneMore, ConstantsAssumption DEF ConstantsAssumption
<1>2. CASE p # loop'[l].pool
    BY <1>2 DEF LoopsHolding
<1> QED BY <1>1, <1>2

\* A loop that lets go of its permit gives back one to its own pool.
LEMMA HoldsLess ==
    ASSUME NEW l \in Loops, loop[l].permit, ~loop'[l].permit,
           \A m \in Loops \ {l} : loop'[m] = loop[m]
    PROVE  \A p : IF p = loop[l].pool
                  THEN Cardinality(LoopsHolding(p)) = Cardinality(LoopsHolding(p)') + 1
                  ELSE LoopsHolding(p)' = LoopsHolding(p)
<1> TAKE p
<1>1. CASE p = loop[l].pool
    <2>1. /\ LoopsHolding(p)' \subseteq Loops /\ l \in Loops \ LoopsHolding(p)'
          /\ LoopsHolding(p) = LoopsHolding(p)' \cup {l}
        BY <1>1 DEF LoopsHolding
    <2> QED BY <1>1, <2>1, OneMore, ConstantsAssumption DEF ConstantsAssumption
<1>2. CASE p # loop[l].pool
    BY <1>2 DEF LoopsHolding
<1> QED BY <1>1, <1>2

\* The same for the workers of a pool ...
LEMMA WorkersSame ==
    ASSUME \A c \in Conns :
              \/ conn'[c].at = conn[c].at /\ conn'[c].pool = conn[c].pool
              \/ /\ conn[c].at \notin {"served", "ending"}
                 /\ conn'[c].at \notin {"served", "ending"}
              \/ /\ conn[c].at = "served" /\ conn'[c].at = "ending"
                 /\ conn'[c].pool = conn[c].pool
    PROVE  \A p : Workers(p)' = Workers(p)
BY DEF Workers

\* A connection that is served is one more worker on the pool it was admitted by.
LEMMA WorkersMore ==
    ASSUME NEW c \in Conns, conn[c].at \notin {"served", "ending"},
           conn'[c].at = "served", \A d \in Conns \ {c} : conn'[d] = conn[d]
    PROVE  \A p : IF p = conn'[c].pool
                  THEN Cardinality(Workers(p)') = Cardinality(Workers(p)) + 1
                  ELSE Workers(p)' = Workers(p)
<1> TAKE p
<1>1. CASE p = conn'[c].pool
    <2>1. /\ Workers(p) \subseteq Conns /\ c \in Conns \ Workers(p)
          /\ Workers(p)' = Workers(p) \cup {c}
        BY <1>1 DEF Workers
    <2> QED BY <1>1, <2>1, OneMore, ConstantsAssumption DEF ConstantsAssumption
<1>2. CASE p # conn'[c].pool
    BY <1>2 DEF Workers
<1> QED BY <1>1, <1>2

\* A worker that is gone is one less on the pool it was admitted by.
LEMMA WorkersLess ==
    ASSUME NEW c \in Conns, conn[c].at = "ending",
           conn'[c].at \notin {"served", "ending"},
           \A d \in Conns \ {c} : conn'[d] = conn[d]
    PROVE  \A p : IF p = conn[c].pool
                  THEN Cardinality(Workers(p)) = Cardinality(Workers(p)') + 1
                  ELSE Workers(p)' = Workers(p)
<1> TAKE p
<1>1. CASE p = conn[c].pool
    <2>1. /\ Workers(p)' \subseteq Conns /\ c \in Conns \ Workers(p)'
          /\ Workers(p) = Workers(p)' \cup {c}
        BY <1>1 DEF Workers
    <2> QED BY <1>1, <2>1, OneMore, ConstantsAssumption DEF ConstantsAssumption
<1>2. CASE p # conn[c].pool
    BY <1>2 DEF Workers
<1> QED BY <1>1, <1>2

\* ... and for the connections a limiter counted.
LEMMA CountedSame ==
    ASSUME \A c \in Conns :
              /\ conn'[c].counted <=> conn[c].counted
              /\ conn[c].counted => /\ conn'[c].pool = conn[c].pool
                                    /\ conn'[c].ip = conn[c].ip
    PROVE  \A p, ip : CountedFor(p, ip)' = CountedFor(p, ip)
BY DEF CountedFor

\* A connection that is counted is one more of its address, in its pool.
LEMMA CountedMore ==
    ASSUME NEW c \in Conns, ~conn[c].counted, conn'[c].counted,
           \A d \in Conns \ {c} : conn'[d] = conn[d]
    PROVE  \A p, ip :
              IF p = conn'[c].pool /\ ip = conn'[c].ip
              THEN Cardinality(CountedFor(p, ip)') = Cardinality(CountedFor(p, ip)) + 1
              ELSE CountedFor(p, ip)' = CountedFor(p, ip)
<1> TAKE p, ip
<1>1. CASE p = conn'[c].pool /\ ip = conn'[c].ip
    <2>1. /\ CountedFor(p, ip) \subseteq Conns /\ c \in Conns \ CountedFor(p, ip)
          /\ CountedFor(p, ip)' = CountedFor(p, ip) \cup {c}
        BY <1>1 DEF CountedFor
    <2> QED BY <1>1, <2>1, OneMore, ConstantsAssumption DEF ConstantsAssumption
<1>2. CASE ~(p = conn'[c].pool /\ ip = conn'[c].ip)
    BY <1>2 DEF CountedFor
<1> QED BY <1>1, <1>2

\* A connection that is no longer counted is one less of its address, in its pool.
LEMMA CountedLess ==
    ASSUME NEW c \in Conns, conn[c].counted, ~conn'[c].counted,
           \A d \in Conns \ {c} : conn'[d] = conn[d]
    PROVE  \A p, ip :
              IF p = conn[c].pool /\ ip = conn[c].ip
              THEN Cardinality(CountedFor(p, ip)) = Cardinality(CountedFor(p, ip)') + 1
              ELSE CountedFor(p, ip)' = CountedFor(p, ip)
<1> TAKE p, ip
<1>1. CASE p = conn[c].pool /\ ip = conn[c].ip
    <2>1. /\ CountedFor(p, ip)' \subseteq Conns /\ c \in Conns \ CountedFor(p, ip)'
          /\ CountedFor(p, ip) = CountedFor(p, ip)' \cup {c}
        BY <1>1 DEF CountedFor
    <2> QED BY <1>1, <2>1, OneMore, ConstantsAssumption DEF ConstantsAssumption
<1>2. CASE ~(p = conn[c].pool /\ ip = conn[c].ip)
    BY <1>2 DEF CountedFor
<1> QED BY <1>1, <1>2

----------------------------------------------------------------------------
(* Permits *)

\* No permit is out at first.
LEMMA PermitsInit == Init => PermitsConserved
<1> SUFFICES ASSUME Init, NEW p \in Pools
             PROVE  sem[p] + Cardinality(LoopsHolding(p)) + Cardinality(Workers(p))
                       = MAX_CONNS[KindOf[p]]
    BY DEF PermitsConserved
<1>1. \A l \in Loops : ~loop[l].permit
    BY InitInv, LoopParts DEF Init
<1>2. LoopsHolding(p) = {} /\ Workers(p) = {}
    <2>1. LoopsHolding(p) = {}
        BY <1>1 DEF LoopsHolding
    <2>2. \A c \in Conns : conn[c].at = "none"
        BY DEF Init, NoConn
    <2>3. Workers(p) = {}
        BY <2>2 DEF Workers
    <2> QED BY <2>1, <2>3
<1>3. sem[p] = MAX_CONNS[KindOf[p]] /\ MAX_CONNS[KindOf[p]] \in Nat
    BY ConstantsAssumption DEF Init, ConstantsAssumption
<1> QED BY <1>2, <1>3, FS_EmptySet

\* What a retiring or a continuing loop drops is one permit, and no worker's.
LEMMA DropsPermit ==
    ASSUME Inv, NEW l \in Loops,
           \/ Exit(l) /\ loop[l].pc \in {"check", "accept", "accepted"}
           \/ Again(l) /\ loop[l].pc \in {"accept", "admit", "count", "spawn"}
    PROVE  \A p \in Pools :
              sem'[p] + Cardinality(LoopsHolding(p)') + Cardinality(Workers(p)')
            = sem[p] + Cardinality(LoopsHolding(p)) + Cardinality(Workers(p))
<1> USE DEF Inv
<1>1. \A p : Workers(p)' = Workers(p)
    <2>1. \A c \in Conns :
            \/ conn'[c] = conn[c]
            \/ conn'[c] = NoConn /\ c \in Queued(l) \cup {loop[l].sock}
        <3>1. CASE Exit(l)
            BY <3>1 DEF Exit, Closed
        <3>2. CASE Again(l)
            BY <3>2 DEF Again, Closed
        <3> QED BY <3>1, <3>2
    <2>2. \A c \in Queued(l) \cup {loop[l].sock} :
            c \in Conns => conn[c].at \in {"queued", "admitted"}
        BY ConstantsAssumption DEF Located, Queued, ConstantsAssumption
    <2>3. NoConn.at = "none"
        BY DEF NoConn
    <2> QED BY <2>1, <2>2, <2>3, WorkersSame
<1>2. \A m \in Loops \ {l} : loop'[m] = loop[m]
    <2>1. CASE Exit(l)
        BY <2>1 DEF Exit, TypeOK
    <2>2. CASE Again(l)
        BY <2>2 DEF Again, TypeOK
    <2> QED BY <2>1, <2>2
<1>3. ~loop'[l].permit
    <2>1. CASE Exit(l)
        BY <2>1, LoopParts DEF Exit, TypeOK
    <2>2. CASE Again(l)
        BY <2>2 DEF Again, TypeOK, LoopStates
    <2> QED BY <2>1, <2>2
<1>4. loop[l].pool \in Pools
    BY DEF LoopsShaped
<1>5. CASE loop[l].permit
    <2>1. sem' = [sem EXCEPT ![loop[l].pool] = @ + 1]
        BY <1>5 DEF Exit, Again, Returned
    <2>2. \A p : IF p = loop[l].pool
                 THEN Cardinality(LoopsHolding(p)) = Cardinality(LoopsHolding(p)') + 1
                 ELSE LoopsHolding(p)' = LoopsHolding(p)
        BY <1>2, <1>3, <1>5, HoldsLess
    <2>3. \A p \in Pools : sem[p] \in Nat /\ sem'[p] = IF p = loop[l].pool THEN sem[p] + 1
                                                                       ELSE sem[p]
        BY <2>1 DEF TypeOK
    <2>4. \A p : Cardinality(LoopsHolding(p)) \in Nat /\ Cardinality(LoopsHolding(p)') \in Nat
                 /\ Cardinality(Workers(p)) \in Nat
        <3>1. \A p : LoopsHolding(p)' \subseteq Loops
            BY DEF LoopsHolding
        <3> QED BY <3>1, Sized, ConstantsAssumption, FS_Subset, FS_CardinalityType
                DEF ConstantsAssumption
    <2> QED BY <1>1, <1>4, <2>2, <2>3, <2>4
<1>6. CASE ~loop[l].permit
    <2>1. UNCHANGED sem
        BY <1>6 DEF Exit, Again, LoopsShaped, Holding
    <2>2. \A p : LoopsHolding(p)' = LoopsHolding(p)
        BY <1>2, <1>3, <1>6, HoldsSame
    <2> QED BY <1>1, <2>1, <2>2
<1> QED BY <1>5, <1>6

\* Every step keeps the permits of each pool: what it takes it holds.
LEMMA PermitsStep ==
    ASSUME Inv, PermitsConserved, [Next]_vars
    PROVE  PermitsConserved'
<1> USE DEF Inv, limits
<1> DEFINE Total(p) == sem[p] + Cardinality(LoopsHolding(p)) + Cardinality(Workers(p))
<1> SUFFICES \A p \in Pools : Total(p)' = MAX_CONNS[KindOf[p]]
    BY DEF PermitsConserved
<1>0. \A p \in Pools : Total(p) = MAX_CONNS[KindOf[p]]
    BY DEF PermitsConserved
<1>1. SUFFICES ASSUME Next, sem' # sem \/ loop' # loop \/ conn' # conn
               PROVE  \A p \in Pools : Total(p)' = MAX_CONNS[KindOf[p]]
    <2>1. CASE UNCHANGED <<sem, loop, conn>>
        <3>1. \A p : LoopsHolding(p)' = LoopsHolding(p) /\ Workers(p)' = Workers(p)
            BY <2>1 DEF LoopsHolding, Workers
        <3> QED BY <2>1, <3>1, <1>0
    <2>2. CASE UNCHANGED vars
        BY <2>1, <2>2 DEF vars
    <2> QED BY <2>1, <2>2
\* A step that moves no permit.
<1>2. ASSUME UNCHANGED sem, \A p : LoopsHolding(p)' = LoopsHolding(p),
             \A p : Workers(p)' = Workers(p)
      PROVE  \A p \in Pools : Total(p)' = MAX_CONNS[KindOf[p]]
    BY <1>0, <1>2
<1>3. ASSUME UNCHANGED sem, UNCHANGED conn,
             \A l \in Loops : /\ loop'[l].permit <=> loop[l].permit
                              /\ loop[l].permit => loop'[l].pool = loop[l].pool
      PROVE  \A p \in Pools : Total(p)' = MAX_CONNS[KindOf[p]]
    <2>1. \A p : Workers(p)' = Workers(p)
        BY <1>3 DEF Workers
    <2> QED BY <1>2, <1>3, <2>1, HoldsSame
<1>4. \A p : /\ Cardinality(LoopsHolding(p)) \in Nat
             /\ Cardinality(LoopsHolding(p)') \in Nat
             /\ Cardinality(Workers(p)) \in Nat /\ Cardinality(Workers(p)') \in Nat
    <2>1. \A p : LoopsHolding(p)' \subseteq Loops /\ Workers(p)' \subseteq Conns
        BY DEF LoopsHolding, Workers
    <2> QED BY <2>1, Sized, ConstantsAssumption, FS_Subset, FS_CardinalityType
            DEF ConstantsAssumption
<1>5. CASE \E m \in Limits : SetMax(m)
    BY <1>1, <1>5 DEF SetMax
<1>6. ASSUME NEW k \in Kinds, NEW l \in Loops, NEW p \in Pools,
             StartListener(k, l, p)
      PROVE  \A q \in Pools : Total(q)' = MAX_CONNS[KindOf[q]]
    <2>1. /\ loop' = [loop EXCEPT ![l] = NewLoop(p, "check")] /\ loop[l].pc = "none"
          /\ sem' = [sem EXCEPT ![p] = MAX_CONNS[k]] /\ conn' = conn
          /\ KindOf[p] = k /\ \A m \in Loops : loop[m].pool # p
          /\ \A c \in Conns : conn[c].pool # p
        BY <1>6 DEF StartListener, FreeLoops, FreePools
    <2>2. ~loop[l].permit /\ ~loop'[l].permit
          /\ \A m \in Loops \ {l} : loop'[m] = loop[m]
        BY <2>1, LoopParts DEF LoopsShaped, Holding, TypeOK
    <2>3. \A q : LoopsHolding(q)' = LoopsHolding(q) /\ Workers(q)' = Workers(q)
        BY <2>1, <2>2 DEF LoopsHolding, Workers
    <2>4. LoopsHolding(p) = {} /\ Workers(p) = {}
        BY <2>1 DEF LoopsHolding, Workers
    <2>5. /\ sem'[p] = MAX_CONNS[KindOf[p]]
          /\ \A q \in Pools \ {p} : sem'[q] = sem[q]
        BY <2>1 DEF TypeOK
    <2>6. Total(p)' = MAX_CONNS[KindOf[p]]
        <3>1. Cardinality(LoopsHolding(p)') = 0 /\ Cardinality(Workers(p)') = 0
            BY <2>3, <2>4, FS_EmptySet
        <3>2. MAX_CONNS[KindOf[p]] \in Nat
            BY ConstantsAssumption DEF ConstantsAssumption
        <3> QED BY <2>5, <3>1, <3>2
    <2> QED BY <1>0, <2>3, <2>5, <2>6
<1>7. CASE \/ \E k \in Kinds, l \in Loops : Rebind(k, l)
           \/ StopHttp \/ SendProbe \/ SpawnLoop
    <2>1. UNCHANGED <<sem, conn>>
        BY <1>7 DEF Rebind, StopHttp, SendProbe, SpawnLoop
    <2>2. \A l \in Loops : /\ loop'[l].permit <=> loop[l].permit
                           /\ loop[l].permit => loop'[l].pool = loop[l].pool
        <3>1. ASSUME NEW k \in Kinds, NEW l \in Loops, Rebind(k, l)
              PROVE  \A m \in Loops : /\ loop'[m].permit <=> loop[m].permit
                                      /\ loop[m].permit => loop'[m].pool = loop[m].pool
            <4> DEFINE o   == ctl[k].loop
                       new == NewLoop(ctl[k].pool, "bound")
                       mid == [loop[o] EXCEPT !.gen = 1]
            <4>1. /\ loop' = [[loop EXCEPT ![o] = mid] EXCEPT ![l] = new]
                  /\ o \in Loops /\ loop[l].pc = "none"
                BY <3>1 DEF Rebind, Bumped, FreeLoops, TypeOK
            <4>2. ~new.permit
                BY LoopParts
            <4>3. mid.permit = loop[o].permit /\ mid.pool = loop[o].pool
                BY <4>1 DEF TypeOK, LoopStates
            <4>4. ~loop[l].permit
                BY <4>1 DEF LoopsShaped, Holding
            <4> HIDE DEF o, new, mid
            <4> QED BY <4>1, <4>2, <4>3, <4>4 DEF TypeOK
        <3>2. CASE StopHttp
            <4> DEFINE o   == ctl["http"].loop
                       mid == [loop[o] EXCEPT !.gen = 1]
            <4>1. loop' = [loop EXCEPT ![o] = mid] /\ o \in Loops
                BY <3>2 DEF StopHttp, Bumped, TypeOK, Kinds
            <4>2. mid.permit = loop[o].permit /\ mid.pool = loop[o].pool
                BY <4>1 DEF TypeOK, LoopStates
            <4> HIDE DEF o, mid
            <4> QED BY <4>1, <4>2 DEF TypeOK
        <3>3. CASE SendProbe
            BY <3>3 DEF SendProbe
        <3>4. CASE SpawnLoop
            BY <3>4 DEF SpawnLoop, TypeOK, LoopStates
        <3> QED BY <1>7, <3>1, <3>2, <3>3, <3>4
    <2> QED BY <1>3, <2>1, <2>2
<1>8. ASSUME NEW l \in Loops, LoopStep(l) \/ AcceptFails(l)
      PROVE  \A p \in Pools : Total(p)' = MAX_CONNS[KindOf[p]]
    <2>1. CASE Exit(l) /\ loop[l].pc \in {"check", "accept", "accepted"}
        BY <1>0, <2>1, DropsPermit
    <2>2. CASE Again(l) /\ loop[l].pc \in {"accept", "admit", "count", "spawn"}
        BY <1>0, <2>2, DropsPermit
    <2>3. ASSUME NEW at \in LoopPcs, Goto(l, at)
          PROVE  \A m \in Loops : /\ loop'[m].permit = loop[m].permit
                                  /\ loop'[m].pool = loop[m].pool
        BY <2>3 DEF Goto, TypeOK, LoopStates
    <2>4. CASE CheckGen(l)
        BY <1>3, <2>1, <2>3, <2>4 DEF CheckGen, LoopPcs
    <2>5. CASE Acquire(l)
        <3>1. CASE Goto(l, "check") /\ UNCHANGED <<sem, conn>>
            BY <1>3, <2>3, <3>1 DEF LoopPcs
        <3>2. CASE /\ sem[loop[l].pool] > 0
                   /\ sem' = [sem EXCEPT ![loop[l].pool] = @ - 1]
                   /\ loop' = [loop EXCEPT ![l] = [@ EXCEPT !.pc = "accept",
                                                            !.permit = TRUE]]
                   /\ conn' = conn
            <4>1. /\ loop[l].pool \in Pools /\ ~loop[l].permit
                BY <2>5 DEF Acquire, LoopsShaped, Holding
            <4>2. /\ loop'[l].permit /\ loop'[l].pool = loop[l].pool
                  /\ \A m \in Loops \ {l} : loop'[m] = loop[m]
                BY <3>2 DEF TypeOK, LoopStates
            <4>3. \A p : IF p = loop[l].pool
                         THEN Cardinality(LoopsHolding(p)') = Cardinality(LoopsHolding(p)) + 1
                         ELSE LoopsHolding(p)' = LoopsHolding(p)
                BY <4>1, <4>2, HoldsMore
            <4>4. \A p : Workers(p)' = Workers(p)
                BY <3>2 DEF Workers
            <4>5. \A p \in Pools : /\ sem[p] \in Nat
                                   /\ sem'[p] = IF p = loop[l].pool THEN sem[p] - 1
                                                                    ELSE sem[p]
                BY <3>2 DEF TypeOK
            <4> QED BY <1>0, <1>4, <4>3, <4>4, <4>5
        <3> QED BY <2>5, <3>1, <3>2 DEF Acquire
    <2>6. CASE Accept(l)
        BY <1>3, <2>6 DEF Accept, TypeOK, LoopStates
    <2>7. CASE AcceptFails(l)
        BY <2>1, <2>2, <2>7 DEF AcceptFails
    <2>8. CASE Recheck(l)
        BY <1>3, <2>1, <2>3, <2>8 DEF Recheck, LoopPcs
    <2>9. CASE Admit(l) \/ Count(l)
        <3> DEFINE c == loop[l].sock
        <3>1. CASE Again(l)
            BY <2>2, <2>9, <3>1 DEF Admit, Count
        <3>2. CASE /\ c # Probe /\ UNCHANGED sem
                   /\ \/ Goto(l, "spawn")
                      \/ loop' = [loop EXCEPT ![l] = [@ EXCEPT !.pc = "spawn",
                                                               !.cap = 0]]
                   /\ \/ conn' = [conn EXCEPT ![c].at = "admitted",
                                              ![c].pool = loop[l].pool]
                      \/ conn' = [conn EXCEPT ![c].at = "admitted",
                                              ![c].pool = loop[l].pool,
                                              ![c].counted = TRUE]
            <4>1. c \in Conns /\ conn[c].at = "queued"
                BY <2>9, <3>2 DEF Admit, Count, Located, LoopsShaped, Carrying, TypeOK,
                                  LoopStates
            <4>2. /\ \A d \in Conns \ {c} : conn'[d] = conn[d]
                  /\ conn'[c].at = "admitted"
                BY <3>2, <4>1 DEF TypeOK, ConnStates
            <4>3. \A p : Workers(p)' = Workers(p)
                BY <4>1, <4>2 DEF Workers
            <4>4. \A m \in Loops : /\ loop'[m].permit = loop[m].permit
                                   /\ loop'[m].pool = loop[m].pool
                <5>1. CASE Goto(l, "spawn")
                    BY <2>3, <5>1 DEF LoopPcs
                <5>2. CASE loop' = [loop EXCEPT ![l] = [@ EXCEPT !.pc = "spawn",
                                                                 !.cap = 0]]
                    BY <5>2 DEF TypeOK, LoopStates
                <5> QED BY <3>2, <5>1, <5>2
            <4>5. \A p : LoopsHolding(p)' = LoopsHolding(p)
                BY <4>4, HoldsSame
            <4> QED BY <1>2, <3>2, <4>3, <4>5
        <3>3. CASE /\ UNCHANGED <<sem, conn>>
                   /\ loop' = [loop EXCEPT ![l] = [@ EXCEPT !.pc = "count",
                                                   !.cap = max[loop[l].pool]]]
            BY <1>3, <3>3 DEF TypeOK, LoopStates
        <3>4. CASE Admit(l)
            BY <3>1, <3>2, <3>3, <3>4 DEF Admit
        <3>5. CASE Count(l)
            <4>1. c # Probe
                BY <3>5 DEF Count, LoopsShaped
            <4> QED BY <3>1, <3>2, <3>5, <4>1 DEF Count
        <3> QED BY <2>9, <3>4, <3>5
    <2>10. CASE SpawnWorker(l)
        <3> DEFINE c == loop[l].sock
        <3>1. CASE Again(l)
            BY <2>2, <2>10, <3>1 DEF SpawnWorker
        <3>2. CASE /\ conn' = [conn EXCEPT ![c].at = "served"]
                   /\ loop' = [loop EXCEPT ![l] = [@ EXCEPT !.pc = "check",
                                              !.permit = FALSE, !.sock = None]]
                   /\ UNCHANGED sem
            <4>1. /\ loop[l].permit /\ c \in Conns /\ conn[c].at = "admitted"
                  /\ conn[c].pool = loop[l].pool
                BY <2>10 DEF SpawnWorker, LoopsShaped, Holding, Carrying, Located,
                             TypeOK, LoopStates
            <4>2. /\ ~loop'[l].permit /\ \A m \in Loops \ {l} : loop'[m] = loop[m]
                BY <3>2 DEF TypeOK, LoopStates
            <4>3. /\ conn'[c].at = "served" /\ conn'[c].pool = loop[l].pool
                  /\ \A d \in Conns \ {c} : conn'[d] = conn[d]
                BY <3>2, <4>1 DEF TypeOK, ConnStates
            <4> HIDE DEF c
            <4>4. \A p : IF p = loop[l].pool
                         THEN Cardinality(LoopsHolding(p)) = Cardinality(LoopsHolding(p)') + 1
                         ELSE LoopsHolding(p)' = LoopsHolding(p)
                BY <4>1, <4>2, HoldsLess
            <4>5. \A p : IF p = loop[l].pool
                         THEN Cardinality(Workers(p)') = Cardinality(Workers(p)) + 1
                         ELSE Workers(p)' = Workers(p)
                BY <4>1, <4>3, WorkersMore
            <4>6. \A p \in Pools : sem[p] \in Nat /\ sem'[p] = sem[p]
                BY <3>2 DEF TypeOK
            <4> QED BY <1>0, <1>4, <4>4, <4>5, <4>6
        <3> QED BY <2>10, <3>1, <3>2 DEF SpawnWorker
    <2> QED BY <1>8, <2>4, <2>5, <2>6, <2>7, <2>8, <2>9, <2>10 DEF LoopStep
<1>9. CASE \E c \in Conns, ip \in Ips, l \in Loops : Connect(c, ip, l)
    <2>1. \A c \in Conns : \/ conn'[c] = conn[c]
                           \/ conn[c].at = "none" /\ conn'[c].at = "queued"
        BY <1>9 DEF Connect, TypeOK, NoConn
    <2>2. \A p : Workers(p)' = Workers(p)
        BY <2>1, WorkersSame
    <2>3. \A p : LoopsHolding(p)' = LoopsHolding(p)
        BY <1>9 DEF Connect, LoopsHolding
    <2> QED BY <1>2, <1>9, <2>2, <2>3 DEF Connect
<1>10. ASSUME NEW c \in Conns, EndWorker(c)
       PROVE  \A p \in Pools : Total(p)' = MAX_CONNS[KindOf[p]]
    <2>1. \A p : LoopsHolding(p)' = LoopsHolding(p)
        BY <1>10 DEF EndWorker, LoopsHolding
    <2>2. CASE /\ conn[c].at = "served" /\ UNCHANGED sem
               /\ conn' = [conn EXCEPT ![c].at = "ending", ![c].counted = FALSE]
        <3>1. \A d \in Conns : \/ conn'[d] = conn[d]
                               \/ /\ conn[d].at = "served" /\ conn'[d].at = "ending"
                                  /\ conn'[d].pool = conn[d].pool
            BY <2>2 DEF TypeOK, ConnStates
        <3>2. \A p : Workers(p)' = Workers(p)
            BY <3>1, WorkersSame
        <3> QED BY <1>2, <2>1, <2>2, <3>2
    <2>3. CASE /\ conn[c].at = "ending" /\ conn' = [conn EXCEPT ![c] = NoConn]
               /\ sem' = [sem EXCEPT ![conn[c].pool] = @ + 1]
        <3>1. /\ conn'[c].at = "none" /\ conn[c].pool \in Pools
              /\ \A d \in Conns \ {c} : conn'[d] = conn[d]
            BY <2>3 DEF TypeOK, NoConn, ConnsShaped
        <3>2. \A p : IF p = conn[c].pool
                     THEN Cardinality(Workers(p)) = Cardinality(Workers(p)') + 1
                     ELSE Workers(p)' = Workers(p)
            BY <2>3, <3>1, WorkersLess
        <3>3. \A p \in Pools : /\ sem[p] \in Nat
                               /\ sem'[p] = IF p = conn[c].pool THEN sem[p] + 1
                                                                ELSE sem[p]
            BY <2>3 DEF TypeOK
        <3> QED BY <1>0, <1>4, <2>1, <3>2, <3>3
    <2> QED BY <1>10, <2>2, <2>3 DEF EndWorker
<1> QED BY <1>1, <1>5, <1>6, <1>7, <1>8, <1>9, <1>10 DEF Next

\* Whatever the sizes, however many listeners, loops and connections: no slot
\* of a semaphore is lost or made.
THEOREM PermitsAreConserved == Spec => []PermitsConserved
<1>1. Inv /\ PermitsConserved /\ [Next]_vars => (Inv /\ PermitsConserved)'
    BY StepInv, PermitsStep
<1>2. Init => Inv /\ PermitsConserved
    BY InitInv, PermitsInit
<1> QED BY <1>1, <1>2, PTL DEF Spec
----------------------------------------------------------------------------
(* Counts *)

\* Nobody is counted at first.
LEMMA CountsInit == Init => PeerCountsExact
<1> SUFFICES ASSUME Init, NEW p \in Pools, NEW ip \in Ips
             PROVE  /\ Held(p, ip) = Cardinality(CountedFor(p, ip))
                    /\ ip \in DOMAIN counts[p] => Held(p, ip) > 0
    BY DEF PeerCountsExact
<1>1. ip \notin DOMAIN counts[p]
    BY DEF Init
<1>2. CountedFor(p, ip) = {}
    BY DEF CountedFor, Init, NoConn
<1> QED BY <1>1, <1>2, FS_EmptySet DEF Held

\* What drop() takes off a limiter: one of the address the connection was
\* counted for, with the entry when it was the last.
LEMMA UncountedHeld ==
    ASSUME Inv, NEW c \in Conns, conn[c].pool \in Pools, conn[c].ip \in Ips,
           PeerCountsExact, counts' = Uncounted(c)
    PROVE  \A p \in Pools, ip \in Ips :
              Held(p, ip) = Held(p, ip)'
                  + IF conn[c].counted /\ p = conn[c].pool /\ ip = conn[c].ip
                    THEN 1 ELSE 0
<1> DEFINE P  == conn[c].pool
           IP == conn[c].ip
           n  == counts[P]
           m  == [i \in IF n[IP] = 1 THEN DOMAIN n \ {IP} ELSE DOMAIN n |->
                    IF i = IP THEN n[i] - 1 ELSE n[i]]
<1>1. \A p \in Pools, ip \in Ips : Held(p, ip) \in Nat
    BY DEF Inv, CountsTyped, Held
<1>2. CASE ~conn[c].counted
    <2>1. UNCHANGED counts
        BY <1>2 DEF Uncounted, WasCounted
    <2> QED BY <1>1, <1>2, <2>1 DEF Held
<1>3. CASE conn[c].counted
    <2>1. Held(P, IP) = Cardinality(CountedFor(P, IP))
        BY DEF PeerCountsExact
    <2>2. c \in CountedFor(P, IP)
        BY <1>3 DEF CountedFor
    <2>3. Held(P, IP) # 0
        BY <2>1, <2>2, Sized, FS_EmptySet
    <2>4. IP \in DOMAIN n
        BY <2>3 DEF Held
    <2>5. counts' = [counts EXCEPT ![P] = m]
        BY <1>3, <2>4 DEF Uncounted, WasCounted
    <2>6. n \in [DOMAIN n -> Nat \ {0}]
        BY DEF Inv, CountsTyped
    <2>7. /\ \A ip \in Ips \ {IP} : /\ ip \in DOMAIN m <=> ip \in DOMAIN n
                                    /\ ip \in DOMAIN n => m[ip] = n[ip]
          /\ n[IP] = 1 => IP \notin DOMAIN m
          /\ n[IP] # 1 => IP \in DOMAIN m /\ m[IP] = n[IP] - 1
        BY <2>4
    <2> HIDE DEF m
    <2>8. counts'[P] = m /\ \A p \in Pools \ {P} : counts'[p] = counts[p]
        BY <2>5 DEF Inv, CountsTyped
    <2> TAKE p \in Pools, ip \in Ips
    <2>9. CASE p = P /\ ip = IP
        BY <1>1, <1>3, <2>4, <2>6, <2>7, <2>8, <2>9 DEF Held
    <2>10. CASE p # P
        BY <1>1, <2>8, <2>10 DEF Held
    <2>11. CASE p = P /\ ip # IP
        BY <1>1, <2>7, <2>8, <2>11 DEF Held
    <2> QED BY <2>9, <2>10, <2>11
<1> QED BY <1>2, <1>3

\* Every step keeps the counts of each pool and address exact.
LEMMA CountsStep ==
    ASSUME Inv, PeerCountsExact, [Next]_vars
    PROVE  PeerCountsExact'
<1> USE DEF Inv, limits
<1>0. /\ Inv' /\ CountsTyped'
      /\ \A p \in Pools, ip \in Ips : Held(p, ip) = Cardinality(CountedFor(p, ip))
    BY StepInv DEF PeerCountsExact
<1> SUFFICES \A p \in Pools, ip \in Ips :
                Held(p, ip)' = Cardinality(CountedFor(p, ip))'
    BY <1>0 DEF PeerCountsExact, CountsTyped, Held
\* Steps that leave the counts and what they count as they are.
<1>1. ASSUME UNCHANGED counts,
             \A c \in Conns :
                /\ conn'[c].counted <=> conn[c].counted
                /\ conn[c].counted => /\ conn'[c].pool = conn[c].pool
                                      /\ conn'[c].ip = conn[c].ip
      PROVE  \A p \in Pools, ip \in Ips :
                Held(p, ip)' = Cardinality(CountedFor(p, ip))'
    <2>1. \A p, ip : CountedFor(p, ip)' = CountedFor(p, ip)
        BY <1>1, CountedSame
    <2> QED BY <1>0, <1>1, <2>1 DEF Held
\* Steps that drop what a connection was counted for.
<1>2. ASSUME NEW c \in Conns, conn[c].pool \in Pools, conn[c].ip \in Ips,
             counts' = Uncounted(c), ~conn'[c].counted,
             \A d \in Conns \ {c} : conn'[d] = conn[d]
      PROVE  \A p \in Pools, ip \in Ips :
                Held(p, ip)' = Cardinality(CountedFor(p, ip))'
    <2>1. \A p \in Pools, ip \in Ips :
              Held(p, ip) = Held(p, ip)'
                  + IF conn[c].counted /\ p = conn[c].pool /\ ip = conn[c].ip
                    THEN 1 ELSE 0
        BY <1>2, UncountedHeld
    <2>2. \A p \in Pools, ip \in Ips : Held(p, ip)' \in Nat
        BY <1>0 DEF CountsTyped, Held
    <2>3. CASE conn[c].counted
        <3>1. \A p, ip :
                 IF p = conn[c].pool /\ ip = conn[c].ip
                 THEN Cardinality(CountedFor(p, ip)) = Cardinality(CountedFor(p, ip)') + 1
                 ELSE CountedFor(p, ip)' = CountedFor(p, ip)
            BY <1>2, <2>3, CountedLess
        <3>2. \A p, ip : Cardinality(CountedFor(p, ip)') \in Nat
            <4>1. \A p, ip : CountedFor(p, ip)' \subseteq Conns
                BY DEF CountedFor
            <4> QED BY <4>1, ConstantsAssumption, FS_Subset, FS_CardinalityType
                    DEF ConstantsAssumption
        <3> QED BY <1>0, <2>1, <2>2, <2>3, <3>1, <3>2
    <2>4. CASE ~conn[c].counted
        <3>1. \A d \in Conns :
                /\ conn'[d].counted <=> conn[d].counted
                /\ conn[d].counted => /\ conn'[d].pool = conn[d].pool
                                      /\ conn'[d].ip = conn[d].ip
            BY <1>2, <2>4
        <3>2. UNCHANGED counts
            BY <1>2, <2>4 DEF Uncounted, WasCounted
        <3> QED BY <1>1, <3>1, <3>2
    <2> QED BY <2>3, <2>4
<1>3. CASE UNCHANGED <<counts, conn>>
    BY <1>1, <1>3
<1>4. ASSUME NEW k \in Kinds, NEW l \in Loops, NEW p \in Pools,
             StartListener(k, l, p)
      PROVE  \A q \in Pools, ip \in Ips :
                Held(q, ip)' = Cardinality(CountedFor(q, ip))'
    <2>1. /\ counts' = [counts EXCEPT ![p] = <<>>] /\ conn' = conn
          /\ \A c \in Conns : conn[c].pool # p
        BY <1>4 DEF StartListener, FreePools
    <2>2. \A q, ip : CountedFor(q, ip)' = CountedFor(q, ip)
        BY <2>1 DEF CountedFor
    <2>3. \A ip : CountedFor(p, ip) = {}
        BY <2>1 DEF CountedFor
    <2>4. /\ \A ip : Held(p, ip)' = 0
          /\ \A q \in Pools \ {p}, ip \in Ips : Held(q, ip)' = Held(q, ip)
        BY <2>1 DEF Held, CountsTyped
    <2> QED BY <1>0, <2>2, <2>3, <2>4, FS_EmptySet
\* Connections that are closed before they were admitted were not counted.
<1>5. ASSUME NEW S, conn' = Closed(S),
             \A c \in S \cap Conns : conn[c].at = "queued", UNCHANGED counts
      PROVE  \A p \in Pools, ip \in Ips :
                Held(p, ip)' = Cardinality(CountedFor(p, ip))'
    <2>1. \A c \in Conns : \/ conn'[c] = conn[c]
                           \/ ~conn'[c].counted /\ ~conn[c].counted
        BY <1>5 DEF Closed, NoConn, ConnsShaped
    <2> QED BY <1>1, <1>5, <2>1
<1>6. ASSUME NEW l \in Loops, loop[l].pc \in {"check", "accept", "accepted"}, Exit(l)
      PROVE  \A p \in Pools, ip \in Ips :
                Held(p, ip)' = Cardinality(CountedFor(p, ip))'
    <2>1. \A c \in (Queued(l) \cup {loop[l].sock}) \cap Conns : conn[c].at = "queued"
        BY <1>6, ConstantsAssumption DEF Located, Queued, ConstantsAssumption
    <2> QED BY <1>5, <1>6, <2>1 DEF Exit
<1>7. ASSUME NEW l \in Loops, loop[l].pc \in {"accept", "admit", "count"}, Again(l),
             UNCHANGED counts
      PROVE  \A p \in Pools, ip \in Ips :
                Held(p, ip)' = Cardinality(CountedFor(p, ip))'
    <2>1. \A c \in {loop[l].sock} \cap Conns : conn[c].at = "queued"
        BY <1>7 DEF Located
    <2> QED BY <1>5, <1>7, <2>1 DEF Again
<1>8. ASSUME NEW l \in Loops, LoopStep(l) \/ AcceptFails(l)
      PROVE  \A p \in Pools, ip \in Ips :
                Held(p, ip)' = Cardinality(CountedFor(p, ip))'
    <2>1. CASE CheckGen(l)
        BY <1>3, <1>6, <2>1 DEF CheckGen
    <2>2. CASE Acquire(l) \/ Accept(l)
        BY <1>3, <2>2 DEF Acquire, Accept
    <2>3. CASE AcceptFails(l)
        BY <1>6, <1>7, <2>3 DEF AcceptFails
    <2>4. CASE Recheck(l)
        BY <1>3, <1>6, <2>4 DEF Recheck
    <2>5. CASE Admit(l) \/ Count(l)
        <3> DEFINE c == loop[l].sock
                   P == loop[l].pool
                   IP == conn[c].ip
        <3>1. CASE Again(l) /\ UNCHANGED counts
            BY <1>7, <2>5, <3>1 DEF Admit, Count
        <3>2. ASSUME c # Probe
              PROVE  /\ c \in Conns /\ P \in Pools /\ IP \in Ips
                     /\ conn[c].at = "queued" /\ ~conn[c].counted
            BY <2>5, <3>2
            DEF Admit, Count, Located, LoopsShaped, ConnsShaped, Carrying, TypeOK,
                LoopStates
        <3>3. CASE /\ c # Probe /\ UNCHANGED counts
                   /\ conn' = [conn EXCEPT ![c].at = "admitted", ![c].pool = P]
            <4>1. \A d \in Conns : \/ conn'[d] = conn[d]
                                   \/ ~conn'[d].counted /\ ~conn[d].counted
                BY <3>2, <3>3 DEF TypeOK, ConnStates
            <4> QED BY <1>1, <3>3, <4>1
        <3>4. CASE /\ c # Probe
                   /\ counts' = [counts EXCEPT ![P] =
                        [i \in DOMAIN counts[P] \cup {IP} |->
                            IF i = IP THEN Held(P, IP) + 1 ELSE counts[P][i]]]
                   /\ conn' = [conn EXCEPT ![c].at = "admitted", ![c].pool = P,
                                           ![c].counted = TRUE]
            <4>1. /\ conn'[c].counted /\ conn'[c].pool = P /\ conn'[c].ip = IP
                  /\ \A d \in Conns \ {c} : conn'[d] = conn[d]
                <5> DEFINE x == conn[c]
                           y == conn'[c]
                <5>1. /\ x \in ConnStates
                      /\ y = [x EXCEPT !.at = "admitted", !.pool = P, !.counted = TRUE]
                    BY <3>2, <3>4 DEF TypeOK
                <5>2. \A d \in Conns \ {c} : conn'[d] = conn[d]
                    BY <3>2, <3>4 DEF TypeOK
                <5> HIDE DEF x, y, c, P, Inv
                <5>3. y.counted /\ y.pool = P /\ y.ip = x.ip
                    BY <5>1 DEF ConnStates
                <5> QED BY <5>2, <5>3 DEF x, y
            <4>2. c \in Conns /\ ~conn[c].counted
                BY <3>2, <3>4
            <4> HIDE DEF c, P, IP
            <4>3. \A p, ip :
                     IF p = P /\ ip = IP
                     THEN Cardinality(CountedFor(p, ip)') = Cardinality(CountedFor(p, ip)) + 1
                     ELSE CountedFor(p, ip)' = CountedFor(p, ip)
                BY <4>1, <4>2, CountedMore
            <4>4. \A p \in Pools, ip \in Ips :
                     Held(p, ip)' = IF p = P /\ ip = IP THEN Held(p, ip) + 1
                                                        ELSE Held(p, ip)
                BY <3>2, <3>4 DEF Held, CountsTyped
            <4> QED BY <1>0, <4>3, <4>4
        <3>5. CASE Admit(l)
            BY <1>3, <3>1, <3>3, <3>5 DEF Admit
        <3>6. CASE Count(l)
            <4>1. c # Probe
                BY <3>6 DEF Count, LoopsShaped
            <4> QED BY <3>1, <3>4, <3>6, <4>1 DEF Count
        <3> QED BY <2>5, <3>5, <3>6
    <2>6. CASE SpawnWorker(l)
        <3> DEFINE c == loop[l].sock
        <3>1. c \in Conns /\ conn[c].pool \in Pools /\ conn[c].ip \in Ips
            BY <2>6 DEF SpawnWorker, Located, LoopsShaped, ConnsShaped, Carrying,
                        TypeOK, LoopStates
        <3>2. CASE conn' = [conn EXCEPT ![c].at = "served"] /\ UNCHANGED counts
            <4>1. \A d \in Conns : /\ conn'[d].counted = conn[d].counted
                                   /\ conn'[d].pool = conn[d].pool
                                   /\ conn'[d].ip = conn[d].ip
                BY <3>2 DEF TypeOK, ConnStates
            <4> QED BY <1>1, <3>2, <4>1
        <3>3. CASE Again(l) /\ counts' = Uncounted(c)
            <4>1. ~conn'[c].counted /\ \A d \in Conns \ {c} : conn'[d] = conn[d]
                BY <3>1, <3>3 DEF Again, Closed, NoConn
            <4> QED BY <1>2, <3>1, <3>3, <4>1
        <3> QED BY <2>6, <3>2, <3>3 DEF SpawnWorker
    <2> QED BY <1>8, <2>1, <2>2, <2>3, <2>4, <2>5, <2>6 DEF LoopStep
<1>9. CASE \E c \in Conns, ip \in Ips, l \in Loops : Connect(c, ip, l)
    <2>1. \A c \in Conns : \/ conn'[c] = conn[c]
                           \/ ~conn'[c].counted /\ ~conn[c].counted
        BY <1>9 DEF Connect, TypeOK, NoConn, ConnsShaped
    <2> QED BY <1>1, <1>9, <2>1 DEF Connect
<1>10. ASSUME NEW c \in Conns, EndWorker(c)
       PROVE  \A p \in Pools, ip \in Ips :
                 Held(p, ip)' = Cardinality(CountedFor(p, ip))'
    <2>1. CASE /\ conn[c].at = "served" /\ counts' = Uncounted(c)
               /\ conn' = [conn EXCEPT ![c].at = "ending", ![c].counted = FALSE]
        <3>1. conn[c].pool \in Pools /\ conn[c].ip \in Ips
            BY <2>1 DEF ConnsShaped
        <3>2. ~conn'[c].counted /\ \A d \in Conns \ {c} : conn'[d] = conn[d]
            BY <2>1 DEF TypeOK, ConnStates
        <3> QED BY <1>2, <2>1, <3>1, <3>2
    <2>2. CASE /\ conn[c].at = "ending" /\ UNCHANGED counts
               /\ conn' = [conn EXCEPT ![c] = NoConn]
        <3>1. \A d \in Conns : \/ conn'[d] = conn[d]
                               \/ ~conn'[d].counted /\ ~conn[d].counted
            BY <2>2 DEF TypeOK, NoConn, ConnsShaped
        <3> QED BY <1>1, <2>2, <3>1
    <2> QED BY <1>10, <2>1, <2>2 DEF EndWorker
<1>11. CASE \/ \E m \in Limits : SetMax(m)
            \/ \E k \in Kinds, l \in Loops : Rebind(k, l)
            \/ StopHttp \/ SendProbe \/ SpawnLoop
    <2>1. UNCHANGED <<counts, conn>>
        BY <1>11 DEF SetMax, Rebind, StopHttp, SendProbe, SpawnLoop
    <2> QED BY <1>3, <2>1
<1>12. CASE UNCHANGED vars
    BY <1>3, <1>12 DEF vars
<1> QED BY <1>4, <1>8, <1>9, <1>10, <1>11, <1>12 DEF Next

\* However the limit changes while connections come and go, a limiter counts
\* exactly the live connections it counted in, and keeps no entry at zero.
THEOREM PeerCountsAreExact == Spec => []PeerCountsExact
<1>1. Inv /\ PeerCountsExact /\ [Next]_vars => (Inv /\ PeerCountsExact)'
    BY StepInv, CountsStep
<1>2. Init => Inv /\ PeerCountsExact
    BY InitInv, CountsInit
<1> QED BY <1>1, <1>2, PTL DEF Spec
----------------------------------------------------------------------------
(* Loops *)

\* What keeps a listener at one loop: two listeners have two loops, the loop
\* the watcher retires is the one its listener has and is retired or gone, and
\* the one it is about to start is not yet a listener's.
LiveShaped ==
    /\ \A j, k \in Kinds : ctl[j] # None /\ ctl[k] # None /\ j # k
                              => ctl[j].loop # ctl[k].loop
    /\ task # Idle => /\ task.old = ctl[task.kind].loop
                      /\ \/ loop[task.old].pc = "none"
                         \/ loop[task.old].gen # 0
    /\ task.new # None => \A k \in Kinds : ctl[k] # None => ctl[k].loop # task.new

\* No loop is live at first.
LEMMA LiveInit == Init => OneLiveLoop /\ LiveShaped
<1> SUFFICES ASSUME Init PROVE OneLiveLoop /\ LiveShaped
    OBVIOUS
<1>1. PICK on \in {{"https"}, Kinds}, m \in Limits,
           f \in [Kinds -> Loops], g \in [Kinds -> Pools] :
      /\ f["https"] # f["http"] /\ \A k \in Kinds : KindOf[g[k]] = k
      /\ ctl = [k \in Kinds |-> IF k \in on
                                THEN [loop |-> f[k], pool |-> g[k]] ELSE None]
      /\ loop = [l \in Loops |->
                    IF \E k \in on : f[k] = l
                    THEN NewLoop(g[CHOOSE k \in on : f[k] = l], "check")
                    ELSE NoLoop]
      /\ queue = [l \in Loops |-> <<>>]
      /\ sem = [p \in Pools |-> MAX_CONNS[KindOf[p]]]
      /\ max = [p \in Pools |-> m]
      /\ counts = [p \in Pools |-> <<>>]
      /\ conn = [c \in Conns |-> NoConn]
      /\ per_ip = m /\ task = Idle
    BY DEF Init
<1>2. /\ on \subseteq Kinds /\ Kinds = {"https", "http"}
      /\ \A j, k \in Kinds : f[j] = f[k] => j = k
    BY <1>1 DEF Kinds
<1>3. \A k \in Kinds : /\ ctl[k] # None <=> k \in on
                       /\ k \in on => ctl[k].loop = f[k]
    BY <1>1, ConstantsAssumption DEF ConstantsAssumption
<1>4. \A l \in Loops :
        /\ (\E k \in on : f[k] = l) => loop[l].pc = "check" /\ loop[l].gen = 0
        /\ ~(\E k \in on : f[k] = l) => loop[l].pc = "none"
    BY <1>1, LoopParts
<1>5. task.new = None
    BY <1>1 DEF Idle
<1>6. OneLiveLoop
    BY <1>2, <1>3, <1>4 DEF OneLiveLoop
<1>7. LiveShaped
    BY <1>1, <1>2, <1>3, <1>5 DEF LiveShaped
<1> QED BY <1>6, <1>7

\* A loop that is not retired stays.
LEMMA LoopStays ==
    ASSUME Inv, NEW l \in Loops, LoopStep(l) \/ AcceptFails(l)
    PROVE  /\ loop[l].pc \notin {"none", "bound"}
           /\ \A m \in Loops \ {l} : loop'[m] = loop[m]
           /\ \/ loop'[l].pc # "none" /\ loop'[l].gen = loop[l].gen
              \/ loop[l].gen # 0 /\ loop'[l].pc = "none"
<1>1. loop[l].pc \notin {"none", "bound"}
    BY DEF LoopStep, CheckGen, Acquire, Accept, Recheck, Admit, Count,
           SpawnWorker, AcceptFails
<1> DEFINE Stays == /\ \A m \in Loops \ {l} : loop'[m] = loop[m]
                    /\ \/ loop'[l].pc # "none" /\ loop'[l].gen = loop[l].gen
                       \/ loop[l].gen # 0 /\ loop'[l].pc = "none"
<1>2. ASSUME NEW at \in LoopPcs \ {"none"}, Goto(l, at)
      PROVE  Stays
    BY <1>2 DEF Goto, Inv, TypeOK, LoopStates
<1>3. ASSUME Again(l)
      PROVE  Stays
    BY <1>3 DEF Again, Inv, TypeOK, LoopStates
<1>4. ASSUME Exit(l), loop[l].gen # 0
      PROVE  Stays
    BY <1>4, LoopParts DEF Exit, Inv, TypeOK
<1>5. CASE CheckGen(l) \/ Recheck(l)
    BY <1>2, <1>4, <1>5 DEF CheckGen, Recheck, Retired, LoopPcs
<1>6. CASE Acquire(l)
    <2>1. CASE Goto(l, "check")
        BY <1>1, <1>2, <2>1 DEF LoopPcs
    <2>2. CASE loop' = [loop EXCEPT ![l] = [@ EXCEPT !.pc = "accept",
                                                     !.permit = TRUE]]
        BY <1>1, <2>2 DEF Inv, TypeOK, LoopStates
    <2> QED BY <1>6, <2>1, <2>2 DEF Acquire
<1>7. CASE Accept(l)
    BY <1>7 DEF Accept, Inv, TypeOK, LoopStates
<1>8. CASE AcceptFails(l)
    BY <1>3, <1>4, <1>8 DEF AcceptFails
<1>9. CASE Admit(l) \/ Count(l)
    <2>1. CASE \E x \in LoopPcs \ {"none"}, m \in Nat :
                 loop' = [loop EXCEPT ![l] = [@ EXCEPT !.pc = x, !.cap = m]]
        BY <1>1, <2>1 DEF Inv, TypeOK, LoopStates
    <2>2. loop[l].pc = "admit" => max[loop[l].pool] \in Nat
        BY ConstantsAssumption DEF Inv, TypeOK, LoopsShaped, ConstantsAssumption
    <2>3. CASE Admit(l)
        BY <1>2, <1>3, <2>1, <2>2, <2>3 DEF Admit, LoopPcs
    <2>4. CASE Count(l)
        BY <1>2, <1>3, <2>1, <2>4 DEF Count, LoopPcs
    <2> QED BY <1>9, <2>3, <2>4
<1>10. CASE SpawnWorker(l)
    <2>1. CASE loop' = [loop EXCEPT ![l] = [@ EXCEPT !.pc = "check",
                                     !.permit = FALSE, !.sock = None]]
        BY <1>1, <2>1 DEF Inv, TypeOK, LoopStates
    <2> QED BY <1>1, <1>3, <1>10, <2>1 DEF SpawnWorker
<1> QED BY <1>1, <1>5, <1>6, <1>7, <1>8, <1>9, <1>10 DEF LoopStep

\* Every step keeps to one live loop a kind, and that one the one it controls.
LEMMA LiveStep ==
    ASSUME Inv, OneLiveLoop, LiveShaped, [Next]_vars
    PROVE  OneLiveLoop' /\ LiveShaped'
<1> USE DEF Inv
<1>1. CASE UNCHANGED <<ctl, loop, task>>
    BY <1>1 DEF OneLiveLoop, LiveShaped
<1>2. ASSUME NEW k \in Kinds, NEW l \in Loops, NEW p \in Pools,
             StartListener(k, l, p)
      PROVE  OneLiveLoop' /\ LiveShaped'
    <2>1. /\ task = Idle /\ task' = task /\ loop[l].pc = "none" /\ ctl[k] = None
          /\ loop' = [loop EXCEPT ![l] = NewLoop(p, "check")]
          /\ ctl' = [ctl EXCEPT ![k] = [loop |-> l, pool |-> p]]
        BY <1>2 DEF StartListener, FreeLoops
    <2>2. /\ loop'[l].pc = "check" /\ loop'[l].gen = 0
          /\ \A m \in Loops \ {l} : loop'[m] = loop[m]
        BY <2>1, LoopParts DEF TypeOK
    <2>3. /\ ctl'[k] # None /\ ctl'[k].loop = l
          /\ \A j \in Kinds \ {k} : ctl'[j] = ctl[j]
        BY <2>1, ConstantsAssumption DEF TypeOK, ConstantsAssumption
    <2>4. task.kind = None /\ task.new = None /\ None \notin Kinds /\ None \notin Loops
        BY <2>1, ConstantsAssumption DEF Idle, ConstantsAssumption
    <2>5. \A j \in Kinds : ctl[j] # None => ctl[j].loop \in Loops \ {l}
        BY <2>1, <2>4 DEF OneLiveLoop, TypeOK
    <2>6. OneLiveLoop'
        BY <2>1, <2>2, <2>3, <2>4, <2>5 DEF OneLiveLoop
    <2>7. LiveShaped'
        BY <2>1, <2>3, <2>4, <2>5 DEF LiveShaped
    <2> QED BY <2>6, <2>7
<1>3. ASSUME NEW k \in Kinds, NEW l \in Loops, Rebind(k, l)
      PROVE  OneLiveLoop' /\ LiveShaped'
    <2> DEFINE o == ctl[k].loop
               new == NewLoop(ctl[k].pool, "bound")
               mid == [loop[o] EXCEPT !.gen = 1]
    <2>1. /\ task = Idle /\ ctl[k] # None /\ loop[l].pc = "none" /\ ctl' = ctl
          /\ loop' = [[loop EXCEPT ![o] = mid] EXCEPT ![l] = new]
          /\ task' = [step |-> "probe", kind |-> k, old |-> o, new |-> l]
        BY <1>3 DEF Rebind, Bumped, FreeLoops
    <2>2. task.kind = None /\ task.new = None /\ None \notin Kinds /\ None \notin Loops
        BY <2>1, ConstantsAssumption DEF Idle, ConstantsAssumption
    <2>3. \A j \in Kinds : ctl[j] # None => ctl[j].loop \in Loops \ {l}
        BY <2>1, <2>2 DEF OneLiveLoop, TypeOK
    <2>4. o \in Loops \ {l}
        BY <2>1, <2>3
    <2>5. mid.gen = 1
        BY <2>4 DEF TypeOK, LoopStates
    <2> HIDE DEF new, mid
    <2>6. /\ loop'[o].gen # 0
          /\ \A m \in Loops \ {o, l} : loop'[m] = loop[m]
        <3> HIDE DEF o
        <3> QED BY <2>1, <2>4, <2>5 DEF TypeOK
    <2>7. task'.kind = k /\ task'.old = o /\ task'.new = l /\ ctl' = ctl
        BY <2>1
    <2>8. OneLiveLoop'
        <3>1. \A j \in Kinds : ctl'[j] # None =>
                \/ loop'[ctl'[j].loop].pc # "none" /\ loop'[ctl'[j].loop].gen = 0
                \/ task'.kind = j
            <4> TAKE j \in Kinds
            <4>1. CASE j = k
                BY <2>7, <4>1
            <4>2. CASE j # k /\ ctl[j] # None
                <5>1. ctl[j].loop \in Loops \ {o, l}
                    BY <2>1, <2>3, <4>2 DEF LiveShaped
                <5>2. loop'[ctl[j].loop] = loop[ctl[j].loop]
                    BY <2>6, <5>1
                <5> QED BY <2>2, <2>7, <4>2, <5>2 DEF OneLiveLoop
            <4> QED BY <2>7, <4>1, <4>2
        <3>2. \A m \in Loops : loop'[m].pc # "none" /\ loop'[m].gen = 0 =>
                \/ \E j \in Kinds : ctl'[j] # None /\ ctl'[j].loop = m
                \/ task'.new = m
            <4> SUFFICES ASSUME NEW m \in Loops \ {o, l},
                                loop[m].pc # "none", loop[m].gen = 0
                         PROVE  \E j \in Kinds : ctl[j] # None /\ ctl[j].loop = m
                BY <2>6, <2>7
            <4> QED BY <2>2 DEF OneLiveLoop
        <3> QED BY <3>1, <3>2 DEF OneLiveLoop
    <2>9. LiveShaped'
        BY <2>1, <2>3, <2>6, <2>7 DEF LiveShaped
    <2> QED BY <2>8, <2>9
<1>4. CASE StopHttp
    <2> DEFINE o == ctl["http"].loop
               mid == [loop[o] EXCEPT !.gen = 1]
    <2>1. /\ task = Idle /\ ctl["http"] # None /\ ctl' = ctl
          /\ loop' = [loop EXCEPT ![o] = mid] /\ "http" \in Kinds
          /\ task' = [step |-> "probe", kind |-> "http", old |-> o, new |-> None]
        BY <1>4 DEF StopHttp, Bumped, Kinds
    <2>2. task.kind = None /\ task.new = None /\ None \notin Kinds /\ None \notin Loops
        BY <2>1, ConstantsAssumption DEF Idle, ConstantsAssumption
    <2>3. o \in Loops
        BY <2>1 DEF TypeOK
    <2>4. mid.gen = 1
        BY <2>3 DEF TypeOK, LoopStates
    <2> HIDE DEF mid
    <2>5. loop'[o].gen # 0 /\ \A m \in Loops \ {o} : loop'[m] = loop[m]
        BY <2>1, <2>3, <2>4 DEF TypeOK
    <2>6. task'.kind = "http" /\ task'.old = o /\ task'.new = None
        BY <2>1
    <2>7. OneLiveLoop'
        <3>1. \A j \in Kinds : ctl'[j] # None =>
                \/ loop'[ctl'[j].loop].pc # "none" /\ loop'[ctl'[j].loop].gen = 0
                \/ task'.kind = j
            <4> TAKE j \in Kinds
            <4>1. CASE j = "http"
                BY <2>6, <4>1
            <4>2. CASE j # "http" /\ ctl[j] # None
                <5>1. ctl[j].loop \in Loops \ {o}
                    BY <2>1, <4>2 DEF LiveShaped, TypeOK
                <5> QED BY <2>1, <2>2, <2>5, <4>2, <5>1 DEF OneLiveLoop
            <4> QED BY <2>1, <4>1, <4>2
        <3>2. \A m \in Loops : loop'[m].pc # "none" /\ loop'[m].gen = 0 =>
                \/ \E j \in Kinds : ctl'[j] # None /\ ctl'[j].loop = m
                \/ task'.new = m
            BY <2>1, <2>2, <2>5 DEF OneLiveLoop
        <3> QED BY <3>1, <3>2 DEF OneLiveLoop
    <2>8. LiveShaped'
        BY <2>1, <2>5, <2>6 DEF LiveShaped
    <2> QED BY <2>7, <2>8
<1>5. CASE SendProbe
    <2>1. /\ task.step = "probe" /\ loop' = loop /\ task # Idle
          /\ \/ /\ task.new = None /\ task' = Idle
                /\ ctl' = [ctl EXCEPT ![task.kind] = None]
             \/ /\ task.new # None /\ ctl' = ctl
                /\ task' = [task EXCEPT !.step = "spawn"]
        BY <1>5 DEF SendProbe, Idle
    <2>2. task.kind \in Kinds /\ ctl[task.kind] # None
        BY <2>1 DEF WatcherShaped
    <2>3. CASE task.new = None /\ task' = Idle /\ ctl' = [ctl EXCEPT ![task.kind] = None]
        <3>1. ctl'[task.kind] = None /\ \A j \in Kinds \ {task.kind} : ctl'[j] = ctl[j]
            BY <2>2, <2>3 DEF TypeOK
        <3>2. task'.kind = None /\ task'.new = None
            BY <2>3 DEF Idle
        <3>3. \A l \in Loops : loop[l].pc # "none" /\ loop[l].gen = 0
                                  => l # ctl[task.kind].loop
            BY <2>1 DEF LiveShaped
        <3>4. OneLiveLoop'
            BY <2>1, <2>3, <3>1, <3>2, <3>3, ConstantsAssumption
            DEF OneLiveLoop, ConstantsAssumption
        <3>5. LiveShaped'
            BY <2>1, <2>3, <3>1, <3>2 DEF LiveShaped
        <3> QED BY <3>4, <3>5
    <2>4. CASE ctl' = ctl /\ task' = [task EXCEPT !.step = "spawn"]
        <3>1. task'.kind = task.kind /\ task'.old = task.old /\ task'.new = task.new
            BY <2>4 DEF TypeOK, TaskStates
        <3> QED BY <2>1, <2>4, <3>1 DEF OneLiveLoop, LiveShaped
    <2> QED BY <2>1, <2>3, <2>4
<1>6. CASE SpawnLoop
    <2> DEFINE l == task.new
               k == task.kind
    <2>1. /\ task # Idle /\ task' = Idle /\ l \in Loops /\ k \in Kinds
          /\ ctl[k] # None /\ loop[l].gen = 0 /\ loop[l].pc = "bound"
          /\ loop' = [loop EXCEPT ![l].pc = "check"]
          /\ ctl' = [ctl EXCEPT ![k].loop = l]
        BY <1>6 DEF SpawnLoop, WatcherShaped, TypeOK, TaskStates, Idle
    <2>2. /\ loop'[l].pc = "check" /\ loop'[l].gen = 0
          /\ \A m \in Loops \ {l} : loop'[m] = loop[m]
        BY <2>1 DEF TypeOK, LoopStates
    <2>3. /\ ctl'[k] # None /\ ctl'[k].loop = l
          /\ \A j \in Kinds \ {k} : ctl'[j] = ctl[j]
        <3>1. ctl[k] \in [loop: Loops, pool: Pools]
            BY <2>1 DEF TypeOK
        <3>2. ctl'[k] = [ctl[k] EXCEPT !.loop = l]
            BY <2>1 DEF TypeOK
        <3>3. ctl'[k] \in [loop: Loops, pool: Pools] /\ ctl'[k].loop = l
            BY <2>1, <3>1, <3>2
        <3> QED BY <2>1, <3>3, ConstantsAssumption DEF TypeOK, ConstantsAssumption
    <2>4. /\ task'.new = None /\ task'.kind = None
          /\ None \notin Kinds /\ None \notin Loops
        BY <2>1, ConstantsAssumption DEF Idle, ConstantsAssumption
    <2>5. \A j \in Kinds : ctl[j] # None => ctl[j].loop # l
        BY <2>1, <2>4 DEF LiveShaped
    <2>6. \A m \in Loops \ {l} : loop[m].pc # "none" /\ loop[m].gen = 0 => m # ctl[k].loop
        BY <2>1 DEF LiveShaped
    <2> HIDE DEF l
    <2>7. OneLiveLoop'
        <3>1. \A j \in Kinds : ctl'[j] # None =>
                loop'[ctl'[j].loop].pc # "none" /\ loop'[ctl'[j].loop].gen = 0
            <4> TAKE j \in Kinds
            <4>1. CASE j = k
                BY <2>2, <2>3, <4>1
            <4>2. CASE j # k /\ ctl[j] # None
                <5>1. ctl[j].loop \in Loops \ {l}
                    BY <2>5, <4>2 DEF TypeOK
                <5> QED BY <2>2, <2>3, <4>2, <5>1 DEF OneLiveLoop
            <4> QED BY <2>3, <4>1, <4>2
        <3>2. \A m \in Loops : loop'[m].pc # "none" /\ loop'[m].gen = 0 =>
                \E j \in Kinds : ctl'[j] # None /\ ctl'[j].loop = m
            <4> TAKE m \in Loops
            <4>1. CASE m = l
                BY <2>1, <2>3, <4>1
            <4>2. CASE m # l /\ loop[m].pc # "none" /\ loop[m].gen = 0
                <5>1. PICK j \in Kinds : ctl[j] # None /\ ctl[j].loop = m
                    BY <4>2 DEF OneLiveLoop, l
                <5>2. j # k
                    BY <2>6, <4>2, <5>1
                <5> QED BY <2>3, <5>1, <5>2
            <4> QED BY <2>2, <4>1, <4>2
        <3> QED BY <3>1, <3>2 DEF OneLiveLoop
    <2>8. LiveShaped'
        BY <2>1, <2>3, <2>4, <2>5 DEF LiveShaped
    <2> QED BY <2>7, <2>8
<1>7. ASSUME NEW l \in Loops, LoopStep(l) \/ AcceptFails(l), UNCHANGED <<ctl, task>>
      PROVE  OneLiveLoop' /\ LiveShaped'
    <2>1. /\ loop[l].pc \notin {"none", "bound"}
          /\ \A m \in Loops \ {l} : loop'[m] = loop[m]
          /\ \/ loop'[l].pc # "none" /\ loop'[l].gen = loop[l].gen
             \/ loop[l].gen # 0 /\ loop'[l].pc = "none"
        BY <1>7, LoopStays
    <2>2. OneLiveLoop'
        <3>1. \A k \in Kinds : ctl[k] # None =>
                \/ loop'[ctl[k].loop].pc # "none" /\ loop'[ctl[k].loop].gen = 0
                \/ task.kind = k
            <4> TAKE k \in Kinds
            <4> HAVE ctl[k] # None
            <4>1. ctl[k].loop \in Loops
                BY DEF TypeOK
            <4>2. CASE ctl[k].loop = l
                BY <2>1, <4>2 DEF OneLiveLoop
            <4>3. CASE ctl[k].loop # l
                BY <2>1, <4>1, <4>3 DEF OneLiveLoop
            <4> QED BY <4>2, <4>3
        <3>2. \A m \in Loops : loop'[m].pc # "none" /\ loop'[m].gen = 0 =>
                \/ \E k \in Kinds : ctl[k] # None /\ ctl[k].loop = m
                \/ task.new = m
            BY <2>1 DEF OneLiveLoop
        <3> QED BY <1>7, <3>1, <3>2 DEF OneLiveLoop
    <2>3. task # Idle => task.old \in Loops
        BY DEF WatcherShaped
    <2>4. LiveShaped'
        BY <1>7, <2>1, <2>3 DEF LiveShaped
    <2> QED BY <2>2, <2>4
<1>8. CASE Next
    <2>1. CASE \/ \E m \in Limits : SetMax(m)
               \/ \E c \in Conns, ip \in Ips, l \in Loops : Connect(c, ip, l)
               \/ \E c \in Conns : EndWorker(c)
        BY <1>1, <2>1 DEF SetMax, Connect, EndWorker
    <2> QED BY <1>2, <1>3, <1>4, <1>5, <1>6, <1>7, <1>8, <2>1 DEF Next
<1> QED BY <1>1, <1>8 DEF vars

\* However often the watcher rebinds, starts and stops listeners: each that is
\* on has its loop, and no loop goes on accepting without a listener.
THEOREM OneLoopIsLive == Spec => []OneLiveLoop
<1> DEFINE I == Inv /\ OneLiveLoop /\ LiveShaped
<1>1. I /\ [Next]_vars => I'
    BY StepInv, LiveStep
<1>2. Init => I
    BY InitInv, LiveInit
<1> QED BY <1>1, <1>2, PTL DEF Spec
----------------------------------------------------------------------------
(* Steps *)

\* A loop that was retired before it looked at what it accepted lets it go.
THEOREM RetiredLoopsAdmitNone == Spec => RetiredAdmitsNone
<1> DEFINE Step == \A l \in Loops :
                      loop[l].gen # 0 /\ loop[l].pc \notin {"admit", "spawn"}
                         => loop'[l].pc # "admit"
<1>1. ASSUME Inv, [Next]_vars
      PROVE  Step
    <2> SUFFICES ASSUME NEW l \in Loops, loop[l].gen # 0,
                        loop[l].pc \notin {"admit", "spawn"}
                 PROVE  loop'[l].pc # "admit"
        OBVIOUS
    <2> USE <1>1
    <2>1. CASE loop' = loop
        BY <2>1
    <2>2. ASSUME NEW k \in Kinds, NEW m \in Loops, NEW p \in Pools,
                 StartListener(k, m, p)
          PROVE  loop'[l].pc # "admit"
        BY <2>2, LoopParts DEF StartListener, Inv, TypeOK
    <2>3. ASSUME NEW k \in Kinds, NEW m \in Loops, Rebind(k, m)
          PROVE  loop'[l].pc # "admit"
        <3> DEFINE new == NewLoop(ctl[k].pool, "bound")
                   mid == [loop[ctl[k].loop] EXCEPT !.gen = 1]
        <3>1. /\ loop' = [[loop EXCEPT ![ctl[k].loop] = mid] EXCEPT ![m] = new]
              /\ ctl[k].loop \in Loops
            BY <2>3 DEF Rebind, Bumped, Inv, TypeOK
        <3>2. new.pc = "bound" /\ mid.pc = loop[ctl[k].loop].pc
            BY <3>1, LoopParts DEF Inv, TypeOK, LoopStates
        <3> HIDE DEF new, mid
        <3> QED BY <3>1, <3>2 DEF Inv, TypeOK
    <2>4. CASE StopHttp
        BY <2>4 DEF StopHttp, Bumped, Inv, TypeOK, LoopStates, Kinds
    <2>5. CASE SpawnLoop
        BY <2>5 DEF SpawnLoop, Inv, TypeOK, LoopStates
    <2>6. ASSUME NEW m \in Loops, LoopStep(m) \/ AcceptFails(m)
          PROVE  loop'[l].pc # "admit"
        <3>1. CASE m # l
            BY <2>6, <3>1, LoopStays
        <3>2. CASE m = l
            <4>1. ASSUME NEW at \in LoopPcs \ {"admit"}, Goto(l, at)
                  PROVE  loop'[l].pc # "admit"
                BY <4>1 DEF Goto, Inv, TypeOK, LoopStates
            <4>2. ASSUME Exit(l)
                  PROVE  loop'[l].pc # "admit"
                BY <4>2, LoopParts DEF Exit, Inv, TypeOK
            <4>3. ASSUME Again(l)
                  PROVE  loop'[l].pc # "admit"
                BY <4>3 DEF Again, Inv, TypeOK, LoopStates
            <4>4. CASE CheckGen(l)
                BY <4>2, <4>4 DEF CheckGen
            <4>5. CASE Acquire(l)
                <5>1. CASE Goto(l, "check")
                    BY <4>1, <5>1 DEF LoopPcs
                <5>2. CASE loop' = [loop EXCEPT ![l] = [@ EXCEPT !.pc = "accept",
                                                                 !.permit = TRUE]]
                    BY <5>2 DEF Inv, TypeOK, LoopStates
                <5> QED BY <4>5, <5>1, <5>2 DEF Acquire
            <4>6. CASE Accept(l)
                BY <4>6 DEF Accept, Inv, TypeOK, LoopStates
            <4>7. CASE AcceptFails(l)
                BY <4>2, <4>3, <4>7 DEF AcceptFails
            <4>8. CASE Recheck(l)
                BY <4>2, <4>8 DEF Recheck, Retired
            <4>9. CASE Count(l)
                <5>1. CASE loop' = [loop EXCEPT ![l] = [@ EXCEPT !.pc = "spawn",
                                                                 !.cap = 0]]
                    BY <5>1 DEF Inv, TypeOK, LoopStates
                <5> QED BY <4>3, <4>9, <5>1 DEF Count
            <4> QED BY <2>6, <3>2, <4>4, <4>5, <4>6, <4>7, <4>8, <4>9
                    DEF LoopStep, Admit, SpawnWorker
        <3> QED BY <3>1, <3>2
    <2>7. CASE Next
        BY <2>1, <2>2, <2>3, <2>4, <2>5, <2>6, <2>7
        DEF Next, SetMax, SendProbe, Connect, EndWorker
    <2> QED BY <1>1, <2>1, <2>7 DEF vars
<1>2. Spec => [][Step]_vars
    BY <1>1, InitInv, StepInv, PTL DEF Spec
<1> QED BY <1>2 DEF RetiredAdmitsNone

\* A loop goes by a limit between the two halves of try_acquire() only.
CapShaped == \A l \in Loops : loop[l].cap # 0 <=> loop[l].pc = "count"

\* Every step keeps that.
LEMMA CapStep ==
    ASSUME Inv, CapShaped, [Next]_vars
    PROVE  CapShaped'
<1> USE DEF Inv
<1>1. CASE loop' = loop
    BY <1>1 DEF CapShaped
<1>2. NoLoop.cap = 0 /\ \A p, at : NewLoop(p, at).cap = 0 /\ NewLoop(p, at).pc = at
    BY DEF NoLoop, NewLoop
<1>3. ASSUME NEW k \in Kinds, NEW l \in Loops, NEW p \in Pools,
             StartListener(k, l, p)
      PROVE  CapShaped'
    BY <1>2, <1>3 DEF StartListener, CapShaped, TypeOK
<1>4. ASSUME NEW k \in Kinds, NEW l \in Loops, Rebind(k, l)
      PROVE  CapShaped'
    <2> DEFINE new == NewLoop(ctl[k].pool, "bound")
               mid == [loop[ctl[k].loop] EXCEPT !.gen = 1]
    <2>1. /\ loop' = [[loop EXCEPT ![ctl[k].loop] = mid] EXCEPT ![l] = new]
          /\ ctl[k].loop \in Loops
        BY <1>4 DEF Rebind, Bumped, TypeOK
    <2>2. /\ new.pc = "bound" /\ new.cap = 0
          /\ mid.pc = loop[ctl[k].loop].pc /\ mid.cap = loop[ctl[k].loop].cap
        BY <1>2, <2>1 DEF TypeOK, LoopStates
    <2> HIDE DEF new, mid
    <2> QED BY <2>1, <2>2 DEF CapShaped, TypeOK
<1>5. CASE StopHttp
    BY <1>5 DEF StopHttp, Bumped, CapShaped, TypeOK, LoopStates, Kinds
<1>6. CASE SpawnLoop
    <2>1. /\ loop[task.new].pc = "bound" /\ task.new \in Loops
          /\ loop' = [loop EXCEPT ![task.new].pc = "check"]
        BY <1>6 DEF SpawnLoop, WatcherShaped, TypeOK, TaskStates
    <2> QED BY <2>1 DEF CapShaped, TypeOK, LoopStates
<1>7. ASSUME NEW l \in Loops, LoopStep(l) \/ AcceptFails(l)
      PROVE  CapShaped'
    <2>1. \A m \in Loops \ {l} : loop'[m] = loop[m]
        BY <1>7, LoopStays
    <2> SUFFICES loop'[l].cap # 0 <=> loop'[l].pc = "count"
        BY <2>1 DEF CapShaped
    <2> DEFINE Kept == loop'[l].cap # 0 <=> loop'[l].pc = "count"
    <2>2. ASSUME NEW at \in LoopPcs \ {"count"}, Goto(l, at), loop[l].pc # "count"
          PROVE  Kept
        BY <2>2 DEF Goto, CapShaped, TypeOK, LoopStates
    <2>3. ASSUME Exit(l)
          PROVE  Kept
        BY <1>2, <2>3, LoopParts DEF Exit, TypeOK
    <2>4. ASSUME Again(l)
          PROVE  Kept
        BY <2>4 DEF Again, TypeOK, LoopStates
    <2>5. CASE CheckGen(l) \/ Recheck(l)
        BY <2>2, <2>3, <2>5 DEF CheckGen, Recheck, LoopPcs
    <2>6. CASE Acquire(l)
        <3>1. CASE loop' = [loop EXCEPT ![l] = [@ EXCEPT !.pc = "accept",
                                                         !.permit = TRUE]]
            BY <2>6, <3>1 DEF Acquire, CapShaped, TypeOK, LoopStates
        <3> QED BY <2>2, <2>6, <3>1 DEF Acquire, LoopPcs
    <2>7. CASE Accept(l)
        BY <2>7 DEF Accept, CapShaped, TypeOK, LoopStates
    <2>8. CASE AcceptFails(l)
        BY <2>3, <2>4, <2>8 DEF AcceptFails
    <2>9. CASE Admit(l)
        <3>1. CASE /\ loop' = [loop EXCEPT ![l] = [@ EXCEPT !.pc = "count",
                                                   !.cap = max[loop[l].pool]]]
                   /\ max[loop[l].pool] # 0
            BY <3>1 DEF TypeOK, LoopStates
        <3> QED BY <2>2, <2>4, <2>9, <3>1 DEF Admit, LoopPcs
    <2>10. CASE Count(l)
        <3>1. CASE loop' = [loop EXCEPT ![l] = [@ EXCEPT !.pc = "spawn", !.cap = 0]]
            BY <3>1 DEF TypeOK, LoopStates
        <3> QED BY <2>4, <2>10, <3>1 DEF Count
    <2>11. CASE SpawnWorker(l)
        <3>1. CASE loop' = [loop EXCEPT ![l] = [@ EXCEPT !.pc = "check",
                                             !.permit = FALSE, !.sock = None]]
            BY <2>11, <3>1 DEF SpawnWorker, CapShaped, TypeOK, LoopStates
        <3> QED BY <2>4, <2>11, <3>1 DEF SpawnWorker
    <2> QED BY <1>7, <2>5, <2>6, <2>7, <2>8, <2>9, <2>10, <2>11 DEF LoopStep
<1>8. CASE Next
    BY <1>1, <1>3, <1>4, <1>5, <1>6, <1>7, <1>8
    DEF Next, SetMax, SendProbe, Connect, EndWorker
<1> QED BY <1>1, <1>8 DEF vars

\* Only the loop that carries a connection admits it: uncounted while there is
\* no limit, else when its address holds less than the limit the loop read.
LEMMA AdmittedByLoop ==
    ASSUME Inv, CapShaped, [Next]_vars, NEW c \in Conns, conn[c].at = "queued",
           conn'[c].at = "admitted", NEW h \in Loops, loop[h].sock = c
    PROVE  /\ loop[h].pool \in Pools /\ conn[c].ip \in Ips
           /\ IF loop[h].cap = 0 THEN max[loop[h].pool] = 0
              ELSE HasRoom(h, conn[c].ip)
<1> USE DEF Inv
<1>1. conn[c].ip \in Ips /\ conn[c] \in ConnStates
    BY DEF ConnsShaped, TypeOK
<1>2. \A S : conn' # Closed(S)
    BY DEF Closed, NoConn
<1>3. conn' # conn
    OBVIOUS
<1>4. ASSUME NEW l \in Loops, Admit(l) \/ Count(l)
      PROVE  /\ loop[h].pool \in Pools
             /\ IF loop[h].cap = 0 THEN max[loop[h].pool] = 0
                ELSE HasRoom(h, conn[c].ip)
    <2> DEFINE d == loop[l].sock
               P == loop[l].pool
    <2>1. /\ IF loop[l].pc = "count" THEN HasRoom(l, conn[d].ip) ELSE max[P] = 0
          /\ loop[l].pc \in {"admit", "count"}
          /\ \/ conn' = [conn EXCEPT ![d].at = "admitted", ![d].pool = P]
             \/ conn' = [conn EXCEPT ![d].at = "admitted", ![d].pool = P,
                                     ![d].counted = TRUE]
        BY <1>2, <1>3, <1>4 DEF Admit, Count, Again
    <2>2. P \in Pools
        BY <2>1 DEF LoopsShaped
    <2>3. d = c
        BY <2>1 DEF TypeOK
    <2>4. l = h
        BY <2>3 DEF OnePlace
    <2> QED BY <2>1, <2>2, <2>3, <2>4 DEF CapShaped
<1>5. ASSUME NEW l \in Loops, SpawnWorker(l)
      PROVE  FALSE
    <2>1. conn' = [conn EXCEPT ![loop[l].sock].at = "served"]
        BY <1>2, <1>5 DEF SpawnWorker, Again
    <2> QED BY <1>1, <2>1 DEF TypeOK, ConnStates
<1>6. ASSUME NEW l \in Loops, LoopStep(l) \/ AcceptFails(l)
      PROVE  Admit(l) \/ Count(l)
    BY <1>2, <1>3, <1>5, <1>6
    DEF LoopStep, CheckGen, Acquire, Accept, AcceptFails, Recheck, Exit, Again
<1>7. ASSUME NEW d \in Conns, NEW ip \in Ips, NEW l \in Loops, Connect(d, ip, l)
      PROVE  FALSE
    BY <1>7 DEF Connect, TypeOK, NoConn
<1>8. ASSUME NEW d \in Conns, EndWorker(d)
      PROVE  FALSE
    <2>1. c # d => conn'[c] = conn[c]
        BY <1>8 DEF EndWorker, TypeOK
    <2> QED BY <1>8, <2>1 DEF EndWorker
<1>9. PICK l \in Loops : Admit(l) \/ Count(l)
    <2>1. Next
        BY <1>3 DEF vars
    <2> QED BY <1>3, <1>6, <1>7, <1>8, <2>1
            DEF Next, SetMax, StartListener, Rebind, StopHttp, SendProbe, SpawnLoop
<1> QED BY <1>1, <1>4, <1>9

\* Each connection is admitted by the limit that its loop read for it, whatever
\* becomes of the limit before the counts are locked: not counted only if that
\* was 0, and else, as long as everything its address holds was admitted under
\* a limit, no more of them than that.
THEOREM AdmissionsWithinCap == Spec => AdmittedWithinCap
<1> DEFINE I    == Inv /\ PeerCountsExact /\ CapShaped
           Step == \A c \in Conns, l \in Loops :
              (loop[l].sock = c /\ conn[c].at = "queued" /\ conn'[c].at = "admitted")
              => LET S == Sharing(loop[l].pool, conn[c].ip) IN
                 IF loop[l].cap = 0 THEN max[loop[l].pool] = 0
                 ELSE (\A o \in S : conn[o].counted)
                         => Cardinality(S) < loop[l].cap
<1>1. ASSUME I, [Next]_vars
      PROVE  Step
    <2> SUFFICES ASSUME NEW c \in Conns, NEW l \in Loops, loop[l].sock = c,
                        conn[c].at = "queued", conn'[c].at = "admitted"
                 PROVE  LET S == Sharing(loop[l].pool, conn[c].ip) IN
                        IF loop[l].cap = 0 THEN max[loop[l].pool] = 0
                        ELSE (\A o \in S : conn[o].counted)
                                => Cardinality(S) < loop[l].cap
        OBVIOUS
    <2> DEFINE p  == loop[l].pool
               ip == conn[c].ip
    <2>1. /\ p \in Pools /\ ip \in Ips
          /\ IF loop[l].cap = 0 THEN max[p] = 0 ELSE Held(p, ip) < loop[l].cap
        BY <1>1, AdmittedByLoop DEF HasRoom
    <2>2. CASE loop[l].cap = 0
        BY <2>1, <2>2
    <2>3. CASE loop[l].cap # 0 /\ \A o \in Sharing(p, ip) : conn[o].counted
        <3>1. Held(p, ip) = Cardinality(CountedFor(p, ip)) /\ loop[l].cap \in Nat
            BY <1>1, <2>1, ConstantsAssumption
            DEF PeerCountsExact, Inv, TypeOK, LoopStates, ConstantsAssumption
        <3>2. Sharing(p, ip) \subseteq CountedFor(p, ip)
            BY <2>3 DEF Sharing, CountedFor
        <3>3. Held(p, ip) < loop[l].cap
            BY <2>1, <2>3
        <3> HIDE DEF p, ip
        <3>4. Cardinality(Sharing(p, ip)) <= Cardinality(CountedFor(p, ip))
            BY <3>2, Sized, FS_Subset
        <3>5. Cardinality(Sharing(p, ip)) \in Nat /\ Cardinality(CountedFor(p, ip)) \in Nat
            BY <3>2, Sized, FS_Subset, FS_CardinalityType
        <3>6. Cardinality(Sharing(p, ip)) < loop[l].cap
            BY <3>1, <3>3, <3>4, <3>5
        <3> QED BY <2>3, <3>6 DEF p, ip
    <2> QED BY <2>2, <2>3
<1>2. I /\ [Next]_vars => I'
    BY StepInv, CountsStep, CapStep
<1>3. Init => I
    <2>1. Init => CapShaped
        <3> SUFFICES ASSUME Init, NEW l \in Loops
                     PROVE  loop[l].cap = 0 /\ loop[l].pc # "count"
            BY DEF CapShaped
        <3>1. loop[l] = NoLoop \/ \E q : loop[l] = NewLoop(q, "check")
            BY DEF Init
        <3>2. /\ NoLoop.cap = 0 /\ NoLoop.pc = "none"
              /\ \A q : NewLoop(q, "check").cap = 0 /\ NewLoop(q, "check").pc = "check"
            BY DEF NoLoop, NewLoop
        <3> HIDE DEF Init
        <3> QED BY <3>1, <3>2
    <2> QED BY <2>1, InitInv, CountsInit
<1>4. Spec => [][Step]_vars
    BY <1>1, <1>2, <1>3, PTL DEF Spec
<1> QED BY <1>4 DEF AdmittedWithinCap
=============================================================================
