----------------------------- MODULE Connection -----------------------------
(***************************************************************************)
(* The life of one connection thread of bare-server (src/src/main.rs):     *)
(* `handle_connection` with its TLS handshake, `handle_plain`, the         *)
(* keep-alive loop `serve_over`, and the socket wrapper `DeadlineIo` that  *)
(* enforces the deadlines below rustls.                                    *)
(*                                                                         *)
(* Time is a clock that advances only while the thread is blocked in a     *)
(* system call: what it computes itself takes no time.  A call blocked for *)
(* IO_TIMEOUT returns with an error.  Request heads and bodies are         *)
(* measured in abstract units of bytes.                                    *)
(***************************************************************************)
EXTENDS Naturals, Sequences

CONSTANTS
    IO_TIMEOUT, HEADER_TIMEOUT, HANDSHAKE_TIMEOUT, CONN_MAX, PROGRESS_TIMEOUT,
    MIN_PROGRESS,           \* units a response must move per PROGRESS_TIMEOUT
    MAX_REQS, MAX_ROUNDS,   \* keep-alive requests, handshake reads
    MAX_HEADER,             \* units of the longest request head
    FLIGHT,                 \* units the server sends during a handshake
    MaxResponseSecs,        \* max_response_secs; 0 = off
    MaxBody,                \* bound: units of the longest response
    Burst,                  \* bound: units one read or write moves
    Pipeline,               \* bound: heads a client sends ahead
    None

ASSUME ConstantsAssumption ==
    /\ {IO_TIMEOUT, HEADER_TIMEOUT, HANDSHAKE_TIMEOUT, CONN_MAX,
        PROGRESS_TIMEOUT, MIN_PROGRESS, MAX_REQS, MAX_ROUNDS, MAX_HEADER,
        FLIGHT, MaxBody, Burst, Pipeline} \subseteq Nat \ {0}
    /\ MaxResponseSecs \in Nat
    /\ None \notin Nat

VARIABLES
    now, tls, pc,
    since,          \* when the system call the thread is blocked in began
    rounds,         \* handshake reads so far
    spare, owed,    \* handshake units rustls has not queued yet, has queued
    after,          \* where the handshake goes on once those are written
    reqs,           \* requests answered on this connection
    heads, part,    \* buf: sizes of its complete heads, units after the last
    head_start, phase,
    window, moved, deadline,        \* DeadlineIo
    size, left, keep, \* response in flight: its units, those still to write,
                    \* and whether the connection is kept
    begun,          \* history: when that response began
    sent            \* history: complete heads received

hs   == <<rounds, spare, owed, after>>
buf  == <<heads, part>>
dio  == <<window, moved, deadline>>
resp == <<size, left, keep, begun>>
vars == <<now, tls, pc, since, hs, reqs, buf, head_start, phase, dio,
          resp, sent>>

Min(a, b) == IF a < b THEN a ELSE b
Blocked   == {"handshake", "flight", "recv", "send"}

\* Open the wrapped socket: DeadlineIo::new, once per connection.
OpenIo == /\ window' = now /\ moved' = 0
          /\ deadline' = IF MaxResponseSecs = 0 THEN None
                         ELSE now + MaxResponseSecs

Close == pc' = "closed"

\* A deadline is a hard error, which ends the connection (mutant: one that the
\* caller takes for "blocked" and retries).
Retried  == UNCHANGED pc
TornDown == Close

----------------------------------------------------------------------------
(* What a client's bytes do to the buffer *)

\* k units arrive; they complete 0, 1 or 2 heads and may begin another.
Arrives(k) ==
    \/ heads' = heads /\ part' = part + k /\ sent' = sent
    \/ \E rest \in 0 .. 1 :
          /\ Len(heads) < Pipeline
          /\ heads' = Append(heads, part + k) /\ part' = rest
          /\ sent' = sent + 1
    \/ /\ Len(heads) + 1 < Pipeline
       /\ heads' = heads \o <<part + k, 1>> /\ part' = 0
       /\ sent' = sent + 2

----------------------------------------------------------------------------
(* TLS handshake *)

\* The handshake deadline.
HandshakeLate    == now >= HANDSHAKE_TIMEOUT

HandshakeRead ==
    /\ pc = "rounds"
    /\ rounds' = rounds + 1
    /\ \/ /\ rounds' > MAX_ROUNDS \/ HandshakeLate
          /\ Close /\ UNCHANGED since
       \/ /\ rounds' <= MAX_ROUNDS /\ ~HandshakeLate
          /\ pc' = "handshake" /\ since' = now
    /\ UNCHANGED <<now, tls, spare, owed, after, reqs, buf, head_start, phase,
                   dio, resp, sent>>

\* More of the handshake arrives, or the last of it, or it is refused with an
\* alert; rustls queues some of its own.  (Early data is captured as it comes,
\* but nothing looks at it before the end.)  Or the client closes, or the read
\* times out.
HandshakeMoves ==
    /\ pc = "handshake"
    /\ \/ /\ pc' = "owes" /\ after' \in {"rounds", "top", "closed"}
          /\ \E n \in 0 .. spare : owed' = n /\ spare' = spare - n
          /\ \/ UNCHANGED <<buf, sent>>
             \/ after' = "top" /\ \E k \in 1 .. Burst : Arrives(k)
       \/ Close /\ UNCHANGED <<spare, owed, after, buf, sent>>
    /\ UNCHANGED <<now, tls, since, rounds, reqs, head_start, phase, dio, resp>>

\* while conn.wants_write(): no deadline but that of each write.
HandshakeWrite ==
    /\ \/ /\ pc = "owes" /\ owed > 0
          /\ pc' = "flight" /\ since' = now
          /\ UNCHANGED <<owed, dio>>
       \/ /\ pc = "owes" /\ owed = 0
          /\ pc' = after
          /\ IF after = "top" THEN OpenIo ELSE UNCHANGED dio
          /\ UNCHANGED <<since, owed>>
       \/ /\ pc = "flight"
          /\ \/ \E k \in 1 .. owed : owed' = owed - k /\ pc' = "owes"
             \/ Close /\ UNCHANGED owed
          /\ UNCHANGED <<since, dio>>
    /\ UNCHANGED <<now, tls, rounds, spare, after, reqs, buf, head_start, phase,
                   resp, sent>>

----------------------------------------------------------------------------
(* serve_over: read one head *)

NextRequest ==
    /\ pc = "top"
    /\ \/ /\ reqs >= MAX_REQS \/ now >= CONN_MAX
          /\ Close
          /\ UNCHANGED <<phase, head_start>>
       \/ /\ reqs < MAX_REQS /\ now < CONN_MAX
          /\ phase' = Min(CONN_MAX, now + IO_TIMEOUT + HEADER_TIMEOUT)
          /\ head_start' = IF heads = <<>> /\ part = 0 THEN None ELSE now
          /\ pc' = "parse"
    /\ UNCHANGED <<now, tls, since, hs, reqs, buf, dio, resp, sent>>

\* Begin writing: n units, then the connection stays open or not.
Respond(n, ka) ==
    /\ size' = n /\ left' = n /\ keep' = ka /\ begun' = now
    /\ pc' = "write"

Expired == \/ head_start # None /\ now >= head_start + HEADER_TIMEOUT
           \/ now >= CONN_MAX

Parse ==
    /\ pc = "parse"
    /\ \/ /\ heads # <<>> /\ Head(heads) > MAX_HEADER           \* 431
          /\ Respond(1, FALSE) /\ UNCHANGED phase
       \/ /\ heads # <<>> /\ Head(heads) <= MAX_HEADER
          /\ phase' = None
          /\ \E n \in 1 .. MaxBody, ka \in BOOLEAN :
                Respond(n, ka /\ reqs + 1 < MAX_REQS)
       \/ /\ heads = <<>> /\ part >= MAX_HEADER                  \* 431
          /\ Respond(1, FALSE) /\ UNCHANGED phase
       \/ /\ heads = <<>> /\ part < MAX_HEADER /\ Expired        \* 408
          /\ Respond(1, FALSE) /\ UNCHANGED phase
       \/ /\ heads = <<>> /\ part < MAX_HEADER /\ ~Expired
          /\ pc' = "read" /\ UNCHANGED <<phase, resp>>
    /\ UNCHANGED <<now, tls, since, hs, reqs, buf, head_start, dio, sent>>

\* DeadlineIo::check (mutant of its head deadline: left to serve_over).
LeftToLoop   == FALSE
PhaseExpired == phase # None /\ now >= phase
CheckFails   == (deadline # None /\ now >= deadline) \/ PhaseExpired

\* DeadlineIo::read, up to the system call.
Read ==
    /\ pc = "read"
    /\ \/ CheckFails /\ TornDown /\ UNCHANGED since
       \/ ~CheckFails /\ pc' = "recv" /\ since' = now
    /\ UNCHANGED <<now, tls, hs, reqs, buf, head_start, phase, dio, resp,
                   sent>>

\* Bytes arrive.  Over TLS they may only be part of a record, and rustls reads
\* the socket again without returning to serve_over.
\* Idle time is not charged to the next response (mutant: it is).
Unrolled == window
Rolled   == now

Recv ==
    /\ pc = "recv"
    /\ window' = Rolled /\ moved' = 0
    /\ \/ /\ \E k \in 1 .. Burst : Arrives(k)
          /\ head_start' = IF head_start = None THEN now ELSE head_start
          /\ pc' = "parse"
       \/ /\ tls
          /\ pc' = "read"
          /\ UNCHANGED <<buf, head_start, sent>>
    /\ UNCHANGED <<now, tls, since, hs, reqs, phase, deadline, resp>>

\* The client closes, or the socket timeout fires.
RecvEnds ==
    /\ pc = "recv" /\ Close
    /\ UNCHANGED <<now, tls, since, hs, reqs, buf, head_start, phase, dio,
                   resp, sent>>

----------------------------------------------------------------------------
(* Write one response *)

\* The quota of a window (mutant: any byte will do).
Stalled == moved = 0
TooSlow == moved < MIN_PROGRESS

\* DeadlineIo::check_rate, which rolls the window over on the way in.
WindowOver == now - window >= PROGRESS_TIMEOUT
RateKept   == \/ ~WindowOver /\ UNCHANGED <<window, moved>>
              \/ WindowOver /\ ~TooSlow /\ window' = now /\ moved' = 0

\* DeadlineIo::write up to the system call: check, then check_rate.
Write ==
    /\ pc = "write"
    /\ \/ /\ CheckFails \/ (WindowOver /\ TooSlow)
          /\ TornDown /\ UNCHANGED <<since, window, moved>>
       \/ /\ ~CheckFails /\ RateKept
          /\ pc' = "send" /\ since' = now
    /\ UNCHANGED <<now, tls, hs, reqs, buf, head_start, phase, deadline, resp,
                   sent>>

\* The socket takes some of the response.
Send ==
    /\ pc = "send" /\ left > 0
    /\ \E k \in 1 .. Min(Burst, left) :
          /\ left' = left - k
          /\ moved' = moved + k
    /\ pc' = IF left' = 0 THEN "done" ELSE "write"
    /\ UNCHANGED <<now, tls, since, hs, reqs, buf, head_start, phase,
                   window, deadline, size, keep, begun, sent>>

\* The write times out: rustls may retry, write_all on a plain socket fails;
\* so does a reset by the client.
SendFails ==
    /\ pc = "send"
    /\ \/ Close
       \/ tls /\ now - since >= IO_TIMEOUT /\ pc' = "write"
    /\ UNCHANGED <<now, tls, since, hs, reqs, buf, head_start, phase, dio,
                   resp, sent>>

\* buf.drain(..head_end) (mutant: buf.clear()).
Emptied == <<>>
Drained == Tail(heads)

\* The response is out and flushed, which checks the deadlines once more (over
\* TLS only if rustls flushes the socket); the head is drained from buf, what
\* follows it stays.
Done ==
    /\ pc = "done"
    /\ \/ /\ CheckFails \/ (WindowOver /\ TooSlow)
          /\ Close /\ UNCHANGED <<buf, reqs, window, moved>>
       \/ /\ \/ tls /\ UNCHANGED <<window, moved>>
             \/ ~CheckFails /\ RateKept
          /\ \/ /\ keep
                /\ heads' = Drained /\ reqs' = reqs + 1
                /\ pc' = "top"
                /\ UNCHANGED part
             \/ ~keep /\ Close /\ UNCHANGED <<buf, reqs>>
    /\ UNCHANGED <<now, tls, since, hs, head_start, phase, deadline, resp,
                   sent>>

----------------------------------------------------------------------------
\* Time passes only in a system call, and no longer than its timeout.
Tick == /\ pc \in Blocked /\ now - since < IO_TIMEOUT
        /\ now' = now + 1
        /\ UNCHANGED <<tls, pc, since, hs, reqs, buf, head_start, phase,
                       dio, resp, sent>>

\* The thread has ended and its permits are dropped (module Listeners).
Closed == pc = "closed" /\ UNCHANGED vars

Init ==
    /\ now = 0 /\ tls \in BOOLEAN
    /\ pc = IF tls THEN "rounds" ELSE "top"
    /\ since = 0 /\ reqs = 0
    /\ rounds = 0 /\ spare = FLIGHT /\ owed = 0 /\ after = "rounds"
    /\ heads = <<>> /\ part = 0 /\ head_start = None /\ phase = None
    /\ window = 0 /\ moved = 0
    /\ deadline = IF MaxResponseSecs = 0 THEN None ELSE MaxResponseSecs
    /\ size = 0 /\ left = 0 /\ keep = FALSE /\ begun = 0 /\ sent = 0

\* What the thread does by itself, or when the system call it is in returns.
Step == \/ HandshakeRead \/ HandshakeMoves \/ HandshakeWrite \/ NextRequest
        \/ Parse \/ Read \/ Recv \/ RecvEnds \/ Write \/ Send \/ SendFails \/ Done

Next == Step \/ Tick \/ Closed

\* The thread runs, and time does not stand still however often bytes arrive;
\* nothing is assumed of the client.
Spec == Init /\ [][Next]_vars /\ WF_vars(Step) /\ SF_vars(Tick)

----------------------------------------------------------------------------
(* Properties *)

\* Every variable holds a value of its type.
TypeOK ==
    /\ {now, since, rounds, spare, owed, reqs, part, window, moved, size, left, begun,
     sent}
          \subseteq Nat
    /\ {head_start, phase, deadline} \subseteq Nat \cup {None}
    /\ tls \in BOOLEAN /\ keep \in BOOLEAN
    /\ heads \in Seq(Nat)
    /\ after \in {"rounds", "top", "closed"}
    /\ pc \in {"rounds", "handshake", "owes", "flight", "top", "parse", "read",
               "recv", "write", "send", "done", "closed"}

\* However a client dribbles its head, whole reads or inside a TLS record, the
\* thread waits for it no longer than the hard bound of the head phase, plus
\* the one read that was under way when it passed.
HeadPhaseBounded ==
    pc \in {"parse", "read", "recv"} =>
        /\ phase # None /\ now <= phase + IO_TIMEOUT
        /\ now <= CONN_MAX + IO_TIMEOUT

\* No handshake outlives its deadline by more than one read, and the writes of
\* what the server has to say in it.
HandshakeBounded ==
    pc \in {"rounds", "handshake", "owes", "flight"} =>
        now <= HANDSHAKE_TIMEOUT + (1 + FLIGHT) * IO_TIMEOUT

\* What precedes a response is bounded in time.
PhasesBounded == HeadPhaseBounded /\ HandshakeBounded

\* A response is not pinned by a slow reader: the longer it is in flight, the
\* more it has moved, but for one window it inherits from the response before
\* it, one that is under way, and the calls at their edges.
ResponseBounded ==
    pc \in {"write", "send"} =>
        now - begun <= (2 + (size - left) \div MIN_PROGRESS)
                          * (PROGRESS_TIMEOUT + IO_TIMEOUT)

\* No pipelined request is lost or answered twice while the connection lives:
\* the heads in the buffer are those that were received and not yet answered.
PipelineKept == Len(heads) + reqs = sent

\* A response is judged on time spent writing, never on the idle or head time
\* before it: the window it is judged on is at most one blocked call too old.
NoStaleWindow ==
    pc = "write" => now - window <= PROGRESS_TIMEOUT + IO_TIMEOUT

\* Every connection ends, whatever its client does or does not do.
EventuallyClosed == <>(pc = "closed")

----------------------------------------------------------------------------
(* A claim of the documentation that the code does not keep *)

\* "An absolute wall-clock cap, in seconds, on a single in-flight response
\* body": a response younger than the cap is not cut off by it.
CapIsPerResponse ==
    [][(/\ pc = "write" /\ pc' = "closed" /\ phase = None
        /\ now - window < PROGRESS_TIMEOUT)
          => now - begun >= MaxResponseSecs]_vars
============================================================================
