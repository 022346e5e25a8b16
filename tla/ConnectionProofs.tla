-------------------------- MODULE ConnectionProofs --------------------------
(***************************************************************************)
(* Theorems about Connection, for every value of its constants.            *)
(***************************************************************************)
EXTENDS Connection, SequenceTheorems, TLAPS

\* Every variable in its type, a conjunct for each.
Typed ==
    /\ now \in Nat /\ since \in Nat /\ rounds \in Nat /\ spare \in Nat
    /\ owed \in Nat /\ reqs \in Nat /\ part \in Nat /\ window \in Nat
    /\ moved \in Nat /\ size \in Nat /\ left \in Nat /\ begun \in Nat
    /\ sent \in Nat
    /\ head_start \in Nat \cup {None} /\ phase \in Nat \cup {None}
    /\ deadline \in Nat \cup {None}
    /\ tls \in BOOLEAN /\ keep \in BOOLEAN
    /\ heads \in Seq(Nat)
    /\ after \in {"rounds", "top", "closed"}
    /\ pc \in {"rounds", "handshake", "owes", "flight", "top", "parse", "read",
               "recv", "write", "send", "done", "closed"}

\* What is remembered of the clock lies behind it, the call that is under way
\* by no more than its timeout.
Clocked ==
    /\ since <= now /\ window <= now /\ begun <= now
    /\ pc \in Blocked => now <= since + IO_TIMEOUT

\* A response after which the connection stays open answers the first head.
Answering == pc \in {"write", "send", "done"} /\ keep => heads # <<>>

\* The head phase has its bound, and a read begins only before it.
HeadPhase ==
    pc \in {"parse", "read", "recv"} =>
        /\ phase \in Nat /\ phase <= CONN_MAX
        /\ pc # "recv" => now <= phase + IO_TIMEOUT
        /\ pc = "recv" => since < phase

\* A handshake reads only before its deadline; past it, every further call
\* writes one more of the FLIGHT units.
Said == FLIGHT - (spare + owed)
Handshake ==
    /\ spare + owed <= FLIGHT
    /\ pc \in {"rounds", "handshake"} => owed = 0
    /\ pc \in {"rounds", "owes"} =>
          now <= HANDSHAKE_TIMEOUT + (1 + Said) * IO_TIMEOUT
    /\ pc = "handshake" => since < HANDSHAKE_TIMEOUT
    /\ pc = "flight" =>
          owed > 0 /\ since <= HANDSHAKE_TIMEOUT + (1 + Said) * IO_TIMEOUT

\* A window is looked at before every write, and before a response can begin
\* without a read.
Window ==
    /\ pc \in {"top", "parse", "write", "done"} =>
          now <= window + PROGRESS_TIMEOUT + IO_TIMEOUT
    /\ pc = "send" => window <= since /\ since < window + PROGRESS_TIMEOUT

\* The windows a response has been through: the one it inherited, and one for
\* each MIN_PROGRESS units it has moved besides those of its present window.
Lap == PROGRESS_TIMEOUT + IO_TIMEOUT
Windows ==
    pc \in {"write", "send"} =>
        /\ left <= size
        /\ \/ window <= begun
           \/ /\ moved <= size - left
              /\ window <= begun
                    + (1 + ((size - left) - moved) \div MIN_PROGRESS) * Lap

IInv == Typed /\ Clocked /\ Answering /\ PipelineKept /\ HeadPhase /\ Handshake
        /\ Window /\ Windows

\* What the assumption on the constants says of each of them.
LEMMA Positive ==
    /\ IO_TIMEOUT \in Nat \ {0} /\ HEADER_TIMEOUT \in Nat \ {0}
    /\ HANDSHAKE_TIMEOUT \in Nat \ {0} /\ CONN_MAX \in Nat \ {0}
    /\ PROGRESS_TIMEOUT \in Nat \ {0} /\ MIN_PROGRESS \in Nat \ {0}
    /\ MAX_REQS \in Nat \ {0} /\ MAX_ROUNDS \in Nat \ {0}
    /\ MAX_HEADER \in Nat \ {0} /\ FLIGHT \in Nat \ {0}
    /\ MaxBody \in Nat \ {0} /\ Burst \in Nat \ {0} /\ Pipeline \in Nat \ {0}
    /\ MaxResponseSecs \in Nat /\ None \notin Nat
BY ConstantsAssumption DEF ConstantsAssumption

\* The type invariant in the form the provers reason with.
LEMMA TypedIsTypeOK == Typed <=> TypeOK
BY DEF Typed, TypeOK

\* What arrives are units, and the heads among them are counted.
LEMMA ArrivesParts ==
    ASSUME Typed, NEW k \in Nat, Arrives(k)
    PROVE  /\ heads' \in Seq(Nat) /\ part' \in Nat /\ sent' \in Nat
           /\ Len(heads') + sent = Len(heads) + sent'
<1> USE DEF Typed
<1>1. CASE heads' = heads /\ part' = part + k /\ sent' = sent
    BY <1>1
<1>2. ASSUME NEW rest \in 0 .. 1, heads' = Append(heads, part + k),
             part' = rest, sent' = sent + 1
      PROVE  /\ heads' \in Seq(Nat) /\ part' \in Nat /\ sent' \in Nat
             /\ Len(heads') + sent = Len(heads) + sent'
    <2>1. part + k \in Nat
        OBVIOUS
    <2>2. heads' \in Seq(Nat) /\ Len(heads') = Len(heads) + 1
        BY <1>2, <2>1, AppendProperties
    <2> QED BY <1>2, <2>2, LenProperties
<1>3. CASE heads' = heads \o <<part + k, 1>> /\ part' = 0 /\ sent' = sent + 2
    <2>1. <<part + k, 1>> \in Seq(Nat) /\ Len(<<part + k, 1>>) = 2
        OBVIOUS
    <2>2. heads' \in Seq(Nat) /\ Len(heads') = Len(heads) + 2
        BY <1>3, <2>1, ConcatProperties
    <2> QED BY <1>3, <2>2, LenProperties
<1> QED BY <1>1, <1>2, <1>3 DEF Arrives

\* The inductive invariant holds of a connection just admitted.
LEMMA InitIInv == Init => IInv
<1> SUFFICES ASSUME Init PROVE IInv
    OBVIOUS
<1>1. Typed
    <2>1. pc \in {"rounds", "top"} /\ tls \in BOOLEAN
        BY DEF Init
    <2>2. heads \in Seq(Nat) /\ deadline \in Nat \cup {None}
        BY Positive DEF Init
    <2> QED BY <2>1, <2>2, Positive DEF Init, Typed
<1>2. Clocked /\ Answering /\ HeadPhase /\ Window /\ Windows
    BY Positive DEF Init, Clocked, Answering, HeadPhase, Window, Windows, Blocked
<1>3. PipelineKept
    BY DEF Init, PipelineKept
<1>4. Handshake
    <2>1. (1 + Said) * IO_TIMEOUT = IO_TIMEOUT
        BY Positive DEF Init, Said
    <2> QED BY <2>1, Positive DEF Init, Handshake
<1> QED BY <1>1, <1>2, <1>3, <1>4 DEF IInv

\* Every step keeps the types.
LEMMA TypedStep ==
    ASSUME IInv, Next
    PROVE  Typed'
<1> USE Positive DEF IInv, Typed, hs, buf, dio, resp
<1>1. CASE HandshakeRead
    BY <1>1 DEF HandshakeRead, Close
<1>2. CASE HandshakeMoves
    <2>1. CASE Close /\ UNCHANGED <<spare, owed, after, buf, sent>>
        BY <1>2, <2>1 DEF HandshakeMoves, Close
    <2>2. CASE /\ pc' = "owes" /\ after' \in {"rounds", "top", "closed"}
               /\ \E n \in 0 .. spare : owed' = n /\ spare' = spare - n
               /\ \/ UNCHANGED <<buf, sent>>
                  \/ after' = "top" /\ \E k \in 1 .. Burst : Arrives(k)
        <3>1. heads' \in Seq(Nat) /\ part' \in Nat /\ sent' \in Nat
            BY <2>2, ArrivesParts
        <3>2. owed' \in Nat /\ spare' \in Nat
            BY <2>2
        <3> QED BY <1>2, <2>2, <3>1, <3>2 DEF HandshakeMoves
    <2> QED BY <1>2, <2>1, <2>2 DEF HandshakeMoves
<1>3. CASE HandshakeWrite
    <2>1. owed' \in Nat /\ since' \in Nat
        BY <1>3 DEF HandshakeWrite
    <2>2. window' \in Nat /\ moved' \in Nat /\ deadline' \in Nat \cup {None}
        BY <1>3 DEF HandshakeWrite, OpenIo
    <2>3. pc' \in {"flight", "owes", "closed", "rounds", "top"}
        BY <1>3 DEF HandshakeWrite, Close
    <2>4. UNCHANGED <<now, tls, rounds, spare, after, reqs, heads, part, head_start,
                      phase, size, left, keep, begun, sent>>
        BY <1>3 DEF HandshakeWrite
    <2> QED BY <2>1, <2>2, <2>3, <2>4
<1>4. CASE NextRequest
    BY <1>4 DEF NextRequest, Close, Min
<1>5. CASE Parse
    <2>1. \/ Respond(1, FALSE) /\ UNCHANGED phase
          \/ /\ phase' = None
             /\ \E n \in 1 .. MaxBody, ka \in BOOLEAN :
                   Respond(n, ka /\ reqs + 1 < MAX_REQS)
          \/ pc' = "read" /\ UNCHANGED <<phase, resp>>
        BY <1>5 DEF Parse
    <2>2. /\ phase' \in Nat \cup {None} /\ size' \in Nat /\ left' \in Nat
          /\ keep' \in BOOLEAN /\ begun' \in Nat /\ pc' \in {"read", "write"}
        <3>1. CASE Respond(1, FALSE) /\ UNCHANGED phase
            BY <3>1 DEF Respond
        <3>2. ASSUME phase' = None, NEW n \in 1 .. MaxBody, NEW ka \in BOOLEAN,
                     Respond(n, ka)
              PROVE  /\ phase' \in Nat \cup {None} /\ size' \in Nat /\ left' \in Nat
                     /\ keep' \in BOOLEAN /\ begun' \in Nat /\ pc' \in {"read", "write"}
            BY <3>2 DEF Respond
        <3>3. CASE pc' = "read" /\ UNCHANGED <<phase, resp>>
            BY <3>3
        <3>4. \A ka \in BOOLEAN : (ka /\ reqs + 1 < MAX_REQS) \in BOOLEAN
            OBVIOUS
        <3> QED BY <2>1, <3>1, <3>2, <3>3, <3>4
    <2>3. UNCHANGED <<now, tls, since, rounds, spare, owed, after, reqs, heads, part,
                      head_start, window, moved, deadline, sent>>
        BY <1>5 DEF Parse
    <2> QED BY <2>2, <2>3
<1>6. CASE Read
    BY <1>6 DEF Read, TornDown, Close
<1>7. CASE Recv
    <2>1. heads' \in Seq(Nat) /\ part' \in Nat /\ sent' \in Nat
        BY <1>7, ArrivesParts DEF Recv
    <2> QED BY <1>7, <2>1 DEF Recv, Rolled
<1>8. CASE RecvEnds
    BY <1>8 DEF RecvEnds, Close
<1>9. CASE Write
    BY <1>9 DEF Write, TornDown, Close, RateKept
<1>10. CASE Send
    <2>1. left' \in Nat /\ moved' \in Nat
        BY <1>10 DEF Send, Min
    <2> QED BY <1>10, <2>1 DEF Send
<1>11. CASE SendFails
    BY <1>11 DEF SendFails, Close
<1>12. CASE Done
    <2>1. heads' \in Seq(Nat) /\ reqs' \in Nat /\ part' \in Nat
        <3>1. CASE UNCHANGED <<buf, reqs>>
            BY <3>1
        <3>2. CASE keep /\ heads' = Drained /\ reqs' = reqs + 1 /\ UNCHANGED part
            <4>1. heads # <<>>
                BY <1>12, <3>2 DEF Done, Answering
            <4> QED BY <3>2, <4>1, HeadTailProperties DEF Drained
        <3> QED BY <1>12, <3>1, <3>2 DEF Done
    <2>2. window' \in Nat /\ moved' \in Nat /\ pc' \in {"closed", "top"}
        BY <1>12 DEF Done, RateKept, Close
    <2> QED BY <1>12, <2>1, <2>2 DEF Done
<1>13. CASE Tick
    BY <1>13 DEF Tick
<1>14. CASE Closed
    BY <1>14 DEF Closed, vars
<1> QED BY <1>1, <1>2, <1>3, <1>4, <1>5, <1>6, <1>7, <1>8, <1>9, <1>10, <1>11,
           <1>12, <1>13, <1>14 DEF Next, Step

\* Every step keeps the clocks behind the time and ahead of the start.
LEMMA ClockedStep ==
    ASSUME IInv, Next
    PROVE  Clocked'
<1> USE Positive DEF IInv, Typed, Clocked, Blocked, hs, buf, dio, resp
<1>1. CASE HandshakeRead
    BY <1>1 DEF HandshakeRead, Close
<1>2. CASE HandshakeMoves
    BY <1>2 DEF HandshakeMoves, Close
<1>3. CASE HandshakeWrite
    BY <1>3 DEF HandshakeWrite, Close, OpenIo
<1>4. CASE NextRequest
    BY <1>4 DEF NextRequest, Close
<1>5. CASE Parse
    BY <1>5 DEF Parse, Respond
<1>6. CASE Read
    BY <1>6 DEF Read, TornDown, Close
<1>7. CASE Recv
    BY <1>7 DEF Recv, Rolled
<1>8. CASE RecvEnds
    BY <1>8 DEF RecvEnds, Close
<1>9. CASE Write
    BY <1>9 DEF Write, TornDown, Close, RateKept
<1>10. CASE Send
    BY <1>10 DEF Send
<1>11. CASE SendFails
    BY <1>11 DEF SendFails, Close
<1>12. CASE Done
    BY <1>12 DEF Done, RateKept, Close
<1>13. CASE Tick
    BY <1>13 DEF Tick
<1>14. CASE Closed
    BY <1>14 DEF Closed, vars
<1> QED BY <1>1, <1>2, <1>3, <1>4, <1>5, <1>6, <1>7, <1>8, <1>9, <1>10, <1>11,
           <1>12, <1>13, <1>14 DEF Next, Step

\* Every step answers heads in the order they came and leaves the later ones.
LEMMA PipelineStep ==
    ASSUME IInv, Next
    PROVE  Answering' /\ PipelineKept'
<1> USE DEF IInv, Typed, Answering, PipelineKept, hs, buf, dio, resp
<1>1. CASE UNCHANGED <<heads, reqs, sent, keep>> /\ ~Parse
    BY <1>1 DEF Next, Step, HandshakeRead, HandshakeMoves, HandshakeWrite,
                NextRequest, Read, Recv, RecvEnds, Write, Send, SendFails,
                Done, Tick, Closed, Close, TornDown, vars
<1>2. CASE Parse
    BY <1>2 DEF Parse, Respond
<1>3. CASE HandshakeMoves \/ Recv
    <2>1. pc' \in {"owes", "closed", "parse", "read"} /\ reqs' = reqs
        BY <1>3 DEF HandshakeMoves, Recv, Close
    <2>2. ASSUME NEW k \in 1 .. Burst, Arrives(k)
          PROVE  /\ Len(heads') + sent = Len(heads) + sent'
                 /\ heads' \in Seq(Nat) /\ sent' \in Nat
        BY <2>2, Positive, ArrivesParts
    <2>3. \/ UNCHANGED <<heads, sent>>
          \/ \E k \in 1 .. Burst : Arrives(k)
        BY <1>3 DEF HandshakeMoves, Recv
    <2>4. /\ Len(heads') + sent = Len(heads) + sent'
          /\ Len(heads') \in Nat /\ sent' \in Nat /\ Len(heads) \in Nat
        BY <2>2, <2>3, LenProperties
    <2> QED BY <2>1, <2>4
<1>4. CASE Done
    <2>1. pc' \in {"top", "closed"} /\ sent' = sent
        BY <1>4 DEF Done, Close
    <2>2. CASE UNCHANGED <<buf, reqs>>
        BY <2>1, <2>2
    <2>3. CASE keep /\ heads' = Drained /\ reqs' = reqs + 1
        <3>1. heads # <<>>
            BY <1>4, <2>3 DEF Done
        <3>2. Len(heads') = Len(heads) - 1
            BY <2>3, <3>1, HeadTailProperties DEF Drained
        <3> QED BY <2>1, <2>3, <3>2, LenProperties
    <2> QED BY <1>4, <2>2, <2>3 DEF Done
<1> QED BY <1>1, <1>2, <1>3, <1>4
        DEF Next, Step, HandshakeRead, HandshakeWrite, NextRequest, Read,
            RecvEnds, Write, Send, SendFails, Tick, Closed, vars

\* Every step keeps the reading of a head within its deadline.
LEMMA HeadPhaseStep ==
    ASSUME IInv, Next
    PROVE  HeadPhase'
<1> USE Positive DEF IInv, Typed, Clocked, HeadPhase, Blocked, hs, buf, dio, resp
<1>1. CASE NextRequest
    BY <1>1 DEF NextRequest, Close, Min
<1>2. CASE Parse
    BY <1>2 DEF Parse, Respond
<1>3. CASE Read
    BY <1>3 DEF Read, CheckFails, PhaseExpired, TornDown, Close
<1>4. CASE Recv
    BY <1>4 DEF Recv
<1>5. CASE Tick
    BY <1>5 DEF Tick
<1>6. CASE UNCHANGED vars
    BY <1>6 DEF vars
<1>7. CASE pc' \notin {"parse", "read", "recv"}
    BY <1>7
<1>8. CASE \/ HandshakeRead \/ HandshakeMoves \/ HandshakeWrite \/ RecvEnds
           \/ Write \/ Send \/ SendFails \/ Done
    <2>1. pc' \notin {"parse", "read", "recv"}
        BY <1>8 DEF HandshakeRead, HandshakeMoves, HandshakeWrite, RecvEnds, Write,
                    Send, SendFails, Done, Close, TornDown
    <2> QED BY <1>7, <2>1
<1> QED BY <1>1, <1>2, <1>3, <1>4, <1>5, <1>6, <1>8 DEF Next, Step, Closed

\* One more unit said is one more call's time.
LEMMA OneMoreCall ==
    ASSUME NEW a \in Nat, NEW b \in Nat, NEW t \in Nat
    PROVE  /\ a * t \in Nat
           /\ (1 + (a + 1)) * t = (1 + a) * t + t
           /\ a <= b => a * t <= b * t /\ (1 + a) * t <= (1 + b) * t
<1>1. (1 + (a + 1)) * t = (1 + a) * t + t /\ a * t \in Nat
    BY SMT
<1>2. ASSUME a <= b PROVE a * t <= b * t /\ (1 + a) * t <= (1 + b) * t
    <2>1. (b - a) * t >= 0
        BY <1>2, SMT
    <2>2. (b - a) * t = b * t - a * t
        BY SMT
    <2>3. (1 + a) * t = t + a * t /\ (1 + b) * t = t + b * t
        BY SMT
    <2> QED BY <2>1, <2>2, <2>3, SMT
<1> QED BY <1>1, <1>2

\* Every step keeps the handshake within its deadline.
LEMMA HandshakeStep ==
    ASSUME IInv, Next
    PROVE  Handshake'
<1> USE Positive DEF IInv, Typed, Clocked, Handshake, Blocked, hs, buf, dio, resp
<1> DEFINE Limit(a) == HANDSHAKE_TIMEOUT + (1 + a) * IO_TIMEOUT
<1>0. /\ Said \in Nat /\ Said <= FLIGHT
      /\ \A a \in Nat : Limit(a) \in Nat /\ Limit(a + 1) = Limit(a) + IO_TIMEOUT
      /\ \A a, b \in Nat : a <= b => Limit(a) <= Limit(b)
      /\ Limit(Said) >= HANDSHAKE_TIMEOUT + IO_TIMEOUT
    <2>1. Said \in Nat /\ Said <= FLIGHT
        BY DEF Said
    <2>2. \A a \in Nat : (1 + a) * IO_TIMEOUT \in Nat
        BY OneMoreCall
    <2>3. \A a \in Nat : (1 + (a + 1)) * IO_TIMEOUT = (1 + a) * IO_TIMEOUT + IO_TIMEOUT
        BY OneMoreCall
    <2>4. \A a, b \in Nat : a <= b => (1 + a) * IO_TIMEOUT <= (1 + b) * IO_TIMEOUT
        BY OneMoreCall
    <2>5. (1 + 0) * IO_TIMEOUT = IO_TIMEOUT
        OBVIOUS
    <2>6. (1 + Said) * IO_TIMEOUT >= IO_TIMEOUT
        BY <2>1, <2>4, <2>5
    <2> QED BY <2>1, <2>2, <2>3, <2>4, <2>6
<1>1. CASE HandshakeRead
    BY <1>1 DEF HandshakeRead, HandshakeLate, Close, Said
<1> HIDE DEF Limit
<1>2. CASE HandshakeMoves
    <2>1. CASE pc' = "closed" /\ UNCHANGED <<spare, owed>>
        BY <2>1
    <2>2. ASSUME pc = "handshake", pc' = "owes",
                 NEW n \in 0 .. spare, owed' = n, spare' = spare - n
          PROVE  Handshake'
        <3>1. spare' + owed' = spare + owed /\ owed = 0
            BY <2>2
        <3>2. Said' = Said
            BY <3>1 DEF Said
        <3>3. now' <= Limit(Said)
            BY <1>0, <1>2, <2>2 DEF HandshakeMoves
        <3> QED BY <2>2, <3>1, <3>2, <3>3 DEF Limit
    <2> QED BY <1>2, <2>1, <2>2 DEF HandshakeMoves, Close
<1>3. CASE HandshakeWrite
    <2>1. CASE pc = "owes" /\ owed > 0 /\ pc' = "flight" /\ since' = now /\ owed' = owed
        BY <1>3, <2>1 DEF HandshakeWrite, Said
    <2>2. CASE pc = "owes" /\ owed = 0 /\ pc' = after /\ owed' = owed
        BY <1>3, <2>2 DEF HandshakeWrite, Said
    <2>3. ASSUME pc = "flight", NEW k \in 1 .. owed, owed' = owed - k, pc' = "owes"
          PROVE  Handshake'
        <3>1. UNCHANGED <<now, spare>>
            BY <1>3 DEF HandshakeWrite
        <3>2. Said' \in Nat /\ Said + 1 <= Said' /\ spare' + owed' <= FLIGHT
            BY <2>3, <3>1 DEF Said
        <3>3. now <= Limit(Said) + IO_TIMEOUT
            <4>1. now <= since + IO_TIMEOUT /\ since <= Limit(Said)
                BY <2>3 DEF Limit
            <4>2. Limit(Said) \in Nat
                BY <1>0
            <4> QED BY <4>1, <4>2
        <3>4. now' <= Limit(Said')
            <4>1. /\ Limit(Said) \in Nat /\ Limit(Said') \in Nat
                  /\ Limit(Said + 1) = Limit(Said) + IO_TIMEOUT
                  /\ Limit(Said + 1) <= Limit(Said')
                BY <1>0, <3>2
            <4> QED BY <3>1, <3>3, <4>1
        <3> QED BY <2>3, <3>2, <3>4 DEF Limit
    <2>4. CASE pc' = "closed" /\ UNCHANGED <<spare, owed>>
        BY <2>4
    <2> QED BY <1>3, <2>1, <2>2, <2>3, <2>4 DEF HandshakeWrite, Close
<1>4. CASE Tick
    BY <1>4 DEF Tick, Said
<1>5. CASE UNCHANGED vars
    BY <1>5 DEF vars, Said
<1>6. CASE \/ NextRequest \/ Parse \/ Read \/ Recv \/ RecvEnds \/ Write \/ Send
           \/ SendFails \/ Done
    <2>1. pc' \notin {"rounds", "handshake", "owes", "flight"}
          /\ UNCHANGED <<spare, owed>>
        BY <1>6 DEF NextRequest, Parse, Respond, Read, Recv, RecvEnds, Write, Send,
                    SendFails, Done, Close, TornDown
    <2> QED BY <2>1
<1> QED BY <1>1, <1>2, <1>3, <1>4, <1>5, <1>6 DEF Next, Step, Closed

\* Every step keeps the progress window one of the phase that is running.
LEMMA WindowStep ==
    ASSUME IInv, Next
    PROVE  Window'
<1> USE Positive DEF IInv, Typed, Clocked, Window, Blocked, hs, buf, dio, resp
<1>1. CASE HandshakeWrite
    BY <1>1 DEF HandshakeWrite, OpenIo, Close
<1>2. CASE NextRequest
    BY <1>2 DEF NextRequest, Close
<1>3. CASE Parse
    BY <1>3 DEF Parse, Respond
<1>4. CASE Recv
    BY <1>4 DEF Recv, Rolled
<1>5. CASE Write
    BY <1>5 DEF Write, RateKept, WindowOver, TornDown, Close
<1>6. CASE Send
    BY <1>6 DEF Send
<1>7. CASE SendFails
    BY <1>7 DEF SendFails, Close
<1>8. CASE Done
    BY <1>8 DEF Done, RateKept, Close
<1>9. CASE Tick
    BY <1>9 DEF Tick
<1>10. CASE UNCHANGED vars
    BY <1>10 DEF vars
<1>11. CASE HandshakeRead \/ HandshakeMoves \/ Read \/ RecvEnds
    <2>1. pc' \notin {"top", "parse", "write", "done", "send"}
        BY <1>11 DEF HandshakeRead, HandshakeMoves, Read, RecvEnds, TornDown, Close
    <2> QED BY <2>1
<1> QED BY <1>1, <1>2, <1>3, <1>4, <1>5, <1>6, <1>7, <1>8, <1>9, <1>10, <1>11
        DEF Next, Step, Closed

\* A whole window more is one more in the quotient.
LEMMA Quotients ==
    ASSUME NEW a \in Nat, NEW b \in Nat, NEW d \in Nat \ {0}
    PROVE  /\ a \div d \in Nat
           /\ a <= b => a \div d <= b \div d
           /\ a + d <= b => a \div d + 1 <= b \div d
<1>1. /\ a \div d \in Nat /\ (a \div d) * d <= a /\ a < (a \div d) * d + d
      /\ b \div d \in Nat /\ (b \div d) * d <= b /\ b < (b \div d) * d + d
    OBVIOUS
<1> QED BY <1>1, SMTT(30)

\* Every step keeps what a response has sent up with the windows it has had.
LEMMA WindowsStep ==
    ASSUME IInv, Next
    PROVE  Windows'
<1> USE Positive DEF IInv, Typed, Clocked, Windows, Blocked, hs, buf, dio, resp
<1> DEFINE Moved == size - left
           Laps(a) == (1 + a) * Lap
<1>0. /\ Lap \in Nat
      /\ \A a \in Nat : Laps(a) \in Nat /\ Laps(a + 1) = Laps(a) + Lap
      /\ \A a, b \in Nat : a <= b => Laps(a) <= Laps(b)
      /\ Laps(0) = Lap
    <2>1. Lap \in Nat
        BY DEF Lap
    <2>2. \A a \in Nat : Laps(a) \in Nat /\ Laps(a + 1) = Laps(a) + Lap
        BY <2>1, OneMoreCall
    <2>3. \A a, b \in Nat : a <= b => Laps(a) <= Laps(b)
        BY <2>1, OneMoreCall
    <2> QED BY <2>1, <2>2, <2>3
<1>1. CASE Parse
    BY <1>1 DEF Parse, Respond
<1>2. CASE Write
    <2>1. CASE pc' # "send"
        BY <1>2, <2>1 DEF Write, TornDown, Close
    <2>2. CASE pc' = "send" /\ UNCHANGED <<window, moved>>
        BY <1>2, <2>2 DEF Write
    <2>3. CASE pc' = "send" /\ WindowOver /\ ~TooSlow /\ window' = now /\ moved' = 0
        <3>1. /\ pc = "write" /\ UNCHANGED <<now, resp>> /\ moved >= MIN_PROGRESS
              /\ Moved \in Nat /\ now <= window + Lap
            BY <1>2, <2>3 DEF Write, TooSlow, Window, Lap
        <3> DEFINE r == Moved \div MIN_PROGRESS
                   q == (Moved - moved) \div MIN_PROGRESS
        <3>2. r \in Nat
            BY <3>1, Quotients
        <3>3. now <= begun + Laps(r)
            <4>1. CASE window <= begun
                <5>1. Laps(r) \in Nat /\ Lap <= Laps(r) /\ Lap \in Nat
                    BY <1>0, <3>2
                <5> HIDE DEF Laps, r, Windows
                <5> QED BY <3>1, <4>1, <5>1
            <4>2. CASE moved <= Moved /\ window <= begun + Laps(q)
                <5>1. q \in Nat /\ q + 1 <= r
                    <6>1. /\ Moved - moved \in Nat
                          /\ (Moved - moved) + MIN_PROGRESS <= Moved
                        BY <3>1, <4>2
                    <6> HIDE DEF Windows, Moved
                    <6> QED BY <3>1, <6>1, Quotients
                <5>2. /\ Laps(q) \in Nat /\ Laps(r) \in Nat /\ Lap \in Nat
                      /\ Laps(q + 1) = Laps(q) + Lap /\ Laps(q + 1) <= Laps(r)
                    BY <1>0, <3>2, <5>1
                <5> HIDE DEF Laps, r, q, Windows
                <5> QED BY <3>1, <4>2, <5>2
            <4> QED BY <3>1, <4>1, <4>2
        <3>4. Moved' = Moved /\ Moved - 0 = Moved /\ left' <= size'
            BY <3>1
        <3> QED BY <2>3, <3>1, <3>3, <3>4
    <2> QED BY <1>2, <2>1, <2>2, <2>3 DEF Write, RateKept, TornDown, Close
<1>3. CASE Send
    <2>1. PICK k \in 1 .. Min(Burst, left) : left' = left - k /\ moved' = moved + k
        BY <1>3 DEF Send
    <2>2. k \in Nat /\ k <= left /\ UNCHANGED <<size, window, begun>> /\ pc = "send"
        BY <1>3 DEF Send, Min
    <2>3. /\ left' <= size' /\ size' - left' = Moved + k
          /\ (size' - left') - moved' = Moved - moved
        BY <2>1, <2>2
    <2> QED BY <2>1, <2>2, <2>3
<1>4. CASE SendFails
    BY <1>4 DEF SendFails, Close
<1>5. CASE Tick
    BY <1>5 DEF Tick
<1>6. CASE UNCHANGED vars
    BY <1>6 DEF vars
<1>7. CASE \/ HandshakeRead \/ HandshakeMoves \/ HandshakeWrite \/ NextRequest
           \/ Read \/ Recv \/ RecvEnds \/ Done
    <2>1. pc' \notin {"write", "send"}
        BY <1>7 DEF HandshakeRead, HandshakeMoves, HandshakeWrite, NextRequest, Read,
                    Recv, RecvEnds, Done, TornDown, Close
    <2> QED BY <2>1
<1> QED BY <1>1, <1>2, <1>3, <1>4, <1>5, <1>6, <1>7 DEF Next, Step, Closed

\* The inductive invariant is inductive.
LEMMA StepIInv == IInv /\ [Next]_vars => IInv'
<1> SUFFICES ASSUME IInv, [Next]_vars PROVE IInv'
    OBVIOUS
<1>1. CASE Next
    BY <1>1, TypedStep, ClockedStep, PipelineStep, HeadPhaseStep, HandshakeStep,
       WindowStep, WindowsStep DEF IInv
<1>2. CASE UNCHANGED vars
    BY <1>2 DEF vars, hs, buf, dio, resp, IInv, Typed, Clocked, Blocked, Answering,
                PipelineKept, HeadPhase, Handshake, Said, Window, Windows
<1> QED BY <1>1, <1>2

\* The invariant holds in every behaviour, whatever the limits and timeouts.
LEMMA Always == Spec => []IInv
BY InitIInv, StepIInv, PTL DEF Spec

\* Every variable keeps a value of its type.
THEOREM ConnectionTyped == Spec => []TypeOK
BY Always, TypedIsTypeOK, PTL DEF IInv

\* No pipelined request is lost or answered twice, whatever a client sends ahead.
THEOREM PipelineIsKept == Spec => []PipelineKept
BY Always, PTL DEF IInv

\* What comes before a response, a handshake or a request head, takes no longer
\* than its deadline and the calls under way when that passed.
THEOREM PhasesAreBounded == Spec => []PhasesBounded
<1>1. IInv => PhasesBounded
    <2> SUFFICES ASSUME IInv PROVE HeadPhaseBounded /\ HandshakeBounded
        BY DEF PhasesBounded
    <2> USE Positive DEF IInv, Typed, Clocked, Blocked
    <2>1. HeadPhaseBounded
        BY DEF HeadPhaseBounded, HeadPhase
    <2>2. HandshakeBounded
        <3> DEFINE Limit(a) == HANDSHAKE_TIMEOUT + (1 + a) * IO_TIMEOUT
        <3>1. Said \in Nat /\ Said <= FLIGHT /\ (owed > 0 => Said + 1 <= FLIGHT)
            BY DEF Handshake, Said
        <3>2. /\ \A a \in Nat : Limit(a) \in Nat /\ Limit(a + 1) = Limit(a) + IO_TIMEOUT
              /\ \A a, b \in Nat : a <= b => Limit(a) <= Limit(b)
            BY OneMoreCall
        <3>3. Limit(0) = HANDSHAKE_TIMEOUT + IO_TIMEOUT
            OBVIOUS
        <3> HIDE DEF Limit
        <3>4. /\ Limit(Said) \in Nat /\ Limit(FLIGHT) \in Nat
              /\ Limit(Said) <= Limit(FLIGHT) /\ Limit(0) <= Limit(FLIGHT)
              /\ owed > 0 => Limit(Said) + IO_TIMEOUT <= Limit(FLIGHT)
            <4>1. Limit(Said) \in Nat /\ Limit(FLIGHT) \in Nat
                BY <3>1, <3>2
            <4>2. Limit(Said) <= Limit(FLIGHT) /\ Limit(0) <= Limit(FLIGHT)
                <5>1. 0 \in Nat /\ FLIGHT \in Nat /\ 0 <= FLIGHT
                    OBVIOUS
                <5> QED BY <3>1, <3>2, <5>1
            <4>3. ASSUME owed > 0
                  PROVE  Limit(Said) + IO_TIMEOUT <= Limit(FLIGHT)
                <5>1. Said + 1 \in Nat /\ Said + 1 <= FLIGHT
                    BY <3>1, <4>3
                <5>2. /\ Limit(Said + 1) = Limit(Said) + IO_TIMEOUT
                      /\ Limit(Said + 1) <= Limit(FLIGHT)
                    BY <3>1, <3>2, <5>1
                <5> QED BY <5>2
            <4> QED BY <4>1, <4>2, <4>3
        <3>5. CASE pc \in {"rounds", "owes"}
            <4>1. now <= Limit(Said)
                BY <3>5 DEF Handshake, Limit
            <4> QED BY <3>4, <4>1 DEF HandshakeBounded, Limit
        <3>6. CASE pc = "handshake"
            <4>1. now <= HANDSHAKE_TIMEOUT + IO_TIMEOUT
                BY <3>6 DEF Handshake
            <4>2. now <= Limit(FLIGHT)
                BY <3>3, <3>4, <4>1
            <4> QED BY <4>2 DEF HandshakeBounded, Limit
        <3>7. CASE pc = "flight"
            <4>1. now <= Limit(Said) + IO_TIMEOUT /\ owed > 0
                <5>1. since <= Limit(Said) /\ owed > 0 /\ now <= since + IO_TIMEOUT
                    BY <3>7 DEF Handshake, Limit
                <5> QED BY <3>4, <5>1
            <4>2. now <= Limit(FLIGHT)
                BY <3>4, <4>1
            <4> QED BY <4>2 DEF HandshakeBounded, Limit
        <3> QED BY <3>5, <3>6, <3>7 DEF HandshakeBounded
    <2> QED BY <2>1, <2>2
<1> QED BY <1>1, Always, PTL

\* The window a write is judged on is at most one window and one call old.
THEOREM WindowIsFresh == Spec => []NoStaleWindow
<1>1. IInv => NoStaleWindow
    BY Positive DEF IInv, Typed, Clocked, Window, NoStaleWindow
<1> QED BY <1>1, Always, PTL

\* The longer a response is in flight, the more of it has moved.
THEOREM ResponseIsBounded == Spec => []ResponseBounded
<1>1. IInv => ResponseBounded
    <2> SUFFICES ASSUME IInv, pc \in {"write", "send"}
                 PROVE  now - begun <= (2 + (size - left) \div MIN_PROGRESS) * Lap
        BY DEF ResponseBounded, Lap
    <2> USE Positive
    <2> DEFINE Moved   == size - left
               Laps(a) == (1 + a) * Lap
               r       == Moved \div MIN_PROGRESS
               q       == (Moved - moved) \div MIN_PROGRESS
    <2>1. /\ now \in Nat /\ begun \in Nat /\ window \in Nat /\ moved \in Nat
          /\ Moved \in Nat /\ Lap \in Nat /\ now <= window + Lap
        BY DEF IInv, Typed, Clocked, Windows, Window, Blocked, Lap
    <2>2. r \in Nat
        BY <2>1, Quotients
    <2>3. /\ \A a \in Nat : Laps(a) \in Nat /\ Laps(a + 1) = Laps(a) + Lap
          /\ \A a, b \in Nat : a <= b => Laps(a) <= Laps(b)
        BY <2>1, OneMoreCall
    <2>4. Laps(0) = Lap /\ Laps(r + 1) = (2 + r) * Lap
        BY <2>1, <2>2
    <2>5. \/ window <= begun
          \/ moved <= Moved /\ window <= begun + Laps(q)
        BY DEF IInv, Windows
    <2> HIDE DEF Laps, r, Moved
    <2>6. CASE window <= begun
        <3>1. Laps(r + 1) \in Nat /\ Lap <= Laps(r + 1)
            BY <2>2, <2>3, <2>4
        <3>2. now - begun <= Laps(r + 1)
            BY <2>1, <2>6, <3>1
        <3> QED BY <2>4, <3>2 DEF r, Moved
    <2>7. CASE moved <= Moved /\ window <= begun + Laps(q)
        <3>1. q \in Nat /\ q + 1 <= r + 1
            BY <2>1, <2>7, Quotients DEF r
        <3> HIDE DEF q
        <3>2. /\ Laps(q) \in Nat /\ Laps(r + 1) \in Nat
              /\ Laps(q) + Lap <= Laps(r + 1)
            BY <2>2, <2>3, <3>1
        <3>3. now - begun <= Laps(r + 1)
            BY <2>1, <2>7, <3>2
        <3> QED BY <2>4, <3>3 DEF r, Moved
    <2> QED BY <2>5, <2>6, <2>7
<1> QED BY <1>1, Always, PTL
=============================================================================
