------------------------------ MODULE Routing ------------------------------
(***************************************************************************)
(* A client of one site of bare-server: the site's redirect lines are read *)
(* (`parse_config`), then the client sends a request and follows every     *)
(* redirect back to this site, each hop being one `handle_request`         *)
(* (src/src/main.rs).                                                      *)
(*                                                                         *)
(* A segment is [n, html, enc]: a name, whether ".html" follows it, and    *)
(* whether the client sent it in a percent-encoded spelling.               *)
(***************************************************************************)
EXTENDS Redirects

CONSTANTS
    Files,          \* the redirect lines a site block may hold
    Caches,         \* the documents a site may have, by decoded path
    AcmeDir,        \* the segment ".well-known/acme-challenge"
    Asked,          \* the paths clients start with
    MAX_PATH_LEN,   \* in segments
    Faults          \* the flaws a first request may have (see Request)

\* host: whose site the Host header names; sni: what the handshake chose, None
\* on the plain listener.
Request == [bad: BOOLEAN, body: BOOLEAN, host: {"ours", "other", "unknown"},
            sni: {"ours", "other", None}, get: BOOLEAN, path: BOOLEAN,
            close: BOOLEAN]

ASSUME ConstantsAssumption ==
    /\ Segs \subseteq [n: STRING, html: BOOLEAN, enc: BOOLEAN]
    /\ End = [n |-> "", html |-> FALSE, enc |-> FALSE]
    /\ {End, ProbeSeg} \subseteq Segs
    /\ \A s \in Segs : {[s EXCEPT !.enc = FALSE],
                        [s EXCEPT !.enc = FALSE, !.html = FALSE]} \subseteq Segs
    /\ Files \subseteq Seq(Line) /\ Asked \subseteq Paths
    /\ \A c \in Caches : c \subseteq Paths
    /\ None \notin Paths /\ None \notin {"ours", "other"}
    /\ MAX_PATH_LEN \in Nat /\ \A p \in Asked : Len(p) < MAX_PATH_LEN
    /\ Faults \subseteq Request

VARIABLES
    lines,          \* redirect lines still to be read
    rules, force_ssl, canonical_urls, cache,    \* the site
    pc, tls,        \* the listener the next request goes to
    flaws, path, query,     \* the request
    by,             \* what the last redirect was made by
    asked,          \* history: the path of the first request, decoded
    answer, keep    \* how the walk ended; is that connection kept open

site == <<rules, force_ssl, canonical_urls, cache>>
req  == <<tls, flaws, path, query>>
vars == <<lines, site, pc, req, by, asked, answer, keep>>

Flawless == [bad |-> FALSE, body |-> FALSE, host |-> "ours",
             sni |-> None, get |-> TRUE, path |-> TRUE, close |-> FALSE]

----------------------------------------------------------------------------
(* The config *)

ReadLine ==
    /\ pc = "config" /\ lines # <<>>
    /\ \/ /\ ~Refused(rules, Head(lines))
          /\ rules' = Push(rules, Head(lines))
          /\ lines' = Tail(lines)
          /\ UNCHANGED pc
       \/ /\ Refused(rules, Head(lines))
          /\ pc' = "refused"
          /\ UNCHANGED <<rules, lines>>
    /\ UNCHANGED <<force_ssl, canonical_urls, cache, req, by, asked, answer,
                   keep>>

\* A block with neither documents nor rules is refused.
Rootless == rules = NoRules /\ cache = None

CloseBlock ==
    /\ pc = "config" /\ lines = <<>>
    /\ \/ /\ ~Rootless
          /\ rules' = Finish(rules) /\ pc' = "ready"
       \/ /\ Rootless
          /\ pc' = "refused"
          /\ UNCHANGED rules
    /\ UNCHANGED <<lines, force_ssl, canonical_urls, cache, req, by, asked,
                   answer, keep>>

----------------------------------------------------------------------------
(* Paths and documents *)

Decode(p)  == [i \in DOMAIN p |-> [p[i] EXCEPT !.enc = FALSE]]
Html(s)    == [s EXCEPT !.html = TRUE]
Index      == [n |-> "index", html |-> TRUE, enc |-> FALSE]
Dir(p)     == Append(p, End)

\* Is the path exempt from redirects?  (Mutant: as sent, not decoded.)
IsAcmeRaw(p) == IsStrictPrefix(<<AcmeDir>>, p)
IsAcme(p)    == IsStrictPrefix(<<AcmeDir>>, Decode(p))

\* canonical_form(): the directory an ".html" path stands for, or None.
\* (Mutant: "/foo/index.html" becomes "/foo.html".)
Bare(p)    == [Last(p) EXCEPT !.html = FALSE]
ToFlat(p)  == IF Len(p) = 1 THEN <<End>>
              ELSE Append(Front(Front(p)), Html(p[Len(p) - 1]))
ToDir(p)   == Dir(Front(p))

canonical_form(p) ==
    CASE ~Last(p).html                       -> None
      [] Last(p).html /\ Last(p) = Index     -> ToDir(p)
      [] Last(p).html /\ Last(p) # Index     -> Dir(Append(Front(p), Bare(p)))

\* Without its trailing slashes.
Trimmed(p) == SubSeq(p, 1, SelectLastInSeq(p, LAMBDA s : s # End))

\* A path with ".html" appended to it.
Flat(p) == Append(Front(p), Html(Last(p)))

\* The document at p, or at p ++ ".html" (mutant: there is no such fallback).
NoFallback(c, p) == {}
Fallback(c, p)   == IF p # <<>> /\ ~Last(p).html /\ Flat(p) \in c
                    THEN {Flat(p)} ELSE {}

\* resolve(): the document a path names, the exact spelling before the others ...
Find(c, p) ==
    IF Last(p) = End
    THEN IF Append(Front(p), Index) \in c THEN {Append(Front(p), Index)}
         ELSE Fallback(c, Trimmed(p))
    ELSE IF p \in c THEN {p} ELSE Fallback(c, p)

\* ... or does it name a directory with an index?
DirIndex(c, p) == Last(p) # End /\ Find(c, p) = {} /\ Append(p, Index) \in c

----------------------------------------------------------------------------
(* One request *)

Docs == IF cache = None THEN {} ELSE cache

\* The keep-alive the request asks for.
Wants == ~flaws.close

End_(a, k) == /\ answer' = a /\ keep' = k /\ pc' = "answered"
              /\ UNCHANGED <<lines, site, req, by, asked>>

\* The checks of handle_request.  A body is refused before anything may answer
\* and keep the connection.
WrongHost == \/ tls /\ flaws.sni # flaws.host
             \/ flaws.host = "unknown"
BadPath   == ~flaws.path \/ Len(path) >= MAX_PATH_LEN
BodyRefused == flaws.body

\* The first that fails decides.
Reject ==
    /\ pc = "request"
    /\ \/ flaws.bad /\ End_("bad_request", FALSE)
       \/ ~flaws.bad /\ BodyRefused /\ End_("bad_request", FALSE)
       \/ ~flaws.bad /\ ~BodyRefused /\ WrongHost /\ End_("not_found", Wants)
       \/ /\ ~flaws.bad /\ ~BodyRefused /\ ~WrongHost
          /\ ~flaws.get /\ End_("method_not_allowed", Wants)
       \/ /\ ~flaws.bad /\ ~BodyRefused /\ ~WrongHost
          /\ flaws.get /\ BadPath /\ End_("bad_request", FALSE)

PassesChecks == /\ pc = "request" /\ ~flaws.bad /\ ~BodyRefused /\ ~WrongHost
                /\ flaws.get /\ ~BadPath
Sound        == PassesChecks /\ flaws.host = "ours"

\* Another site's request is another site's business.
Elsewhere == PassesChecks /\ flaws.host = "other" /\ End_("elsewhere", Wants)

\* The client follows: to `p`, over TLS or not.
Follow(p, secure, q, why) ==
    /\ path' = p /\ tls' = secure /\ query' = q /\ by' = why
    /\ flaws' = [Flawless EXCEPT !.sni = IF secure THEN "ours" ELSE None]
    /\ UNCHANGED <<lines, site, pc, asked, answer, keep>>

\* The scheme of a Location on this host.
Scheme == tls \/ force_ssl

ruled == IF IsAcme(path) THEN None ELSE Resolve(rules, path)
canon == IF canonical_urls /\ ~IsAcme(path) THEN canonical_form(Decode(path))
         ELSE None

\* The query goes behind the target; behind a "#" it is part of the fragment,
\* which the client keeps to itself.
NextQuery(t) == CASE t.suffix = "query"    -> "own"
                  [] t.suffix = "fragment" -> "none"
                  [] t.suffix = "none"     -> query

RuleRedirect ==
    /\ Sound /\ ruled # None
    /\ \/ ruled.to.url /\ End_("left", Wants)
       \/ ~ruled.to.url /\ Follow(ruled.path, Scheme, NextQuery(ruled.to), "rule")

CanonRedirect ==
    /\ Sound /\ ruled = None /\ canon # None
    /\ Follow(canon, Scheme, query, "canonical")

Upgrade ==
    /\ Sound /\ ruled = None /\ canon = None
    /\ ~tls /\ force_ssl /\ ~IsAcme(path)
    /\ Follow(path, TRUE, query, "upgrade")

Served == /\ Sound /\ ruled = None /\ canon = None
          /\ tls \/ ~force_ssl \/ IsAcme(path)

\* A challenge token, one segment without a dot, is read live: it is there or not.
Token(p) == Len(p) = 2 /\ ~Last(p).html /\ Last(p) # End

ServeToken ==
    /\ Served /\ IsAcme(path)
    /\ \E a \in {"ok", "not_found"} :
          (a = "ok" => cache # None /\ Token(Decode(path))) /\ End_(a, Wants)

\* Where a directory index is sent (mutant: to itself).
SamePath(p) == p
WithSlash(p) == Dir(p)

Serve ==
    /\ Served /\ ~IsAcme(path)
    /\ \/ Find(Docs, Decode(path)) # {} /\ End_("ok", Wants)
       \/ /\ DirIndex(Docs, Decode(path))
          /\ Follow(WithSlash(Decode(path)), Scheme, query, "directory")
       \/ /\ Find(Docs, Decode(path)) = {} /\ ~DirIndex(Docs, Decode(path))
          /\ End_("not_found", Wants)

----------------------------------------------------------------------------
Init ==
    /\ lines \in Files /\ rules = NoRules
    /\ force_ssl \in BOOLEAN /\ canonical_urls \in BOOLEAN
    /\ cache \in Caches \cup {None}
    /\ pc = "config"
    /\ tls = FALSE /\ flaws = Flawless /\ path = <<End>> /\ query = "none"
    /\ by = "client" /\ asked = <<End>> /\ answer = "none" /\ keep = FALSE

\* A client's first request.
Send ==
    /\ pc = "ready" /\ pc' = "request"
    /\ \E secure \in BOOLEAN, p \in Asked, f \in Faults :
          /\ secure = (f.sni # None)
          /\ tls' = secure /\ path' = p /\ flaws' = f /\ asked' = Decode(p)
    /\ query' = "sent"
    /\ UNCHANGED <<lines, site, by, answer, keep>>

Handle == \/ Reject \/ Elsewhere \/ RuleRedirect \/ CanonRedirect \/ Upgrade
          \/ ServeToken \/ Serve

Done == pc \in {"refused", "answered"} /\ UNCHANGED vars

Next == ReadLine \/ CloseBlock \/ Send \/ Handle \/ Done

\* The client follows every redirect it gets.
Spec == Init /\ [][Next]_vars /\ WF_vars(Handle)

----------------------------------------------------------------------------
(* Properties *)

\* Every variable holds a value of its type.
TypeOK ==
    /\ lines \in Seq(Line)
    /\ pc \in {"config", "refused", "ready", "request", "answered"}
    /\ path # <<>> /\ \A i \in DOMAIN path : path[i] \in Segs
    /\ flaws \in Request
    /\ {tls, force_ssl, canonical_urls, keep} \subseteq BOOLEAN
    /\ query \in {"none", "sent", "own"}
    /\ by \in {"client", "rule", "canonical", "upgrade", "directory"}
    /\ answer \in {"none", "bad_request", "not_found", "method_not_allowed",
                   "elsewhere", "left", "ok"}

Live == pc \in {"ready", "request", "answered"}

\* The most specific rule wins, whatever order the file lists them in: a path
\* an exact rule names goes where that says, else no prefix rule that matches it
\* is longer than the one that decides.
MostSpecificWins ==
    Live => \A p \in Asked :
        LET r == Resolve(rules, p)
            H == {i \in DOMAIN rules.prefix : IsStrictPrefix(rules.prefix[i].segs, p)}
        IN
        CASE p \in DOMAIN rules.exact -> r.to = rules.exact[p]
          [] p \notin DOMAIN rules.exact /\ H # {} ->
                \E i \in H : /\ r.to = rules.prefix[i].to
                             /\ \A j \in H : Len(rules.prefix[j].segs)
                                                <= Len(rules.prefix[i].segs)
          [] OTHER -> r = None \/ r.to = rules.all

\* No rule that was accepted sends every path it matches back to itself.
NoTotalLoop ==
    Live =>
        /\ \A p \in DOMAIN rules.exact :
              LET r == Resolve(rules, p) IN r.to.url \/ r.path # p
        /\ \A i \in DOMAIN rules.prefix : LET t == rules.prefix[i].to IN
              t.url \/ \E s \in Segs : LET p == Append(rules.prefix[i].segs, s) IN
                          Expand(t, p, <<s>>) # p
        /\ rules.all # None =>
              rules.all.url \/ \E s \in Segs : Expand(rules.all, <<s>>, AllOf(<<s>>)) # <<s>>

\* What the rules of a site do is what their text says.
RulesKept == MostSpecificWins /\ NoTotalLoop

\* A site without rules ends every walk: canonical URLs, directory indexes and
\* the upgrade to HTTPS never send a client round in circles.
WalksEnd == (pc = "request" /\ rules = NoRules) ~> pc = "answered"

\* The hops this server adds of its own come in one order and each once: there is
\* nothing to fold where a fold or a directory index leads, and the upgrade to
\* HTTPS never follows another redirect, which would have been the upgrade too.
ShortWalks ==
    [][pc = "request" /\ pc' = "request" =>
          CASE by' = "upgrade"   -> by = "client"
            [] by' = "canonical" -> by \in {"client", "rule"}
            [] by' = "directory" -> by \in {"client", "rule", "upgrade"}
            [] OTHER             -> TRUE]_vars

\* A challenge path is answered where it was asked for, in any spelling, however
\* the site redirects.
AcmeDirect == pc \in {"request", "answered"} /\ IsAcme(asked) => by = "client"
                  /\ answer # "left"

\* What can be asked for is not lost on the way: without rules, redirects end at
\* a document if there is one at the path the client sent.
DocumentKept ==
    (pc = "answered" /\ rules = NoRules /\ answer = "not_found"
        /\ ~IsAcme(asked) /\ \E s \in {"ours", None} : flaws = [Flawless EXCEPT !.sni = s])
       => Find(Docs, asked) = {} /\ ~DirIndex(Docs, asked)

----------------------------------------------------------------------------
(* Claims of the documentation that the code does not keep *)

\* The load rejects "any rule that would redirect a path to itself".
NoSelfRedirect ==
    Live => \A p \in Asked : LET r == Resolve(rules, p) IN
                r = None \/ r.to.url \/ r.path # p

\* "The query string carries over unless the target already has one."
QueryCarried == [][by' = "rule" /\ query = "sent" => query' \in {"sent", "own"}]_vars
============================================================================
