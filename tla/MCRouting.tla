----------------------------- MODULE MCRouting -----------------------------
(***************************************************************************)
(* The site blocks, documents and requests that the runs of Routing use.   *)
(***************************************************************************)
EXTENDS Routing

Seg(name)     == [n |-> name, html |-> FALSE, enc |-> FALSE]
Encoded(s)    == [s EXCEPT !.enc = TRUE]
MCEnd         == Seg("")
MCAcmeDir     == Seg("acme-challenge")
MCProbe       == Seg("probe")
docs          == Seg("docs")
x             == Seg("x")
idx           == Html(Seg("index"))

MCSegs == LET plain == {Seg(n) : n \in {"docs", "x", "index", "acme-challenge", "probe"}}
              all   == plain \cup {Html(s) : s \in plain}
          IN  {MCEnd} \cup all \cup {Encoded(s) : s \in all}

At(toks, s)   == [url |-> FALSE, toks |-> toks, suffix |-> s]
To(toks)      == At(toks, "none")
Url           == [url |-> TRUE, toks |-> <<Whole>>, suffix |-> "none"]
Exact(p, t)   == [pattern |-> [kind |-> "exact", segs |-> p], target |-> t]
Under(p, t)   == [pattern |-> [kind |-> "prefix", segs |-> p], target |-> t]
All(t)        == [pattern |-> [kind |-> "all", segs |-> <<>>], target |-> t]

\* "/docs/* -> /x/$1", "/* -> /docs/$1", "/docs/x -> /x" in either order, a
\* catch-all to another origin, and what may stand alone.
ToX    == Under(<<docs>>, To(<<x, Capture>>))
ToDocs == Under(<<>>, To(<<docs, Capture>>))
Moved  == Exact(<<docs, x>>, To(<<x>>))
Away   == All(Url)

Good == {<<>>, <<ToX, ToDocs>>, <<ToDocs, ToX>>, <<Moved, ToX, Away>>,
         <<Exact(<<docs>>, At(<<Whole, x>>, "query"))>>, <<All(To(<<x>>))>>,
         <<Exact(<<x>>, To(<<Html(docs)>>)), ToX>>}

\* Total loops in each spelling, duplicates, and a syntax error after a rule.
Bad == {<<Exact(<<x>>, To(<<x>>))>>, <<Exact(<<x>>, At(<<Whole>>, "query"))>>,
        <<Under(<<docs>>, To(<<Whole>>))>>,
        <<Under(<<docs>>, At(<<docs, Capture>>, "fragment"))>>,
        <<All(To(<<Whole>>))>>,
        <<ToX, Under(<<docs>>, Url)>>, <<Away, All(To(<<x>>))>>,
        <<Moved, Exact(<<docs, x>>, Url)>>, <<Exact(<<x>>, To(<<docs, Capture>>))>>,
        <<ToX, [pattern |-> Malformed, target |-> Url]>>}

MCFiles == Good \cup Bad

\* "/docs/* -> /docs/x" and "* -> /x", which pass the check of push().
PartialLoops  == {<<Under(<<docs>>, To(<<docs, x>>))>>, <<All(To(<<x>>))>>}
FragmentFiles == {<<Exact(<<x>>, At(<<docs>>, "fragment"))>>}

\* A flat page, a directory index, both of one name, neither.
MCCaches == {{}, {<<idx>>, <<Html(docs)>>},
             {<<docs, idx>>, <<docs, Html(x)>>, <<x>>},
             {<<docs, idx>>, <<Html(docs)>>, <<Html(Seg("index"))>>}}

MCAsked == {<<MCEnd>>, <<idx>>, <<docs>>, <<docs, MCEnd>>, <<docs, idx>>,
            <<docs, x>>, <<docs, Html(x)>>, <<Encoded(docs)>>,
            <<Encoded(Html(docs))>>, <<x>>, <<x, MCEnd>>,
            <<MCAcmeDir, x>>, <<Encoded(MCAcmeDir), Html(x)>>, <<MCAcmeDir>>}

\* No flaw or one, with and without a body, on either listener.
MCFaults ==
    LET on(s)  == [Flawless EXCEPT !.sni = s]
        one(r) == {r, [r EXCEPT !.bad = TRUE], [r EXCEPT !.host = "other"],
                   [r EXCEPT !.host = "unknown"], [r EXCEPT !.get = FALSE],
                   [r EXCEPT !.path = FALSE], [r EXCEPT !.close = TRUE]}
        any    == UNION {one(on(s)) : s \in {None, "ours", "other"}}
    IN  any \cup {[r EXCEPT !.body = TRUE] : r \in any}
PlainOnly == {Flawless}
============================================================================
