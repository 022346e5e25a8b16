----------------------------- MODULE ConfigFile -----------------------------
(***************************************************************************)
(* The parser of server.conf: `parse_config` (src/src/config.rs) with the  *)
(* value parsers it calls.  It reads the text line by line, holds the site *)
(* block it is in, defers the block's overrides, and resolves every site   *)
(* against the top-level defaults once the whole text is read.             *)
(*                                                                         *)
(* A line is what its words make of it: a delimiter, a redirect rule, a    *)
(* setting or none of these.  A value is a word, or a number with a unit.  *)
(* `hashes` lists the #s behind the directive: "glued" to the text before  *)
(* it or "spaced" from it.                                                 *)
(***************************************************************************)
EXTENDS Integers, SequencesExt, FiniteSetsExt

CONSTANTS
    Texts,      \* the config texts that are read
    UsizeMax,   \* the largest usize
    Multiplier, \* what the units K, M and G stand for
    MaxSecs,    \* the longest deadline parse_deadline_secs accepts
    Bad,        \* Err of a value parser
    None        \* Option::None

Hashes == {"glued", "spaced"}
Units  == {"", "K", "M", "G"}

\* The keys of each scope, with the parser of their values.
Shared == [compression |-> "bool", brotli_quality |-> "level",
           gzip_level |-> "level", min_compress_bytes |-> "size",
           max_brotli_bytes |-> "size", max_gzip_bytes |-> "size",
           max_file_size |-> "size", cache_max_age |-> "count",
           immutable_max_age |-> "count", hsts_max_age |-> "count",
           hsts_include_subdomains |-> "bool", hsts_preload |-> "bool",
           csp |-> "header"]
ServerOnly == [listen |-> "addr", listen_http |-> "addr",
               max_total_bytes |-> "size", max_conns_per_ip |-> "count",
               max_response_secs |-> "deadline", storage |-> "storage",
               disk_cache |-> "path"]
SiteOnly == [root |-> "path", cert |-> "path", key |-> "path",
             force_ssl |-> "bool", canonical_urls |-> "bool"]

TopKeys == DOMAIN Shared \cup DOMAIN ServerOnly
KeyType == [k \in TopKeys \cup DOMAIN SiteOnly |->
               IF k \in DOMAIN Shared THEN Shared[k]
               ELSE IF k \in DOMAIN ServerOnly THEN ServerOnly[k]
               ELSE SiteOnly[k]]

\* The lines a text is made of, and the sites it describes.
Lines ==
    [kind: {"blank", "close", "junk"}, hashes: Seq(Hashes)]
    \cup [kind: {"site"}, form: {"block", "flat", "nobrace", "nohosts"},
          hashes: Seq(Hashes)]
    \cup [kind: {"redirect"}, hashes: Seq(Hashes),
          form: {"rule", "flat", "noarrow", "nopattern", "refused"}]
    \cup [kind: {"set"}, key: STRING, hashes: Seq(Hashes),
          value: [word: STRING, num: Nat, unit: Units]]
Setting     == BOOLEAN \cup Nat \cup {"memory", "disk", None}
               \cup [word: STRING, hashes: Seq(Hashes)]
PendingSite == [line: Nat, root: Setting, cert: Setting, key: Setting,
                force_ssl: Setting, canonical_urls: Setting, rules: Nat,
                overrides: Seq(Nat \X (DOMAIN Shared) \X Setting)]

ASSUME ConstantsAssumption ==
    /\ UsizeMax \in Nat /\ UsizeMax > 0 /\ MaxSecs \in Nat
    /\ Multiplier \in [Units -> Nat \ {0}] /\ Multiplier[""] = 1
    /\ Texts \subseteq Seq(Lines)
    /\ None \notin Nat /\ None \notin PendingSite

VARIABLES
    text,       \* the file
    n,          \* lines read
    top,        \* the top-level settings so far
    pending,    \* the finished site blocks
    cur,        \* the block being read, or None
    result      \* its status, and the line of the error or the Config

vars == <<text, n, top, pending, cur, result>>

----------------------------------------------------------------------------
(* Values *)

\* What is left of the #s once the comment is stripped: only the first # of a
\* line can open one, and a line whose first # is glued keeps all of them.
Stripped(hashes) ==
    IF hashes # <<>> /\ hashes[1] = "spaced" THEN <<>> ELSE hashes

\* The highest level of each of the two compressors.
Highest == [brotli_quality |-> 11, gzip_level |-> 9]

parse_bool(v) == CASE v.word = "on"  -> TRUE
                   [] v.word = "off" -> FALSE
                   [] OTHER          -> Bad

parse_count(v) == IF v.word = "number" /\ v.unit = "" /\ v.num <= UsizeMax
                  THEN v.num ELSE Bad

\* A bound that is checked (mutant: it is not).
Unbounded(x, most) == x
AtMost(x, most)    == IF x = Bad \/ x > most THEN Bad ELSE x

\* checked_mul (mutant: a product that wraps).
parse_size_wrapping(v) == IF v.word = "number"
                          THEN (v.num * Multiplier[v.unit]) % (UsizeMax + 1)
                          ELSE Bad
parse_size(v) == IF v.word = "number"
                 THEN AtMost(v.num * Multiplier[v.unit], UsizeMax) ELSE Bad

Text(v, hashes) == [word |-> v.word, hashes |-> hashes]

\* The value parser of a key; an unknown key is an error as well.  No number,
\* switch or storage mode has a # in it.
Parse(k, v, hashes) ==
    LET t == IF k \in DOMAIN KeyType THEN KeyType[k] ELSE "unknown" IN
    CASE t = "unknown" -> Bad
      [] t = "path"   -> Text(v, hashes)
      [] t = "header" -> IF v.word = "control" THEN Bad ELSE Text(v, hashes)
      [] t = "addr"   -> IF v.word = "noport" THEN Bad ELSE Text(v, hashes)
      [] hashes # <<>> /\ t \notin {"path", "header", "addr", "unknown"} -> Bad
      [] hashes = <<>> /\ t = "bool"     -> parse_bool(v)
      [] hashes = <<>> /\ t = "count"    -> parse_count(v)
      [] hashes = <<>> /\ t = "level"    -> AtMost(parse_count(v), Highest[k])
      [] hashes = <<>> /\ t = "deadline" -> AtMost(parse_count(v), MaxSecs)
      [] hashes = <<>> /\ t = "size"     -> parse_size(v)
      [] hashes = <<>> /\ t = "storage"  ->
            IF v.word \in {"memory", "disk"} THEN v.word ELSE Bad

\* Tuning::default, HeaderConfig::default and the initial values of the locals.
\* The sizes and ages that texts are not expected to exceed are UsizeMax.
Preset ==
    [compression |-> TRUE, brotli_quality |-> 11, gzip_level |-> 9,
     min_compress_bytes |-> 64, cache_max_age |-> 0,
     hsts_include_subdomains |-> TRUE, hsts_preload |-> TRUE, csp |-> None,
     listen |-> None, listen_http |-> None, max_conns_per_ip |-> 64,
     max_response_secs |-> 0, storage |-> "memory", disk_cache |-> None]
Default == [k \in TopKeys |-> IF k \in DOMAIN Preset THEN Preset[k]
                              ELSE UsizeMax]

----------------------------------------------------------------------------
(* One line of the text *)

Line      == text[n + 1]
LineNo    == n + 1
Value     == Parse(Line.key, Line.value, Stripped(Line.hashes))
Reading(kind) == result.status = "reading" /\ n < Len(text) /\ Line.kind = kind

\* `return Err(at(line, ...))`; 0 when the message names no line.
Reject(line) == /\ result' = [status |-> "rejected", error |-> line]
                /\ n' = LineNo
                /\ UNCHANGED <<text, top, pending, cur>>
Accept       == /\ n' = LineNo
                /\ UNCHANGED <<text, result>>

Blank == /\ Reading("blank")
         /\ Accept
         /\ UNCHANGED <<top, pending, cur>>

Junk == Reading("junk") /\ Reject(LineNo)

CloseSite ==
    /\ Reading("close")
    /\ \/ /\ cur = None
          /\ Reject(LineNo)
       \/ /\ cur # None
          /\ pending' = Append(pending, cur)
          /\ cur' = None
          /\ Accept
          /\ UNCHANGED top

NewSite == [line |-> LineNo, root |-> None, cert |-> None, key |-> None,
            force_ssl |-> TRUE, canonical_urls |-> FALSE, rules |-> 0,
            overrides |-> <<>>]

\* `site <hosts> {`: not the old flat form, not nested, with a brace and a name.
OpenSite ==
    /\ Reading("site")
    /\ \/ /\ cur # None \/ Line.form \in {"flat", "nobrace", "nohosts"}
          /\ Reject(LineNo)
       \/ /\ cur = None /\ Line.form = "block"
          /\ cur' = NewSite
          /\ Accept
          /\ UNCHANGED <<top, pending>>

\* `redirect <pattern> -> <target>`; "refused" when Redirects::push says no.
RedirectRule ==
    /\ Reading("redirect")
    /\ \/ /\ cur = None
             \/ Line.form \in {"flat", "noarrow", "nopattern", "refused"}
          /\ Reject(LineNo)
       \/ /\ cur # None /\ Line.form = "rule"
          /\ cur' = [cur EXCEPT !.rules = @ + 1]
          /\ Accept
          /\ UNCHANGED <<top, pending>>

Overridden(site, k, val) ==
    [site EXCEPT !.overrides = Append(@, <<LineNo, k, val>>)]

\* What a block does with a shared key: check the value now, apply it later
\* (mutant: the value is first looked at when it is applied).
CheckedLate(k)  == k \in DOMAIN Shared
CheckedEarly(k) == k \in DOMAIN Shared /\ Value # Bad

\* A setting inside a block: a field of the site, or an override.
SiteSetting ==
    /\ Reading("set")
    /\ cur # None
    /\ LET k == Line.key IN
       \/ /\ k \in DOMAIN SiteOnly /\ Value # Bad
          /\ cur' = [cur EXCEPT ![k] = Value]
          /\ Accept
          /\ UNCHANGED <<top, pending>>
       \/ /\ CheckedEarly(k)
          /\ cur' = Overridden(cur, k, Value)
          /\ Accept
          /\ UNCHANGED <<top, pending>>
       \/ /\ ~(k \in DOMAIN SiteOnly /\ Value # Bad) /\ ~CheckedEarly(k)
          /\ Reject(LineNo)

\* A setting outside every block.
TopSetting ==
    /\ Reading("set")
    /\ cur = None
    /\ \/ /\ Line.key \in TopKeys /\ Value # Bad
          /\ top' = [top EXCEPT ![Line.key] = Value]
          /\ Accept
          /\ UNCHANGED <<pending, cur>>
       \/ /\ Line.key \notin TopKeys \/ Value = Bad
          /\ Reject(LineNo)

----------------------------------------------------------------------------
(* The end of the text *)

Faulty(s) == \/ s.cert = None \/ s.key = None
             \/ s.root = None /\ s.rules = 0

\* apply_shared of the deferred overrides, in their order.
Resolve(defaults, s) ==
    FoldLeft(LAMBDA t, o : [t EXCEPT ![o[2]] = o[3]], defaults, s.overrides)

SharedOf(settings) == [k \in DOMAIN Shared |-> settings[k]]

\* The top-level values a site is resolved against: those of the whole text.
SiteConfig(s) ==
    [root |-> s.root, cert |-> s.cert, key |-> s.key,
     force_ssl |-> s.force_ssl, canonical_urls |-> s.canonical_urls,
     rules |-> s.rules, tuning |-> Resolve(SharedOf(top), s)]

\* A disk_cache that is not set, or to nothing.
NoPath(v) == v = None \/ v.word = ""

\* What a block is refused for at the end: what it lacks, or an override that
\* apply_shared takes as little as it did at its own line.
LateIn(s)  == SelectInSeq(s.overrides, LAMBDA o : o[3] = Bad)
ErrorIn(s) == CASE Faulty(s)                     -> s.line
                [] ~Faulty(s) /\ LateIn(s) # 0   -> s.overrides[LateIn(s)][1]
                [] OTHER                         -> None

\* The checks of the end, in their order: the line the error names, or None.
Unclosed(c) == c # None
EndError ==
    LET first == SelectInSeq(pending, LAMBDA s : ErrorIn(s) # None)
    IN  IF Unclosed(cur) THEN cur.line
        ELSE IF \/ top.listen = None \/ pending = <<>>
                \/ top.storage = "disk" /\ NoPath(top.disk_cache)
        THEN 0
        ELSE IF first # 0 THEN ErrorIn(pending[first])
        ELSE None

Finish ==
    /\ result.status = "reading" /\ n = Len(text)
    /\ result' = IF EndError # None
                 THEN [status |-> "rejected", error |-> EndError]
                 ELSE [status |-> "accepted", top |-> top,
                       sites |-> [i \in DOMAIN pending |->
                                     SiteConfig(pending[i])]]
    /\ UNCHANGED <<text, n, top, pending, cur>>

Init == /\ text \in Texts
        /\ n = 0 /\ top = Default /\ pending = <<>> /\ cur = None
        /\ result = [status |-> "reading"]

Next == \/ Blank \/ Junk \/ CloseSite \/ OpenSite \/ RedirectRule
        \/ SiteSetting \/ TopSetting \/ Finish

Spec == Init /\ [][Next]_vars

----------------------------------------------------------------------------
(* What a text means, as docs/CONFIGURATION.md tells it: by where a line    *)
(* stands, not by what was read before it                                   *)

Is(t, kind)   == {i \in DOMAIN t : t[i].kind = kind}
InBlock(t, i) == \E b \in Is(t, "site") :
                    b < i /\ \A m \in (b + 1) .. (i - 1) : m \notin Is(t, "close")
Block(t, b)   == {i \in DOMAIN t :
                     b < i /\ \A m \in (b + 1) .. i : m \notin Is(t, "close")}

\* A number with its unit is their product, however large.
Meant(l) == IF l.key \in DOMAIN KeyType /\ KeyType[l.key] = "size"
               /\ l.value.word = "number"
            THEN l.value.num * Multiplier[l.value.unit]
            ELSE Parse(l.key, l.value, Stripped(l.hashes))

AllowedKeys(t, i) == IF InBlock(t, i) THEN DOMAIN SiteOnly \cup DOMAIN Shared
                     ELSE TopKeys

Wrong(t, i) ==
    \/ i \in Is(t, "junk")
    \/ i \in Is(t, "close") /\ ~InBlock(t, i)
    \/ i \in Is(t, "site") /\ (InBlock(t, i) \/ t[i].form # "block")
    \/ i \in Is(t, "redirect") /\ (~InBlock(t, i) \/ t[i].form # "rule")
    \/ /\ i \in Is(t, "set")
       /\ \/ t[i].key \notin AllowedKeys(t, i)
          \/ Parse(t[i].key, t[i].value, Stripped(t[i].hashes)) = Bad
WrongLines(t) == {i \in DOMAIN t : Wrong(t, i)}

\* The last of some lines to set a key, or a default.
LastSet(t, lines, k, default) ==
    LET at == {i \in lines \cap Is(t, "set") : t[i].key = k}
    IN  IF at = {} THEN default ELSE Meant(t[Max(at)])

TopLines(t)    == {i \in DOMAIN t : ~InBlock(t, i)}
TopValue(t, k) == LastSet(t, TopLines(t), k, Default[k])

SiteDefault == [root |-> None, cert |-> None, key |-> None,
                force_ssl |-> TRUE, canonical_urls |-> FALSE]
SiteValue(t, b, k) == LastSet(t, Block(t, b), k, SiteDefault[k])
Rules(t, b)        == Cardinality(Block(t, b) \cap Is(t, "redirect"))

Incomplete(t, b) ==
    \/ \A i \in Is(t, "close") : i < b
    \/ SiteValue(t, b, "cert") = None \/ SiteValue(t, b, "key") = None
    \/ SiteValue(t, b, "root") = None /\ Rules(t, b) = 0

Unusable(t) == \/ TopValue(t, "listen") = None
               \/ Is(t, "site") = {}
               \/ TopValue(t, "storage") = "disk" /\ NoPath(TopValue(t, "disk_cache"))

Meaning(t, b) ==
    [root |-> SiteValue(t, b, "root"), cert |-> SiteValue(t, b, "cert"),
     key |-> SiteValue(t, b, "key"), rules |-> Rules(t, b),
     force_ssl |-> SiteValue(t, b, "force_ssl"),
     canonical_urls |-> SiteValue(t, b, "canonical_urls"),
     tuning |-> [k \in DOMAIN Shared |->
                    LastSet(t, Block(t, b), k, TopValue(t, k))]]

\* The place of a site among the sites of a text.
Rank(t, b) == Cardinality({c \in Is(t, "site") : c <= b})

----------------------------------------------------------------------------
(* Properties *)

Rejected == result.status = "rejected"
Accepted == result.status = "accepted"

\* The levels a block overrides are as much in range as those of the file.
InRange(s) == \A i \in DOMAIN s.overrides :
                 LET o == s.overrides[i]
                 IN  o[2] \in DOMAIN Highest => o[3] \in 0 .. Highest[o[2]]

\* The levels and deadlines of a config are in range, of the file's settings
\* and of every block's: a deadline beyond MAX_SECS would panic every worker that
\* adds it to an Instant.
TypeOK == /\ n \in 0 .. Len(text) /\ DOMAIN top = TopKeys
          /\ \A k \in DOMAIN Highest : top[k] \in 0 .. Highest[k]
          /\ top.max_response_secs \in 0 .. MaxSecs
          /\ top.max_file_size \in 0 .. UsizeMax
          /\ top.max_total_bytes \in 0 .. UsizeMax
          /\ cur = None \/ (cur.line \in 1 .. n /\ InRange(cur))
          /\ \A i \in DOMAIN pending :
                pending[i].line \in 1 .. n /\ InRange(pending[i])

\* An accepted text has no wrong line and no incomplete site, and the config
\* is what the text says: "File order does not matter", a size is the number
\* written or an error, and a site's own value beats the top-level one wherever
\* either stands.
AcceptedAsWritten ==
    Accepted =>
        /\ WrongLines(text) = {} /\ ~Unusable(text)
        /\ \A b \in Is(text, "site") : ~Incomplete(text, b)
        /\ result.top = [k \in TopKeys |-> TopValue(text, k)]
        /\ Len(result.sites) = Cardinality(Is(text, "site"))
        /\ \A b \in Is(text, "site") :
              result.sites[Rank(text, b)] = Meaning(text, b)

\* A rejected text is one that should be, and the error names the first line
\* that is wrong; or, when every line is right, the block that is not complete.
RejectedForCause ==
    Rejected =>
        IF WrongLines(text) # {} THEN result.error = Min(WrongLines(text))
        ELSE IF result.error = 0 THEN Unusable(text)
        ELSE /\ result.error \in Is(text, "site")
             /\ Incomplete(text, result.error)

\* docs/CONFIGURATION.md:51: "A `#` starts a comment at the start of a line or
\* after whitespace": no value that is read has such a # in it.
CommentsStripped ==
    Accepted => \A i \in DOMAIN result.sites :
                    LET csp == result.sites[i].tuning.csp
                    IN  csp # None => \A j \in DOMAIN csp.hashes :
                                         csp.hashes[j] # "spaced"

=============================================================================
