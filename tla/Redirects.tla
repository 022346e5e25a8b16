----------------------------- MODULE Redirects -----------------------------
(***************************************************************************)
(* The redirect rules of one site: `Redirects` of src/src/config.rs.       *)
(*                                                                         *)
(* A path is the sequence of its segments, so "/" is <<End>> and "/docs/"  *)
(* is <<docs, End>>.  A target is a sequence of segments and of the marks  *)
(* Whole ($0, the path itself) and Capture ("/$1"); `url` says that it     *)
(* names another origin, `suffix` what follows the path.  Left out: "$$",  *)
(* and $0 or $1 glued to the rest of a segment.                            *)
(***************************************************************************)
EXTENDS Integers, Sequences, FiniteSets, SequencesExt

CONSTANTS
    Segs,           \* segments, as clients send them
    End,            \* the empty segment, after a final slash
    ProbeSeg,       \* the "probe" of the self-redirect check
    Whole, Capture, \* $0, $1
    Malformed,      \* a pattern or target whose syntax push() refuses
    None

Paths   == Seq(Segs) \ {<<>>}
Target  == [url: BOOLEAN, toks: Seq(Segs \cup {Whole, Capture}) \ {<<>>},
            suffix: {"none", "query", "fragment"}]
Pattern == [kind: {"exact"}, segs: Paths] \cup [kind: {"prefix"}, segs: Seq(Segs)]
              \cup [kind: {"all"}, segs: {<<>>}]
Line    == [pattern: Pattern \cup {Malformed}, target: Target \cup {Malformed}]

NoRules == [exact |-> <<>>, prefix |-> <<>>, all |-> None]

\* expand(): the path of the Location.
Expand(t, path, cap) ==
    FlattenSeq([i \in DOMAIN t.toks |->
                  CASE t.toks[i] = Whole   -> path
                    [] t.toks[i] = Capture -> cap
                    [] OTHER               -> <<t.toks[i]>>])

\* What $1 stands for: nothing, the rest of the path, or "/" and all of it.
Remainder(p, path) == SubSeq(path, Len(p) + 1, Len(path))
NoCapture          == <<End>>
AllOf(path)        == <<End>> \o path

\* The path the check tries a pattern on, and what it captures there.
ProbePath(p) == IF p.kind = "exact" THEN p.segs ELSE Append(p.segs, ProbeSeg)
ProbeCap(p)  == CASE p.kind = "exact"  -> NoCapture
                  [] p.kind = "prefix" -> <<ProbeSeg>>
                  [] p.kind = "all"    -> AllOf(ProbePath(p))

\* loops_forever(): does the target expand to the probe itself?
LoopsForever(t, p) == ~t.url /\ Expand(t, ProbePath(p), ProbeCap(p)) = ProbePath(p)

PrefixesOf(rs) == {rs.prefix[i].segs : i \in DOMAIN rs.prefix}

\* The errors of push().
Refused(rs, line) ==
    LET p == line.pattern
        t == line.target
    IN
    \/ Malformed \in {p, t}
    \/ /\ Malformed \notin {p, t}
       /\ \/ LoopsForever(t, p)
          \/ p.kind = "all" /\ rs.all # None
          \/ p.kind = "prefix" /\ p.segs \in PrefixesOf(rs)
          \/ p.kind = "exact" /\ \/ p.segs \in DOMAIN rs.exact
                                 \/ \E i \in DOMAIN t.toks : t.toks[i] = Capture

\* push() of a rule that is accepted.
Push(rs, line) ==
    LET p == line.pattern
        t == line.target
    IN
    CASE p.kind = "all"    -> [rs EXCEPT !.all = t]
      [] p.kind = "prefix" -> [rs EXCEPT !.prefix = Append(@, [segs |-> p.segs,
                                                               to |-> t])]
      [] p.kind = "exact"  -> [rs EXCEPT !.exact =
                                 [q \in DOMAIN @ \cup {p.segs} |->
                                    IF q = p.segs THEN t ELSE @[q]]]

\* finish(): longest prefix first, by a stable sort (mutant: in the order of the
\* file).  Of two prefixes of one path the longer has more segments.
AsWritten(rs) == rs
Ahead(s, i)   == {j \in DOMAIN s : \/ Len(s[j].segs) > Len(s[i].segs)
                                   \/ Len(s[j].segs) = Len(s[i].segs) /\ j < i}
Place(s, k)   == CHOOSE i \in DOMAIN s : Cardinality(Ahead(s, i)) = k - 1
Sorted(s)     == [k \in DOMAIN s |-> s[Place(s, k)]]
Finish(rs)    == [rs EXCEPT !.prefix = Sorted(@)]

\* resolve(): the target that applies to a path and where it leads, or None.
Resolve(rs, path) ==
    LET hits == {i \in DOMAIN rs.prefix : IsStrictPrefix(rs.prefix[i].segs, path)}
        hit  == rs.prefix[CHOOSE i \in hits : \A j \in hits : i <= j]
        Hop(t, cap) == [to |-> t, path |-> Expand(t, path, cap)]
    IN
    CASE path \in DOMAIN rs.exact -> Hop(rs.exact[path], NoCapture)
      [] path \notin DOMAIN rs.exact /\ hits # {} ->
            Hop(hit.to, Remainder(hit.segs, path))
      [] path \notin DOMAIN rs.exact /\ hits = {} /\ rs.all # None ->
            Hop(rs.all, AllOf(path))
      [] OTHER -> None
============================================================================
