---------------------------- MODULE MCConfigFile ----------------------------
(* Config texts for TLC: a text with two sites, one more or one less line    *)
(* of every kind at every place, and any two of the lines that interact.     *)
EXTENDS ConfigFile

Blk(kind)        == [kind |-> kind, hashes |-> <<>>]
Form(kind, form) == [kind |-> kind, form |-> form, hashes |-> <<>>]
Word(k, w, h) ==
    [kind |-> "set", key |-> k, hashes |-> h,
     value |-> [word |-> w, num |-> 0, unit |-> ""]]
Num(k, x, unit) ==
    [kind |-> "set", key |-> k, hashes |-> <<>>,
     value |-> [word |-> "number", num |-> x, unit |-> unit]]
Set(k, w) == Word(k, w, <<>>)

Base == <<Set("listen", "h:443"), Form("site", "block"), Set("root", "/w"),
          Set("cert", "/c"), Set("key", "/k"), Blk("close"),
          Form("site", "block"), Set("cert", "/c"), Set("key", "/k"),
          Form("redirect", "rule"), Blk("close")>>

\* Lines whose effect depends on other lines.
Core == {Set("csp", "a"), Set("csp", "b"), Set("storage", "disk"),
         Set("disk_cache", "/d"), Set("compression", "off"),
         Form("site", "block"), Blk("close"), Blk("junk"),
         Num("gzip_level", 11, ""), Num("max_file_size", 3, "K")}

Extra ==
    Core
    \cup {Form("site", f) : f \in {"flat", "nobrace", "nohosts"}}
    \cup {Form("redirect", f) :
             f \in {"rule", "refused", "flat", "noarrow", "nopattern"}}
    \cup {Set("compression", "maybe"), Num("gzip_level", 9, ""),
          Num("brotli_quality", 11, ""), Num("brotli_quality", 12, ""),
          Num("min_compress_bytes", 16, "K"), Num("hsts_max_age", 9, ""),
          Num("hsts_max_age", 1, "K"), Set("hsts_preload", "off"),
          Num("gzip_level", 1, "K"), Num("max_file_size", 2, "G"),
          Num("cache_max_age", 50, ""), Set("csp", "control"),
          Word("csp", "a", <<"glued">>), Word("csp", "a", <<"spaced">>),
          Word("csp", "a", <<"spaced", "glued">>), Blk("blank"),
          Word("compression", "off", <<"glued">>),
          Word("compression", "off", <<"spaced">>),
          Set("listen", "h:8443"), Set("listen", "noport"),
          Set("listen_http", "h:80"), Num("max_total_bytes", 2, "M"),
          Num("max_total_bytes", 70, ""), Num("max_conns_per_ip", 0, ""),
          Num("max_response_secs", 30, ""), Num("max_response_secs", 31, ""),
          Set("storage", "ssd"), Set("disk_cache", ""), Set("root", "/v"),
          Set("force_ssl", "off"), Set("canonical_urls", "on"),
          Set("canonical_urls", "maybe"), Set("colour", "red")}

Placed(ts, ls) == {InsertAt(t, i, l) : t \in ts, i \in 1 .. Len(Base), l \in ls}
                  \cup {Append(t, l) : t \in ts, l \in ls}
Less(t)        == {RemoveAt(t, i) : i \in DOMAIN t}

Cut(t)          == {SubSeq(t, 1, i) : i \in DOMAIN t}

MCTexts == Cut(Base) \cup Less(Base)
           \cup Placed({Base}, Extra)
           \cup Placed(Placed({Base}, Core), Core)
           \cup Placed(Less(Base), Core)

\* A value that holds a #, with a comment behind it.
HashTexts == {InsertAt(t, 1, Word("csp", "a", h)) :
                 t \in {Base} \cup Less(Base),
                 h \in {<<>>, <<"glued">>, <<"spaced">>, <<"glued", "spaced">>}}

MCMultiplier == [u \in Units |-> CASE u = "" -> 1 [] u = "K" -> 4
                                   [] u = "M" -> 16 [] u = "G" -> 64]

=============================================================================
