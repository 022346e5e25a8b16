------------------------------ MODULE MCWatcher ------------------------------
(***************************************************************************)
(* Instances of Watcher for TLC: two sites, two certificates, two    *)
(* release directories behind one root, three addresses.                   *)
(***************************************************************************)
EXTENDS Watcher

CONSTANTS s1, s2, r1, cA, cB, d1, d2, a1, a2, a3

Cfg(root2, cert2, h, p, m) ==
    [ok |-> TRUE, sites |-> {s1, s2},
     root |-> [s \in Sites |-> IF s = s1 THEN r1 ELSE root2],
     cert |-> [s \in Sites |-> IF s = s1 THEN cA ELSE cert2],
     https |-> h, http |-> p, max |-> m]

\* A content site and a redirect-only one; a text that does not parse; two
\* blocks on one root, another certificate, HTTPS moves, HTTP stops, a higher
\* cap; a new name only; HTTPS takes HTTP's address.
Base    == Cfg(NoRoot, cA, a1, a2, 1)
Broken  == [Base EXCEPT !.ok = FALSE]
Moved   == Cfg(r1, cB, a3, NoAddr, 2)
Recert  == Cfg(NoRoot, cB, a1, a2, 1)
Onto    == Cfg(NoRoot, cA, a2, NoAddr, 1)

\* The server starts on any of these, and operators write any of them.
Texts    == {Base, Broken, Moved}
Plain    == {Base}
Renamed  == {Base, Recert}
Takeover == {Base, Onto}

Bounds(c, p, l, t, o) ==
    [k \in EditKinds |-> CASE k = "config" -> c [] k = "pem" -> p
                           [] k = "link" -> l [] k = "tree" -> t
                           [] k = "port" -> o]

Edits       == Bounds(2, 1, 2, 1, 1)
ConfigEdits == Bounds(1, 0, 0, 0, 0)
FlipEdits   == Bounds(0, 0, 1, 1, 0)

\* Assumed of the operators in the passing run: no config edit between the
\* first two steps of main, no root repointed while a runtime is being built.
Calm == {<<"config", "boot", "sample">>}
        \cup {"link"} \X {"boot", "config"} \X {"links", "tls", "vhosts"}
NoCalm == {}
=============================================================================
