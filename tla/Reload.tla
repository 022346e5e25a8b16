------------------------------- MODULE Reload -------------------------------
(***************************************************************************)
(* What hot reload promises of the configuration, in the abstract: the     *)
(* server serves one text of the config file, taken over in one step with  *)
(* the certificates and the connection cap it asks for; that text parsed   *)
(* and was read from the disk after the one before it; and the             *)
(* certificates may be renewed on the strength of a newer text than the    *)
(* sites, but never of an older one.  Module Watcher implements it, one    *)
(* read, build and swap at a time.                                         *)
(***************************************************************************)
EXTENDS Naturals

CONSTANTS
    Texts,      \* what can be written to the config file
    Usable,     \* those that parse
    Cap,        \* the connection cap a text asks for
    None        \* nothing is served before the start

VARIABLES
    file,       \* the config file: its version and text
    read,       \* the version last read
    served,     \* the version the sites are built from
    certs,      \* the version the certificates are chosen by
    limit       \* the cap on connections of one address

vars == <<file, read, served, certs, limit>>

Init == /\ file \in [sig: {0}, val: Texts]
        /\ read = file
        /\ served = None /\ certs = None
        /\ limit = 0

Write == /\ \E t \in Texts : file' = [sig |-> file.sig + 1, val |-> t]
         /\ UNCHANGED <<read, served, certs, limit>>

\* A text that does not parse is not looked at again.
Read == /\ file.val \in Usable
        /\ read' = file
        /\ UNCHANGED <<file, served, certs, limit>>

Adopt == /\ read.val \in Usable
         /\ served' = read /\ certs' = read /\ limit' = Cap[read.val]
         /\ UNCHANGED <<file, read>>

Renew == /\ served # None /\ read.val \in Usable
         /\ certs' = read
         /\ UNCHANGED <<file, read, served, limit>>

Next == Write \/ Read \/ Adopt \/ Renew

Spec == Init /\ [][Next]_vars

----------------------------------------------------------------------------

\* The server never goes back to a text older than the one it serves, and its
\* certificates are never behind its sites.
Ordered ==
    /\ read.sig <= file.sig
    /\ served # None => /\ certs # None
                        /\ served.sig <= certs.sig
                        /\ certs.sig <= read.sig
                        /\ {served.val, certs.val} \subseteq Usable
                        /\ limit = Cap[served.val]
=============================================================================
