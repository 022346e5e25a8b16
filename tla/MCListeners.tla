---------------------------- MODULE MCListeners ----------------------------
(***************************************************************************)
(* Instances of Listeners for TLC: a pool for each listener.               *)
(***************************************************************************)
EXTENDS Listeners

CONSTANTS ps, ph1

OneHttp == [p \in {ps, ph1} |-> IF p = ps THEN "https" ELSE "http"]
TwoSlots == [k \in Kinds |-> 2]
=============================================================================
