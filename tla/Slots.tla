-------------------------------- MODULE Slots --------------------------------
(***************************************************************************)
(* What the counting semaphore of src/src/main.rs promises its callers: a  *)
(* number of slots, taken and given back one at a time.  A caller is       *)
(* refused only when there is no slot left.  Module Listeners builds on    *)
(* this; module Semaphore implements it.                                   *)
(***************************************************************************)
EXTENDS Naturals

CONSTANTS
    Threads,    \* the accept loops that share the semaphore
    Size        \* the slots it is made with

VARIABLES
    free,       \* slots that nobody holds
    held,       \* slots that somebody holds
    asking      \* threads inside acquire_timeout

Ask(t) == /\ t \notin asking
          /\ asking' = asking \cup {t}
          /\ UNCHANGED <<free, held>>

Take(t) == /\ t \in asking /\ free > 0
           /\ free' = free - 1 /\ held' = held + 1
           /\ asking' = asking \ {t}

Refuse(t) == /\ t \in asking /\ free = 0
             /\ asking' = asking \ {t}
             /\ UNCHANGED <<free, held>>

\* A permit is dropped, by whatever thread it was passed on to.
GiveBack == /\ held > 0
            /\ held' = held - 1 /\ free' = free + 1
            /\ UNCHANGED asking

Init == free = Size /\ held = 0 /\ asking = {}

Next == GiveBack \/ \E t \in Threads : Ask(t) \/ Take(t) \/ Refuse(t)

Spec == Init /\ [][Next]_<<free, held, asking>>
=============================================================================
