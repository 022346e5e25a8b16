------------------------------ MODULE Semaphore ------------------------------
(***************************************************************************)
(* `Semaphore` and `Permit` (src/src/main.rs): a count behind a mutex, and *)
(* a condition variable the accept loops wait on, each until its deadline. *)
(*                                                                         *)
(* What is done while the mutex is held is one step.  Between two of them  *)
(* others get the mutex first: a thread that was notified may find the     *)
(* slot gone, or its deadline passed with the slot still there.            *)
(***************************************************************************)
EXTENDS Integers, FiniteSets

CONSTANTS
    Threads,    \* the accept loops that share the semaphore
    Size        \* the slots it is made with

ASSUME ConstantsAssumption == IsFiniteSet(Threads) /\ Size \in Nat \ {0}

VARIABLES
    count,      \* Semaphore.count
    permits,    \* the Permits that are alive, in whatever thread
    pc,         \* where a thread is in acquire_timeout
    late        \* whether its deadline has passed

vars == <<count, permits, pc, late>>

At(p)    == {t \in Threads : pc[t] = p}
Waiting  == At("waiting")
Notified == At("notified")

\* acquire_timeout() is called, and next locks the count.  The deadline runs
\* from there, but the thread can lose the processor for that long before it
\* looks at the clock again, so it may be late already.
Call(t) ==
    /\ pc[t] = "idle"
    /\ pc' = [pc EXCEPT ![t] = "called"]
    /\ late' = [late EXCEPT ![t] = FALSE]
    /\ UNCHANGED <<count, permits>>

\* left.is_zero() is looked at when there is no slot (mutant: first of all).
DeadlineFirst(t) == late[t]
OutOfTime(t)     == count = 0 /\ late[t]

\* The loop condition is looked at after each wait (mutant: before the first).
AskedOnce(t) == count > 0 \/ pc[t] = "notified"
HasSlot(t)   == count > 0

\* With the mutex, held from the call or given back by the wait: a slot is
\* taken, the thread gives up, or it lets go of the mutex and waits.
Locked(t) ==
    /\ pc[t] \in {"called", "notified", "woken"}
    /\ \/ /\ HasSlot(t)
          /\ count' = count - 1 /\ permits' = permits + 1
          /\ pc' = [pc EXCEPT ![t] = "idle"]
       \/ /\ OutOfTime(t)
          /\ pc' = [pc EXCEPT ![t] = "idle"]
          /\ UNCHANGED <<count, permits>>
       \/ /\ count = 0 /\ ~late[t]
          /\ pc' = [pc EXCEPT ![t] = "waiting"]
          /\ UNCHANGED <<count, permits>>
    /\ UNCHANGED late

\* The wait has a timeout (mutant: it has none).
Forever(t) == FALSE
Timed(t)   == pc[t] # "idle"

DeadlinePasses(t) ==
    /\ Timed(t) /\ ~late[t]
    /\ late' = [late EXCEPT ![t] = TRUE]
    /\ UNCHANGED <<count, permits, pc>>

\* The wait is over without a notification: at its timeout, or for no reason.
Wake(t) ==
    /\ pc[t] = "waiting"
    /\ pc' = [pc EXCEPT ![t] = "woken"]
    /\ UNCHANGED <<count, permits, late>>

\* notify_one() is called every time (mutant: for the first free slot only).
FirstOnly == count = 0
Notifies  == TRUE

\* Permit::drop(): which of the waiting threads is notified is left open.
Drop ==
    /\ permits > 0
    /\ permits' = permits - 1 /\ count' = count + 1
    /\ IF Notifies /\ Waiting # {}
       THEN \E w \in Waiting : pc' = [pc EXCEPT ![w] = "notified"]
       ELSE UNCHANGED pc
    /\ UNCHANGED late

Init == /\ count = Size /\ permits = 0
        /\ pc = [t \in Threads |-> "idle"]
        /\ late = [t \in Threads |-> FALSE]

Next == \/ Drop
        \/ \E t \in Threads : \/ Call(t) \/ Locked(t)
                              \/ DeadlinePasses(t) \/ Wake(t)

\* Threads that want the mutex get it in the end; whether permits are dropped,
\* and whether time passes, is left to the properties.
Fairness == \A t \in Threads : WF_vars(Locked(t))

Spec == Init /\ [][Next]_vars /\ Fairness

----------------------------------------------------------------------------
(* Properties *)

\* Every variable holds a value of its type: the count never goes below zero,
\* where `*c -= 1` would panic or wrap, nor beyond the size.
TypeOK ==
    /\ count \in 0 .. Size /\ permits \in 0 .. Size
    /\ pc \in [Threads -> {"idle", "called", "waiting", "notified", "woken"}]
    /\ late \in [Threads -> BOOLEAN]

\* A thread waits only while each free slot has a thread of its own that was
\* notified of it and has yet to look: no slot is left behind by a thread that
\* gives up at its deadline, by one that gets in between, or by two permits
\* that are dropped at once.
NoLostWakeup == Waiting # {} => count <= Cardinality(Notified)

\* So no thread needs its timeout to get a free slot.
SlotsTaken == (count > 0 /\ Waiting # {}) ~> (count = 0 \/ Waiting = {})

\* A caller gets a slot or its thread back, even if no permit is ever dropped:
\* a retiring accept loop comes to look at its generation.
AcquireReturns ==
    (\A t \in Threads : WF_vars(DeadlinePasses(t)) /\ WF_vars(late[t] /\ Wake(t)))
        => \A t \in Threads : pc[t] # "idle" ~> pc[t] = "idle"

\* It is a counter to its callers: a slot is taken in one step, refused only
\* when there is none, and free again when its Permit is dropped.
Abstract == INSTANCE Slots WITH free   <- count,
                                held   <- permits,
                                asking <- {t \in Threads : pc[t] # "idle"}
ImplementsSlots == Abstract!Spec
=============================================================================
