--------------------------- MODULE SemaphoreProofs ---------------------------
(***************************************************************************)
(* Theorems about Semaphore, for any threads and any size: no slot is lost *)
(* and no wakeup either, and to its callers it is a counter.               *)
(***************************************************************************)
EXTENDS Semaphore, FiniteSetTheorems, TLAPS

\* Every slot is free or stands behind one Permit, wherever that has gone.
SlotsConserved == count + permits = Size

\* Each of the properties needs the others: a slot that is taken or given back
\* changes the count by one, and the notified threads by at most one.
IInv == TypeOK /\ SlotsConserved /\ NoLostWakeup

\* The notified threads are finitely many.
LEMMA Counted ==
    ASSUME NEW S \in SUBSET Threads
    PROVE  /\ IsFiniteSet(S) /\ Cardinality(S) \in Nat
           /\ \A t \in S : /\ Cardinality(S \ {t}) = Cardinality(S) - 1
                           /\ Cardinality(S) > 0
           /\ \A t \in Threads \ S : Cardinality(S \cup {t}) = Cardinality(S) + 1
<1>1. IsFiniteSet(S)
    BY ConstantsAssumption, FS_Subset
<1>2. Cardinality(S) \in Nat
    BY <1>1, FS_CardinalityType
<1>3. ASSUME NEW t \in S
      PROVE  Cardinality(S \ {t}) = Cardinality(S) - 1 /\ Cardinality(S) > 0
    <2>1. Cardinality(S \ {t}) = Cardinality(S) - 1
        BY <1>1, FS_RemoveElement
    <2>2. IsFiniteSet(S \ {t}) /\ Cardinality(S \ {t}) \in Nat
        BY <1>1, FS_RemoveElement, FS_CardinalityType
    <2> QED BY <1>2, <2>1, <2>2
<1>4. ASSUME NEW t \in Threads \ S
      PROVE  Cardinality(S \cup {t}) = Cardinality(S) + 1
    BY <1>1, FS_AddElement
<1> QED BY <1>1, <1>2, <1>3, <1>4

\* A new semaphore has all its slots, and nobody waits.
LEMMA Started ==
    ASSUME Init
    PROVE  IInv
<1>1. Size \in Nat /\ Size > 0
    BY ConstantsAssumption
<1>2. TypeOK /\ SlotsConserved
    BY <1>1 DEF Init, TypeOK, SlotsConserved
<1>3. Waiting = {}
    BY DEF Init, Waiting, At
<1> QED BY <1>2, <1>3 DEF IInv, NoLostWakeup

\* A step of one thread that is not notified leaves the others notified.
LEMMA NotifiedKept ==
    ASSUME TypeOK, NEW t \in Threads, NEW p,
           pc[t] # "notified", p # "notified",
           pc' = [pc EXCEPT ![t] = p]
    PROVE  Notified' = Notified
BY DEF TypeOK, Notified, At

\* A thread that enters or leaves the ranks of the waiting.
LEMMA WaitingKept ==
    ASSUME TypeOK, NEW t \in Threads, NEW p, p # "waiting",
           pc' = [pc EXCEPT ![t] = p]
    PROVE  Waiting' \subseteq Waiting
BY DEF TypeOK, Waiting, At

\* A caller that has not locked the count yet neither waits nor was notified.
LEMMA CallStep ==
    ASSUME IInv, NEW t \in Threads, Call(t)
    PROVE  IInv'
<1>1. pc[t] = "idle" /\ pc' = [pc EXCEPT ![t] = "called"]
      /\ count' = count /\ permits' = permits
    BY DEF Call
<1>2. Notified' = Notified /\ Waiting' \subseteq Waiting
    BY <1>1, NotifiedKept, WaitingKept DEF IInv
<1>3. TypeOK'
    BY DEF IInv, TypeOK, Call
<1>4. SlotsConserved' /\ NoLostWakeup'
    BY <1>1, <1>2 DEF IInv, SlotsConserved, NoLostWakeup
<1> QED BY <1>3, <1>4 DEF IInv

\* A thread that wakes by itself takes no notification with it.
LEMMA WakeStep ==
    ASSUME IInv, NEW t \in Threads, Wake(t)
    PROVE  IInv'
<1>1. pc[t] = "waiting" /\ pc' = [pc EXCEPT ![t] = "woken"]
      /\ count' = count /\ permits' = permits
    BY DEF Wake
<1>2. Notified' = Notified /\ Waiting' \subseteq Waiting
    BY <1>1, NotifiedKept, WaitingKept DEF IInv
<1>3. TypeOK'
    BY DEF IInv, TypeOK, Wake
<1>4. SlotsConserved' /\ NoLostWakeup'
    BY <1>1, <1>2 DEF IInv, SlotsConserved, NoLostWakeup
<1> QED BY <1>3, <1>4 DEF IInv

\* The clock touches neither the count nor who waits.
LEMMA LateStep ==
    ASSUME IInv, NEW t \in Threads, DeadlinePasses(t)
    PROVE  IInv'
<1>1. pc' = pc /\ count' = count /\ permits' = permits
    BY DEF DeadlinePasses
<1>2. TypeOK'
    BY DEF IInv, TypeOK, DeadlinePasses
<1>3. Notified' = Notified /\ Waiting' = Waiting
    BY <1>1 DEF Notified, Waiting, At
<1>4. SlotsConserved' /\ NoLostWakeup'
    BY <1>1, <1>3 DEF IInv, SlotsConserved, NoLostWakeup
<1> QED BY <1>2, <1>4 DEF IInv

\* What a thread that is no longer notified was notified of, it has looked at.
LEMMA LockedStep ==
    ASSUME IInv, NEW t \in Threads, Locked(t)
    PROVE  IInv'
<1>1. /\ pc[t] \in {"called", "notified", "woken"} /\ late' = late
      /\ TypeOK /\ SlotsConserved /\ NoLostWakeup
      /\ Size \in Nat /\ count \in Nat /\ permits \in Nat
    BY ConstantsAssumption DEF IInv, Locked, TypeOK
<1>2. CASE /\ HasSlot(t) /\ count' = count - 1 /\ permits' = permits + 1
           /\ pc' = [pc EXCEPT ![t] = "idle"]
    <2>1. count > 0 /\ count' \in Nat /\ count' + permits' = Size
        BY <1>1, <1>2 DEF HasSlot, SlotsConserved
    <2>2. count' \in 0 .. Size /\ permits' \in 0 .. Size
        BY <1>1, <1>2, <2>1 DEF SlotsConserved
    <2>3. TypeOK'
        BY <1>1, <1>2, <2>2 DEF TypeOK
    <2>4. Waiting' \subseteq Waiting
        BY <1>1, <1>2, WaitingKept
    <2>5. CASE pc[t] = "notified"
        <3>1. Notified' = Notified \ {t} /\ t \in Notified
            BY <1>1, <1>2, <2>5 DEF TypeOK, Notified, At
        <3>2. Cardinality(Notified') = Cardinality(Notified) - 1
            BY <3>1, Counted DEF Notified, At
        <3>3. Cardinality(Notified) \in Nat
            BY Counted DEF Notified, At
        <3>4. NoLostWakeup'
            BY <1>1, <1>2, <2>4, <3>2, <3>3 DEF NoLostWakeup
        <3> QED BY <2>1, <2>3, <3>4 DEF IInv, SlotsConserved
    <2>6. CASE pc[t] # "notified"
        <3>1. Notified' = Notified
            BY <1>1, <1>2, <2>6, NotifiedKept
        <3>2. Cardinality(Notified) \in Nat
            BY Counted DEF Notified, At
        <3>3. NoLostWakeup'
            BY <1>1, <1>2, <2>4, <3>1, <3>2 DEF NoLostWakeup
        <3> QED BY <2>1, <2>3, <3>3 DEF IInv, SlotsConserved
    <2> QED BY <2>5, <2>6
<1>3. ASSUME NEW p \in {"idle", "waiting"}, count = 0, count' = count,
             permits' = permits, pc' = [pc EXCEPT ![t] = p]
      PROVE  IInv'
    <2>1. TypeOK'
        BY <1>1, <1>3 DEF TypeOK
    <2>2. Cardinality(Notified') \in Nat
        BY <2>1, Counted DEF Notified, At
    <2>3. NoLostWakeup'
        BY <1>3, <2>2 DEF NoLostWakeup
    <2> QED BY <1>1, <1>3, <2>1, <2>3 DEF IInv, SlotsConserved
<1>4. CASE /\ OutOfTime(t) /\ pc' = [pc EXCEPT ![t] = "idle"]
           /\ count' = count /\ permits' = permits
    BY <1>3, <1>4 DEF OutOfTime
<1>5. CASE /\ count = 0 /\ ~late[t] /\ pc' = [pc EXCEPT ![t] = "waiting"]
           /\ count' = count /\ permits' = permits
    BY <1>3, <1>5
<1> QED BY <1>2, <1>4, <1>5 DEF Locked

\* A slot that comes free is announced to one more thread, if any waits.
LEMMA DropStep ==
    ASSUME IInv, Drop
    PROVE  IInv'
<1>1. /\ permits > 0 /\ permits' = permits - 1 /\ count' = count + 1
      /\ late' = late /\ TypeOK /\ SlotsConserved /\ NoLostWakeup
      /\ Size \in Nat /\ count \in Nat /\ permits \in Nat
    BY ConstantsAssumption DEF IInv, Drop, TypeOK
<1>2. /\ count' \in 0 .. Size /\ permits' \in 0 .. Size
      /\ count' + permits' = Size
    BY <1>1 DEF SlotsConserved
<1>3. CASE Waiting = {} /\ pc' = pc
    <2>1. TypeOK' /\ Waiting' = {}
        BY <1>1, <1>2, <1>3 DEF TypeOK, Waiting, At
    <2> QED BY <1>2, <2>1 DEF IInv, SlotsConserved, NoLostWakeup
<1>4. ASSUME NEW w \in Waiting, pc' = [pc EXCEPT ![w] = "notified"]
      PROVE  IInv'
    <2>1. w \in Threads /\ pc[w] = "waiting"
        BY DEF Waiting, At
    <2>2. TypeOK'
        BY <1>1, <1>2, <1>4, <2>1 DEF TypeOK
    <2>3. Notified' = Notified \cup {w} /\ w \notin Notified
        BY <1>1, <1>4, <2>1 DEF TypeOK, Notified, At
    <2>4. Notified \in SUBSET Threads
        BY DEF Notified, At
    <2>5. /\ Cardinality(Notified') = Cardinality(Notified) + 1
          /\ Cardinality(Notified) \in Nat
        BY <2>1, <2>3, <2>4, Counted
    <2>6. NoLostWakeup'
        BY <1>1, <1>4, <2>5 DEF NoLostWakeup
    <2> QED BY <1>2, <2>2, <2>6 DEF IInv, SlotsConserved
<1> QED BY <1>3, <1>4 DEF Drop, Notifies

\* The inductive invariant holds in every state.
LEMMA Inductive == Spec => []IInv
<1>1. Init => IInv
    BY Started
<1>2. IInv /\ [Next]_vars => IInv'
    <2> SUFFICES ASSUME IInv, [Next]_vars PROVE IInv'
        OBVIOUS
    <2>1. CASE UNCHANGED vars
        BY <2>1 DEF vars, IInv, TypeOK, SlotsConserved, NoLostWakeup, Waiting,
                    Notified, At
    <2>2. CASE Drop
        BY <2>2, DropStep
    <2>3. ASSUME NEW t \in Threads, Call(t) PROVE IInv'
        BY <2>3, CallStep
    <2>4. ASSUME NEW t \in Threads, Locked(t) PROVE IInv'
        BY <2>4, LockedStep
    <2>5. ASSUME NEW t \in Threads, DeadlinePasses(t) PROVE IInv'
        BY <2>5, LateStep
    <2>6. ASSUME NEW t \in Threads, Wake(t) PROVE IInv'
        BY <2>6, WakeStep
    <2> QED BY <2>1, <2>2, <2>3, <2>4, <2>5, <2>6 DEF Next
<1> QED BY <1>1, <1>2, PTL DEF Spec

----------------------------------------------------------------------------
(* The theorems *)

\* `*c -= 1` never goes below zero and `*c += 1` never beyond the size, in any
\* interleaving (acquire_timeout and Permit::drop of src/src/main.rs).
THEOREM CountTyped == Spec => []TypeOK
<1>1. IInv => TypeOK
    BY DEF IInv
<1> QED BY <1>1, Inductive, PTL

\* No slot is lost or made, whichever threads take slots, give up or drop
\* permits of others.
THEOREM NoSlotLost == Spec => []SlotsConserved
<1>1. IInv => SlotsConserved
    BY DEF IInv
<1> QED BY <1>1, Inductive, PTL

\* One notify_one per dropped permit is enough: as long as any thread waits,
\* each free slot has a notified thread that has yet to look at it, also where
\* a deadline has passed or another thread came in between.
THEOREM NoWakeupLost == Spec => []NoLostWakeup
<1>1. IInv => NoLostWakeup
    BY DEF IInv
<1> QED BY <1>1, Inductive, PTL

Asking == {t \in Threads : pc[t] # "idle"}

\* A step of the semaphore is one of the counter, or none.
LEMMA StepImplements ==
    ASSUME IInv, [Next]_vars
    PROVE  [Abstract!Next]_<<count, permits, Asking>>
<1>1. /\ TypeOK /\ SlotsConserved /\ Size \in Nat
      /\ count \in Nat /\ permits \in Nat
    BY ConstantsAssumption DEF IInv, TypeOK
<1>2. CASE UNCHANGED vars
    BY <1>2 DEF vars, Asking
<1>3. CASE Drop
    <2>1. permits > 0 /\ permits' = permits - 1 /\ count' = count + 1
        BY <1>3 DEF Drop
    <2>2. Asking' = Asking
        BY <1>1, <1>3 DEF Drop, Asking, Waiting, At, TypeOK
    <2> QED BY <2>1, <2>2 DEF Abstract!Next, Abstract!GiveBack, Asking
<1>4. ASSUME NEW t \in Threads, Call(t)
      PROVE  [Abstract!Next]_<<count, permits, Asking>>
    <2>1. /\ t \notin Asking /\ Asking' = Asking \cup {t}
          /\ count' = count /\ permits' = permits
        BY <1>1, <1>4 DEF Call, Asking, TypeOK
    <2> QED BY <2>1 DEF Abstract!Next, Abstract!Ask, Asking
<1>5. ASSUME NEW t \in Threads, Locked(t)
      PROVE  [Abstract!Next]_<<count, permits, Asking>>
    <2>1. t \in Asking
        BY <1>5 DEF Locked, Asking
    <2>2. CASE pc' = [pc EXCEPT ![t] = "idle"]
        <3>1. Asking' = Asking \ {t}
            BY <1>1, <2>2 DEF Asking, TypeOK
        <3>2. \/ count > 0 /\ count' = count - 1 /\ permits' = permits + 1
              \/ count = 0 /\ count' = count /\ permits' = permits
            BY <1>5, <1>1 DEF Locked, HasSlot, OutOfTime
        <3> QED BY <2>1, <3>1, <3>2
                DEF Abstract!Next, Abstract!Take, Abstract!Refuse, Asking
    <2>3. CASE /\ pc' = [pc EXCEPT ![t] = "waiting"]
               /\ count' = count /\ permits' = permits
        <3>1. Asking' = Asking
            BY <1>1, <2>1, <2>3 DEF Asking, TypeOK
        <3> QED BY <2>3, <3>1
    <2> QED BY <1>5, <2>2, <2>3 DEF Locked
<1>6. ASSUME NEW t \in Threads, DeadlinePasses(t)
      PROVE  [Abstract!Next]_<<count, permits, Asking>>
    BY <1>6 DEF DeadlinePasses, Asking
<1>7. ASSUME NEW t \in Threads, Wake(t)
      PROVE  [Abstract!Next]_<<count, permits, Asking>>
    <2>1. Asking' = Asking /\ count' = count /\ permits' = permits
        BY <1>1, <1>7 DEF Wake, Asking, TypeOK
    <2> QED BY <2>1
<1> QED BY <1>2, <1>3, <1>4, <1>5, <1>6, <1>7 DEF Next

\* To the accept loops it is the counter that module Listeners has in its
\* place: taken in one step, and refused only when there is no slot, although
\* a notified thread may come late and a deadline pass on the way.
THEOREM Refines == Spec => ImplementsSlots
<1>1. Init => Abstract!Init
    BY DEF Init, Abstract!Init
<1>2. IInv /\ [Next]_vars => [Abstract!Next]_<<count, permits, {t \in Threads : pc[t] # "idle"}>>
    BY StepImplements DEF Asking
<1> QED BY <1>1, <1>2, Inductive, PTL DEF Spec, ImplementsSlots, Abstract!Spec
=============================================================================
