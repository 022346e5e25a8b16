\* Two slots for four threads, so that several wait while several are notified.
CONSTANTS
    Threads = {t1, t2, t3, t4}
    Size = 2

SPECIFICATION Spec

INVARIANT NoLostWakeup
PROPERTIES SlotsTaken AcquireReturns ImplementsSlots
