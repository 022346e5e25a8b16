----------------------------- MODULE MCSemaphore -----------------------------
(***************************************************************************)
(* Four threads at two slots: two can be notified of two slots that are    *)
(* dropped at once, with a third that waits and a fourth that gets in      *)
(* between.                                                                *)
(***************************************************************************)
EXTENDS Semaphore
=============================================================================
