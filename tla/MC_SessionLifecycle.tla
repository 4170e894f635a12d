----------------------- MODULE MC_SessionLifecycle -----------------------
(* One machine: machines share the reconcile lock and nothing else.        *)
EXTENDS SessionLifecycle

\* What follows an overlap is not explored: every property but the types is
\* about executions without one.  The last request, which lets a machine be
\* removed and put back, is made only while the disk has room and stop() has
\* not been called.
Explored == ~overlap /\ (requests = MaxRequests => criticals = 0 /\ running)
=============================================================================
