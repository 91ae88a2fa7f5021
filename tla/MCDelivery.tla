----------------------------- MODULE MCDelivery -----------------------------
(* An instance of Delivery for TLC. *)
EXTENDS MCNativeGrant, Delivery, TLC

CONSTANTS t1, t2, t3

SymmetricThreads == Permutations({t1, t2})

TwoSites == {"consume", "heartbeat"}

\* A thread may end at any moment; it is created by one that runs, and not after
\* the installer has listed the threads and before it has stopped them all.
Whenever == InstallSteps
NotWhileSuspending == InstallSteps \ {"suspend"}
=============================================================================
