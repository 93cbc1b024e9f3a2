-------------------------- MODULE MCProvisioning --------------------------
(***************************************************************************)
(* Provisioning with the processor's backoff and with the constants that   *)
(* the configurations share.                                               *)
(***************************************************************************)
EXTENDS Provisioning, TLC, Backoff

CONSTANT RetryCeiling  \* 60 in the code

MCRetryDelay == [a \in 1..AttemptBound |-> BackoffDelay(a, RetryCeiling)]

Symmetry == Permutations(Workspace) \cup Permutations(Job) \cup Permutations(Process)

===========================================================================
