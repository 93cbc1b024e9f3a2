------------------------------ MODULE Backoff ------------------------------
(***************************************************************************)
(* The delay between two attempts of a provisioning job: it doubles with   *)
(* every attempt up to a ceiling.  In the code the unit is one second and  *)
(* the ceiling is sixty.                                                   *)
(***************************************************************************)
EXTENDS Integers, FiniteSetsExt

BackoffDelay(attempt, ceiling) ==
  Min({ceiling, 2 ^ Max({0, attempt - 1})})

===========================================================================
