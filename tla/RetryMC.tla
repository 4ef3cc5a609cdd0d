------------------------------- MODULE RetryMC -------------------------------
(* Small instances of Retry for TLC. *)
EXTENDS Retry, TLC
==============================================================================
