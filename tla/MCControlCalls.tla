--------------------------- MODULE MCControlCalls ---------------------------
(***************************************************************************)
(* Instances of ControlCalls for TLC: every method, and a small selection  *)
(* for the question of who waits for ever.                                 *)
(***************************************************************************)
EXTENDS ControlCalls

\* Two with a timeout, one of them with fields to fill, and one without.
MCTimed == {"FactoryReset", "GetIRDBModels", "StopPairing"}

=============================================================================
