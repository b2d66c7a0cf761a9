------------------------------ MODULE MCSystem ------------------------------
(***************************************************************************)
(* Instances of System for TLC.  Messages that the handler drops do not    *)
(* get as far as the observers, so one that it routes is enough.           *)
(***************************************************************************)
EXTENDS System

MCRouted == {[owner |-> "ctrlm", data |-> TRUE, id |-> "RCU_STATUS"]}

=============================================================================
