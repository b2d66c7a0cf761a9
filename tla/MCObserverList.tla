--------------------------- MODULE MCObserverList ---------------------------
(***************************************************************************)
(* Instances of ObserverList for TLC.  Three messages stand for the three  *)
(* ways through iarmEventHandler: routed, dropped for its owner, dropped   *)
(* for its identifier.                                                     *)
(***************************************************************************)
EXTENDS ObserverList

MCMessages ==
    {[owner |-> "ctrlm", data |-> TRUE, id |-> "RCU_STATUS"],
     [owner |-> "other", data |-> TRUE, id |-> "RCU_STATUS"],
     [owner |-> "ctrlm", data |-> TRUE, id |-> "UNKNOWN"]}

=============================================================================
