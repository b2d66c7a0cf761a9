--------------------------- MODULE MCImplLifecycle ---------------------------
(***************************************************************************)
(* Instances of ImplLifecycle for TLC: the runs differ in the freedoms they*)
(* give to the bus and in who else is there, all constants of the module.  *)
(***************************************************************************)
EXTENDS ImplLifecycle

=============================================================================
