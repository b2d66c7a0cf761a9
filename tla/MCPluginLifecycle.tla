-------------------------- MODULE MCPluginLifecycle --------------------------
(***************************************************************************)
(* Instances of PluginLifecycle for TLC.  Host processes are numbered, so  *)
(* there is no symmetry to use.                                            *)
(***************************************************************************)
EXTENDS PluginLifecycle

=============================================================================
