---------------------------- MODULE MCHotReload ----------------------------
(* Instances of HotReload for TLC. *)
EXTENDS HotReload, TLC
=============================================================================
