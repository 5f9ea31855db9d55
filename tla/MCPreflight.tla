----------------------------- MODULE MCPreflight -----------------------------
(* Instances of Preflight for TLC.                                         *)
EXTENDS Preflight

TheBinaries == <<"overlaybd-create">>
TheModules  == <<"tcm_loop">>
=============================================================================
