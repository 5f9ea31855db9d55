-------------------------- MODULE MCDeviceLifecycle --------------------------
(* Instances of DeviceLifecycle for TLC.                                   *)
EXTENDS OwnershipRefinement, TLC

CONSTANTS n1, n2, f1, a1, a2, b1

ActorSymmetry == Permutations(Actors)
=============================================================================
