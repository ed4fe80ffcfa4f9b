---------------------------- MODULE MCLifecycle ----------------------------
(***************************************************************************)
(* Instance of Lifecycle for TLC: both builds, and the versions of the two *)
(* files in every combination.                                             *)
(***************************************************************************)
EXTENDS Lifecycle

AllBuilds == [asserts : BOOLEAN, client : Version, recognition : Version]
=============================================================================
