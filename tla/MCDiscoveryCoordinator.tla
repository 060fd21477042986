------------------------ MODULE MCDiscoveryCoordinator ------------------------
(* Instances of the Discovery coordinator for TLC; the .cfg files give the     *)
(* constants their values.                                                     *)
EXTENDS DiscoveryCoordinator
===============================================================================
