----------------------- MODULE MCDiscoveryInterpretation -----------------------
(* DiscoveryInterpretation with the bounds of the configurations beside it. *)
EXTENDS DiscoveryInterpretation
===============================================================================
