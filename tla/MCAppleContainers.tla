------------------------- MODULE MCAppleContainers -------------------------
(* AppleContainers with two sandboxes that compete for one port.           *)
EXTENDS AppleContainers, TLC

Symmetry == Permutations(Sandboxes) \cup Permutations(Ports)
===========================================================================
