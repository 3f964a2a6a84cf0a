------------------------ MODULE MCOrbstackMachines ------------------------
(* OrbstackMachines with one sandbox; machines do not interact.            *)
EXTENDS OrbstackMachines
===========================================================================
