------------------------- MODULE MCOrbstackVolumes -------------------------
(* OrbstackVolumes with two volumes of an older version that have the same *)
(* name: their migrations compete for it.                                  *)
EXTENDS OrbstackVolumes, TLC

CONSTANTS old1, old2, data

MCLegacyIds == {old1, old2}
MCLegacyName == [id \in MCLegacyIds |-> data]
MCSymmetry == Permutations(Procs) \cup Permutations(NewIds) \cup Permutations(MCLegacyIds)
===========================================================================
