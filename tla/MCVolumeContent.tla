-------------------------- MODULE MCVolumeContent --------------------------
(* A small instance of VolumeContent.  The constants are in the .cfg.      *)
EXTENDS VolumeContent, TLC

Symmetry == Permutations(Writers) \cup Permutations(Dirs)
===========================================================================
