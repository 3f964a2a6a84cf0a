------------------------ MODULE MCSandboxLifecycle ------------------------
(* Small instances of SandboxLifecycle.  The constants are in the .cfg.    *)
EXTENDS SandboxLifecycle, TLC

Symmetry == Permutations(Sandboxes)
===========================================================================
