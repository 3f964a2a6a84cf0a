------------------------- MODULE MCSandboxRestart -------------------------
(* Small instances of SandboxRestart.  The constants are in the .cfg.      *)
EXTENDS SandboxRestart
===========================================================================
