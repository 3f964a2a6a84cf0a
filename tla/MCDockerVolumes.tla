-------------------------- MODULE MCDockerVolumes --------------------------
(* Small instances of DockerVolumes.  The constants are in the .cfg.       *)
EXTENDS DockerVolumes
===========================================================================
