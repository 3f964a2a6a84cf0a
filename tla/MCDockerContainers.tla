------------------------ MODULE MCDockerContainers ------------------------
(* DockerContainers with one sandbox; containers do not interact.          *)
EXTENDS DockerContainers
===========================================================================
