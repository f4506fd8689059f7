---------------------------- MODULE MCDockerExec ----------------------------
(* Instances of DockerExec for TLC.                                        *)
EXTENDS DockerExec
=============================================================================
