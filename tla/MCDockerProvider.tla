-------------------------- MODULE MCDockerProvider --------------------------
(* Instances of DockerProvider for TLC.                                    *)
EXTENDS DockerProvider, TLC

AllOperations == Operations

CallSymmetry == Permutations(Calls)
=============================================================================
