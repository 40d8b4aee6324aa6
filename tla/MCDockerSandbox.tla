--------------------------- MODULE MCDockerSandbox --------------------------
(***************************************************************************)
(* Instances of DockerSandbox for model checking.                          *)
(***************************************************************************)
EXTENDS DockerSandbox, TLC

\* The threads that expire sandboxes are alike.
Symmetry == Permutations(Threads)
=============================================================================
