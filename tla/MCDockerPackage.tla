-------------------------- MODULE MCDockerPackage --------------------------
(* Instances of DockerPackage for TLC.                                     *)
EXTENDS DockerPackage

\* A new package, one that moves to a new host with its backup, and one that
\* was here before, with and without a backup.
Hosts == {<<None, None>>, <<None, 1>>, <<1, None>>, <<1, 0>>}

NewHost == {<<None, None>>}
=============================================================================
