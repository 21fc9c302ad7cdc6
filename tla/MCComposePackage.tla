-------------------------- MODULE MCComposePackage --------------------------
(* Instances of ComposePackage for TLC.                                    *)
EXTENDS ComposePackage

\* A new package.
NewHost == {<<None, None>>}
=============================================================================
