------------------------------ MODULE MCPoller ------------------------------
(* Instances of Poller for TLC.                                            *)
EXTENDS Poller, TLC

CONSTANTS c1, c2, c3,  \* a composition, a plain image, and no package
          v1, v2       \* values of a variable

\* Two of the commits have the variable in .env, with two values.
Files == [c \in Commit |-> CASE c = c1 -> v1 [] c = c2 -> v2 [] c = c3 -> None]

\* No commit has a .env.
NoFiles == [c \in Commit |-> None]

\* Tasks are interchangeable.
Tasks == Permutations(Slot)
=============================================================================
