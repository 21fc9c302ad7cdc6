----------------------------- MODULE MCNetwork -----------------------------
(* Instances of Network for TLC.                                           *)
EXTENDS Network

\* The histories are left out of the states: no step and no liveness property
\* depends on them.
WithoutHistory == <<at, published, linked, ip, cache, pc, target, seen, answer>>
=============================================================================
