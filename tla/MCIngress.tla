----------------------------- MODULE MCIngress -----------------------------
(* Instances of Ingress for TLC.                                           *)
EXTENDS Ingress, TLC

CONSTANTS p1, p2, p3,   \* packages
          g1, g2        \* names

\* Two packages of two names.
TwoNames == p1 :> g1 @@ p2 :> g2

\* Two repositories whose derived names collide, and a third package.
CollidingNames == p1 :> g1 @@ p2 :> g1 @@ p3 :> g2
=============================================================================
