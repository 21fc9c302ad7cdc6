----------------------------- MODULE MCGateway -----------------------------
(* Instances of Gateway for TLC.                                           *)
EXTENDS Gateway, TLC

CONSTANT p1

\* Every package asks for every domain, whoever has it.
Shared == [c \in Container |-> Domain]

\* A token for each group, and one that is not for the method of the requests.
TokenFor(group, methods) ==
    [valid |-> TRUE, audience |-> TRUE, subject |-> group, methods |-> methods]

OnePerGroup == {TokenFor(c, {}) : c \in Container} \cup {TokenFor(p1, {"GET"})}

\* Requests and addresses are interchangeable.
Alike == Permutations(Request) \cup Permutations(IP)
=============================================================================
