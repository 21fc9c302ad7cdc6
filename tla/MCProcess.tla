----------------------------- MODULE MCProcess -----------------------------
(* Instances of Process for TLC.                                           *)
EXTENDS Process

Port(target) == [target |-> target, tcp |-> TRUE]
Udp(target) == [target |-> target, tcp |-> FALSE]

\* A composition whose root is marked, or found by name when the container of
\* the marked service has ended; two of its services want one domain, and one
\* has a port without a domain.
Web == [name |-> "web", domainname |-> "", ports |-> <<Port(9000), Port(80)>>, root |-> FALSE]
Www == [name |-> "www", domainname |-> "web", ports |-> <<Udp(53), Port(8080)>>, root |-> FALSE]
Api == [name |-> "api", domainname |-> "echo", ports |-> <<Port(9000)>>, root |-> TRUE]

\* An image with a priority port.
Image == [name |-> "", domainname |-> "", ports |-> <<Port(9000), Port(8080)>>, root |-> FALSE]

Projects ==
    {[kind |-> "compose", services |-> {Web, Www, Api}],
     [kind |-> "docker", services |-> {Image}]}
=============================================================================
