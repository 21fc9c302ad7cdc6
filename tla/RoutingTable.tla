---------------------------- MODULE RoutingTable ----------------------------
(***************************************************************************)
(* What core.Ingress promises to packages, without caches, locks or        *)
(* backends: one table of leases.  "Set (replaces) routing table for the   *)
(* group" and "Clear routing table for the group" (core/interfaces.go) are *)
(* one atomic step each, and a domain is "unique reference to service".    *)
(***************************************************************************)
CONSTANTS Group,      \* package names, the namespace of a lease
          Domain,     \* domains a package may ask for
          Addresses,  \* lists of host:port
          None        \* the missing map entry

VARIABLE table        \* the table that requests are routed with

\* cached.go's address: what a domain leads to and who leased it.
Lease == [group : Group, list : Addresses]

\* A map domain -> addresses handed to Set; None for an absent key.
Ask == [Domain -> Addresses \cup {None}]

Asked(m) == {d \in Domain : m[d] # None}

\* Group g may lease d in table t.
Free(t, g, d) == t[d] # None => t[d].group = g

\* Table t with every lease of g replaced by those m asks for.
Replace(t, g, m) ==
    [d \in Domain |->
        IF m[d] # None THEN [group |-> g, list |-> m[d]]
        ELSE IF t[d] # None /\ t[d].group = g THEN None
        ELSE t[d]]

TableTypeOK == table \in [Domain -> Lease \cup {None}]

TableInit == table = [d \in Domain |-> None]

\* Set by group g: all of m or nothing, and only over free domains.
Register(g, m) ==
    /\ \A d \in Asked(m) : Free(table, g, d)
    /\ table' = Replace(table, g, m)

\* Clear by group g.
Withdraw(g) ==
    table' = Replace(table, g, [d \in Domain |-> None])

TableNext ==
    \E g \in Group : Withdraw(g) \/ \E m \in Ask : Register(g, m)

TableSpec == TableInit /\ [][TableNext]_table

\* A domain never passes from one group to another in one step: the table
\* that requests see has a moment in which nobody serves it.
NoHandover ==
    [][\A d \in Domain :
          table[d] # None /\ table'[d] # None => table'[d].group = table[d].group]_table
=============================================================================
