---------------------------- MODULE MCMembership ----------------------------
(* Membership for TLC: two processes, under one node ID or under two.      *)
EXTENDS Membership

CONSTANTS n1, n2, p1, p2

MCNodes == {n1, n2}
MCProcs == {p1, p2}

\* Every placement of the two nodes is an initial state, so p1 may be taken to run as n1.
MCFleets == {f \in [MCProcs -> [id : MCNodes, addr : Addrs]] : f[p1].id = n1}
=============================================================================
