---------------------------- MODULE MCReplication ----------------------------
(* Instances of Replication for TLC.                                       *)
EXTENDS Replication

CONSTANTS n1, n2

OneNode == <<n1>>
TwoNodes == <<n1, n2>>
=============================================================================
