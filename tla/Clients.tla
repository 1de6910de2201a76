------------------------------- MODULE Clients -------------------------------
(* The two clients of the cache, an engine with its connector and a worker *)
(* of the load generator, each on the read path it is deployed with.       *)
EXTENDS Connector, LoadClient

CONSTANT Deployments \* which clients run: sets of "engine" and "loadgen"

\* The two clients cache under model IDs of their own.
ASSUME ClientsAssumption == Loader \notin Ranks

VARIABLE deployed

vars == <<pathVars, connVars, load, deployed>>

TypeOK == PathTypeOK /\ ConnTypeOK /\ LoadTypeOK /\ deployed \in Deployments

Init == deployed \in Deployments /\ PathInit /\ ConnInit /\ LoadInit

Running == (IF "engine" \in deployed THEN Ranks ELSE {})
           \cup (IF "loadgen" \in deployed THEN {Loader} ELSE {})

EngineStep == "engine" \in deployed /\ ConnNext /\ UNCHANGED load
LoadStep == "loadgen" \in deployed /\ LoadNext /\ UNCHANGED connVars
CallStep == \E c \in Running : (Serve(c) \/ Break(c)) /\ UNCHANGED <<connVars, load>>
StoreStep == (\E s \in Running : MeanwhileTo(s)) /\ UNCHANGED <<connVars, load>>

Next == (EngineStep \/ LoadStep \/ CallStep \/ StoreStep) /\ UNCHANGED deployed

Spec == Init /\ [][Next]_vars
=============================================================================
