------------------------------- MODULE MCMesh -------------------------------
(* Three brokers of one cluster, so that the links form a loop.           *)
EXTENDS Mesh, TLC

CONSTANTS a, b, c

MCInitUuid == a :> 1 @@ b :> 2 @@ c :> 3
MCClusterOf == [h \in {a, b, c} |-> "x"]
=============================================================================
