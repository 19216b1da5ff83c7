---------------------------- MODULE MCDiscovery ----------------------------
(* Three brokers of cluster "x", the middle one mortal and one bound to    *)
(* ipc first; one whose cluster "x|x" breaks the beacon; one without a     *)
(* tcp port.  The mortal broker comes back below or above all the others.  *)
EXTENDS Discovery, TLC

CONSTANTS n1, n2, n3, n4, n5

MCHost == {n1, n2, n3, n4, n5}
MCInitUuid == n1 :> 2 @@ n2 :> 3 @@ n3 :> 4 @@ n4 :> 5 @@ n5 :> 6
MCClusterOf == [h \in MCHost |-> IF h = n4 THEN <<"x", Bar, "x">> ELSE <<"x">>]
MCBindAddresses ==
  [h \in MCHost |->
     CASE h = n3 -> <<[scheme |-> "ipc", port |-> 0], [scheme |-> "tcp", port |-> 0], [scheme |-> "tcp", port |-> 65535]>>
       [] h = n5 -> <<[scheme |-> "ipc", port |-> 0], [scheme |-> "tcp", port |-> 65536]>>
       [] OTHER -> <<[scheme |-> "tcp", port |-> 5555]>>]
=============================================================================
