------------------------------ MODULE Endpoints ------------------------------
(***************************************************************************)
(* What the speaker's protocol handlers have in common: services, their    *)
(* addresses, and the endpoints that decide on which nodes a service is    *)
(* announced (nodeHasHealthyEndpoint, usableNodes and the layer 2          *)
(* election).                                                              *)
(*                                                                         *)
(* An Endpoints object is the endpoints its subsets list as ready and as   *)
(* not ready.  One object may list an address as both, for different       *)
(* ports, in different subsets; "not ready" wins in any order.             *)
(***************************************************************************)
EXTENDS Integers, Sequences, FiniteSets

CONSTANTS
    Svc,            \* service names
    V4, V6,         \* addresses; those of IPv4 are numbers
    Node,           \* names of nodes
    PodIP,          \* addresses of endpoints
    Rank,           \* the order of the hashes of node and service names
    None            \* nil, or a missing map entry

IP == V4 \cup V6

Endpoint == [ip : PodIP, node : Node \cup {None}]

EndpointsObject == [ready : SUBSET Endpoint, notReady : SUBSET Endpoint]

(* Two nodes never have the same hash for a service.                       *)
ASSUME EndpointsAssumption ==
    /\ IsFiniteSet(Svc)
    /\ V4 \subseteq Nat
    /\ None \notin IP \cup Node \cup EndpointsObject
    /\ Rank \in [Svc -> [Node -> Nat]]
    /\ \A s \in Svc, m, n \in Node : Rank[s][m] = Rank[s][n] => m = n

(* This node has an endpoint that is ready, and not ready nowhere.         *)
nodeHasHealthyEndpoint(eps, node) ==
    \E e \in eps.ready : /\ e.node = node
                         /\ \A f \in eps.notReady : f.ip # e.ip

(* The nodes with a ready endpoint, and none that is not ready.  (The      *)
(* comment on the code says "all nodes that have at least one fully ready  *)
(* endpoint", but one that is not ready makes its whole node unusable.)    *)
usableNodes(eps) ==
    ({e.node : e \in eps.ready} \ {e.node : e \in eps.notReady}) \ {None}

(* layer2Controller.ShouldAnnounce: the node comes first among the usable. *)
Elected(s, eps, node) ==
    /\ node \in usableNodes(eps)
    /\ \A n \in usableNodes(eps) : Rank[s][node] <= Rank[s][n]
=============================================================================
