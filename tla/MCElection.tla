----------------------------- MODULE MCElection ------------------------------
(***************************************************************************)
(* Small instances of several speakers.  Both services are in one layer 2  *)
(* pool; s1 prefers node n1, s2 prefers n2.                                *)
(***************************************************************************)
EXTENDS Election, TLC

CONSTANTS s1, s2, n1, n2, plain

MCConfig == [peers |-> <<>>,
             pools |-> "x" :> [addrs |-> {0, 1}, Protocol |-> "layer2", ads |-> <<>>]]
MCConfigs == {MCConfig}

OnPod(pod, n) == [ip |-> pod, node |-> n]
First == [ready |-> {OnPod("p1", n1)}, notReady |-> {}]
Second == [ready |-> {OnPod("p2", n2)}, notReady |-> {OnPod("p1", n1)}]
Both == [ready |-> {OnPod("p1", n1), OnPod("p2", n2)}, notReady |-> {}]
NoneReady == [ready |-> {}, notReady |-> {OnPod("p1", n1), OnPod("p2", n2)}]
MCEps == {Both, Second, NoneReady}

MCRank == (s1 :> (n1 :> 1 @@ n2 :> 2)) @@ (s2 :> (n1 :> 2 @@ n2 :> 1))

On(ip) == [LoadBalancer |-> TRUE, Local |-> FALSE, ip |-> ip]
MCSvc == {s1, s2}
MCV4 == 0..1
MCName == {"ns-s1", "ns-s2"}
MCNameOf == (s1 :> "ns-s1") @@ (s2 :> "ns-s2")
MCServices == (s1 :> {On(0)}) @@ (s2 :> {On(1)})

NoAddress == [labels |-> plain, addr |-> None]
MCNodes == {NoAddress}
MCPeer == {}
MCCluster == {[services  |-> (s1 :> On(0)) @@ (s2 :> On(1)),
               endpoints |-> (s1 :> First) @@ (s2 :> NoneReady),
               configMap |-> MCConfig,
               node      |-> NoAddress]}
=============================================================================
