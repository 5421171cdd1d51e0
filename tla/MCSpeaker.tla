------------------------------ MODULE MCSpeaker ------------------------------
(***************************************************************************)
(* Small instances of the speaker.  Pool x of addresses 0 and 1 changes    *)
(* protocol between configurations, pool y of addresses 2 and 3 is always  *)
(* BGP's.  Service s1 lives on 0 or 2, service s2 on 1 or 3.               *)
(***************************************************************************)
EXTENDS Speaker, TLC

CONSTANTS s1, s2, n1, n2, low, high, rack, plain, addr1

Ad(host, path) == [host |-> host, path |-> path]
BgpPool(addrs, ads) == [addrs |-> addrs, Protocol |-> "bgp", ads |-> ads]
L2Pool(addrs) == [addrs |-> addrs, Protocol |-> "layer2", ads |-> <<>>]

Everywhere == [addr |-> "router", selects |-> {rack, plain}]
OnRack == [addr |-> "top-of-rack", selects |-> {rack}]
MCPeer == {Everywhere, OnRack}

(* Both pools by BGP, aggregated; x by layer 2 and y unaggregated and      *)
(* aggregated, with a peer listed twice; x shrunk.                         *)
AllBgp == [peers |-> <<Everywhere, OnRack>>,
           pools |-> ("x" :> BgpPool({0, 1}, <<Ad(1, low)>>))
                     @@ ("y" :> BgpPool({2, 3}, <<Ad(1, low)>>))]
Mixed == [peers |-> <<OnRack, OnRack>>,
          pools |-> ("x" :> L2Pool({0, 1}))
                    @@ ("y" :> BgpPool({2, 3}, <<Ad(0, low), Ad(1, high)>>))]
Shrunk == [peers |-> <<Everywhere>>,
           pools |-> ("x" :> L2Pool({0}))
                     @@ ("y" :> BgpPool({2, 3}, <<Ad(1, high)>>))]
MCConfigs == {AllBgp, Mixed, Shrunk}

OnPod(pod, n) == [ip |-> pod, node |-> n]
Here == [ready |-> {OnPod("p1", n1)}, notReady |-> {}]
There == [ready |-> {OnPod("p2", n2)}, notReady |-> {OnPod("p3", None)}]
Both == [ready |-> {OnPod("p1", n1), OnPod("p2", n2)}, notReady |-> {}]
HalfReady == [ready |-> {OnPod("p1", n1)}, notReady |-> {OnPod("p3", n1)}]
MCEps == {Here, There, HalfReady}

(* s1 prefers node n1, s2 prefers n2.                                      *)
MCRank == (s1 :> (n1 :> 1 @@ n2 :> 2)) @@ (s2 :> (n1 :> 2 @@ n2 :> 1))

On(ip) == [LoadBalancer |-> TRUE, Local |-> FALSE, ip |-> ip]
LocalOn(ip) == [On(ip) EXCEPT !.Local = TRUE]
Inactive == [On(0) EXCEPT !.LoadBalancer = FALSE]
MCServices == (s1 :> {On(0), On(2), Inactive})
              @@ (s2 :> {On(1), LocalOn(3), On(NoIngress)})

MCSvc == {s1, s2}
MCV4 == 0..3
MCName == {"ns-s1", "ns-s2"}
MCNameOf == (s1 :> "ns-s1") @@ (s2 :> "ns-s2")

OnTheRack == [labels |-> rack, addr |-> addr1]
NoAddress == [labels |-> plain, addr |-> None]
MCNodes == {OnTheRack, NoAddress}

Running1(cfg) ==
    [services  |-> (s1 :> On(0)) @@ (s2 :> On(1)),
     endpoints |-> (s1 :> Both) @@ (s2 :> Here),
     configMap |-> cfg,
     node      |-> OnTheRack]
MCCluster == {Running1(AllBgp)}

FewEps == {Here, There}
FewNodes == {OnTheRack}

(* Two services that share an address, announced by layer 2.               *)
OnlyMixed == {Mixed}
SharedServices == [s \in MCSvc |-> {On(0)}]
SharedCluster == {[Running1(Mixed) EXCEPT !.services = [s \in MCSvc |-> On(0)],
                                          !.endpoints = [s \in MCSvc |-> Here]]}
=============================================================================
