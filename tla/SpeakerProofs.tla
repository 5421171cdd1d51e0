---------------------------- MODULE SpeakerProofs ----------------------------
(***************************************************************************)
(* What the speaker keeps, for any services, configurations, nodes and     *)
(* bounds.                                                                 *)
(***************************************************************************)
EXTENDS Speaker, SpeakerLemmas

-----------------------------------------------------------------------------
(***************************************************************************)
(* The invariants.                                                         *)
(***************************************************************************)

(* The cluster, with services in versions that they may have.              *)
ClusterType ==
    /\ cluster \in [services  : [Svc -> Service \cup {None}],
                    endpoints : [Svc -> EndpointsObject \cup {None}],
                    configMap : Configs \cup {Invalid, None},
                    node      : Nodes]
    /\ \A s \in Svc : cluster.services[s] # None => cluster.services[s] \in Versions(s)

(* What holds of any configuration.  Only the sessions of peers that       *)
(* select this node run, and no others are open; nothing is announced      *)
(* without a configuration; a node that was handled is known.              *)
Safe ==
    /\ ClusterType
    /\ up \in BOOLEAN
    /\ ControllerType(c)
    /\ ~up => c = NewController
    /\ c.config = None => \A s \in Svc : c.announced[s] = None
    /\ up /\ nodeKey \notin pending => NodeKnown(c.vpp, cluster.node.addr)

(* Service s is with the handler it should be with.                        *)
Placed(s) ==
    LET pool == Want(Me, c, s, ServiceSeen(s), cluster.endpoints[s])
    IN /\ c.announced[s] = IF pool = None THEN None ELSE pool.Protocol
       /\ pool # None /\ pool.Protocol = "bgp"
             => c.bgp.svcAds[s] = AdsOf(ServiceSeen(s).ip, pool)

(* What holds when Session.Set refuses nothing.                            *)
Following ==
    /\ Told(c.bgp)
    /\ Cfgs(c.bgp) = IF c.config = None THEN <<>> ELSE c.config.peers
    /\ InStep(c)
    /\ \A s \in Svc : Settled(s) => Placed(s)

(* Requests to announce do not fail, and layer 2 is steady.                *)
Layer2Assumed == Advertisable /\ SteadyLayer2 /\ ~AnnounceMayFail

(* A step keeps all of this.                                               *)
Keeps ==
    /\ Safe'
    /\ Advertisable /\ Following => Following'
    /\ Layer2Assumed /\ Layer2OK(c) => Layer2OK(c)'

(* Steps that leave the cluster and the controller as they are.            *)
LEMMA StillKeeps ==
    ASSUME Safe, c' = c, cluster' = cluster, up' = up,
           \A s \in Svc : svcKey(s) \in pending => svcKey(s) \in pending',
           nodeKey \in pending => nodeKey \in pending'
    PROVE  Keeps
<1>1. Safe'
  BY DEF Safe, ClusterType
<1>2. ASSUME NEW s \in Svc, Settled(s)'
      PROVE  Settled(s)
  BY <1>2 DEF Settled
<1>3. \A s \in Svc : Placed(s) => Placed(s)'
  BY DEF Placed, ServiceSeen
<1>4. Following => Following'
  BY <1>2, <1>3 DEF Following
<1>5. Layer2OK(c) => Layer2OK(c)'
  OBVIOUS
<1> QED
  BY Zenon, <1>1, <1>4, <1>5 DEF Keeps

(* Someone edits the cluster.                                              *)
LEMMA EditKeeps ==
    ASSUME Safe, NEW new, NEW k, Edit(new, k), ClusterType',
           new.node # cluster.node => k = nodeKey,
           \A s \in Svc : \/ k = svcKey(s)
                          \/ /\ new.services[s] = cluster.services[s]
                             /\ new.endpoints[s] = cluster.endpoints[s]
    PROVE  Keeps
<1>1. c' = c /\ up' = up /\ cluster' = new /\ (up => k \in pending' /\ pending \subseteq pending')
  BY DEF Edit
<1>2. Safe'
  <2>1. up' /\ nodeKey \notin pending' => NodeKnown(c.vpp, cluster.node.addr) /\ new.node = cluster.node
    BY <1>1 DEF Safe
  <2> QED
    BY <1>1, <2>1 DEF Safe
<1>3. ASSUME NEW s \in Svc, Settled(s)'
      PROVE  Settled(s) /\ (Placed(s) => Placed(s)')
  <2>1. up /\ svcKey(s) \notin pending /\ k # svcKey(s)
    BY <1>1, <1>3 DEF Settled
  <2>2. new.services[s] = cluster.services[s] /\ new.endpoints[s] = cluster.endpoints[s]
    BY <2>1
  <2>3. Placed(s) => Placed(s)'
    BY <1>1, <2>2 DEF Placed, ServiceSeen
  <2> QED
    BY <2>1, <2>3 DEF Settled
<1>4. Following => Following'
  BY <1>1, <1>3 DEF Following
<1> QED
  BY Zenon, <1>1, <1>2, <1>4 DEF Keeps

(* The edits of the users.                                                 *)
LEMMA UsersKeep ==
    ASSUME Safe,
           \/ \E s \in Svc : \/ \E o \in Services[s] \cup {None} : EditService(s, o)
                             \/ \E o \in Eps \cup {None} : EditEndpoints(s, o)
           \/ \E o \in Configs \cup {Invalid, None} : EditConfigMap(o)
           \/ \E o \in Nodes : EditNode(o)
    PROVE  Keeps
<1>1. /\ cluster \in [services  : [Svc -> Service \cup {None}],
                      endpoints : [Svc -> EndpointsObject \cup {None}],
                      configMap : Configs \cup {Invalid, None},
                      node      : Nodes]
      /\ \A s \in Svc : cluster.services[s] # None => cluster.services[s] \in Versions(s)
  BY DEF Safe, ClusterType
<1>2. ASSUME NEW s \in Svc, NEW o \in Services[s] \cup {None}, EditService(s, o)
      PROVE  Keeps
  <2> DEFINE sv == [cluster.services EXCEPT ![s] = o]
             new == [cluster EXCEPT !.services[s] = o]
  <2>1. o \in Service \cup {None} /\ (o # None => o \in Versions(s))
    BY SpeakerAssumption DEF Versions
  <2>2. /\ sv \in [Svc -> Service \cup {None}]
        /\ sv[s] = o /\ \A t \in Svc \ {s} : sv[t] = cluster.services[t]
    BY <1>1, <2>1
  <2>3. new = [services |-> sv, endpoints |-> cluster.endpoints,
               configMap |-> cluster.configMap, node |-> cluster.node]
    BY <1>1
  <2>4. Edit(new, svcKey(s))
    BY <1>2 DEF EditService
  <2> HIDE DEF new, sv
  <2>5. /\ new.services = sv /\ new.endpoints = cluster.endpoints /\ new.node = cluster.node
        /\ new \in [services  : [Svc -> Service \cup {None}],
                    endpoints : [Svc -> EndpointsObject \cup {None}],
                    configMap : Configs \cup {Invalid, None},
                    node      : Nodes]
    BY Zenon, <1>1, <2>2, <2>3
  <2>6. ClusterType'
    BY Zenon, <1>1, <2>1, <2>2, <2>4, <2>5 DEF ClusterType, Edit
  <2> QED
    BY Zenon, <2>2, <2>4, <2>5, <2>6, EditKeeps
<1>3. ASSUME NEW s \in Svc, NEW o \in Eps \cup {None}, EditEndpoints(s, o)
      PROVE  Keeps
  <2> DEFINE ep == [cluster.endpoints EXCEPT ![s] = o]
             new == [cluster EXCEPT !.endpoints[s] = o]
  <2>1. o \in EndpointsObject \cup {None}
    BY SpeakerAssumption
  <2>2. /\ ep \in [Svc -> EndpointsObject \cup {None}]
        /\ \A t \in Svc \ {s} : ep[t] = cluster.endpoints[t]
    BY <1>1, <2>1
  <2>3. new = [services |-> cluster.services, endpoints |-> ep,
               configMap |-> cluster.configMap, node |-> cluster.node]
    BY <1>1
  <2>4. Edit(new, svcKey(s))
    BY <1>3 DEF EditEndpoints
  <2> HIDE DEF new, ep
  <2>5. /\ new.services = cluster.services /\ new.endpoints = ep /\ new.node = cluster.node
        /\ new \in [services  : [Svc -> Service \cup {None}],
                    endpoints : [Svc -> EndpointsObject \cup {None}],
                    configMap : Configs \cup {Invalid, None},
                    node      : Nodes]
    BY <1>1, <2>2, <2>3
  <2>6. ClusterType'
    BY Zenon, <1>1, <2>4, <2>5 DEF ClusterType, Edit
  <2> QED
    BY SMTT(30), <2>2, <2>4, <2>5, <2>6, EditKeeps
<1>4. ASSUME NEW o \in Configs \cup {Invalid, None}, EditConfigMap(o)
      PROVE  Keeps
  <2> DEFINE new == [cluster EXCEPT !.configMap = o]
  <2>1. Edit(new, cmKey)
    BY <1>4 DEF EditConfigMap
  <2>2. /\ new.services = cluster.services /\ new.endpoints = cluster.endpoints
        /\ new.node = cluster.node
        /\ new \in [services  : [Svc -> Service \cup {None}],
                    endpoints : [Svc -> EndpointsObject \cup {None}],
                    configMap : Configs \cup {Invalid, None},
                    node      : Nodes]
    BY <1>1
  <2> HIDE DEF new
  <2>3. ClusterType'
    BY Zenon, <1>1, <2>1, <2>2 DEF ClusterType, Edit
  <2> QED
    BY Zenon, <2>1, <2>2, <2>3, EditKeeps
<1>5. ASSUME NEW o \in Nodes, EditNode(o)
      PROVE  Keeps
  <2> DEFINE new == [cluster EXCEPT !.node = o]
  <2>1. Edit(new, nodeKey)
    BY <1>5 DEF EditNode
  <2>2. /\ new.services = cluster.services /\ new.endpoints = cluster.endpoints
        /\ new \in [services  : [Svc -> Service \cup {None}],
                    endpoints : [Svc -> EndpointsObject \cup {None}],
                    configMap : Configs \cup {Invalid, None},
                    node      : Nodes]
    BY <1>1
  <2> HIDE DEF new
  <2>3. ClusterType'
    BY Zenon, <1>1, <2>1, <2>2 DEF ClusterType, Edit
  <2> QED
    BY Zenon, <2>1, <2>2, <2>3, EditKeeps
<1> QED
  BY Zenon, <1>2, <1>3, <1>4, <1>5

(* The keys of services are not the others.                                *)
LEMMA KeysDiffer == \A s, t : svcKey(s) # cmKey /\ svcKey(s) # nodeKey /\ (svcKey(s) = svcKey(t) => s = t)
BY DEF svcKey, cmKey, nodeKey

(* It holds in the beginning.                                              *)
LEMMA InitKeeps ==
    ASSUME Init
    PROVE  Safe /\ Following /\ Layer2OK(c)
<1>1. ClusterType
  <2>1. cluster \in [services  : [Svc -> Service \cup {None}],
                     endpoints : [Svc -> EndpointsObject \cup {None}],
                     configMap : Configs \cup {Invalid, None},
                     node      : Nodes]
    BY SpeakerAssumption DEF Init
  <2> QED
    BY <2>1 DEF ClusterType, Init, Versions
<1>2. c = NewController /\ up = FALSE
  BY DEF Init
<1>3. Safe
  BY Zenon, <1>1, <1>2, NewControllerEffect DEF Safe
<1>4. Following
  BY <1>2, NewControllerEffect DEF Following, Settled
<1> QED
  BY Zenon, <1>2, <1>3, <1>4, NewControllerEffect

(* The process starts.                                                     *)
LEMMA StartKeeps ==
    ASSUME Safe, Start
    PROVE  Keeps
<1>1. c = NewController /\ c' = c /\ cluster' = cluster /\ up' = TRUE /\ nodeKey \in pending'
  BY DEF Safe, Start
<1>2. Safe'
  BY <1>1 DEF Safe, ClusterType
<1>3. ASSUME NEW s \in Svc, Settled(s)'
      PROVE  Placed(s)'
  <2>1. cluster.services[s] = None
    BY <1>3 DEF Settled, Start
  <2>2. ServiceSeen(s)' = None
    BY <1>1, <2>1 DEF ServiceSeen
  <2>3. c'.announced[s] = None
    BY <1>1, NewControllerEffect
  <2> QED
    BY <2>2, <2>3 DEF Placed, Want
<1>4. Following'
  BY Zenon, <1>1, <1>3, NewControllerEffect DEF Following
<1>5. Layer2OK(c)'
  BY <1>1, NewControllerEffect
<1> QED
  BY Zenon, <1>2, <1>4, <1>5 DEF Keeps

(* The process dies.                                                       *)
LEMMA CrashKeeps ==
    ASSUME Safe, Crash
    PROVE  Keeps
<1>1. c' = NewController /\ cluster' = cluster /\ up' = FALSE
  BY DEF Crash
<1>2. Safe'
  BY Zenon, <1>1, NewControllerEffect DEF Safe, ClusterType
<1>3. Following'
  BY <1>1, NewControllerEffect DEF Following, Settled
<1>4. Layer2OK(c)'
  BY <1>1, NewControllerEffect
<1> QED
  BY Zenon, <1>2, <1>3, <1>4 DEF Keeps

(* The worker handles a service.                                           *)
LEMMA SetBalancerKeeps ==
    ASSUME Safe, NEW s \in Svc, SetBalancer(s)
    PROVE  Keeps
<1>1. PICK r \in setBalancer(Me, c, etcd, s, ServiceSeen(s), cluster.endpoints[s]) :
        /\ ~r.ok /\ r.failures > 0 => AnnounceMayFail
        /\ Apply(r)
        /\ Finish(svcKey(s), r.ok)
  BY DEF SetBalancer
<1>2. /\ c' = r.c /\ cluster' = cluster /\ up /\ up'
      /\ pending' = IF r.ok THEN pending \ {svcKey(s)} ELSE pending
      /\ svcKey(s) \in pending
  BY <1>1 DEF SetBalancer, Apply, Finish, Get, Safe
<1>3. /\ ServiceSeen(s) \in Service \cup {None}
      /\ ServiceSeen(s) # None => ServiceSeen(s) \in Versions(s)
  BY DEF Safe, ClusterType, ServiceSeen
<1> DEFINE pool == Want(Me, c, s, ServiceSeen(s), cluster.endpoints[s])
<1>4. /\ ForService(c, r, s)
      /\ r.ok => /\ r.c.announced[s] = IF pool = None THEN None ELSE pool.Protocol
                 /\ pool # None /\ pool.Protocol = "bgp"
                        => r.c.bgp.svcAds[s] = AdsOf(ServiceSeen(s).ip, pool)
      /\ c.config = None => r.c.announced[s] = None
  BY <1>3, setBalancerEffect DEF Safe
<1>5. ControllerType(r.c) /\ r.c.config = c.config /\ Cfgs(r.c.bgp) = Cfgs(c.bgp)
  BY <1>4 DEF ForService
<1>6. Safe'
  <2>1. up' /\ nodeKey \notin pending' => NodeKnown(r.c.vpp, cluster.node.addr)
    <3>1. nodeKey \notin pending' => nodeKey \notin pending
      BY <1>2, KeysDiffer
    <3>2. r.c.vpp.ipAddr = c.vpp.ipAddr /\ r.c.vpp.ethIfcs = c.vpp.ethIfcs
      BY <1>4 DEF ForService
    <3> QED
      BY Zenon, <1>2, <3>1, <3>2 DEF Safe, NodeKnown
  <2>2. r.c.config = None => \A t \in Svc : r.c.announced[t] = None
    BY <1>4, <1>5 DEF Safe, ForService
  <2>3. ClusterType'
    BY <1>2 DEF Safe, ClusterType
  <2> QED
    BY Zenon, <1>2, <1>5, <2>1, <2>2, <2>3 DEF Safe
<1>7. ASSUME Advertisable, Following
      PROVE  Following'
  <2>1. Told(r.c.bgp) /\ InStep(r.c)
    BY <1>4, <1>7 DEF ForService, Following
  <2>2. Cfgs(r.c.bgp) = IF r.c.config = None THEN <<>> ELSE r.c.config.peers
    BY Zenon, <1>5, <1>7 DEF Following
  <2>3. \A t \in Svc : /\ Want(Me, r.c, t, ServiceSeen(t), cluster.endpoints[t])
                             = Want(Me, c, t, ServiceSeen(t), cluster.endpoints[t])
                       /\ ServiceSeen(t)' = ServiceSeen(t)
    BY SMTT(30), <1>2, <1>5, WantSame DEF ServiceSeen
  <2>4. ASSUME NEW t \in Svc, Settled(t)'
        PROVE  Placed(t)'
    <3>1. CASE t = s
      <4>1. r.ok
        BY Zenon, <1>2, <2>4, <3>1 DEF Settled
      <4> QED
        BY Zenon, <1>2, <1>4, <2>3, <3>1, <4>1 DEF Placed
    <3>2. CASE t # s
      <4>1. Settled(t)
        BY Zenon, <1>2, <2>4, <3>2, KeysDiffer DEF Settled
      <4>2. Placed(t)
        BY <1>7, <4>1 DEF Following
      <4>3. r.c.announced[t] = c.announced[t] /\ r.c.bgp.svcAds[t] = c.bgp.svcAds[t]
        BY <1>4, <3>2 DEF ForService
      <4> QED
        BY Zenon, <1>2, <2>3, <4>2, <4>3 DEF Placed
    <3> QED
      BY <3>1, <3>2
  <2> QED
    BY Zenon, <1>2, <2>1, <2>2, <2>4 DEF Following
<1>8. ASSUME Layer2Assumed, Layer2OK(c)
      PROVE  Layer2OK(r.c)
  <2>1. r.ok
    BY Zenon, <1>1, <1>4, <1>8 DEF Layer2Assumed, ForService
  <2> QED
    BY Zenon, <1>4, <1>8, <2>1 DEF Layer2Assumed, ForService
<1> QED
  BY Zenon, <1>2, <1>6, <1>7, <1>8 DEF Keeps

(* The worker handles the configuration.                                   *)
LEMMA SetConfigKeeps ==
    ASSUME Safe, SetConfig
    PROVE  Keeps
<1>1. cluster.configMap \in Configs /\ up /\ up' /\ cluster' = cluster
  BY DEF SetConfig, Get, Safe
<1>2. PICK r \in setConfig(c, etcd, cluster.configMap) :
        /\ Apply(r)
        /\ pending' = (pending \ {cmKey}) \cup
               {svcKey(s) : s \in {t \in Svc : r.ok /\ cluster.services[t] # None}}
  BY DEF SetConfig
<1>3. c' = r.c
  BY <1>2 DEF Apply
<1>4. Reconfigured(c, r, cluster.configMap)
  BY <1>1, setConfigEffect DEF Safe
<1>5. Alike(c, r.c) /\ ControllerType(r.c) /\ r.c.announced = c.announced
  BY <1>4 DEF Reconfigured, Alike
<1>6. cluster.configMap # None
  BY Zenon, <1>1, SpeakerAssumption
<1>7. Safe'
  <2>1. up' /\ nodeKey \notin pending' => NodeKnown(r.c.vpp, cluster.node.addr)
    <3>1. nodeKey \notin pending' => nodeKey \notin pending
      BY <1>2 DEF nodeKey, cmKey
    <3>2. r.c.vpp = c.vpp
      BY <1>4 DEF Reconfigured
    <3> QED
      BY Zenon, <1>1, <3>1, <3>2 DEF Safe
  <2>2. r.c.config = None => \A t \in Svc : r.c.announced[t] = None
    <3>1. r.c.config = None => c.config = None
      BY <1>4, <1>6 DEF Reconfigured
    <3> QED
      BY Zenon, <1>5, <3>1 DEF Safe
  <2>3. ClusterType'
    BY <1>1 DEF Safe, ClusterType
  <2> QED
    BY Zenon, <1>1, <1>3, <1>5, <2>1, <2>2, <2>3 DEF Safe
<1>8. ASSUME Advertisable, Following
      PROVE  Following'
  <2>1. Told(r.c.bgp)
    BY Zenon, <1>5, <1>8 DEF Alike, Following
  <2>2. InStep(r.c)
    BY <1>5, <1>8 DEF Alike, Following, InStep
  <2>3. Cfgs(r.c.bgp) = IF r.c.config = None THEN <<>> ELSE r.c.config.peers
    BY Zenon, <1>4, <1>6, <1>8 DEF Reconfigured, Following
  <2>4. ASSUME NEW t \in Svc, Settled(t)'
        PROVE  Placed(t)'
    <3>1. svcKey(t) \notin pending /\ (r.ok => cluster.services[t] = None)
      BY Zenon, <1>2, <2>4, KeysDiffer DEF Settled
    <3>2. Placed(t)
      BY Zenon, <1>1, <1>8, <3>1 DEF Following, Settled
    <3>3. CASE r.ok
      <4>1. ServiceSeen(t) = None /\ ServiceSeen(t)' = None
        BY Zenon, <1>1, <3>1, <3>3 DEF ServiceSeen
      <4>2. c.announced[t] = None
        BY Zenon, <3>2, <4>1 DEF Placed, Want
      <4>3. c'.announced[t] = None
        BY Zenon, <1>3, <1>5, <4>2
      <4> QED
        BY Zenon, <4>1, <4>3 DEF Placed, Want
    <3>4. CASE ~r.ok
      <4>1. c' = c
        BY Zenon, <1>3, <1>4, <1>8, <3>4 DEF Reconfigured
      <4> QED
        BY Zenon, <1>1, <3>2, <4>1 DEF Placed, ServiceSeen
    <3> QED
      BY Zenon, <3>3, <3>4
  <2> QED
    BY Zenon, <1>3, <2>1, <2>2, <2>3, <2>4 DEF Following
<1>9. Layer2OK(c) => Layer2OK(r.c)
  BY <1>5 DEF Alike, Layer2OK
<1> QED
  BY Zenon, <1>3, <1>7, <1>8, <1>9 DEF Keeps

(* The worker handles the node.                                            *)
LEMMA SetNodeKeeps ==
    ASSUME Safe, SetNode
    PROVE  Keeps
<1>1. up /\ up' /\ cluster' = cluster
  BY DEF SetNode, Get, Safe
<1>2. cluster.node \in NodeObject
  BY SpeakerAssumption DEF Safe, ClusterType
<1>3. PICK r \in setNode(c, etcd, cluster.node) : Apply(r) /\ Finish(nodeKey, r.ok)
  BY DEF SetNode
<1>4. c' = r.c /\ pending' = IF r.ok THEN pending \ {nodeKey} ELSE pending
  BY <1>3 DEF Apply, Finish
<1>5. /\ Alike(c, r.c) /\ r.c.config = c.config /\ Cfgs(r.c.bgp) = Cfgs(c.bgp)
      /\ r.ok => NodeKnown(r.c.vpp, cluster.node.addr)
  BY <1>2, setNodeEffect DEF Safe
<1>6. ControllerType(r.c) /\ r.c.announced = c.announced /\ r.c.bgp.svcAds = c.bgp.svcAds
  BY <1>5 DEF Alike
<1>7. Safe'
  <2>1. nodeKey \notin pending' => r.ok
    BY <1>4 DEF SetNode, Get
  <2>2. ClusterType'
    BY <1>1 DEF Safe, ClusterType
  <2>3. r.c.config = None => \A t \in Svc : r.c.announced[t] = None
    BY <1>5, <1>6 DEF Safe
  <2> QED
    BY Zenon, <1>1, <1>4, <1>5, <1>6, <2>1, <2>2, <2>3 DEF Safe
<1>8. ASSUME Advertisable, Following
      PROVE  Following'
  <2>1. Told(r.c.bgp)
    BY <1>5, <1>8 DEF Alike, Following
  <2>2. InStep(r.c)
    BY <1>6, <1>8 DEF Following, InStep
  <2>3. Cfgs(r.c.bgp) = IF r.c.config = None THEN <<>> ELSE r.c.config.peers
    BY <1>5, <1>8 DEF Following
  <2>4. ASSUME NEW t \in Svc, Settled(t)'
        PROVE  Placed(t)'
    <3>1. svcKey(t) \notin pending
      BY Zenon, <1>4, <2>4, KeysDiffer DEF Settled
    <3>2. Placed(t)
      BY Zenon, <1>1, <1>8, <3>1 DEF Following, Settled
    <3>3. ServiceSeen(t)' = ServiceSeen(t)
      BY <1>1 DEF ServiceSeen
    <3>4. Want(Me, r.c, t, ServiceSeen(t), cluster.endpoints[t])
            = Want(Me, c, t, ServiceSeen(t), cluster.endpoints[t])
      BY <1>5, WantSame
    <3> QED
      BY Zenon, <1>1, <1>4, <1>6, <3>2, <3>3, <3>4 DEF Placed
  <2> QED
    BY Zenon, <1>4, <2>1, <2>2, <2>3, <2>4 DEF Following
<1>9. Layer2OK(c) => Layer2OK(r.c)
  BY <1>5 DEF Alike, Layer2OK
<1> QED
  BY Zenon, <1>4, <1>7, <1>8, <1>9 DEF Keeps

(* The lease is renewed.                                                   *)
LEMMA RenewKeeps ==
    ASSUME Safe, Renew
    PROVE  Keeps
<1>1. PICK r \in RenewLease(c.vpp, etcd) : Apply([c |-> [c EXCEPT !.vpp = r.v],
                                                  e |-> r.e, failures |-> r.failures])
  BY Zenon DEF Renew
<1>2. r.v = c.vpp
  BY DEF RenewLease, updateProxyArp
<1>3. c' = [c EXCEPT !.vpp = c.vpp]
  BY <1>1, <1>2 DEF Apply
<1>4. c' = c
  BY <1>3 DEF Safe, ControllerType
<1> QED
  BY <1>4, StillKeeps DEF Renew

(* Every step keeps it.                                                    *)
LEMMA NextKeeps ==
    ASSUME Safe, [Next]_vars
    PROVE  Keeps
<1>1. CASE SetConfigInvalid
  <2>1. \A s \in Svc : svcKey(s) \in pending => svcKey(s) \in pending'
    BY <1>1, KeysDiffer DEF SetConfigInvalid
  <2>2. nodeKey \in pending => nodeKey \in pending'
    BY <1>1 DEF SetConfigInvalid, nodeKey, cmKey
  <2> QED
    BY Zenon, <1>1, <2>1, <2>2, StillKeeps DEF SetConfigInvalid
<1>2. CASE Expire
  BY <1>2, StillKeeps DEF Expire
<1>3. CASE UNCHANGED vars
  BY <1>3, StillKeeps DEF vars
<1> QED
  BY Zenon, <1>1, <1>2, <1>3, SetBalancerKeeps, SetConfigKeeps, SetNodeKeeps, RenewKeeps, StartKeeps,
     CrashKeeps, UsersKeep DEF Next

-----------------------------------------------------------------------------
(***************************************************************************)
(* The theorems.                                                           *)
(***************************************************************************)

(* The inductive invariant: what holds whatever the configurations, what   *)
(* holds when Session.Set refuses nothing, and what holds of layer 2.      *)
SpeakerInv ==
    /\ Safe
    /\ Advertisable => Following
    /\ Layer2Assumed => Layer2OK(c)

(* The invariant holds in every state, for every set of services, nodes,   *)
(* configurations and versions, and every bound on edits, crashes and      *)
(* failed requests.                                                        *)
THEOREM SpeakerInvariant == Spec => []SpeakerInv
<1>1. Init => SpeakerInv
  BY InitKeeps DEF SpeakerInv
<1>2. SpeakerInv /\ [Next]_vars => SpeakerInv'
  BY NextKeeps DEF SpeakerInv, Keeps
<1> QED
  BY <1>1, <1>2, PTL DEF Spec

(* The sessions that run are those of the peers that select this node, and *)
(* no other is open.                                                       *)
SessionsChosen ==
    /\ Running(c.bgp) = {i \in DOMAIN c.bgp.peers :
                             shouldRun(c.bgp.peers[i].cfg, c.bgp.nodeLabels)}
    /\ \A p \in Peer : c.bgp.open[p] = Count(c.bgp, Running(c.bgp), p)

(* syncPeers and SetConfig of the BGP handler lose and leak no session,    *)
(* whether Session.Set refuses advertisements or not.                      *)
THEOREM SpeakerSessionsChosen == Spec => []SessionsChosen
<1>1. SpeakerInv => SessionsChosen
  BY DEF SpeakerInv, Safe, ControllerType, Chosen, Opened, Selected, SessionsChosen
<1> QED
  BY <1>1, SpeakerInvariant, PTL

(* The BGP handler has the peers of the configuration in force, and a      *)
(* session for each that selects this node, and no other.                  *)
THEOREM SpeakerSessionsMatch ==
    ASSUME Advertisable
    PROVE  Spec => []SessionsMatch
<1>1. SpeakerInv => SessionsMatch
  <2> SUFFICES ASSUME SpeakerInv
               PROVE  SessionsMatch
    OBVIOUS
  <2>1. SessionsChosen
    BY DEF SpeakerInv, Safe, ControllerType, Chosen, Opened, Selected, SessionsChosen
  <2>2. Cfgs(c.bgp) = IF c.config = None THEN <<>> ELSE c.config.peers
    BY DEF SpeakerInv, Following
  <2> QED
    BY Zenon, <2>1, <2>2 DEF SessionsMatch, SessionsChosen, Cfgs
<1> QED
  BY <1>1, SpeakerInvariant, PTL

(* All sessions are told the same, the routes of the present               *)
(* advertisements.                                                         *)
THEOREM SpeakerPeersTold ==
    ASSUME Advertisable
    PROVE  Spec => []PeersTold
<1>1. SpeakerInv => PeersTold
  BY DEF SpeakerInv, Following, Told, PeersTold
<1> QED
  BY <1>1, SpeakerInvariant, PTL

(* Of a service that was handled, the BGP handler has the advertisements   *)
(* that the service and the configuration in force call for, and the       *)
(* controller's record of the protocol is right.                           *)
BgpAsWanted ==
    \A s \in Svc : Settled(s) =>
        /\ c.announced[s] = IF WantedPool(s) = None THEN None ELSE WantedPool(s).Protocol
        /\ c.bgp.svcAds[s] = IF WantedBy(s, "bgp")
                             THEN AdsOf(cluster.services[s].ip, WantedPool(s)) ELSE None

(* The wanted pool is the one that setBalancer finds.                      *)
LEMMA WantedIsWant ==
    \A s : WantedPool(s) = Want(Me, c, s, ServiceSeen(s), cluster.endpoints[s])
BY DEF WantedPool, Want

(* A service whose pool is wanted has the address that is looked at.       *)
LEMMA WantedSeen ==
    ASSUME NEW s, WantedPool(s) # None
    PROVE  ServiceSeen(s) = cluster.services[s] /\ ServiceSeen(s) # None /\ c.config # None
BY DEF WantedPool, ServiceSeen

(* What follows of one state for BGP.                                      *)
LEMMA BgpPlaced ==
    ASSUME Safe, Following
    PROVE  BgpAsWanted
<1> SUFFICES ASSUME NEW s \in Svc, Settled(s)
             PROVE  /\ c.announced[s] = IF WantedPool(s) = None THEN None
                                        ELSE WantedPool(s).Protocol
                    /\ c.bgp.svcAds[s] = IF WantedBy(s, "bgp")
                             THEN AdsOf(cluster.services[s].ip, WantedPool(s)) ELSE None
  BY DEF BgpAsWanted
<1>1. Placed(s)
  BY DEF Following
<1>2. /\ c.announced[s] = IF WantedPool(s) = None THEN None ELSE WantedPool(s).Protocol
      /\ WantedBy(s, "bgp") => c.bgp.svcAds[s] = AdsOf(ServiceSeen(s).ip, WantedPool(s))
  BY <1>1, WantedIsWant DEF Placed, WantedBy
<1>3. None # "bgp"
  BY SpeakerAssumption DEF Protocol
<1>4. c.announced[s] = "bgp" <=> c.bgp.svcAds[s] # None
  BY DEF Following, InStep
<1>5. CASE WantedBy(s, "bgp")
  <2>1. ServiceSeen(s) = cluster.services[s]
    BY <1>5, WantedSeen DEF WantedBy
  <2> QED
    BY <1>2, <1>5, <2>1
<1>6. CASE ~WantedBy(s, "bgp")
  <2>1. c.announced[s] # "bgp"
    BY <1>2, <1>3, <1>6 DEF WantedBy
  <2> QED
    BY Zenon, <1>2, <1>4, <1>6, <2>1
<1> QED
  BY <1>5, <1>6

(* Once handled, a service is with BGP if it should be, with the right     *)
(* advertisements, and not otherwise; failing requests of the other        *)
(* handler, edits and restarts make no difference.                         *)
THEOREM SpeakerBgpAsWanted ==
    ASSUME Advertisable
    PROVE  Spec => []BgpAsWanted
<1>1. SpeakerInv => BgpAsWanted
  BY BgpPlaced DEF SpeakerInv
<1> QED
  BY <1>1, SpeakerInvariant, PTL

(* Nothing is left behind when requests to announce do not fail.           *)
NothingLeft == left = {}

(* It stays so in every behaviour.                                         *)
LEMMA NothingIsLeft ==
    ASSUME ~AnnounceMayFail
    PROVE  Spec => []NothingLeft
<1>1. Init => NothingLeft
  BY Zenon DEF Init, NothingLeft
<1>2. NothingLeft /\ [Next]_vars => NothingLeft'
  <2> SUFFICES ASSUME left = {}, [Next]_vars
               PROVE  left' = {}
    BY Zenon DEF NothingLeft
  <2>1. ASSUME NEW s \in Svc, SetBalancer(s)
        PROVE  left' = {}
    <3>1. PICK r : /\ ~r.ok /\ r.failures > 0 => AnnounceMayFail
                   /\ left' = IF ~r.ok /\ r.failures > 0 THEN left \cup {s}
                              ELSE IF r.c.announced[s] = "layer2" THEN left \ {s} ELSE left
      BY Zenon, <2>1 DEF SetBalancer
    <3>2. left' = left \ {s} \/ left' = left
      BY Zenon, <3>1
    <3> QED
      BY <3>2
  <2>2. ASSUME \/ SetConfig \/ SetConfigInvalid \/ SetNode \/ Renew \/ Expire \/ Start \/ Crash
               \/ UNCHANGED vars
        PROVE  left' = {}
    BY Zenon, <2>2 DEF SetConfig, SetConfigInvalid, SetNode, Renew, Expire, Start, Crash, vars
  <2>3. ASSUME NEW new, NEW k, Edit(new, k)
        PROVE  left' = {}
    BY Zenon, <2>3 DEF Edit
  <2> QED
    BY Zenon, <2>1, <2>2, <2>3 DEF Next, EditService, EditEndpoints, EditConfigMap, EditNode
<1> QED
  BY <1>1, <1>2, PTL DEF Spec

(* Once handled, a service is with the handler of its pool's protocol,     *)
(* under its address, and with no other, if layer 2 addresses are steady   *)
(* and requests to announce do not fail; and nothing is left behind then.  *)
THEOREM SpeakerAnnouncedAsWanted ==
    ASSUME Advertisable, SteadyLayer2, ~AnnounceMayFail
    PROVE  Spec => [](AnnouncedAsWanted /\ NothingLeft)
<1>1. SpeakerInv => AnnouncedAsWanted
  <2> SUFFICES ASSUME SpeakerInv, NEW s \in Svc, Settled(s)
               PROVE  /\ c.announced[s] = IF WantedPool(s) = None THEN None
                                          ELSE WantedPool(s).Protocol
                      /\ c.bgp.svcAds[s] = IF WantedBy(s, "bgp")
                             THEN AdsOf(cluster.services[s].ip, WantedPool(s)) ELSE None
                      /\ c.vpp.ips[NameOf[s]] = IF WantedBy(s, "layer2")
                                                THEN cluster.services[s].ip ELSE None
    BY Zenon DEF AnnouncedAsWanted
  <2>1. Safe /\ Following /\ Layer2OK(c)
    BY DEF SpeakerInv, Layer2Assumed
  <2>2. /\ c.announced[s] = IF WantedPool(s) = None THEN None ELSE WantedPool(s).Protocol
        /\ c.bgp.svcAds[s] = IF WantedBy(s, "bgp")
                             THEN AdsOf(cluster.services[s].ip, WantedPool(s)) ELSE None
    BY <2>1, BgpPlaced DEF BgpAsWanted
  <2>3. None # "layer2"
    BY SpeakerAssumption DEF Protocol
  <2>4. c.vpp.ips[NameOf[s]] = IF c.announced[s] = "layer2" THEN c.svcIP[s] ELSE None
    BY <2>1 DEF Layer2OK
  <2>5. ASSUME WantedBy(s, "layer2")
        PROVE  c.announced[s] = "layer2" /\ c.svcIP[s] = cluster.services[s].ip
    <3> DEFINE svc == ServiceSeen(s)
    <3>1. c.announced[s] = "layer2"
      BY <2>2, <2>5 DEF WantedBy
    <3>2. c.svcIP[s] \in Layer2Addrs(s)
      BY <2>1, <3>1 DEF Layer2OK
    <3>3. svc = cluster.services[s] /\ svc # None /\ c.config # None
      BY <2>5, WantedSeen DEF WantedBy
    <3>4. svc \in Service /\ svc \in Versions(s) /\ c.config \in Configs
      BY <2>1, <3>3 DEF Safe, ClusterType, ControllerType
    <3>5. PoolOf(c, svc) # None /\ c.config.pools[PoolOf(c, svc)].Protocol = "layer2"
      BY <2>5 DEF WantedBy, WantedPool
    <3>6. svc.ip \in Layer2Addrs(s)
      BY Zenon, <3>4, <3>5, PoolOfLayer2
    <3> QED
      BY SMTT(30), <3>1, <3>2, <3>3, <3>6 DEF SteadyLayer2
  <2>6. ~WantedBy(s, "layer2") => c.announced[s] # "layer2"
    BY Zenon, <2>2, <2>3 DEF WantedBy
  <2> QED
    BY Zenon, <2>2, <2>4, <2>5, <2>6
<1> QED
  BY <1>1, SpeakerInvariant, NothingIsLeft, PTL

(* A pool does not advertise with one aggregation length twice, unless     *)
(* with the same local preference and communities.                         *)
OnePath ==
    \A cfg \in Configs : \A p \in PoolsOf(cfg) : \A j, k \in DOMAIN p.ads :
        p.ads[j].host = p.ads[k].host => p.ads[j].path = p.ads[k].path

(* The advertisements of a service that was handled are those of a pool of *)
(* the configuration in force, for an address of this pool.                *)
LEMMA AdvertisedBy ==
    ASSUME Safe, Following, NEW s \in Svc, Settled(s), c.bgp.svcAds[s] # None
    PROVE  /\ c.config \in Configs
           /\ \E n \in DOMAIN c.config.pools : \E ip \in c.config.pools[n].addrs :
                 c.bgp.svcAds[s] = AdsOf(ip, c.config.pools[n])
<1> DEFINE svc == ServiceSeen(s)
           n == PoolOf(c, svc)
           pool == c.config.pools[n]
<1>1. WantedBy(s, "bgp") /\ c.bgp.svcAds[s] = AdsOf(cluster.services[s].ip, WantedPool(s))
  BY BgpPlaced DEF BgpAsWanted
<1>2. svc = cluster.services[s] /\ svc # None /\ c.config # None
  BY <1>1, WantedSeen DEF WantedBy
<1>3. svc \in Service /\ c.config \in Configs
  BY <1>2 DEF Safe, ClusterType, ControllerType
<1>4. n # None /\ WantedPool(s) = pool
  BY <1>1 DEF WantedBy, WantedPool
<1>5. n \in DOMAIN c.config.pools /\ svc.ip \in pool.addrs
  BY Zenon, <1>3, <1>4, PoolOfEffect
<1> HIDE DEF n, svc
<1>6. c.bgp.svcAds[s] = AdsOf(svc.ip, pool)
  BY Zenon, <1>1, <1>2, <1>4
<1> QED
  BY Zenon, <1>3, <1>5, <1>6

(* The pool advertises aggregate p, with aggregation length h.             *)
Aggregates(pool, h, p) ==
    \E i \in pool.addrs, j \in DOMAIN pool.ads : pool.ads[j].host = h /\ Mask(i, h) = p

(* An aggregate is of one pool and one length.                             *)
OnePool(pools) ==
    \A m, n \in DOMAIN pools : \A g, h, p :
        p # None /\ Aggregates(pools[m], g, p) /\ Aggregates(pools[n], h, p) => m = n /\ g = h

(* It is in every configuration: pools do not overlap and do not aggregate *)
(* beyond themselves.                                                      *)
LEMMA ConfigOnePool ==
    ASSUME NEW cfg \in Configs
    PROVE  OnePool(cfg.pools)
<1> DEFINE pools == cfg.pools
<1> SUFFICES ASSUME NEW m \in DOMAIN pools, NEW n \in DOMAIN pools, NEW g, NEW h, NEW p,
                    p # None, Aggregates(pools[m], g, p), Aggregates(pools[n], h, p)
             PROVE  m = n /\ g = h
  BY DEF OnePool
<1>1. PICK i \in pools[m].addrs, j \in DOMAIN pools[m].ads :
        pools[m].ads[j].host = g /\ Mask(i, g) = p
  BY Zenon DEF Aggregates
<1>2. PICK q \in pools[n].addrs, k \in DOMAIN pools[n].ads :
        pools[n].ads[k].host = h /\ Mask(q, h) = p
  BY Zenon DEF Aggregates
<1>3. i \notin V6 /\ q \notin V6 /\ g = h
  BY <1>1, <1>2 DEF Mask
<1>4. pools[n] \in Pool
  BY SpeakerAssumption
<1>5. q \in V4
  BY <1>3, <1>4 DEF Pool, IP
<1>6. Mask(i, pools[m].ads[j].host) = Mask(q, pools[m].ads[j].host)
  BY <1>1, <1>2, <1>3
<1>7. q \in pools[m].addrs
  BY Zenon, <1>5, <1>6, SpeakerAssumption
<1>8. m = n
  BY <1>7, SpeakerAssumption
<1> QED
  BY <1>3, <1>8

(* With all services handled, no two advertisements of one prefix differ   *)
(* in their paths.                                                         *)
THEOREM SpeakerNoConflict ==
    ASSUME Advertisable, OnePath
    PROVE  Spec => []NoConflict
<1>1. SpeakerInv => NoConflict
  <2> SUFFICES ASSUME SpeakerInv, \A s \in Svc : Settled(s),
                      NEW x \in AllAds(c.bgp.svcAds), NEW y \in AllAds(c.bgp.svcAds),
                      x.prefix = y.prefix
               PROVE  x.path = y.path
    BY DEF NoConflict
  <2> DEFINE pools == c.config.pools
  <2>1. Safe /\ Following /\ BgpType(c.bgp, Advertisement)
    BY DEF SpeakerInv, Safe, ControllerType
  <2>2. ASSUME NEW ad \in AllAds(c.bgp.svcAds)
        PROVE  /\ c.config \in Configs
               /\ \E n \in DOMAIN pools : \E ip \in pools[n].addrs, k \in DOMAIN pools[n].ads :
                     ad = [prefix |-> Mask(ip, pools[n].ads[k].host), path |-> pools[n].ads[k].path]
    <3>1. PICK s \in Svc : /\ c.bgp.svcAds[s] # None
                           /\ \E k \in DOMAIN c.bgp.svcAds[s] : ad = c.bgp.svcAds[s][k]
      BY Zenon DEF AllAds
    <3>2. c.config \in Configs
      BY Zenon, <2>1, <3>1, AdvertisedBy
    <3>3. PICK n \in DOMAIN pools : \E ip \in pools[n].addrs :
            c.bgp.svcAds[s] = AdsOf(ip, pools[n])
      BY Zenon, <2>1, <3>1, AdvertisedBy
    <3>4. PICK ip \in pools[n].addrs : c.bgp.svcAds[s] = AdsOf(ip, pools[n])
      BY <3>3
    <3>5. PICK k \in DOMAIN pools[n].ads : ad = AdsOf(ip, pools[n])[k]
      BY Zenon, <3>1, <3>4 DEF AdsOf
    <3> QED
      BY Zenon, <3>2, <3>5 DEF AdsOf
  <2>3. c.config \in Configs
    BY <2>2
  <2>4. PICK m \in DOMAIN pools : \E i \in pools[m].addrs, j \in DOMAIN pools[m].ads :
          x = [prefix |-> Mask(i, pools[m].ads[j].host), path |-> pools[m].ads[j].path]
    BY <2>2
  <2>5. PICK i \in pools[m].addrs, j \in DOMAIN pools[m].ads :
          x = [prefix |-> Mask(i, pools[m].ads[j].host), path |-> pools[m].ads[j].path]
    BY Zenon, <2>4
  <2>6. PICK n \in DOMAIN pools : \E q \in pools[n].addrs, k \in DOMAIN pools[n].ads :
          y = [prefix |-> Mask(q, pools[n].ads[k].host), path |-> pools[n].ads[k].path]
    BY <2>2
  <2>7. PICK q \in pools[n].addrs, k \in DOMAIN pools[n].ads :
          y = [prefix |-> Mask(q, pools[n].ads[k].host), path |-> pools[n].ads[k].path]
    BY Zenon, <2>6
  <2>8. y.prefix # None
    BY Zenon, <2>1, AllAccepted DEF Accepted, Rejected
  <2> DEFINE g == pools[m].ads[j].host
             h == pools[n].ads[k].host
  <2>9. Aggregates(pools[m], g, y.prefix) /\ Aggregates(pools[n], h, y.prefix)
    <3>1. /\ Mask(i, pools[m].ads[j].host) = y.prefix
          /\ Mask(q, pools[n].ads[k].host) = y.prefix
      BY Zenon, <2>5, <2>7
    <3> QED
      BY Zenon, <3>1 DEF Aggregates
  <2>10. m = n /\ g = h
    <3>1. OnePool(pools)
      BY Zenon, <2>3, ConfigOnePool
    <3> HIDE DEF pools, g, h
    <3> QED
      BY SMTT(30), <2>8, <2>9, <3>1 DEF OnePool
  <2>11. pools[m] \in PoolsOf(c.config)
    BY DEF PoolsOf
  <2>12. pools[m].ads[j].path = pools[m].ads[k].path
    BY Zenon, <2>3, <2>10, <2>11 DEF OnePath
  <2> QED
    BY Zenon, <2>5, <2>7, <2>10, <2>12
<1> QED
  BY <1>1, SpeakerInvariant, PTL

(* With all services handled there is one table of routes, in whatever     *)
(* order updateAds ranges over the map of services.                        *)
OneTable ==
    (\A s \in Svc : Settled(s)) => \A t, u \in Tables(c.bgp.svcAds) : t = u

(* What peers are told of a prefix is not left to chance, even if a pool   *)
(* advertises with one aggregation length and several paths: of all        *)
(* services that share the prefix, the last entry of their pool counts.    *)
THEOREM SpeakerOneTable ==
    ASSUME Advertisable
    PROVE  Spec => []OneTable
<1>1. SpeakerInv => OneTable
  <2> DEFINE ads == c.bgp.svcAds
             pools == c.config.pools
  <2> SUFFICES ASSUME SpeakerInv, \A s \in Svc : Settled(s),
                      NEW o1 \in Orders, NEW o2 \in Orders
               PROVE  Table(ads, o1) = Table(ads, o2)
    BY DEF OneTable, Tables
  <2>1. Safe /\ Following /\ BgpType(c.bgp, Advertisement)
    BY DEF SpeakerInv, Safe, ControllerType
  <2>2. ASSUME NEW ad \in AllAds(ads), NEW s \in Svc, NEW t \in Svc,
               Lists(ads, s, ad.prefix), Lists(ads, t, ad.prefix)
        PROVE  LastPath(ads[s], ad.prefix) = LastPath(ads[t], ad.prefix)
    <3> DEFINE p == ad.prefix
    <3>1. p # None
      BY <2>1, AllAccepted DEF Accepted, Rejected
    <3>2. c.config \in Configs
      BY Zenon, <2>1, <2>2, AdvertisedBy DEF Lists
    <3>3. PICK m \in DOMAIN pools : \E i \in pools[m].addrs : ads[s] = AdsOf(i, pools[m])
      BY Zenon, <2>1, <2>2, AdvertisedBy DEF Lists
    <3>4. PICK i \in pools[m].addrs : ads[s] = AdsOf(i, pools[m])
      BY <3>3
    <3>5. PICK n \in DOMAIN pools : \E q \in pools[n].addrs : ads[t] = AdsOf(q, pools[n])
      BY Zenon, <2>1, <2>2, AdvertisedBy DEF Lists
    <3>6. PICK q \in pools[n].addrs : ads[t] = AdsOf(q, pools[n])
      BY <3>5
    <3> HIDE DEF ads, pools, p
    <3>7. \A ip, pool : /\ DOMAIN AdsOf(ip, pool) = DOMAIN pool.ads
                        /\ \A k \in DOMAIN pool.ads :
                              AdsOf(ip, pool)[k].prefix = Mask(ip, pool.ads[k].host)
      BY DEF AdsOf
    <3>8. PICK j \in DOMAIN pools[m].ads : AdsOf(i, pools[m])[j].prefix = p
      BY Zenon, <2>2, <3>4, <3>7 DEF Lists, p
    <3>9. PICK k \in DOMAIN pools[n].ads : AdsOf(q, pools[n])[k].prefix = p
      BY Zenon, <2>2, <3>6, <3>7 DEF Lists, p
    <3>10. m = n
      <4>1. Mask(i, pools[m].ads[j].host) = p /\ Mask(q, pools[n].ads[k].host) = p
        BY <3>7, <3>8, <3>9
      <4> DEFINE g == pools[m].ads[j].host
                 h == pools[n].ads[k].host
      <4>2. Aggregates(pools[m], g, p) /\ Aggregates(pools[n], h, p)
        BY Zenon, <4>1 DEF Aggregates
      <4>3. OnePool(pools)
        BY Zenon, <3>2, ConfigOnePool DEF pools
      <4> HIDE DEF g, h
      <4> QED
        BY SMTT(30), <3>1, <4>2, <4>3 DEF OnePool
    <3>11. pools[m].ads \in Seq([host : 0..32, path : Path])
      BY Zenon, <3>2, SpeakerAssumption DEF Pool, pools
    <3>12. Len(pools[m].ads) \in Nat /\ DOMAIN pools[m].ads = 1..Len(pools[m].ads)
      BY <3>11
    <3>13. LastPath(AdsOf(i, pools[m]), p) = LastPath(AdsOf(q, pools[m]), p)
      <4> DEFINE pool == pools[m]
                 len == Len(pool.ads)
      <4>1. \E l \in DOMAIN pool.ads : AdsOf(i, pool)[l].prefix = p
        BY Zenon, <3>8
      <4>2. \E l \in DOMAIN pool.ads : AdsOf(q, pool)[l].prefix = p
        BY Zenon, <3>9, <3>10
      <4>3. len \in Nat /\ DOMAIN pool.ads = 1..len
        BY Zenon, <3>12
      <4> HIDE DEF pool, len
      <4>4. LastPath(AdsOf(i, pool), p) = LastPath(AdsOf(q, pool), p)
        BY <3>1, <4>1, <4>2, <4>3, LastPathSame
      <4> QED
        BY Zenon, <4>4 DEF pool
    <3> QED
      BY Zenon, <3>4, <3>6, <3>10, <3>13 DEF p
  <2> QED
    BY <2>2, OrderAside
<1> QED
  BY <1>1, SpeakerInvariant, PTL

(* The VPP handler knows the node's address and some interfaces.           *)
InterfacesKnown ==
    up /\ nodeKey \notin pending /\ cluster.node.addr # None
        => c.vpp.ipAddr = cluster.node.addr /\ c.vpp.ethIfcs # None

(* Once the node is handled, its interfaces were read, however often that  *)
(* failed: SetNode is tried again until they are not nil.                  *)
THEOREM SpeakerInterfacesKnown == Spec => []InterfacesKnown
<1>1. SpeakerInv => InterfacesKnown
  BY DEF SpeakerInv, Safe, NodeKnown, InterfacesKnown
<1> QED
  BY <1>1, SpeakerInvariant, PTL
=============================================================================
