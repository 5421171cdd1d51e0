------------------------------- MODULE Speaker -------------------------------
(***************************************************************************)
(* The speaker on one node (speaker/main.go, and internal/k8s as it uses   *)
(* it): what calls the methods of SpeakerController, and when.             *)
(*                                                                         *)
(* The speaker never writes to the API server, so the cluster is what its  *)
(* informers hold; an edit is an informer storing a new version and adding *)
(* the key.  The keys that wait in the work queue or for their delay to    *)
(* end are one set, of which any may be next.  The worker handles one key  *)
(* at a time and nothing else writes the structs, so a handler is one      *)
(* step; the renewal of the lease, which runs beside it under the VPP      *)
(* handler's mutex, writes etcd only and may be taken before or after it.  *)
(***************************************************************************)
EXTENDS SpeakerController

CONSTANT
    Me              \* this node

ASSUME MeAssumption == Me \in Node

svcKey(s) == <<"service", s>>
cmKey == <<"configmap", None>>
nodeKey == <<"node", None>>
QueueKey == {svcKey(s) : s \in Svc} \cup {cmKey, nodeKey}

VARIABLES
    cluster,    \* what the informers hold
    pending,    \* the keys still to be handled
    up,         \* the process is running
    c,          \* the controller, with its protocol handlers
    etcd,       \* the key of this node in etcd
    left,       \* services left in the VPP handler when announcing them failed
    budget      \* edits, crashes and failures so far

vars == <<cluster, pending, up, c, etcd, left, budget>>

Init ==
    /\ cluster \in Cluster
    /\ pending = {}
    /\ up = FALSE
    /\ c = NewController
    /\ etcd = [arp |-> None, missed |-> 0]
    /\ left = {}
    /\ budget = [edits |-> 0, crashes |-> 0, failures |-> 0]

-----------------------------------------------------------------------------
(***************************************************************************)
(* The worker.                                                             *)
(***************************************************************************)

(* The outcome r of a method becomes the state.                            *)
Apply(r) ==
    /\ budget.failures + r.failures <= MaxFailures
    /\ budget' = [budget EXCEPT !.failures = @ + r.failures]
    /\ c' = r.c
    /\ etcd' = r.e

Get(k) == up /\ k \in pending

(* A handler that fails leaves its key pending.                            *)
Finish(k, ok) == pending' = IF ok THEN pending \ {k} ELSE pending

(* A service is looked at with its endpoints; without an Endpoints object  *)
(* it counts as deleted.                                                   *)
ServiceSeen(s) == IF cluster.endpoints[s] = None THEN None ELSE cluster.services[s]

(* Of a service that could not be announced the VPP handler has a record   *)
(* and the controller none, until it is announced there after all.         *)
SetBalancer(s) ==
    /\ Get(svcKey(s))
    /\ \E r \in setBalancer(Me, c, etcd, s, ServiceSeen(s), cluster.endpoints[s]) :
        /\ ~r.ok /\ r.failures > 0 => AnnounceMayFail
        /\ Apply(r)
        /\ Finish(svcKey(s), r.ok)
        /\ left' = IF ~r.ok /\ r.failures > 0 THEN left \cup {s}
                   ELSE IF r.c.announced[s] = "layer2" THEN left \ {s} ELSE left
    /\ UNCHANGED <<cluster, up>>

(* A configuration that is adopted has every service looked at again; one  *)
(* that is not is dropped.  (Without a ConfigMap the handler changes       *)
(* nothing and the key stays.)                                             *)
SetConfig_ForgetsServices ==
    /\ Get(cmKey)
    /\ cluster.configMap \in Configs
    /\ \E r \in setConfig(c, etcd, cluster.configMap) : Apply(r)
    /\ pending' = pending \ {cmKey}
    /\ UNCHANGED <<cluster, up, left>>

SetConfig ==
    /\ Get(cmKey)
    /\ cluster.configMap \in Configs
    /\ \E r \in setConfig(c, etcd, cluster.configMap) :
        /\ Apply(r)
        /\ pending' = (pending \ {cmKey}) \cup
               {svcKey(s) : s \in {t \in Svc : r.ok /\ cluster.services[t] # None}}
    /\ UNCHANGED <<cluster, up, left>>

SetConfigInvalid ==
    /\ Get(cmKey)
    /\ cluster.configMap = Invalid
    /\ pending' = pending \ {cmKey}
    /\ UNCHANGED <<cluster, up, c, etcd, left, budget>>

SetNode ==
    /\ Get(nodeKey)
    /\ \E r \in setNode(c, etcd, cluster.node) :
        /\ Apply(r)
        /\ Finish(nodeKey, r.ok)
    /\ UNCHANGED <<cluster, up, left>>

-----------------------------------------------------------------------------
(***************************************************************************)
(* The lease, the life of the process, and the cluster.                    *)
(***************************************************************************)

(* The goroutine that renews the lease.                                    *)
Renew ==
    /\ up
    /\ \E r \in RenewLease(c.vpp, etcd) : Apply([c |-> [c EXCEPT !.vpp = r.v],
                                                 e |-> r.e, failures |-> r.failures])
    /\ UNCHANGED <<cluster, pending, up, left>>

(* etcd drops the key when its lease has run out.                          *)
Expire ==
    /\ etcd.arp # None
    /\ etcd.missed >= MayExpire
    /\ etcd' = [etcd EXCEPT !.arp = None]
    /\ UNCHANGED <<cluster, pending, up, c, left, budget>>

(* Run: the informers list what there is.  Endpoints are listed under the  *)
(* key of their service.                                                   *)
Start ==
    /\ ~up
    /\ up' = TRUE
    /\ pending' = {svcKey(s) : s \in {t \in Svc : \/ cluster.services[t] # None
                                                  \/ cluster.endpoints[t] # None}}
                  \cup {k \in {cmKey} : cluster.configMap # None}
                  \cup {nodeKey}
    /\ UNCHANGED <<cluster, c, etcd, left, budget>>

(* The process dies; its sessions break, its lease is not renewed.         *)
Crash ==
    /\ up
    /\ budget.crashes < MaxCrashes
    /\ budget' = [budget EXCEPT !.crashes = @ + 1]
    /\ up' = FALSE
    /\ pending' = {}
    /\ c' = NewController
    /\ left' = {}
    /\ etcd' = [etcd EXCEPT !.missed = MayExpire]
    /\ UNCHANGED cluster

(* Someone changes the cluster, and an informer hears of it.               *)
Edit(new, k) ==
    /\ budget.edits < MaxEdits
    /\ budget' = [budget EXCEPT !.edits = @ + 1]
    /\ new # cluster
    /\ cluster' = new
    /\ pending' = IF up THEN pending \cup {k} ELSE pending
    /\ UNCHANGED <<up, c, etcd, left>>

EditService(s, o) == Edit([cluster EXCEPT !.services[s] = o], svcKey(s))
EditEndpoints(s, o) == Edit([cluster EXCEPT !.endpoints[s] = o], svcKey(s))
EditConfigMap(o) == Edit([cluster EXCEPT !.configMap = o], cmKey)
EditNode(o) == Edit([cluster EXCEPT !.node = o], nodeKey)

Next ==
    \/ \E s \in Svc : SetBalancer(s)
    \/ SetConfig
    \/ SetConfigInvalid
    \/ SetNode
    \/ Renew
    \/ Expire
    \/ Start
    \/ Crash
    \/ \E s \in Svc : \/ \E o \in Services[s] \cup {None} : EditService(s, o)
                      \/ \E o \in Eps \cup {None} : EditEndpoints(s, o)
    \/ \E o \in Configs \cup {Invalid, None} : EditConfigMap(o)
    \/ \E o \in Nodes : EditNode(o)

Spec == Init /\ [][Next]_vars

(* Key k is handled with success.                                          *)
Handled(k) ==
    /\ up
    /\ k = cmKey => cluster.configMap # None
    /\ \E S \in SUBSET {svcKey(s) : s \in Svc} :
        /\ k # cmKey => S = {}
        /\ pending' = (pending \ {k}) \cup S
    /\ up' = TRUE

(* The worker loops for ever, comes to every key, and a handler that can   *)
(* finish does in the end (only that of a missing ConfigMap cannot);       *)
(* renewals are tried for ever by a goroutine of their own and do not fail *)
(* for ever; Kubernetes restarts the process.  Edits, crashes and failures *)
(* are not owed.                                                           *)
Fairness ==
    /\ WF_vars(Start)
    /\ \A k \in QueueKey : WF_pending(k \in pending /\ Handled(k))
    /\ WF_etcd(Renew /\ etcd'.missed = 0)

FairSpec == Spec /\ Fairness

-----------------------------------------------------------------------------
(***************************************************************************)
(* Properties.                                                             *)
(***************************************************************************)

(* The pool by which this node should announce service s, going by the     *)
(* cluster and by the configuration in force; None if it should not.  For  *)
(* layer 2 that is up to usableNodes, as it is coded (see there).          *)
WantedPool(s) ==
    LET svc == ServiceSeen(s)
        pool == c.config.pools[PoolOf(c, svc)]
    IN IF svc = None \/ c.config = None THEN None
       ELSE IF ~svc.LoadBalancer \/ PoolOf(c, svc) = None THEN None
       ELSE IF ShouldAnnounce(Me, pool.Protocol, s, svc, cluster.endpoints[s]) THEN pool
       ELSE None

WantedBy(s, protocol) == WantedPool(s) # None /\ WantedPool(s).Protocol = protocol

Settled(s) == up /\ svcKey(s) \notin pending

(* Once its key is handled, a service is with the handler of its pool's    *)
(* protocol, under its address, and with no other, in whatever order       *)
(* endpoints, configurations and services changed before, and whichever    *)
(* requests failed; only one that failed to be announced may have left     *)
(* something behind (main.go:213).  Services do not move between layer 2   *)
(* addresses, and Session.Set accepts their advertisements; otherwise it   *)
(* does not hold (vpp_l2_controller.go:116, bgp_controller.go:222).        *)
AnnouncedAsWanted ==
    \A s \in Svc : Settled(s) =>
        /\ c.announced[s] = IF WantedPool(s) = None THEN None ELSE WantedPool(s).Protocol
        /\ c.bgp.svcAds[s] = IF WantedBy(s, "bgp")
                             THEN AdsOf(cluster.services[s].ip, WantedPool(s)) ELSE None
        /\ \/ c.vpp.ips[NameOf[s]] = IF WantedBy(s, "layer2")
                                     THEN cluster.services[s].ip ELSE None
           \/ s \in left

(* All running sessions are Set to the same routes, those of the present   *)
(* advertisements, whether they were started before or after these.        *)
PeersTold ==
    \E t \in Tables(c.bgp.svcAds) :
        \A i \in Running(c.bgp) : c.bgp.peers[i].bgp = t

(* There is a session for exactly those peers of the configuration in      *)
(* force that select this node, one for each time the peer is listed; no   *)
(* session of a former configuration or of former labels is left open.     *)
SessionsMatch ==
    /\ [i \in DOMAIN c.bgp.peers |-> c.bgp.peers[i].cfg]
           = IF c.config = None THEN <<>> ELSE c.config.peers
    /\ Running(c.bgp) = {i \in DOMAIN c.bgp.peers :
                             shouldRun(c.bgp.peers[i].cfg, c.bgp.nodeLabels)}
    /\ \A p \in Peer : c.bgp.open[p] = Count(c.bgp, Running(c.bgp), p)

(* With all services handled, no two of them advertise one prefix with     *)
(* different paths, so that the order of a Go map does not decide what     *)
(* peers are told; updateAds leaves conflicts to chance.                   *)
NoConflict ==
    (\A s \in Svc : Settled(s)) =>
        \A x, y \in AllAds(c.bgp.svcAds) : x.prefix = y.prefix => x.path = y.path

(* Once the node is handled its interfaces are known, however often they   *)
(* could not be read.  (Of a node that keeps its address: after a change,  *)
(* a failed reading is not tried again, as there are interfaces already.)  *)
InterfacesRead ==
    up /\ nodeKey \notin pending /\ cluster.node.addr # None
        => c.vpp.ethIfcs = cluster.node.addr

(* When nothing is left to do, the gauge lists what the handlers announce: *)
(* "Services being announced from this node."  For layer 2 that is the     *)
(* addresses answered for, for BGP the services advertised, under the      *)
(* address they have.                                                      *)
GaugeTrue ==
    up /\ pending = {} =>
        /\ {g[3] : g \in {x \in c.gauge : x[1] = "layer2"}}
              = {c.vpp.ips[n] : n \in Name} \ {None}
        /\ {g \in c.gauge : g[1] = "bgp"}
              = {<<"bgp", s, cluster.services[s].ip>> :
                    s \in {t \in Svc : c.bgp.svcAds[t] # None}}

(* When the cluster is left alone, etcd ends up with exactly the layer 2   *)
(* addresses that this node should announce, on the interfaces it knows,   *)
(* and keeps them: after requests that failed, expired leases and          *)
(* restarts.  An address whose announcing failed, and which was then no    *)
(* longer to be announced, stays there as well (main.go:213).              *)
WantedArp ==
    LET ranges == {cluster.services[s].ip : s \in {t \in Svc : WantedBy(t, "layer2")}}
                  \cup ({c.vpp.ips[NameOf[s]] : s \in left} \ {None})
    IN IF ranges = {} THEN None
       ELSE [ranges |-> ranges, interfaces |-> c.vpp.ethIfcs]

ArpFollows == <>[](up /\ pending = {}) => <>[](etcd.arp = WantedArp)
=============================================================================
