---------------------------- MODULE ElectionProofs ----------------------------
(***************************************************************************)
(* Speakers that are up to date agree on who announces a service, for any  *)
(* nodes, services, versions of their endpoints and bounds.                *)
(***************************************************************************)
EXTENDS Election, SpeakerLemmas

-----------------------------------------------------------------------------
(***************************************************************************)
(* The invariant.                                                          *)
(***************************************************************************)

(* What a version is, and that it has the services and the configuration   *)
(* of v.                                                                   *)
Version == [services  : [Svc -> Service \cup {None}],
            endpoints : [Svc -> EndpointsObject \cup {None}],
            configMap : Configs \cup {Invalid, None},
            node      : Nodes]

VersionOf(v, w) == w.services = v.services /\ w.configMap = v.configMap

(* The cluster has had versions of one of the clusters, and every running  *)
(* speaker holds one of them.                                              *)
History ==
    /\ cluster[1] \in Cluster
    /\ cluster \in Seq(Version) /\ Len(cluster) > 0
    /\ \A i \in 1..Len(cluster) : VersionOf(cluster[1], cluster[i])
    /\ up \subseteq Node
    /\ DOMAIN seen = Node /\ DOMAIN pending = Node
    /\ DOMAIN c = Node /\ c = [n \in Node |-> c[n]]
    /\ \A n \in Node : seen[n] \in 1..Len(cluster)

(* A speaker has announced, of the services that it has looked at, those   *)
(* that it should by the version it holds.                                 *)
Voted(n) ==
    /\ ControllerType(c[n]) /\ Layer2OK(c[n])
    /\ n \notin up => c[n] = NewController
    /\ n \in up =>
          /\ c[n].config = cluster[1].configMap
          /\ \A s \in Svc \ pending[n] :
                c[n].announced[s] = IF Elected(s, View(n).endpoints[s], n) THEN "layer2" ELSE None

ElectionInvariant == History /\ \A n \in Node : Voted(n)

(* Requests to announce do not fail, and layer 2 is steady.                *)
ElectionAssumed == SteadyLayer2 /\ ~AnnounceMayFail

-----------------------------------------------------------------------------
(***************************************************************************)
(* The configuration and the services.                                     *)
(***************************************************************************)

(* A service of a cluster is in a layer 2 pool of its configuration.       *)
LEMMA InLayer2Pool ==
    ASSUME NEW v \in Cluster, NEW x, x.config = v.configMap, NEW s \in Svc
    PROVE  /\ PoolOf(x, v.services[s]) # None
           /\ x.config.pools[PoolOf(x, v.services[s])].Protocol = "layer2"
<1> DEFINE pools == v.configMap.pools
           ip == v.services[s].ip
           n == poolFor(pools, ip)
<1>1. v.configMap \in Configs
  BY ElectionAssumption
<1>2. PICK m \in DOMAIN pools : ip \in pools[m].addrs /\ pools[m].Protocol = "layer2"
  BY Zenon, ElectionAssumption
<1>3. n \in DOMAIN pools /\ ip \in pools[n].addrs
  BY <1>2 DEF poolFor
<1>4. n = m
  BY <1>1, <1>2, <1>3, SpeakerAssumption
<1>5. n # None
  BY <1>1, <1>3, SpeakerAssumption
<1>6. ip \in IP
  <2>1. pools[m] \in Pool
    BY <1>1, SpeakerAssumption
  <2> QED
    BY <1>2, <2>1 DEF Pool
<1>7. ip \notin {NoIngress, None}
  BY <1>6, SpeakerAssumption, EndpointsAssumption
<1>8. PoolOf(x, v.services[s]) = n
  BY Zenon, <1>7 DEF PoolOf
<1> QED
  BY <1>2, <1>4, <1>5, <1>8

(* What a speaker wants with a service is decided by the election alone.   *)
LEMMA WantElected ==
    ASSUME NEW v \in Cluster, NEW x, x.config = v.configMap, NEW s \in Svc, NEW n, NEW eps
    PROVE  LET pool == Want(n, x, s, v.services[s], eps)
           IN (IF pool = None THEN None ELSE pool.Protocol)
                  = IF Elected(s, eps, n) THEN "layer2" ELSE None
<1> DEFINE svc == v.services[s]
           pool == x.config.pools[PoolOf(x, svc)]
<1>1. x.config \in Configs /\ x.config # None
  BY ElectionAssumption, SpeakerAssumption
<1>2. svc \in Service /\ svc # None /\ svc.LoadBalancer
  BY ElectionAssumption, SpeakerAssumption
<1>3. PoolOf(x, svc) # None /\ pool.Protocol = "layer2"
  BY Zenon, InLayer2Pool
<1>4. pool # None
  BY <1>1, <1>2, <1>3, PoolOfEffect
<1>5. ShouldAnnounce(n, pool.Protocol, s, svc, eps) = Elected(s, eps, n)
  BY <1>3 DEF ShouldAnnounce
<1>6. Want(n, x, s, svc, eps) = IF ShouldAnnounce(n, pool.Protocol, s, svc, eps) THEN pool ELSE None
  BY Zenon, <1>1, <1>2, <1>3 DEF Want
<1> HIDE DEF pool, svc
<1>7. CASE Elected(s, eps, n)
  BY Zenon, <1>3, <1>4, <1>5, <1>6, <1>7 DEF svc
<1>8. CASE ~Elected(s, eps, n)
  BY Zenon, <1>5, <1>6, <1>8 DEF svc
<1> QED
  BY <1>7, <1>8

-----------------------------------------------------------------------------
(***************************************************************************)
(* It holds in the beginning, and every step keeps it.                     *)
(***************************************************************************)

(* A speaker that is not concerned.                                        *)
LEMMA StillVoted ==
    ASSUME NEW n \in Node, Voted(n), c'[n] = c[n], n \in up' <=> n \in up,
           pending[n] \subseteq pending'[n], cluster'[1] = cluster[1],
           \A s \in Svc \ pending'[n] : cluster'[seen'[n]].endpoints[s] = View(n).endpoints[s]
    PROVE  Voted(n)'
BY DEF Voted, View

(* A speaker that has just been made.                                      *)
LEMMA NewVoted ==
    ASSUME NEW n \in Node, c'[n] = NewController, n \notin up'
    PROVE  Voted(n)'
BY Zenon, NewControllerEffect DEF Voted

(* In the beginning there is one version, and no speaker.                  *)
LEMMA ElectionInit ==
    ASSUME Init
    PROVE  ElectionInvariant
<1>1. PICK v \in Cluster : cluster = <<v>>
  BY DEF Init
<1>2. v \in Version
  BY SpeakerAssumption DEF Version
<1>3. History
  BY <1>1, <1>2 DEF History, Init, VersionOf
<1>4. \A n \in Node : c[n] = NewController /\ n \notin up
  BY DEF Init
<1> QED
  BY Zenon, <1>3, <1>4, NewControllerEffect DEF ElectionInvariant, Voted

(* A speaker starts, with every service to look at.                        *)
LEMMA ElectionStart ==
    ASSUME ElectionInvariant, NEW n \in Node, Start(n)
    PROVE  ElectionInvariant'
<1>1. PICK r \in setConfig(c[n], etcd[n], Latest.configMap) : r.ok /\ Apply(n, r)
  BY DEF Start
<1>2. /\ n \notin up /\ up' = up \cup {n} /\ cluster' = cluster
      /\ seen' = [seen EXCEPT ![n] = Len(cluster)]
      /\ pending' = [pending EXCEPT ![n] = Svc]
      /\ c' = [c EXCEPT ![n] = r.c]
  BY <1>1 DEF Start, Apply
<1>3. History /\ \A m \in Node : Voted(m)
  BY DEF ElectionInvariant
<1>4. History'
  BY <1>2, <1>3 DEF History
<1>5. Latest.configMap = cluster[1].configMap /\ cluster[1].configMap \in Configs
  <2>1. VersionOf(cluster[1], Latest) /\ cluster[1] \in Cluster
    BY <1>3 DEF History, Latest
  <2> QED
    BY <2>1, ElectionAssumption DEF VersionOf
<1>6. ControllerType(c[n]) /\ Layer2OK(c[n])
  BY <1>3 DEF Voted
<1>7. Reconfigured(c[n], r, cluster[1].configMap)
  BY Zenon, <1>1, <1>5, <1>6, setConfigEffect
<1>8. ControllerType(r.c) /\ Layer2OK(r.c) /\ r.c.config = cluster[1].configMap
  <2>1. /\ ControllerType(r.c) /\ r.c.config = cluster[1].configMap
        /\ r.c.announced = c[n].announced /\ r.c.svcIP = c[n].svcIP
        /\ r.c.vpp.ips = c[n].vpp.ips /\ r.c.vpp.ipRefcnt = c[n].vpp.ipRefcnt
    BY Zenon, <1>1, <1>7 DEF Reconfigured, Alike
  <2> QED
    BY Zenon, <1>6, <2>1, Layer2Aside
<1>9. /\ c'[n] = r.c /\ pending'[n] = Svc
      /\ \A m \in Node \ {n} : c'[m] = c[m] /\ pending'[m] = pending[m] /\ seen'[m] = seen[m]
  BY <1>2, <1>3 DEF History
<1>10. Voted(n)'
  BY Zenon, <1>2, <1>8, <1>9 DEF Voted
<1>11. ASSUME NEW m \in Node \ {n}
       PROVE  Voted(m)'
  BY <1>2, <1>3, <1>9, StillVoted DEF View
<1> QED
  BY <1>4, <1>10, <1>11 DEF ElectionInvariant

(* A speaker gets the next version, and looks at the services that differ. *)
LEMMA ElectionDeliver ==
    ASSUME ElectionInvariant, NEW n \in Node, Deliver(n)
    PROVE  ElectionInvariant'
<1> DEFINE differ == {s \in Svc : cluster[seen[n] + 1].endpoints[s] # View(n).endpoints[s]}
<1>1. /\ seen[n] < Len(cluster) /\ up' = up /\ cluster' = cluster /\ c' = c
      /\ seen' = [seen EXCEPT ![n] = seen[n] + 1]
      /\ pending' = [pending EXCEPT ![n] = pending[n] \cup differ]
  BY DEF Deliver
<1>2. History /\ \A m \in Node : Voted(m)
  BY DEF ElectionInvariant
<1>3. /\ seen'[n] = seen[n] + 1 /\ pending'[n] = pending[n] \cup differ
      /\ \A m \in Node \ {n} : pending'[m] = pending[m] /\ seen'[m] = seen[m]
  BY <1>1, <1>2 DEF History
<1>4. History'
  BY <1>1, <1>2 DEF History
<1>5. Voted(n)'
  BY <1>1, <1>2, <1>3, StillVoted
<1>6. ASSUME NEW m \in Node \ {n}
      PROVE  Voted(m)'
  BY <1>1, <1>2, <1>3, StillVoted DEF View
<1> QED
  BY <1>4, <1>5, <1>6 DEF ElectionInvariant

(* A speaker looks at a service.                                           *)
LEMMA ElectionSetBalancer ==
    ASSUME ElectionAssumed, ElectionInvariant, NEW n \in Node, NEW s \in Svc, SetBalancer(n, s)
    PROVE  ElectionInvariant'
<1> DEFINE v == cluster[1]
           eps == View(n).endpoints[s]
<1>1. History /\ \A m \in Node : Voted(m)
  BY DEF ElectionInvariant
<1>2. v \in Cluster /\ View(n).services[s] = v.services[s]
  <2>1. v \in Cluster /\ VersionOf(v, View(n))
    BY <1>1 DEF History, View
  <2> QED
    BY <2>1 DEF VersionOf
<1>3. PICK r \in setBalancer(n, c[n], etcd[n], s, v.services[s], eps) :
        /\ ~r.ok => AnnounceMayFail
        /\ Apply(n, r)
        /\ pending' = IF r.ok THEN [pending EXCEPT ![n] = @ \ {s}] ELSE pending
  BY Zenon, <1>2 DEF SetBalancer
<1>4. /\ n \in up /\ up' = up /\ cluster' = cluster /\ seen' = seen
      /\ c' = [c EXCEPT ![n] = r.c]
  BY <1>3 DEF SetBalancer, Apply
<1>5. /\ ControllerType(c[n]) /\ Layer2OK(c[n])
      /\ c[n].config = v.configMap
      /\ \A t \in Svc \ pending[n] :
            c[n].announced[t] = IF Elected(t, View(n).endpoints[t], n) THEN "layer2" ELSE None
  BY Zenon, <1>1, <1>4 DEF Voted
<1>6. /\ v.services[s] \in Service \cup {None} /\ v.services[s] \in Versions(s)
      /\ c[n].config # None
  BY <1>2, <1>5, ElectionAssumption, SpeakerAssumption DEF Versions
<1> DEFINE pool == Want(n, c[n], s, v.services[s], eps)
<1>7. /\ ForService(c[n], r, s)
      /\ r.ok => r.c.announced[s] = IF pool = None THEN None ELSE pool.Protocol
  <2> HIDE DEF v, eps
  <2> QED
    BY <1>3, <1>5, <1>6, setBalancerEffect
<1>8. r.ok
  <2>1. r.ok \in BOOLEAN
    BY <1>7 DEF ForService
  <2> QED
    BY <1>3, <2>1 DEF ElectionAssumed
<1>9. pending' = [pending EXCEPT ![n] = pending[n] \ {s}]
  BY <1>3, <1>8
<1>10. /\ c'[n] = r.c /\ pending'[n] = pending[n] \ {s}
       /\ \A m \in Node \ {n} : c'[m] = c[m] /\ pending'[m] = pending[m]
  BY <1>1, <1>4, <1>9 DEF History
<1>11. History'
  BY <1>1, <1>4, <1>9 DEF History
<1>12. r.c.announced[s] = IF Elected(s, eps, n) THEN "layer2" ELSE None
  <2>1. (IF pool = None THEN None ELSE pool.Protocol) = IF Elected(s, eps, n) THEN "layer2" ELSE None
    <3> HIDE DEF v, eps
    <3> QED
      BY <1>2, <1>5, WantElected DEF pool
  <2> QED
    BY Zenon, <1>7, <1>8, <2>1
<1>13. Voted(n)'
  <2>1. /\ ControllerType(r.c) /\ Layer2OK(r.c) /\ r.c.config = v.configMap
        /\ \A t \in Svc \ {s} : r.c.announced[t] = c[n].announced[t]
    BY Zenon, <1>5, <1>7, <1>8 DEF ForService, ElectionAssumed
  <2>2. View(n)' = View(n)
    BY <1>4 DEF View
  <2>3. ASSUME NEW t \in Svc \ pending'[n]
        PROVE  r.c.announced[t] = IF Elected(t, View(n).endpoints[t], n) THEN "layer2" ELSE None
    <3>1. CASE t = s
      BY Zenon, <1>12, <3>1
    <3>2. CASE t # s
      <4>1. t \in Svc \ pending[n] /\ t \in Svc \ {s}
        BY <1>10, <3>2
      <4> QED
        BY Zenon, <1>5, <2>1, <4>1
    <3> QED
      BY <3>1, <3>2
  <2> QED
    BY Zenon, <1>4, <1>10, <2>1, <2>2, <2>3 DEF Voted
<1>14. ASSUME NEW m \in Node \ {n}
       PROVE  Voted(m)'
  BY <1>1, <1>4, <1>10, StillVoted DEF View
<1> QED
  BY <1>11, <1>13, <1>14 DEF ElectionInvariant

(* Steps that leave the speakers, and what they have heard, as they are.   *)
LEMMA ElectionSame ==
    ASSUME ElectionInvariant, UNCHANGED <<cluster, seen, pending, up, c>>
    PROVE  ElectionInvariant'
<1>1. History /\ \A m \in Node : Voted(m)
  BY DEF ElectionInvariant
<1>2. History'
  BY <1>1 DEF History
<1>3. ASSUME NEW m \in Node
      PROVE  Voted(m)'
  BY <1>1, StillVoted DEF View
<1> QED
  BY <1>2, <1>3 DEF ElectionInvariant

(* A speaker renews its lease.                                             *)
LEMMA ElectionRenew ==
    ASSUME ElectionInvariant, NEW n \in Node, Renew(n)
    PROVE  ElectionInvariant'
<1>1. PICK r \in RenewLease(c[n].vpp, etcd[n]) :
          Apply(n, [c |-> [c[n] EXCEPT !.vpp = r.v], e |-> r.e, failures |-> r.failures])
  BY Zenon DEF Renew
<1>2. r.v = c[n].vpp
  BY DEF RenewLease, updateProxyArp
<1>3. c' = [c EXCEPT ![n] = [c[n] EXCEPT !.vpp = c[n].vpp]]
  BY <1>1, <1>2 DEF Apply
<1>4. DOMAIN c = Node /\ ControllerType(c[n]) /\ c = [m \in Node |-> c[m]]
  BY DEF ElectionInvariant, History, Voted
<1>5. [c[n] EXCEPT !.vpp = c[n].vpp] = c[n]
  BY <1>4 DEF ControllerType
<1>6. c' = c
  BY <1>3, <1>4, <1>5
<1> QED
  BY <1>6, ElectionSame DEF Renew

(* A speaker crashes.                                                      *)
LEMMA ElectionCrash ==
    ASSUME ElectionInvariant, NEW n \in Node, Crash(n)
    PROVE  ElectionInvariant'
<1>1. /\ up' = up \ {n} /\ cluster' = cluster /\ seen' = seen
      /\ pending' = [pending EXCEPT ![n] = {}]
      /\ c' = [c EXCEPT ![n] = NewController]
  BY DEF Crash
<1>2. History /\ \A m \in Node : Voted(m)
  BY DEF ElectionInvariant
<1>3. /\ c'[n] = NewController
      /\ \A m \in Node \ {n} : c'[m] = c[m] /\ pending'[m] = pending[m]
  BY <1>1, <1>2 DEF History
<1>4. History'
  BY <1>1, <1>2 DEF History
<1>5. Voted(n)'
  BY <1>1, <1>3, NewVoted
<1>6. ASSUME NEW m \in Node \ {n}
      PROVE  Voted(m)'
  BY <1>1, <1>2, <1>3, StillVoted DEF View
<1> QED
  BY <1>4, <1>5, <1>6 DEF ElectionInvariant

(* The endpoints of a service change; no speaker has heard of it.          *)
LEMMA ElectionEdit ==
    ASSUME ElectionInvariant, NEW s \in Svc, NEW o \in Eps, Edit(s, o)
    PROVE  ElectionInvariant'
<1> DEFINE new == [Latest EXCEPT !.endpoints[s] = o]
           eps == [Latest.endpoints EXCEPT ![s] = o]
           k == Len(cluster)
<1>1. cluster' = Append(cluster, new) /\ UNCHANGED <<seen, pending, up, c>>
  BY DEF Edit
<1>2. History /\ \A m \in Node : Voted(m)
  BY DEF ElectionInvariant
<1>3. VersionOf(cluster[1], new) /\ new \in Version
  <2>1. Latest \in Version /\ VersionOf(cluster[1], Latest)
    BY <1>2 DEF History, Latest
  <2>2. eps \in [Svc -> EndpointsObject \cup {None}]
    BY <2>1, SpeakerAssumption DEF Version
  <2>3. new = [services |-> Latest.services, endpoints |-> eps,
               configMap |-> Latest.configMap, node |-> Latest.node]
    BY <2>1 DEF Version
  <2> HIDE DEF new, eps
  <2> QED
    BY <2>1, <2>2, <2>3 DEF VersionOf, Version
<1> HIDE DEF new
<1>4. /\ cluster' \in Seq(Version) /\ Len(cluster') = k + 1 /\ cluster'[k + 1] = new
      /\ \A i \in 1..k : cluster'[i] = cluster[i]
      /\ k \in Nat \ {0}
  BY <1>1, <1>2, <1>3 DEF History
<1>5. cluster'[1] = cluster[1]
  BY <1>4
<1>6. \A i \in 1..(k + 1) : VersionOf(cluster[1], cluster'[i])
  BY <1>2, <1>3, <1>4 DEF History
<1>7. History'
  BY <1>1, <1>2, <1>4, <1>5, <1>6 DEF History
<1>8. ASSUME NEW m \in Node
      PROVE  Voted(m)'
  <2>1. seen'[m] = seen[m] /\ cluster'[seen[m]] = cluster[seen[m]]
    BY <1>1, <1>2, <1>4 DEF History
  <2> QED
    BY <1>1, <1>2, <1>5, <2>1, StillVoted DEF View
<1> QED
  BY <1>7, <1>8 DEF ElectionInvariant

-----------------------------------------------------------------------------
(***************************************************************************)
(* The theorems.                                                           *)
(***************************************************************************)

(* When requests to announce do not fail, services keep to layer 2         *)
(* addresses of their own, and their names stay apart with "-" for "/":    *)
(* every speaker has announced, of the services it has looked at, those    *)
(* that the election gives it by the version of the endpoints it holds.    *)
THEOREM ElectionKept ==
    ASSUME ElectionAssumed
    PROVE  Spec => []ElectionInvariant
<1>1. Init => ElectionInvariant
  BY ElectionInit
<1>2. ElectionInvariant /\ [Next]_vars => ElectionInvariant'
  <2> SUFFICES ASSUME ElectionInvariant, [Next]_vars
               PROVE  ElectionInvariant'
    OBVIOUS
  <2>1. CASE UNCHANGED vars
    BY <2>1, ElectionSame DEF vars
  <2>2. CASE \E s \in Svc, o \in Eps : Edit(s, o)
    BY Zenon, <2>2, ElectionEdit
  <2>3. ASSUME NEW n \in Node, Expire(n)
        PROVE  ElectionInvariant'
    BY <2>3, ElectionSame DEF Expire
  <2> QED
    BY Zenon, <2>1, <2>2, <2>3, ElectionStart, ElectionDeliver, ElectionSetBalancer,
       ElectionRenew, ElectionCrash DEF Next
<1> QED
  BY <1>1, <1>2, PTL DEF Spec

(* A service that a speaker has looked at is entered with the VPP handler  *)
(* when the speaker is elected, and only then.                             *)
LEMMA EnteredIfElected ==
    ASSUME ElectionInvariant, NEW n \in up, NEW s \in Svc \ pending[n]
    PROVE  c[n].vpp.ips[NameOf[s]] # None <=> Elected(s, View(n).endpoints[s], n)
<1>1. n \in Node /\ Voted(n)
  BY DEF ElectionInvariant, History
<1>2. /\ Layer2OK(c[n])
      /\ c[n].announced[s] = IF Elected(s, View(n).endpoints[s], n) THEN "layer2" ELSE None
  BY Zenon, <1>1 DEF Voted
<1>3. None \notin IP /\ None # "layer2" /\ Layer2Addrs(s) \subseteq IP
  BY EndpointsAssumption, SpeakerAssumption, Layer2AddrsIP DEF Protocol
<1> QED
  BY Zenon, <1>2, <1>3 DEF Layer2OK

(* Nothing is left behind when requests to announce do not fail.           *)
NothingLeft == left = [n \in Node |-> {}]

(* It stays so in every behaviour.                                         *)
LEMMA NothingIsLeft ==
    ASSUME ~AnnounceMayFail
    PROVE  Spec => []NothingLeft
<1>1. Init => NothingLeft
  BY Zenon DEF Init, NothingLeft
<1>2. NothingLeft /\ [Next]_vars => NothingLeft'
  <2> SUFFICES ASSUME NothingLeft, [Next]_vars
               PROVE  NothingLeft'
    OBVIOUS
  <2>1. ASSUME NEW n \in Node, NEW S, S = {}, left' = [left EXCEPT ![n] = S]
        PROVE  NothingLeft'
    BY <2>1 DEF NothingLeft
  <2>2. ASSUME NEW n \in Node, NEW s \in Svc, SetBalancer(n, s)
        PROVE  NothingLeft'
    <3>1. PICK r : /\ ~r.ok => AnnounceMayFail
                   /\ left' = [left EXCEPT ![n] = IF ~r.ok THEN left[n] \cup {s}
                          ELSE IF r.c.announced[s] # None THEN left[n] \ {s} ELSE left[n]]
      BY Zenon, <2>2 DEF SetBalancer
    <3> DEFINE S == IF ~r.ok THEN left[n] \cup {s}
                    ELSE IF r.c.announced[s] # None THEN left[n] \ {s} ELSE left[n]
    <3>2. left[n] = {}
      BY DEF NothingLeft
    <3>3. S = left[n] \ {s} \/ S = left[n]
      BY Zenon, <3>1
    <3>4. left' = [left EXCEPT ![n] = S]
      BY Zenon, <3>1
    <3> HIDE DEF S
    <3>5. S = {}
      BY <3>2, <3>3
    <3> QED
      BY Zenon, <2>1, <3>4, <3>5
  <2>3. ASSUME NEW n \in Node, Crash(n)
        PROVE  NothingLeft'
    <3>1. left' = [left EXCEPT ![n] = {}]
      BY Zenon, <2>3 DEF Crash
    <3> QED
      BY Zenon, <2>1, <3>1
  <2>4. ASSUME left' = left
        PROVE  NothingLeft'
    BY Zenon, <2>4 DEF NothingLeft
  <2>5. ASSUME \/ \E n \in Node : Start(n) \/ Deliver(n) \/ Renew(n) \/ Expire(n)
               \/ \E s \in Svc, o \in Eps : Edit(s, o)
               \/ UNCHANGED vars
        PROVE  left' = left
    BY Zenon, <2>5 DEF Start, Deliver, Renew, Expire, Edit, vars
  <2> QED
    BY Zenon, <2>2, <2>3, <2>4, <2>5 DEF Next
<1> QED
  BY <1>1, <1>2, PTL DEF Spec

(* Of the speakers that have looked at the last version of a service, the  *)
(* one with the least hash among the usable nodes announces it, and no     *)
(* other does, in whatever order they saw and looked at versions before,   *)
(* if requests to announce do not fail; nothing is left over then.         *)
THEOREM ElectionAgrees ==
    ASSUME ElectionAssumed
    PROVE  Spec => [](Agree /\ \A s \in Svc : LeftOver(s) = {})
<1>1. ElectionInvariant /\ NothingLeft => Agree /\ \A s \in Svc : LeftOver(s) = {}
  <2>0. NothingLeft => \A s \in Svc : LeftOver(s) = {}
    BY DEF NothingLeft, LeftOver
  <2> SUFFICES ASSUME ElectionInvariant, \A t \in Svc : LeftOver(t) = {},
                      NEW s \in Svc, NEW n \in UpToDate(s)
               PROVE  c[n].vpp.ips[NameOf[s]] # None <=> n \in Winner(s)
    BY Zenon, <2>0 DEF Agree
  <2>1. n \in up /\ s \notin pending[n] /\ View(n) = Latest
    BY DEF UpToDate, View, Latest
  <2>2. c[n].vpp.ips[NameOf[s]] # None <=> Elected(s, Latest.endpoints[s], n)
    BY <2>1, EnteredIfElected
  <2> QED
    BY <2>2 DEF Winner, Elected
<1> QED
  BY <1>1, ElectionKept, NothingIsLeft, PTL DEF ElectionAssumed

(* No two speakers that hold the same endpoints of a service, and have     *)
(* looked at it, announce it, however old that version is.                 *)
OneOfAVersion ==
    \A s \in Svc : \A m, n \in up :
        /\ s \notin pending[m] /\ s \notin pending[n]
        /\ View(m).endpoints[s] = View(n).endpoints[s]
        /\ c[m].vpp.ips[NameOf[s]] # None /\ c[n].vpp.ips[NameOf[s]] # None
        => m = n

(* Two announcers of one service go by different versions of its           *)
(* endpoints: the hashes of different nodes differ.                        *)
THEOREM ElectionUnique ==
    ASSUME ElectionAssumed
    PROVE  Spec => []OneOfAVersion
<1>1. ElectionInvariant => OneOfAVersion
  <2> SUFFICES ASSUME ElectionInvariant, NEW s \in Svc, NEW m \in up, NEW n \in up,
                      s \notin pending[m], s \notin pending[n],
                      View(m).endpoints[s] = View(n).endpoints[s],
                      c[m].vpp.ips[NameOf[s]] # None, c[n].vpp.ips[NameOf[s]] # None
               PROVE  m = n
    BY Zenon DEF OneOfAVersion
  <2>1. Elected(s, View(m).endpoints[s], m) /\ Elected(s, View(m).endpoints[s], n)
    BY EnteredIfElected
  <2>2. m \in Node /\ n \in Node
    BY DEF ElectionInvariant, History
  <2>3. Rank[s][m] \in Nat /\ Rank[s][n] \in Nat
    BY <2>2, EndpointsAssumption
  <2>4. Rank[s][m] <= Rank[s][n] /\ Rank[s][n] <= Rank[s][m]
    BY <2>1 DEF Elected
  <2>5. Rank[s][m] = Rank[s][n]
    BY <2>3, <2>4
  <2> QED
    BY Zenon, <2>2, <2>5, EndpointsAssumption
<1> QED
  BY <1>1, ElectionKept, PTL
=============================================================================
