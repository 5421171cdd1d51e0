------------------------------ MODULE Election -------------------------------
(***************************************************************************)
(* The speakers of several nodes, each of which decides for itself whether *)
(* it is the one that announces a service by layer 2 (ShouldAnnounce).     *)
(*                                                                         *)
(* They have nothing in common but the Endpoints objects, and each sees    *)
(* the versions of these in order but in its own time.  What a speaker     *)
(* does with a version is its controller's setBalancer, with all that it   *)
(* calls.                                                                  *)
(* Services, and a configuration by which they are announced, are there    *)
(* from the start and stay; Speaker looks at their changes.                *)
(***************************************************************************)
EXTENDS SpeakerController

(* Every service has endpoints, and an address by which the configuration  *)
(* announces it by layer 2.                                                *)
ASSUME ElectionAssumption ==
    \A v \in Cluster :
        /\ v.configMap \in Configs
        /\ \A s \in Svc :
             /\ v.endpoints[s] # None
             /\ v.services[s] # None
             /\ v.services[s].LoadBalancer
             /\ \E n \in DOMAIN v.configMap.pools :
                   /\ v.services[s].ip \in v.configMap.pools[n].addrs
                   /\ v.configMap.pools[n].Protocol = "layer2"

VARIABLES
    cluster,    \* all versions the cluster has had, the last one last
    seen,       \* the version each speaker's informers hold
    pending,    \* the services that each speaker still has to look at
    up,         \* the speakers that are running
    c, etcd,    \* the controller of each speaker, and its node's key in etcd
    left,       \* what each has left in its handler when announcing failed
    budget      \* edits, crashes and failures so far

vars == <<cluster, seen, pending, up, c, etcd, left, budget>>

Latest == cluster[Len(cluster)]
View(n) == cluster[seen[n]]

Init ==
    /\ cluster \in {<<v>> : v \in Cluster}
    /\ seen = [n \in Node |-> 1]
    /\ pending = [n \in Node |-> {}]
    /\ up = {}
    /\ c = [n \in Node |-> NewController]
    /\ etcd = [n \in Node |-> [arp |-> None, missed |-> 0]]
    /\ left = [n \in Node |-> {}]
    /\ budget = [edits |-> 0, crashes |-> 0, failures |-> 0]

Apply(n, r) ==
    /\ budget.failures + r.failures <= MaxFailures
    /\ budget' = [budget EXCEPT !.failures = @ + r.failures]
    /\ c' = [c EXCEPT ![n] = r.c]
    /\ etcd' = [etcd EXCEPT ![n] = r.e]

(* The process starts with the last version, and has its configuration     *)
(* adopted: until then it does nothing with a service (SetBalancer without *)
(* a configuration).                                                       *)
Start(n) ==
    /\ n \notin up
    /\ up' = up \cup {n}
    /\ seen' = [seen EXCEPT ![n] = Len(cluster)]
    /\ pending' = [pending EXCEPT ![n] = Svc]
    /\ \E r \in setConfig(c[n], etcd[n], Latest.configMap) : r.ok /\ Apply(n, r)
    /\ UNCHANGED <<cluster, left>>

(* The informers store the next version, and add the key of the service.   *)
Deliver_NoKey(n) ==
    /\ n \in up
    /\ seen[n] < Len(cluster)
    /\ seen' = [seen EXCEPT ![n] = @ + 1]
    /\ UNCHANGED <<cluster, pending, up, c, etcd, left, budget>>

Deliver(n) ==
    /\ n \in up
    /\ seen[n] < Len(cluster)
    /\ seen' = [seen EXCEPT ![n] = @ + 1]
    /\ pending' = [pending EXCEPT ![n] = @ \cup
           {s \in Svc : cluster[seen[n] + 1].endpoints[s] # View(n).endpoints[s]}]
    /\ UNCHANGED <<cluster, up, c, etcd, left, budget>>

SetBalancer(n, s) ==
    /\ n \in up
    /\ s \in pending[n]
    /\ \E r \in setBalancer(n, c[n], etcd[n], s, View(n).services[s], View(n).endpoints[s]) :
        /\ ~r.ok => AnnounceMayFail
        /\ Apply(n, r)
        /\ pending' = IF r.ok THEN [pending EXCEPT ![n] = @ \ {s}] ELSE pending
        /\ left' = [left EXCEPT ![n] = IF ~r.ok THEN @ \cup {s}
                                       ELSE IF r.c.announced[s] # None THEN @ \ {s} ELSE @]
    /\ UNCHANGED <<cluster, seen, up>>

Renew(n) ==
    /\ n \in up
    /\ \E r \in RenewLease(c[n].vpp, etcd[n]) :
          Apply(n, [c |-> [c[n] EXCEPT !.vpp = r.v], e |-> r.e, failures |-> r.failures])
    /\ UNCHANGED <<cluster, seen, pending, up, left>>

Expire(n) ==
    /\ etcd[n].arp # None
    /\ etcd[n].missed >= MayExpire
    /\ etcd' = [etcd EXCEPT ![n].arp = None]
    /\ UNCHANGED <<cluster, seen, pending, up, c, left, budget>>

Crash(n) ==
    /\ n \in up
    /\ budget.crashes < MaxCrashes
    /\ budget' = [budget EXCEPT !.crashes = @ + 1]
    /\ up' = up \ {n}
    /\ pending' = [pending EXCEPT ![n] = {}]
    /\ c' = [c EXCEPT ![n] = NewController]
    /\ left' = [left EXCEPT ![n] = {}]
    /\ etcd' = [etcd EXCEPT ![n].missed = MayExpire]
    /\ UNCHANGED <<cluster, seen>>

(* Endpoints of a service become ready, unready, or move.                  *)
Edit(s, o) ==
    /\ budget.edits < MaxEdits
    /\ budget' = [budget EXCEPT !.edits = @ + 1]
    /\ o # Latest.endpoints[s]
    /\ cluster' = Append(cluster, [Latest EXCEPT !.endpoints[s] = o])
    /\ UNCHANGED <<seen, pending, up, c, etcd, left>>

Next ==
    \/ \E n \in Node : \/ Start(n)
                       \/ Deliver(n)
                       \/ \E s \in Svc : SetBalancer(n, s)
                       \/ Renew(n)
                       \/ Expire(n)
                       \/ Crash(n)
    \/ \E s \in Svc, o \in Eps : Edit(s, o)

Spec == Init /\ [][Next]_vars

(* A speaker that is down is restarted, and every running one hears of the *)
(* last version, looks at its services and renews its lease, in the end    *)
(* with success.                                                           *)
Fairness ==
    \A n \in Node :
        /\ WF_vars(Start(n))
        /\ WF_vars(Deliver(n))
        /\ WF_vars(\E s \in Svc : SetBalancer(n, s))
        /\ WF_etcd(Renew(n) /\ etcd'[n].missed = 0)

FairSpec == Spec /\ Fairness

-----------------------------------------------------------------------------
(***************************************************************************)
(* Properties.                                                             *)
(***************************************************************************)

(* The nodes whose VPP agents answer for the address of s.                 *)
Answers(s) ==
    {n \in Node : etcd[n].arp # None /\ Latest.services[s].ip \in etcd[n].arp.ranges}

(* The nodes that have looked at the last version of service s.            *)
UpToDate(s) == {n \in up : seen[n] = Len(cluster) /\ s \notin pending[n]}

(* The one node that should announce s: the usable one of the least rank   *)
(* (usable as usableNodes has it).                                         *)
Winner(s) ==
    LET usable == usableNodes(Latest.endpoints[s])
    IN {n \in usable : \A m \in usable : Rank[s][n] <= Rank[s][m]}

(* The nodes on which announcing s failed, and was then not tried again:   *)
(* they go on answering for it (main.go:213).                              *)
LeftOver(s) == {n \in Node : s \in left[n]}

(* Nodes that have all looked at the last version agree on who announces a *)
(* service: of those, none does but the winner, and the winner does, in    *)
(* whatever order they saw and looked at the versions before, and but for  *)
(* what was left over.                                                     *)
Agree ==
    \A s \in Svc : {n \in UpToDate(s) : c[n].vpp.ips[NameOf[s]] # None} \ LeftOver(s)
                       = Winner(s) \cap UpToDate(s)

(* In the end exactly one node answers for a service that has a usable     *)
(* node, and none for one that has not, in spite of versions seen late,    *)
(* speakers that crash, requests to etcd that fail and keys that outlive   *)
(* their speaker; but for the nodes where announcing it failed and was     *)
(* given up.                                                               *)
OneAnswers == <>[](\A s \in Svc : Answers(s) \ LeftOver(s) = Winner(s))
=============================================================================
