-------------------------- MODULE SpeakerController --------------------------
(***************************************************************************)
(* The controller in the speaker (speaker/main.go): it decides for each    *)
(* service whether its node announces it, and by which of its two protocol *)
(* handlers, BgpController and VppL2.  Speaker runs one of them, Election  *)
(* those of several nodes.                                                 *)
(***************************************************************************)
EXTENDS BgpController, VppL2

CONSTANTS
    Configs,        \* what config.Parse may return
    Invalid,        \* a ConfigMap that it refuses
    NoIngress,      \* a status without an ingress address, or with several
    Cluster,        \* the clusters in which the speaker may be started,
    Services,       \* and what is put there later: versions of each service,
    Eps,            \* of endpoints
    Nodes,          \* and of the node
    MaxEdits,       \* bounds on the edits,
    MaxCrashes,     \* on the crashes of the speaker,
    MaxFailures,    \* and on the requests that fail
    AnnounceMayFail \* whether those that announce a service are among them

(* What the speaker looks at: of a service the type, the traffic policy    *)
(* and what net.ParseIP makes of the one ingress address (None when it     *)
(* does not parse); of the node its labels and its internal address.       *)
Service == [LoadBalancer : BOOLEAN, Local : BOOLEAN, ip : IP \cup {NoIngress, None}]
NodeObject == [labels : Labels, addr : NodeAddr \cup {None}]

Protocol == {"bgp", "layer2"}
Pool == [addrs : SUBSET IP, Protocol : Protocol, ads : Seq([host : 0..32, path : Path])]

(* The advertisements that the configurations make.                        *)
PoolsOf(cfg) == {cfg.pools[n] : n \in DOMAIN cfg.pools}
Advertisement ==
    UNION {{AdsOf(ip, p)[k] : ip \in p.addrs, k \in DOMAIN p.ads} :
               p \in UNION {PoolsOf(cfg) : cfg \in Configs}}

(* config.Parse refuses a pool without a name, pools that overlap, and an  *)
(* advertisement that aggregates beyond the CIDRs of its pool.             *)
ASSUME SpeakerAssumption ==
    /\ None \notin Configs \cup Service \cup NodeObject \cup Protocol \cup Pool
    /\ None \notin Seq(Advertisement)
    /\ \A t \in SUBSET Advertisement : t # None
    /\ Invalid \notin Configs \cup {None}
    /\ NoIngress \notin IP \cup {None}
    /\ \A cfg \in Configs :
         /\ cfg.peers \in Seq(Peer)
         /\ None \notin DOMAIN cfg.pools
         /\ \A n \in DOMAIN cfg.pools : cfg.pools[n] \in Pool
         /\ \A m, n \in DOMAIN cfg.pools :
               m # n => cfg.pools[m].addrs \cap cfg.pools[n].addrs = {}
         /\ \A n \in DOMAIN cfg.pools : \A k \in DOMAIN cfg.pools[n].ads :
               \A i \in cfg.pools[n].addrs, j \in V4 :
                  Mask(i, cfg.pools[n].ads[k].host) = Mask(j, cfg.pools[n].ads[k].host)
                      => j \in cfg.pools[n].addrs
    /\ Cluster \subseteq [services  : [Svc -> Service \cup {None}],
                          endpoints : [Svc -> EndpointsObject \cup {None}],
                          configMap : Configs \cup {Invalid, None},
                          node      : Nodes]
    /\ Services \in [Svc -> SUBSET Service]
    /\ Eps \subseteq EndpointsObject
    /\ Nodes \subseteq NodeObject

-----------------------------------------------------------------------------
(***************************************************************************)
(* The struct.                                                             *)
(***************************************************************************)

(* newController.  The gauge is the set of its label values.               *)
NewController ==
    [config    |-> None,
     announced |-> [s \in Svc |-> None],
     svcIP     |-> [s \in Svc |-> None],
     bgp       |-> BgpNew,
     vpp       |-> VppNew,
     gauge     |-> {}]

-----------------------------------------------------------------------------
(***************************************************************************)
(* Its methods: from the struct, and etcd, to the set of their results.    *)
(***************************************************************************)

Result(x, e, ok, failures) == [c |-> x, e |-> e, ok |-> ok, failures |-> failures]

(* The results of a method of one handler, as results of the controller.   *)
ViaBgp(x, e, results) ==
    {Result([x EXCEPT !.bgp = r.b], e, r.ok, 0) : r \in results}
ViaVpp(x, results) ==
    {Result([x EXCEPT !.vpp = r.v], r.e, r.ok, r.failures) : r \in results}

(* After each of the results, if it is a success, do the rest.             *)
Then(results, Rest(_)) ==
    UNION {IF ~r.ok THEN {r}
           ELSE {Result(q.c, q.e, q.ok, q.failures + r.failures) : q \in Rest(r)} : r \in results}

(* The withdrawal of a service that is announced.                          *)
Withdraw(x, e, s) ==
    IF x.announced[s] = "bgp"
    THEN ViaBgp(x, e, BgpDeleteBalancer(x.bgp, s))
    ELSE ViaVpp(x, VppDeleteBalancer(x.vpp, e, s))

deleteBalancer(x, e, s) ==
    LET Forget(r) ==
          {Result([r.c EXCEPT
                !.announced[s] = None,
                !.svcIP[s] = None,
                !.gauge = @ \ {<<x.announced[s], s, x.svcIP[s]>>}], r.e, TRUE, 0)}
    IN IF x.announced[s] = None THEN {Result(x, e, TRUE, 0)}
       ELSE Then(Withdraw(x, e, s), Forget)

(* The pool an address is in; there is at most one.                        *)
poolFor(pools, ip) ==
    IF \E n \in DOMAIN pools : ip \in pools[n].addrs
    THEN CHOOSE n \in DOMAIN pools : ip \in pools[n].addrs
    ELSE None

ShouldAnnounce(me, protocol, s, svc, eps) ==
    IF protocol = "bgp" THEN svc.Local => nodeHasHealthyEndpoint(eps, me)
    ELSE Elected(s, eps, me)

announce(x, e, s, ip, pool) ==
    LET results == IF pool.Protocol = "bgp"
                   THEN ViaBgp(x, e, BgpSetBalancer(x.bgp, s, ip, pool))
                   ELSE ViaVpp(x, VppSetBalancer(x.vpp, e, s, ip))
        Record(r) ==
          {Result([r.c EXCEPT
                !.announced[s] = IF @ = None THEN pool.Protocol ELSE @,
                !.svcIP[s] = IF x.announced[s] = None THEN ip ELSE @,
                !.gauge = @ \cup {<<pool.Protocol, s, ip>>}], r.e, TRUE, 0)}
    IN Then(results, Record)

(* The pool of a service that has an address the configuration knows.      *)
PoolOf(x, svc) ==
    IF svc.ip \in {NoIngress, None} THEN None ELSE poolFor(x.config.pools, svc.ip)

(* A service that is announced by another protocol is withdrawn first.     *)
ChangeProtocol_Never(x, e, s, protocol) == {Result(x, e, TRUE, 0)}

ChangeProtocol(x, e, s, protocol) ==
    IF x.announced[s] \in {None, protocol} THEN {Result(x, e, TRUE, 0)}
    ELSE deleteBalancer(x, e, s)

setBalancer(me, x, e, s, svc, eps) ==
    LET pool == x.config.pools[PoolOf(x, svc)]
        Proceed(r) == IF ShouldAnnounce(me, pool.Protocol, s, svc, eps)
                      THEN announce(r.c, r.e, s, svc.ip, pool)
                      ELSE deleteBalancer(r.c, r.e, s)
    IN IF svc = None \/ ~svc.LoadBalancer THEN deleteBalancer(x, e, s)
       ELSE IF x.config = None THEN {Result(x, e, TRUE, 0)}
       ELSE IF PoolOf(x, svc) = None THEN deleteBalancer(x, e, s)
       ELSE Then(ChangeProtocol(x, e, s, pool.Protocol), Proceed)

(* A configuration without a pool for an announced address is refused.     *)
(* Of the two handlers only BGP's has something to do.                     *)
setConfig(x, e, cfg) ==
    LET Adopt(r) == {Result([r.c EXCEPT !.config = cfg], r.e, TRUE, 0)}
    IN IF \E s \in Svc : x.svcIP[s] # None /\ poolFor(cfg.pools, x.svcIP[s]) = None
       THEN {Result(x, e, FALSE, 0)}
       ELSE Then(ViaBgp(x, e, BgpSetConfig(x.bgp, cfg.peers)), Adopt)

(* The handlers are told of the node in either order, until one fails.     *)
setNode(x, e, node) ==
    LET bgp(r) == ViaBgp(r.c, r.e, BgpSetNode(r.c.bgp, node.labels))
        vpp(r) == ViaVpp(r.c, VppSetNode(r.c.vpp, r.e, node.addr))
        first == Result(x, e, TRUE, 0)
    IN Then(bgp(first), vpp) \cup Then(vpp(first), bgp)
=============================================================================
