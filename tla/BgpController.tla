--------------------------- MODULE BgpController ----------------------------
(***************************************************************************)
(* The speaker's BGP protocol handler (speaker/bgp_controller.go).         *)
(*                                                                         *)
(* The Go struct bgpController is a record b; a method is an operator from *)
(* b (and the arguments) to the set of its possible results, each of them  *)
(* a record [b, ok] of the struct afterwards and whether the call returned *)
(* without error.  There is more than one result where the code ranges     *)
(* over a map.                                                             *)
(*                                                                         *)
(* A running session stands here for the routes it was last Set to: that   *)
(* these reach the peer is the subject of module Session.                  *)
(***************************************************************************)
EXTENDS Endpoints

CONSTANTS
    Path,           \* local preference and communities of a route
    LongPath,       \* the paths with more than 63 communities
    Labels,         \* the label sets a node may have
    NoLabels,       \* the empty one
    Peer            \* the peers a configuration may name

ASSUME BgpAssumption ==
    /\ NoLabels \in Labels
    /\ Peer \subseteq [addr : STRING, selects : SUBSET Labels]
    /\ None \notin Labels

(* A prefix is its first address and the number of host bits (32 less the  *)
(* aggregation length).  Masking an IPv6 address with an IPv4 mask gives   *)
(* nil.                                                                    *)
Mask(ip, host) ==
    IF ip \in V6 THEN None ELSE <<(ip \div 2^host) * 2^host, host>>

(* The advertisements for ip, one for each the pool is configured with.    *)
AdsOf(ip, pool) ==
    [k \in DOMAIN pool.ads |->
        [prefix |-> Mask(ip, pool.ads[k].host), path |-> pool.ads[k].path]]

(* An advertisement that Session.Set refuses, and with it all others.      *)
Rejected(ad) == ad.prefix = None \/ ad.path \in LongPath

(* The advertisements of all services.                                     *)
AllAds(svcAds) ==
    UNION {{svcAds[s][k] : k \in DOMAIN svcAds[s]} :
               s \in {t \in Svc : svcAds[t] # None}}

(* Session.Set keys routes by prefix, so the last advertisement of a       *)
(* prefix is the one that counts: the last in the service's list, of the   *)
(* last service in the order in which updateAds happens to range over the  *)
(* map.  A table of routes is a set of advertisements.                     *)
Orders == {f \in [Svc -> 1..Cardinality(Svc)] :
               \A s, t \in Svc : f[s] = f[t] => s = t}

LastPath(ads, prefix) ==
    LET k == CHOOSE k \in DOMAIN ads :
                /\ ads[k].prefix = prefix
                /\ \A j \in DOMAIN ads : ads[j].prefix = prefix => j <= k
    IN ads[k].path

Table(svcAds, order) ==
    LET Has(s, p) == svcAds[s] # None /\ \E k \in DOMAIN svcAds[s] : svcAds[s][k].prefix = p
        last(p) == CHOOSE s \in Svc : /\ Has(s, p)
                                      /\ \A t \in Svc : Has(t, p) => order[t] <= order[s]
    IN {[prefix |-> p, path |-> LastPath(svcAds[last(p)], p)] :
            p \in {ad.prefix : ad \in AllAds(svcAds)}}

Tables(svcAds) == {Table(svcAds, order) : order \in Orders}

(* The routes of a session that has just been created.                     *)
NoRoutes == {}

(* No peers, no advertisements; the labels of the node are not known.      *)
(* Beside the fields of the struct, open counts the sessions that were     *)
(* created for a peer and not closed.                                      *)
BgpNew ==
    [nodeLabels |-> None,
     peers      |-> <<>>,
     svcAds     |-> [s \in Svc |-> None],
     open       |-> [p \in Peer |-> 0]]

Running(b) == {i \in DOMAIN b.peers : b.peers[i].bgp # None}

(* How many of the peers numbered in S are p.                              *)
Count(b, S, p) == Cardinality({i \in S : b.peers[i].cfg = p})

-----------------------------------------------------------------------------
(* All sessions are Set to the same advertisements, in the same order; an  *)
(* advertisement that is refused stops the first session and the loop.     *)
updateAds(b) ==
    IF Running(b) # {} /\ \E ad \in AllAds(b.svcAds) : Rejected(ad)
    THEN {[b |-> b, ok |-> FALSE]}
    ELSE {[b |-> [b EXCEPT !.peers = [i \in DOMAIN @ |->
                     IF i \in Running(b) THEN [cfg |-> @[i].cfg, bgp |-> t] ELSE @[i]]],
           ok |-> TRUE] : t \in Tables(b.svcAds)}

(* A peer is wanted on this node when one of its selectors matches; before *)
(* the node is known its labels count as empty.                            *)
shouldRun(peer, nodeLabels) ==
    (IF nodeLabels = None THEN NoLabels ELSE nodeLabels) \in peer.selects

(* Sessions that should not run are closed, missing ones created.          *)
Selected(b) == {i \in DOMAIN b.peers : shouldRun(b.peers[i].cfg, b.nodeLabels)}

StartAndStop(b) ==
    [b EXCEPT
        !.peers = [i \in DOMAIN @ |->
            [cfg |-> @[i].cfg,
             bgp |-> IF i \notin Selected(b) THEN None
                     ELSE IF @[i].bgp = None THEN NoRoutes ELSE @[i].bgp]],
        !.open = [p \in Peer |-> @[p] + Count(b, Selected(b) \ Running(b), p)
                                      - Count(b, Running(b) \ Selected(b), p)]]

(* When there are new ones, all are told the advertisements.               *)
syncPeers_NoUpdate(b) == {[b |-> StartAndStop(b), ok |-> TRUE]}

syncPeers(b) ==
    IF Selected(b) \subseteq Running(b)
    THEN {[b |-> StartAndStop(b), ok |-> TRUE]}
    ELSE updateAds(StartAndStop(b))

(* The position of seq[i] among the elements equal to it.                  *)
Nth(seq, i) == Cardinality({j \in 1..i : seq[j] = seq[i]})

(* A peer that is configured again keeps its session; equal peers are      *)
(* matched in order.  The sessions of the others are closed.               *)
Matching(b, peers, i) ==
    LET old == [j \in DOMAIN b.peers |-> b.peers[j].cfg]
    IN {j \in DOMAIN old : old[j] = peers[i] /\ Nth(old, j) = Nth(peers, i)}

NewPeers(b, peers) ==
    [i \in DOMAIN peers |->
        IF Matching(b, peers, i) = {} THEN [cfg |-> peers[i], bgp |-> None]
        ELSE b.peers[CHOOSE j \in Matching(b, peers, i) : TRUE]]

BgpSetConfig_ForgetsToClose(b, peers) ==
    syncPeers([b EXCEPT !.peers = NewPeers(b, peers)])

BgpSetConfig(b, peers) ==
    LET dropped == DOMAIN b.peers \ UNION {Matching(b, peers, i) : i \in DOMAIN peers}
    IN syncPeers([b EXCEPT
                    !.peers = NewPeers(b, peers),
                    !.open = [p \in Peer |-> @[p] - Count(b, dropped \cap Running(b), p)]])

BgpSetNode(b, nodeLabels) ==
    IF b.nodeLabels = nodeLabels THEN {[b |-> b, ok |-> TRUE]}
    ELSE syncPeers([b EXCEPT !.nodeLabels = nodeLabels])

(* The advertisements of a service are replaced before they are tried.     *)
BgpSetBalancer(b, s, ip, pool) ==
    updateAds([b EXCEPT !.svcAds[s] = AdsOf(ip, pool)])

BgpDeleteBalancer(b, s) ==
    IF b.svcAds[s] = None THEN {[b |-> b, ok |-> TRUE]}
    ELSE updateAds([b EXCEPT !.svcAds[s] = None])
=============================================================================
