---------------------------- MODULE SpeakerLemmas ----------------------------
(***************************************************************************)
(* What the methods of the speaker's protocol handlers keep, and from it   *)
(* what those of its controller do.                                        *)
(*                                                                         *)
(* BgpController, for any peers, labels and advertisements: the sessions   *)
(* that should run do and no other is open, and all of them have been Set  *)
(* to the routes of the present advertisements.  VppL2, for any addresses: *)
(* what is entered for a service, and how it is counted.                   *)
(* SpeakerController, for any configurations and versions of a service:    *)
(* what it is left with after each method, when that succeeds and when it  *)
(* does not.                                                               *)
(***************************************************************************)
EXTENDS SpeakerController, FiniteSetTheorems, WellFoundedInduction, TLAPS

(* An entry of the list of peers: a peer, and its session if it has one.   *)
IsEntry(e) == e = [cfg |-> e.cfg, bgp |-> e.bgp] /\ e.cfg \in Peer

(* Struct b has the fields of a bgpController, with advertisements from A. *)
BgpType(b, A) ==
    /\ b = [nodeLabels |-> b.nodeLabels, peers |-> b.peers,
            svcAds |-> b.svcAds, open |-> b.open]
    /\ b.nodeLabels \in Labels \cup {None}
    /\ \E n \in Nat : DOMAIN b.peers = 1..n
    /\ b.peers = [i \in DOMAIN b.peers |-> b.peers[i]]
    /\ \A i \in DOMAIN b.peers : IsEntry(b.peers[i])
    /\ b.svcAds \in [Svc -> Seq(A) \cup {None}]
    /\ b.open \in [Peer -> Int]

(* A is a set of advertisements, and None is neither a list of these nor a *)
(* table of routes.                                                        *)
Proper(A) ==
    /\ \A ad \in A : ad = [prefix |-> ad.prefix, path |-> ad.path]
    /\ None \notin Seq(A)
    /\ \A t \in SUBSET A : t # None

(* The sessions that run are those that should.                            *)
Chosen(b) == Running(b) = Selected(b)

(* No session is open beside those that run.                               *)
Opened(b) == \A p \in Peer : b.open[p] = Count(b, Running(b), p)

(* All sessions have been Set to the same routes, those of the present     *)
(* advertisements.                                                         *)
Told(b) == \E t \in Tables(b.svcAds) : \A i \in Running(b) : b.peers[i].bgp = t

(* The peers, without their sessions.                                      *)
Cfgs(b) == [i \in DOMAIN b.peers |-> b.peers[i].cfg]

-----------------------------------------------------------------------------
(***************************************************************************)
(* Numbers and orders.                                                     *)
(***************************************************************************)

(* A set of numbers that is not empty has a least one.                     *)
LEMMA LeastNat ==
    ASSUME NEW T \in SUBSET Nat, T # {}
    PROVE  \E m \in T : \A k \in T : m <= k
<1> DEFINE R == OpToRel(<, Nat)
<1>1. IsWellFoundedOn(R, Nat)
  BY NatLessThanWellFounded
<1>2. \A k, n \in Nat : k < n => <<k, n>> \in R
  BY DEF OpToRel
<1> HIDE DEF R
<1>3. PICK m \in T : \A k \in T : ~(<<k, m>> \in R)
  BY Zenon, <1>1, WFMin
<1>4. ASSUME NEW k \in T
      PROVE  m <= k
  <2>1. ~(k < m) /\ k \in Nat /\ m \in Nat
    BY Zenon, <1>2, <1>3
  <2> QED
    BY <2>1
<1> QED
  BY <1>4

(* A bounded set of numbers that is not empty has a greatest one.          *)
LEMMA GreatestNat ==
    ASSUME NEW n \in Nat, NEW T \in SUBSET (0..n), T # {}
    PROVE  \E m \in T : \A k \in T : k <= m
<1> DEFINE D == {n - k : k \in T}
<1>1. D \in SUBSET Nat /\ D # {}
  <2>1. \A k \in T : n - k \in Nat
    OBVIOUS
  <2> QED
    BY Zenon, <2>1
<1>2. PICK d \in D : \A e \in D : d <= e
  BY Zenon, <1>1, LeastNat
<1>3. PICK m \in T : d = n - m
  OBVIOUS
<1>4. ASSUME NEW k \in T
      PROVE  k <= m
  <2>1. n - k \in D
    OBVIOUS
  <2>2. n - m <= n - k
    BY Zenon, <1>2, <1>3, <2>1
  <2> QED
    BY <2>2
<1> QED
  BY <1>4

(* A map can be ranged over in some order.                                 *)
LEMMA SomeOrder == Orders # {}
<1> DEFINE n == Cardinality(Svc)
<1>1. n \in Nat /\ ExistsBijection(1..n, Svc)
  BY EndpointsAssumption, FS_CardinalityType
<1>2. PICK g \in [1..n -> Svc] : \A s \in Svc : \E i \in 1..n : g[i] = s
  BY <1>1 DEF ExistsBijection, Bijection, Surjection
<1> DEFINE f == [s \in Svc |-> CHOOSE i \in 1..n : g[i] = s]
<1>3. \A s \in Svc : f[s] \in 1..n /\ g[f[s]] = s
  BY <1>2
<1>4. f \in [Svc -> 1..n]
  BY <1>3
<1>5. \A s, t \in Svc : f[s] = f[t] => s = t
  BY <1>3
<1> QED
  BY Zenon, <1>4, <1>5 DEF Orders

(* The last advertisement of a prefix in a list.                           *)
LEMMA LastPathIs ==
    ASSUME NEW ads, NEW n \in Nat, DOMAIN ads = 1..n, NEW p,
           \E k \in DOMAIN ads : ads[k].prefix = p
    PROVE  \E k \in DOMAIN ads : /\ ads[k].prefix = p
                                 /\ \A j \in DOMAIN ads : ads[j].prefix = p => j <= k
                                 /\ LastPath(ads, p) = ads[k].path
<1> DEFINE T == {k \in DOMAIN ads : ads[k].prefix = p}
<1>1. T \in SUBSET (0..n) /\ T # {}
  OBVIOUS
<1>2. \E m \in T : \A k \in T : k <= m
  BY Zenon, <1>1, GreatestNat
<1>3. PICK m \in DOMAIN ads : /\ ads[m].prefix = p
                              /\ \A j \in DOMAIN ads : ads[j].prefix = p => j <= m
  BY <1>2
<1> DEFINE k == CHOOSE k \in DOMAIN ads : /\ ads[k].prefix = p
                                          /\ \A j \in DOMAIN ads : ads[j].prefix = p => j <= k
<1>4. k \in DOMAIN ads /\ ads[k].prefix = p /\ \A j \in DOMAIN ads : ads[j].prefix = p => j <= k
  BY <1>3
<1>5. LastPath(ads, p) = ads[k].path
  BY DEF LastPath
<1> HIDE DEF k
<1> QED
  BY <1>4, <1>5

(* It is one of the list.                                                  *)
LEMMA LastPathListed ==
    ASSUME NEW A, Proper(A), NEW ads \in Seq(A), NEW p,
           \E k \in DOMAIN ads : ads[k].prefix = p
    PROVE  \E k \in DOMAIN ads : ads[k] = [prefix |-> p, path |-> LastPath(ads, p)]
<1>1. Len(ads) \in Nat /\ DOMAIN ads = 1..Len(ads)
  OBVIOUS
<1>2. PICK k \in DOMAIN ads : ads[k].prefix = p /\ LastPath(ads, p) = ads[k].path
  BY <1>1, LastPathIs
<1>3. ads[k] \in A
  BY <1>1
<1> QED
  BY <1>2, <1>3 DEF Proper

(* Two addresses that a pool advertises under one prefix are advertised    *)
(* with the same path, even if the pool lists the length of the prefix     *)
(* several times.                                                          *)
LEMMA LastPathSame ==
    ASSUME NEW pool, NEW n \in Nat, DOMAIN pool.ads = 1..n, NEW ip, NEW jp, NEW p, p # None,
           \E k \in DOMAIN pool.ads : AdsOf(ip, pool)[k].prefix = p,
           \E k \in DOMAIN pool.ads : AdsOf(jp, pool)[k].prefix = p
    PROVE  LastPath(AdsOf(ip, pool), p) = LastPath(AdsOf(jp, pool), p)
<1> DEFINE A == AdsOf(ip, pool)
           B == AdsOf(jp, pool)
           host(k) == pool.ads[k].host
<1>1. /\ DOMAIN A = 1..n /\ DOMAIN B = 1..n
      /\ \A k \in 1..n : /\ A[k].prefix = Mask(ip, host(k)) /\ A[k].path = pool.ads[k].path
                          /\ B[k].prefix = Mask(jp, host(k)) /\ B[k].path = pool.ads[k].path
  BY DEF AdsOf
<1> HIDE DEF A, B
<1>2. PICK a \in 1..n : Mask(ip, host(a)) = p
  BY <1>1 DEF A
<1>3. PICK b \in 1..n : Mask(jp, host(b)) = p
  BY <1>1 DEF B
<1>4. \A i, j, g, h : Mask(i, g) = p /\ Mask(j, h) = p => g = h
  BY DEF Mask
<1>5. ASSUME NEW k \in 1..n
      PROVE  A[k].prefix = p <=> B[k].prefix = p
  BY <1>1, <1>2, <1>3, <1>4
<1>6. PICK k \in 1..n : /\ A[k].prefix = p
                        /\ \A j \in 1..n : A[j].prefix = p => j <= k
                        /\ LastPath(A, p) = A[k].path
  <2>1. \E k \in DOMAIN A : A[k].prefix = p
    BY <1>1, <1>2
  <2>2. DOMAIN A = 1..n
    BY <1>1
  <2>3. \E k \in DOMAIN A : /\ A[k].prefix = p
                            /\ \A j \in DOMAIN A : A[j].prefix = p => j <= k
                            /\ LastPath(A, p) = A[k].path
    BY <2>1, <2>2, LastPathIs
  <2> QED
    BY <2>2, <2>3
<1>7. PICK l \in 1..n : /\ B[l].prefix = p
                        /\ \A j \in 1..n : B[j].prefix = p => j <= l
                        /\ LastPath(B, p) = B[l].path
  <2>1. \E h \in DOMAIN B : B[h].prefix = p
    BY Zenon, <1>1, <1>3
  <2>2. DOMAIN B = 1..n
    BY <1>1
  <2>3. \E h \in DOMAIN B : /\ B[h].prefix = p
                            /\ \A j \in DOMAIN B : B[j].prefix = p => j <= h
                            /\ LastPath(B, p) = B[h].path
    BY <2>1, <2>2, LastPathIs
  <2> QED
    BY <2>2, <2>3
<1>8. k <= l /\ l <= k
  BY <1>5, <1>6, <1>7
<1>9. k = l
  BY <1>8
<1> QED
  BY <1>1, <1>6, <1>7, <1>9 DEF A, B

(* The last service that lists prefix p, in the given order.               *)
Lists(svcAds, s, p) == svcAds[s] # None /\ \E k \in DOMAIN svcAds[s] : svcAds[s][k].prefix = p

LastOf(svcAds, order, p) ==
    CHOOSE s \in Svc : /\ Lists(svcAds, s, p)
                       /\ \A t \in Svc : Lists(svcAds, t, p) => order[t] <= order[s]

(* A prefix that some service lists has a last service that does.          *)
LEMMA LastLists ==
    ASSUME NEW svcAds, NEW order \in Orders, NEW ad \in AllAds(svcAds)
    PROVE  LET s == LastOf(svcAds, order, ad.prefix)
           IN s \in Svc /\ Lists(svcAds, s, ad.prefix)
<1> DEFINE p == ad.prefix
           Has(s) == Lists(svcAds, s, p)
           n == Cardinality(Svc)
           T == {order[s] : s \in {t \in Svc : Has(t)}}
<1>1. PICK s \in Svc : Has(s)
  BY DEF AllAds, Lists
<1>2. n \in Nat /\ order \in [Svc -> 1..n]
  BY EndpointsAssumption, FS_CardinalityType DEF Orders
<1> HIDE DEF p, n, Has
<1>3. T \in SUBSET (0..n) /\ T # {}
  BY <1>1, <1>2
<1>4. \E m \in T : \A k \in T : k <= m
  BY Zenon, <1>2, <1>3, GreatestNat
<1>5. \E t \in Svc : Has(t) /\ \A u \in Svc : Has(u) => order[u] <= order[t]
  BY <1>4
<1> QED
  BY <1>5 DEF LastOf, Has, p

(* A table has for each prefix what its last service lists last.           *)
LEMMA TableIs ==
    \A svcAds, order :
        Table(svcAds, order) =
            {[prefix |-> p, path |-> LastPath(svcAds[LastOf(svcAds, order, p)], p)] :
                p \in {ad.prefix : ad \in AllAds(svcAds)}}
BY DEF Table, LastOf, Lists

(* A table of routes is made of advertisements of the services.            *)
LEMMA TableType ==
    ASSUME NEW A, Proper(A), NEW svcAds \in [Svc -> Seq(A) \cup {None}],
           NEW order \in Orders
    PROVE  Table(svcAds, order) \subseteq A
<1> DEFINE last(p) == LastOf(svcAds, order, p)
<1>1. ASSUME NEW ad \in AllAds(svcAds)
      PROVE  [prefix |-> ad.prefix, path |-> LastPath(svcAds[last(ad.prefix)], ad.prefix)] \in A
  <2> DEFINE p == ad.prefix
  <2>1. last(p) \in Svc /\ Lists(svcAds, last(p), p)
    BY LastLists
  <2> HIDE DEF last, p
  <2>2. svcAds[last(p)] \in Seq(A)
    BY <2>1 DEF Lists
  <2>3. \E k \in DOMAIN svcAds[last(p)] :
           svcAds[last(p)][k] = [prefix |-> p, path |-> LastPath(svcAds[last(p)], p)]
    BY <2>1, <2>2, LastPathListed DEF Lists
  <2> QED
    BY <2>2, <2>3 DEF p
<1>2. Table(svcAds, order) =
        {[prefix |-> p, path |-> LastPath(svcAds[last(p)], p)] :
            p \in {ad.prefix : ad \in AllAds(svcAds)}}
  BY TableIs
<1> HIDE DEF last
<1> QED
  BY <1>1, <1>2

(* The order does not matter if those that list a prefix agree on its      *)
(* path.                                                                   *)
LEMMA OrderAside ==
    ASSUME NEW svcAds, NEW o1 \in Orders, NEW o2 \in Orders,
           \A ad \in AllAds(svcAds) : \A s, t \in Svc :
              Lists(svcAds, s, ad.prefix) /\ Lists(svcAds, t, ad.prefix)
                 => LastPath(svcAds[s], ad.prefix) = LastPath(svcAds[t], ad.prefix)
    PROVE  Table(svcAds, o1) = Table(svcAds, o2)
<1> DEFINE P(o, p) == LastPath(svcAds[LastOf(svcAds, o, p)], p)
<1>1. ASSUME NEW ad \in AllAds(svcAds)
      PROVE  P(o1, ad.prefix) = P(o2, ad.prefix)
  <2> DEFINE p == ad.prefix
             s == LastOf(svcAds, o1, p)
             t == LastOf(svcAds, o2, p)
  <2>1. s \in Svc /\ Lists(svcAds, s, p) /\ t \in Svc /\ Lists(svcAds, t, p)
    BY LastLists
  <2> HIDE DEF s, t
  <2>2. LastPath(svcAds[s], p) = LastPath(svcAds[t], p)
    BY <2>1
  <2> QED
    BY <2>2 DEF s, t
<1>2. \A o : Table(svcAds, o) =
          {[prefix |-> p, path |-> P(o, p)] : p \in {ad.prefix : ad \in AllAds(svcAds)}}
  BY TableIs
<1> HIDE DEF P
<1>3. \A p \in {ad.prefix : ad \in AllAds(svcAds)} : P(o1, p) = P(o2, p)
  BY <1>1
<1>4. {[prefix |-> p, path |-> P(o1, p)] : p \in {ad.prefix : ad \in AllAds(svcAds)}}
        = {[prefix |-> p, path |-> P(o2, p)] : p \in {ad.prefix : ad \in AllAds(svcAds)}}
  BY <1>3
<1> QED
  BY Zenon, <1>2, <1>4

(* There is a table, and None is none.                                     *)
LEMMA SomeTable ==
    ASSUME NEW A, Proper(A), NEW svcAds \in [Svc -> Seq(A) \cup {None}]
    PROVE  Tables(svcAds) # {} /\ None \notin Tables(svcAds)
  BY SomeOrder, TableType DEF Tables, Proper

-----------------------------------------------------------------------------
(***************************************************************************)
(* updateAds and syncPeers.                                                *)
(***************************************************************************)

(* Struct d is b with other routes in its sessions.                        *)
OnlyRoutesDiffer(b, d) ==
    /\ d.svcAds = b.svcAds /\ d.nodeLabels = b.nodeLabels /\ d.open = b.open
    /\ DOMAIN d.peers = DOMAIN b.peers
    /\ \A i \in DOMAIN b.peers : d.peers[i].cfg = b.peers[i].cfg
    /\ Running(d) = Running(b)

(* The advertisements of b are all accepted by Session.Set.                *)
Accepted(b) == \A ad \in AllAds(b.svcAds) : ~Rejected(ad)

(* Which sessions run, and how many are open, is not about their routes.   *)
LEMMA RoutesAside ==
    ASSUME NEW b, NEW d, OnlyRoutesDiffer(b, d)
    PROVE  /\ Chosen(b) => Chosen(d)
           /\ Opened(b) => Opened(d)
           /\ Cfgs(d) = Cfgs(b)
<1>1. Selected(d) = Selected(b)
  BY DEF OnlyRoutesDiffer, Selected
<1>2. \A p : Count(d, Running(d), p) = Count(b, Running(b), p)
  <2> TAKE p
  <2>1. {i \in Running(d) : d.peers[i].cfg = p} = {i \in Running(b) : b.peers[i].cfg = p}
    BY DEF OnlyRoutesDiffer, Running
  <2> QED
    BY Zenon, <2>1 DEF Count
<1> QED
  BY <1>1, <1>2 DEF Chosen, Opened, Cfgs, OnlyRoutesDiffer

(* updateAds changes nothing but the routes; unless an advertisement is    *)
(* refused, all sessions are told the present ones.                        *)
LEMMA updateAdsEffect ==
    ASSUME NEW A, Proper(A), NEW b, BgpType(b, A), NEW r \in updateAds(b)
    PROVE  /\ BgpType(r.b, A)
           /\ OnlyRoutesDiffer(b, r.b)
           /\ r.ok \in BOOLEAN
           /\ Accepted(b) => r.ok /\ Told(r.b)
<1>1. CASE Running(b) # {} /\ \E ad \in AllAds(b.svcAds) : Rejected(ad)
  <2>1. r = [b |-> b, ok |-> FALSE]
    BY <1>1 DEF updateAds
  <2> QED
    BY <1>1, <2>1 DEF OnlyRoutesDiffer, Accepted
<1>2. CASE ~(Running(b) # {} /\ \E ad \in AllAds(b.svcAds) : Rejected(ad))
  <2>1. PICK t \in Tables(b.svcAds) :
          r = [b |-> [b EXCEPT !.peers = [i \in DOMAIN @ |->
                       IF i \in Running(b) THEN [cfg |-> @[i].cfg, bgp |-> t] ELSE @[i]]],
               ok |-> TRUE]
    BY Zenon, <1>2 DEF updateAds
  <2> DEFINE d == r.b
             peers == [i \in DOMAIN b.peers |->
                         IF i \in Running(b) THEN [cfg |-> b.peers[i].cfg, bgp |-> t]
                         ELSE b.peers[i]]
  <2>2. t # None
    BY SomeTable DEF BgpType
  <2>3. d = [nodeLabels |-> b.nodeLabels, peers |-> peers, svcAds |-> b.svcAds, open |-> b.open]
    BY Zenon, <2>1 DEF BgpType
  <2> HIDE DEF peers
  <2>4. /\ d.nodeLabels = b.nodeLabels /\ d.peers = peers /\ d.svcAds = b.svcAds
        /\ d.open = b.open /\ r.ok = TRUE
    BY <2>1, <2>3
  <2> HIDE DEF d
  <2>5. /\ DOMAIN peers = DOMAIN b.peers
        /\ peers = [i \in DOMAIN peers |-> peers[i]]
    BY DEF peers
  <2>6. ASSUME NEW i \in DOMAIN b.peers
        PROVE  /\ IsEntry(peers[i])
               /\ peers[i].cfg = b.peers[i].cfg
               /\ peers[i].bgp = IF i \in Running(b) THEN t ELSE b.peers[i].bgp
    BY Zenon DEF BgpType, IsEntry, peers
  <2>7. Running(d) = Running(b)
    BY <2>2, <2>4, <2>5, <2>6 DEF Running
  <2>8. BgpType(d, A)
    BY <2>3, <2>4, <2>5, <2>6 DEF BgpType
  <2>9. OnlyRoutesDiffer(b, d)
    BY <2>4, <2>5, <2>6, <2>7 DEF OnlyRoutesDiffer
  <2>10. Told(d)
    BY <2>4, <2>6, <2>7 DEF Told, Running
  <2> QED
    BY Zenon, <2>4, <2>8, <2>9, <2>10 DEF d
<1> QED
  BY <1>1, <1>2

(* The sessions after StartAndStop are the selected ones, and the ones     *)
(* opened and closed are accounted for.                                    *)
LEMMA StartAndStopEffect ==
    ASSUME NEW A, Proper(A), NEW b, BgpType(b, A), Opened(b)
    PROVE  LET d == StartAndStop(b)
           IN /\ BgpType(d, A)
              /\ d.svcAds = b.svcAds /\ d.nodeLabels = b.nodeLabels
              /\ Cfgs(d) = Cfgs(b)
              /\ Chosen(d) /\ Opened(d)
              /\ \A i \in Running(d) \cap Running(b) : d.peers[i].bgp = b.peers[i].bgp
              /\ Running(d) = Selected(b)
<1> DEFINE d == StartAndStop(b)
           S == Selected(b)
           peers == [i \in DOMAIN b.peers |->
                       [cfg |-> b.peers[i].cfg,
                        bgp |-> IF i \notin S THEN None
                                ELSE IF b.peers[i].bgp = None THEN NoRoutes
                                ELSE b.peers[i].bgp]]
           open == [p \in Peer |-> b.open[p] + Count(b, S \ Running(b), p)
                                             - Count(b, Running(b) \ S, p)]
<1>1. d = [nodeLabels |-> b.nodeLabels, peers |-> peers, svcAds |-> b.svcAds, open |-> open]
  <2>1. d = [b EXCEPT !.peers = peers, !.open = open]
    BY DEF StartAndStop
  <2> HIDE DEF d, peers, open
  <2> QED
    BY Zenon, <2>1 DEF BgpType
<1> HIDE DEF peers, open
<1>2. /\ d.nodeLabels = b.nodeLabels /\ d.peers = peers /\ d.svcAds = b.svcAds
      /\ d.open = open
  BY <1>1
<1> HIDE DEF d
<1>3. NoRoutes # None
  BY DEF Proper, NoRoutes
<1>4. /\ DOMAIN peers = DOMAIN b.peers
      /\ peers = [i \in DOMAIN peers |-> peers[i]]
  BY DEF peers
<1>5. ASSUME NEW i \in DOMAIN b.peers
      PROVE  /\ IsEntry(peers[i])
             /\ peers[i].cfg = b.peers[i].cfg
             /\ peers[i].bgp = IF i \notin S THEN None
                               ELSE IF b.peers[i].bgp = None THEN NoRoutes ELSE b.peers[i].bgp
  BY Zenon DEF BgpType, IsEntry, peers
<1>6. Running(d) = S
  BY <1>2, <1>3, <1>4, <1>5 DEF Running, Selected
<1>7. Selected(d) = S
  BY <1>2, <1>4, <1>5 DEF Selected
<1>8. ASSUME NEW p \in Peer
      PROVE  /\ open[p] \in Int
             /\ open[p] = Count(d, Running(d), p)
  <2> DEFINE D == {i \in DOMAIN b.peers : b.peers[i].cfg = p}
             X == S \cap D
             Y == Running(b) \cap D
  <2>1. IsFiniteSet(X) /\ IsFiniteSet(Y)
    <3>1. PICK n \in Nat : DOMAIN b.peers = 1..n
      BY DEF BgpType
    <3>2. IsFiniteSet(1..n)
      BY <3>1, FS_Interval
    <3> QED
      BY <3>1, <3>2, FS_Subset
  <2>2. /\ {i \in S \ Running(b) : b.peers[i].cfg = p} = X \ Y
        /\ {i \in Running(b) \ S : b.peers[i].cfg = p} = Y \ X
        /\ {i \in Running(b) : b.peers[i].cfg = p} = Y
        /\ {i \in Running(d) : d.peers[i].cfg = p} = X
    <3>1. S \subseteq DOMAIN b.peers /\ Running(b) \subseteq DOMAIN b.peers
      BY DEF Selected, Running
    <3> HIDE DEF S
    <3>2. \A i \in S : d.peers[i].cfg = b.peers[i].cfg
      BY <1>2, <1>5, <3>1
    <3> QED
      BY <1>6, <3>1, <3>2
  <2> HIDE DEF X, Y
  <2>3. /\ Count(b, S \ Running(b), p) = Cardinality(X \ Y)
        /\ Count(b, Running(b) \ S, p) = Cardinality(Y \ X)
        /\ Count(b, Running(b), p) = Cardinality(Y)
        /\ Count(d, Running(d), p) = Cardinality(X)
    BY Zenon, <2>2 DEF Count
  <2>4. /\ Cardinality(X \ Y) = Cardinality(X) - Cardinality(X \cap Y)
        /\ Cardinality(Y \ X) = Cardinality(Y) - Cardinality(X \cap Y)
    <3>1. Y \cap X = X \cap Y
      OBVIOUS
    <3>2. Cardinality(Y \ X) = Cardinality(Y) - Cardinality(Y \cap X)
      BY <2>1, FS_Difference
    <3> QED
      BY <2>1, <3>1, <3>2, FS_Difference
  <2>5. Cardinality(X) \in Nat /\ Cardinality(Y) \in Nat /\ Cardinality(X \cap Y) \in Nat
    BY Zenon, <2>1, FS_CardinalityType, FS_Intersection
  <2>6. b.open[p] = Cardinality(Y)
    BY <2>3 DEF Opened
  <2>7. open[p] = b.open[p] + (Cardinality(X \ Y) - Cardinality(Y \ X))
    BY <2>3 DEF open
  <2> QED
    BY <2>3, <2>4, <2>5, <2>6, <2>7
<1>9. open \in [Peer -> Int]
  BY Zenon, <1>8 DEF open
<1>10. BgpType(d, A)
  BY <1>1, <1>2, <1>4, <1>5, <1>9 DEF BgpType
<1>11. Cfgs(d) = Cfgs(b)
  BY <1>2, <1>4, <1>5 DEF Cfgs
<1>12. \A i \in Running(d) \cap Running(b) : d.peers[i].bgp = b.peers[i].bgp
  BY <1>2, <1>5, <1>6 DEF Running
<1> QED
  BY <1>2, <1>6, <1>7, <1>8, <1>10, <1>11, <1>12 DEF Chosen, Opened, d

(* What a method that ends in syncPeers leaves behind.                     *)
Synced(b, r, A) ==
    /\ BgpType(r.b, A)
    /\ r.b.svcAds = b.svcAds
    /\ Chosen(r.b) /\ Opened(r.b)
    /\ r.ok \in BOOLEAN
    /\ Accepted(b) => r.ok /\ (Told(b) => Told(r.b))

(* syncPeers starts and stops what it should; a session that is new is     *)
(* told the routes that the others already have.                           *)
LEMMA syncPeersEffect ==
    ASSUME NEW A, Proper(A), NEW b, BgpType(b, A), Opened(b), NEW r \in syncPeers(b)
    PROVE  Synced(b, r, A) /\ r.b.nodeLabels = b.nodeLabels /\ Cfgs(r.b) = Cfgs(b)
<1> DEFINE d == StartAndStop(b)
<1>1. /\ BgpType(d, A)
      /\ d.svcAds = b.svcAds /\ d.nodeLabels = b.nodeLabels
      /\ Cfgs(d) = Cfgs(b)
      /\ Chosen(d) /\ Opened(d)
      /\ \A i \in Running(d) \cap Running(b) : d.peers[i].bgp = b.peers[i].bgp
      /\ Running(d) = Selected(b)
  BY StartAndStopEffect
<1>2. CASE Selected(b) \subseteq Running(b)
  <2>1. r = [b |-> d, ok |-> TRUE]
    BY <1>2 DEF syncPeers
  <2> HIDE DEF d
  <2>2. r.b = d /\ r.ok = TRUE
    BY <2>1
  <2>3. Told(b) => Told(d)
    BY <1>1, <1>2 DEF Told
  <2> QED
    BY Zenon, <1>1, <2>2, <2>3 DEF Synced
<1>3. CASE ~(Selected(b) \subseteq Running(b))
  <2>1. r \in updateAds(d)
    BY <1>3 DEF syncPeers
  <2> HIDE DEF d
  <2>2. /\ BgpType(r.b, A)
        /\ OnlyRoutesDiffer(d, r.b)
        /\ r.ok \in BOOLEAN
        /\ Accepted(d) => r.ok /\ Told(r.b)
    BY <1>1, <2>1, updateAdsEffect
  <2>3. Chosen(r.b) /\ Opened(r.b) /\ Cfgs(r.b) = Cfgs(d)
    BY <1>1, <2>2, RoutesAside
  <2>4. r.b.svcAds = b.svcAds /\ r.b.nodeLabels = b.nodeLabels
    BY <1>1, <2>2 DEF OnlyRoutesDiffer
  <2>5. Accepted(b) => Accepted(d)
    BY <1>1 DEF Accepted
  <2> QED
    BY <1>1, <2>2, <2>3, <2>4, <2>5 DEF Synced
<1> QED
  BY <1>2, <1>3

-----------------------------------------------------------------------------
(***************************************************************************)
(* The sessions that a new configuration keeps.                            *)
(***************************************************************************)

(* Of two equal elements the later has the higher position among them.     *)
LEMMA NthGrows ==
    ASSUME NEW seq, NEW i \in Nat, NEW j \in Nat, 1 <= j, i < j, seq[i] = seq[j]
    PROVE  Nth(seq, i) # Nth(seq, j)
<1> DEFINE I == {k \in 1..i : seq[k] = seq[i]}
           J == {k \in 1..j : seq[k] = seq[j]}
<1>1. IsFiniteSet(J)
  <2>1. IsFiniteSet(1..j)
    BY FS_Interval
  <2> QED
    BY <2>1, FS_Subset
<1>2. I \in SUBSET J /\ j \in J /\ j \notin I
  OBVIOUS
<1>3. Nth(seq, i) = Cardinality(I) /\ Nth(seq, j) = Cardinality(J)
  BY DEF Nth
<1> HIDE DEF I, J
<1> QED
  BY Zenon, <1>1, <1>2, <1>3, FS_Subset

(* An element is told by its value and its position among its equals.      *)
LEMMA NthInjective ==
    ASSUME NEW seq, NEW n \in Nat, NEW i \in 1..n, NEW j \in 1..n,
           seq[i] = seq[j], Nth(seq, i) = Nth(seq, j)
    PROVE  i = j
<1>1. ~(i < j) /\ ~(j < i)
  BY NthGrows
<1> QED
  BY <1>1

(* Before syncPeers, SetConfig has matched old and new peers.              *)
Matched(b, peers) ==
    [b EXCEPT !.peers = NewPeers(b, peers),
              !.open = [p \in Peer |-> @[p] - Count(b,
                  (DOMAIN b.peers \ UNION {Matching(b, peers, i) : i \in DOMAIN peers})
                      \cap Running(b), p)]]

(* A new peer has at most one match, and no two have the same.             *)
LEMMA MatchingInjective ==
    ASSUME NEW A, NEW b, BgpType(b, A), NEW peers \in Seq(Peer)
    PROVE  /\ \A i \in DOMAIN peers : \A j \in Matching(b, peers, i) :
                 j \in DOMAIN b.peers /\ b.peers[j].cfg = peers[i]
           /\ \A i \in DOMAIN peers : \A j, k \in Matching(b, peers, i) : j = k
           /\ \A i, h \in DOMAIN peers :
                 Matching(b, peers, i) \cap Matching(b, peers, h) # {} => i = h
<1> DEFINE old == [j \in DOMAIN b.peers |-> b.peers[j].cfg]
<1>1. \A i : Matching(b, peers, i)
               = {j \in DOMAIN old : old[j] = peers[i] /\ Nth(old, j) = Nth(peers, i)}
  BY DEF Matching
<1>2. PICK n \in Nat : DOMAIN b.peers = 1..n
  BY DEF BgpType
<1>3. DOMAIN old = 1..n /\ \A j \in DOMAIN old : old[j] = b.peers[j].cfg
  BY <1>2
<1>4. Len(peers) \in Nat /\ DOMAIN peers = 1..Len(peers)
  OBVIOUS
<1> HIDE DEF old
<1>5. \A i \in DOMAIN peers : \A j \in Matching(b, peers, i) :
         j \in DOMAIN b.peers /\ b.peers[j].cfg = peers[i]
  BY <1>1, <1>2, <1>3
<1>6. ASSUME NEW i \in DOMAIN peers,
             NEW j \in Matching(b, peers, i), NEW k \in Matching(b, peers, i)
      PROVE  j = k
  <2>1. j \in 1..n /\ k \in 1..n /\ old[j] = old[k] /\ Nth(old, j) = Nth(old, k)
    BY <1>1, <1>3
  <2> QED
    BY <2>1, NthInjective
<1>7. ASSUME NEW i \in DOMAIN peers, NEW h \in DOMAIN peers,
             Matching(b, peers, i) \cap Matching(b, peers, h) # {}
      PROVE  i = h
  <2>1. PICK j : j \in Matching(b, peers, i) /\ j \in Matching(b, peers, h)
    BY <1>7
  <2>2. peers[i] = peers[h] /\ Nth(peers, i) = Nth(peers, h)
    BY <1>1, <2>1
  <2> QED
    BY <1>4, <2>2, NthInjective
<1> QED
  BY <1>5, <1>6, <1>7

(* The new list names the new peers, a session in it is one of the old     *)
(* ones, and those of the old ones that are not are closed.                *)
LEMMA MatchedEffect ==
    ASSUME NEW A, Proper(A), NEW b, BgpType(b, A), Opened(b), NEW peers \in Seq(Peer)
    PROVE  LET d == Matched(b, peers)
           IN /\ BgpType(d, A) /\ Opened(d)
              /\ d.svcAds = b.svcAds /\ d.nodeLabels = b.nodeLabels
              /\ Cfgs(d) = peers
              /\ Told(b) => Told(d)
<1> DEFINE d == Matched(b, peers)
           M(i) == Matching(b, peers, i)
           new == NewPeers(b, peers)
           dropped == DOMAIN b.peers \ UNION {M(i) : i \in DOMAIN peers}
           open == [p \in Peer |-> b.open[p] - Count(b, dropped \cap Running(b), p)]
           f == [i \in DOMAIN peers |-> CHOOSE j \in M(i) : TRUE]
<1>1. d = [nodeLabels |-> b.nodeLabels, peers |-> new, svcAds |-> b.svcAds, open |-> open]
  <2>1. d = [b EXCEPT !.peers = new, !.open = open]
    BY DEF Matched
  <2> HIDE DEF d, new, open
  <2> QED
    BY Zenon, <2>1 DEF BgpType
<1> HIDE DEF new, open
<1>2. /\ d.nodeLabels = b.nodeLabels /\ d.peers = new /\ d.svcAds = b.svcAds
      /\ d.open = open
  BY <1>1
<1> HIDE DEF d
<1>3. /\ \A i \in DOMAIN peers : \A j \in M(i) :
            j \in DOMAIN b.peers /\ b.peers[j].cfg = peers[i]
      /\ \A i \in DOMAIN peers : \A j, k \in M(i) : j = k
      /\ \A i, h \in DOMAIN peers : M(i) \cap M(h) # {} => i = h
  BY MatchingInjective
<1>4. Len(peers) \in Nat /\ DOMAIN peers = 1..Len(peers)
  OBVIOUS
<1>5. /\ DOMAIN new = DOMAIN peers
      /\ new = [i \in DOMAIN new |-> new[i]]
      /\ \A i \in DOMAIN peers : new[i] = IF M(i) = {} THEN [cfg |-> peers[i], bgp |-> None]
                                          ELSE b.peers[f[i]]
  BY DEF new, NewPeers
<1>6. \A i \in DOMAIN peers : M(i) # {} => f[i] \in M(i)
  OBVIOUS
<1> HIDE DEF M, f
<1>7. ASSUME NEW i \in DOMAIN peers
      PROVE  /\ IsEntry(new[i])
             /\ new[i].cfg = peers[i]
             /\ new[i].bgp # None =>
                    M(i) # {} /\ f[i] \in Running(b) /\ new[i].bgp = b.peers[f[i]].bgp
             /\ M(i) # {} /\ f[i] \in Running(b) => new[i].bgp # None
  <2>1. peers[i] \in Peer
    OBVIOUS
  <2>2. CASE M(i) = {}
    BY <1>5, <2>1, <2>2 DEF IsEntry
  <2>3. CASE M(i) # {}
    <3>1. f[i] \in DOMAIN b.peers /\ b.peers[f[i]].cfg = peers[i] /\ new[i] = b.peers[f[i]]
      BY <1>3, <1>5, <1>6, <2>3
    <3>2. IsEntry(b.peers[f[i]])
      BY <3>1 DEF BgpType
    <3> QED
      BY <2>3, <3>1, <3>2 DEF Running
  <2> QED
    BY <2>2, <2>3
<1>8. ASSUME NEW p \in Peer
      PROVE  /\ open[p] \in Int
             /\ open[p] = Count(d, Running(d), p)
  <2> DEFINE Y == {j \in Running(b) : b.peers[j].cfg = p}
             D == {j \in dropped \cap Running(b) : b.peers[j].cfg = p}
             N == {i \in Running(d) : d.peers[i].cfg = p}
             g == [i \in N |-> f[i]]
  <2>1. IsFiniteSet(Y) /\ IsFiniteSet(N)
    <3>1. PICK n \in Nat : DOMAIN b.peers = 1..n
      BY DEF BgpType
    <3>2. IsFiniteSet(1..n) /\ IsFiniteSet(1..Len(peers))
      BY <1>4, <3>1, FS_Interval
    <3>3. Y \subseteq 1..n /\ N \subseteq 1..Len(peers)
      BY <1>2, <1>4, <1>5, <3>1 DEF Running
    <3> QED
      BY <3>2, <3>3, FS_Subset
  <2>2. N = {i \in DOMAIN peers : M(i) # {} /\ f[i] \in Running(b) /\ peers[i] = p}
    BY <1>2, <1>5, <1>7 DEF Running
  <2>3. \A i \in N : g[i] = f[i] /\ f[i] \in Y \ D
    <3> SUFFICES ASSUME NEW i \in N
                 PROVE  f[i] \in Y \ D
      OBVIOUS
    <3>1. i \in DOMAIN peers /\ f[i] \in M(i) /\ f[i] \in Running(b) /\ peers[i] = p
      BY <1>6, <2>2
    <3>2. f[i] \in Y /\ f[i] \notin dropped
      BY <1>3, <3>1
    <3> QED
      BY <3>2
  <2>4. \A i, h \in N : g[i] = g[h] => i = h
    <3> SUFFICES ASSUME NEW i \in N, NEW h \in N, g[i] = g[h]
                 PROVE  i = h
      BY Zenon, Zenon, SMTT(30)
    <3>1. i \in DOMAIN peers /\ h \in DOMAIN peers /\ f[i] \in M(i) /\ f[h] \in M(h) /\ f[i] = f[h]
      BY <1>6, <2>2
    <3> QED
      BY <1>3, <3>1
  <2>5. \A j \in Y \ D : \E i \in N : g[i] = j
    <3> SUFFICES ASSUME NEW j \in Y \ D
                 PROVE  \E i \in N : g[i] = j
      OBVIOUS
    <3>1. j \in Running(b) /\ b.peers[j].cfg = p /\ j \in DOMAIN b.peers /\ j \notin dropped
      BY DEF Running
    <3>2. PICK i \in DOMAIN peers : j \in M(i)
      BY <3>1
    <3>3. f[i] = j /\ peers[i] = p
      BY <1>3, <1>6, <3>1, <3>2
    <3>4. i \in N
      BY <2>2, <3>1, <3>2, <3>3
    <3> QED
      BY <3>3, <3>4
  <2>6. ExistsBijection(N, Y \ D)
    <3> HIDE DEF N, Y, D
    <3>1. g \in [N -> Y \ D]
      BY <2>3
    <3>2. g \in Bijection(N, Y \ D)
      <4> HIDE DEF g
      <4> QED
        BY <2>4, <2>5, <3>1 DEF Bijection, Injection, Surjection, IsInjective
    <3> QED
      BY Zenon, <3>2 DEF ExistsBijection
  <2>7. Y \cap D = D /\ D \subseteq Y
    OBVIOUS
  <2>8. /\ Count(d, Running(d), p) = Cardinality(N)
        /\ Count(b, Running(b), p) = Cardinality(Y)
        /\ Count(b, dropped \cap Running(b), p) = Cardinality(D)
    BY DEF Count
  <2>9. open[p] = b.open[p] - Cardinality(D) /\ b.open[p] = Cardinality(Y)
    BY <2>8 DEF open, Opened
  <2> HIDE DEF N, Y, D, dropped
  <2>10. Cardinality(N) = Cardinality(Y \ D)
    BY <2>1, <2>6, FS_Bijection
  <2>11. Cardinality(Y \ D) = Cardinality(Y) - Cardinality(D)
    BY Zenon, <2>1, <2>7, FS_Difference
  <2>12. Cardinality(N) \in Nat
    BY <2>1, FS_CardinalityType
  <2> QED
    BY <2>8, <2>9, <2>10, <2>11, <2>12
<1>9. open \in [Peer -> Int]
  BY <1>8 DEF open
<1>10. BgpType(d, A)
  <2>1. DOMAIN new = 1..Len(peers) /\ \A i \in DOMAIN new : IsEntry(new[i])
    BY <1>4, <1>5, <1>7
  <2> QED
    BY <1>1, <1>2, <1>4, <1>5, <1>9, <2>1 DEF BgpType
<1>11. Cfgs(d) = peers
  <2>1. peers = [i \in DOMAIN peers |-> peers[i]]
    OBVIOUS
  <2> QED
    BY <1>2, <1>5, <1>7, <2>1 DEF Cfgs
<1>12. Told(b) => Told(d)
  <2> SUFFICES ASSUME NEW t \in Tables(b.svcAds),
                      \A i \in Running(b) : b.peers[i].bgp = t
               PROVE  \A i \in Running(d) : d.peers[i].bgp = t
    BY <1>2 DEF Told
  <2> QED
    BY <1>2, <1>5, <1>7 DEF Running
<1> QED
  BY <1>2, <1>8, <1>10, <1>11, <1>12 DEF Opened, d

-----------------------------------------------------------------------------
(***************************************************************************)
(* The methods of the BGP handler.                                         *)
(***************************************************************************)

(* A handler that is new has no session, and nothing to tell.              *)
LEMMA BgpNewEffect ==
    ASSUME NEW A, Proper(A)
    PROVE  /\ BgpType(BgpNew, A) /\ Chosen(BgpNew) /\ Opened(BgpNew)
           /\ Told(BgpNew) /\ Cfgs(BgpNew) = <<>>
<1> DEFINE ads == [s \in Svc |-> None]
           open == [p \in Peer |-> 0]
<1>1. BgpNew = [nodeLabels |-> None, peers |-> <<>>, svcAds |-> ads, open |-> open]
  BY DEF BgpNew
<1>2. ads \in [Svc -> Seq(A) \cup {None}] /\ open \in [Peer -> Int]
  OBVIOUS
<1>3. \A p \in Peer : open[p] = 0
  OBVIOUS
<1> HIDE DEF ads, open
<1>4. /\ BgpNew.nodeLabels = None /\ BgpNew.peers = <<>> /\ BgpNew.svcAds = ads
      /\ BgpNew.open = open
  BY <1>1
<1>5. DOMAIN <<>> = {} /\ DOMAIN <<>> = 1..0 /\ <<>> = [i \in DOMAIN <<>> |-> <<>>[i]]
  OBVIOUS
<1>6. BgpType(BgpNew, A)
  BY <1>1, <1>2, <1>4, <1>5 DEF BgpType
<1>7. Running(BgpNew) = {} /\ Selected(BgpNew) = {}
  BY <1>4, <1>5 DEF Running, Selected
<1>8. \A p \in Peer : Count(BgpNew, {}, p) = 0
  <2>1. Cardinality({}) = 0
    BY FS_EmptySet
  <2>2. \A p : {i \in {} : BgpNew.peers[i].cfg = p} = {}
    OBVIOUS
  <2> QED
    BY <2>1, <2>2 DEF Count
<1>9. Opened(BgpNew)
  BY <1>3, <1>4, <1>7, <1>8 DEF Opened
<1>10. Told(BgpNew)
  BY <1>2, <1>4, <1>7, SomeTable DEF Told
<1>11. Cfgs(BgpNew) = <<>>
  <2>1. Cfgs(BgpNew) = [i \in 1..0 |-> <<>>[i].cfg]
    BY <1>4, <1>5 DEF Cfgs
  <2> QED
    BY <2>1
<1> QED
  BY <1>6, <1>7, <1>9, <1>10, <1>11 DEF Chosen

(* SetConfig lists the new peers, and closes what is not among them.       *)
LEMMA BgpSetConfigEffect ==
    ASSUME NEW A, Proper(A), NEW b, BgpType(b, A), Opened(b), NEW peers \in Seq(Peer),
           NEW r \in BgpSetConfig(b, peers)
    PROVE  Synced(b, r, A) /\ r.b.nodeLabels = b.nodeLabels /\ Cfgs(r.b) = peers
<1> DEFINE d == Matched(b, peers)
<1>1. r \in syncPeers(d)
  BY DEF BgpSetConfig, Matched
<1>2. /\ BgpType(d, A) /\ Opened(d)
      /\ d.svcAds = b.svcAds /\ d.nodeLabels = b.nodeLabels
      /\ Cfgs(d) = peers
      /\ Told(b) => Told(d)
  BY MatchedEffect
<1> HIDE DEF d
<1>3. Synced(d, r, A) /\ r.b.nodeLabels = d.nodeLabels /\ Cfgs(r.b) = Cfgs(d)
  BY <1>1, <1>2, syncPeersEffect
<1> QED
  BY <1>2, <1>3 DEF Synced, Accepted

(* SetNode starts and stops sessions by the new labels.                    *)
LEMMA BgpSetNodeEffect ==
    ASSUME NEW A, Proper(A), NEW b, BgpType(b, A), Chosen(b), Opened(b),
           NEW labels \in Labels, NEW r \in BgpSetNode(b, labels)
    PROVE  Synced(b, r, A) /\ r.b.nodeLabels = labels /\ Cfgs(r.b) = Cfgs(b)
<1>1. CASE b.nodeLabels = labels
  <2>1. r = [b |-> b, ok |-> TRUE]
    BY <1>1 DEF BgpSetNode
  <2>2. r.b = b /\ r.ok = TRUE
    BY <2>1
  <2> QED
    BY Zenon, <1>1, <2>2 DEF Synced
<1>2. CASE b.nodeLabels # labels
  <2> DEFINE d == [b EXCEPT !.nodeLabels = labels]
  <2>1. r \in syncPeers(d)
    BY <1>2 DEF BgpSetNode
  <2>2. d = [nodeLabels |-> labels, peers |-> b.peers, svcAds |-> b.svcAds, open |-> b.open]
    BY DEF BgpType
  <2> HIDE DEF d
  <2>3. /\ d.nodeLabels = labels /\ d.peers = b.peers /\ d.svcAds = b.svcAds
        /\ d.open = b.open
    BY <2>2
  <2>4. BgpType(d, A)
    BY Zenon, <2>2, <2>3 DEF BgpType
  <2>5. Running(d) = Running(b) /\ Cfgs(d) = Cfgs(b)
    BY <2>3 DEF Running, Cfgs
  <2>6. Opened(d) /\ (Told(b) => Told(d))
    BY <2>3, <2>5 DEF Opened, Count, Told
  <2>7. Synced(d, r, A) /\ r.b.nodeLabels = d.nodeLabels /\ Cfgs(r.b) = Cfgs(d)
    BY <2>1, <2>4, <2>6, syncPeersEffect
  <2> QED
    BY <2>3, <2>5, <2>6, <2>7 DEF Synced, Accepted
<1> QED
  BY <1>1, <1>2

(* The advertisements of one service become ads, and the sessions are      *)
(* told.                                                                   *)
Readvertised(b, r, s, ads, A) ==
    /\ BgpType(r.b, A)
    /\ r.b.svcAds = [b.svcAds EXCEPT ![s] = ads]
    /\ r.b.nodeLabels = b.nodeLabels
    /\ Cfgs(r.b) = Cfgs(b)
    /\ Chosen(b) => Chosen(r.b)
    /\ Opened(b) => Opened(r.b)
    /\ r.ok \in BOOLEAN
    /\ Accepted(r.b) => r.ok /\ (Told(b) => Told(r.b))

(* What replacing the advertisements of a service before updateAds does.   *)
LEMMA ReadvertisedEffect ==
    ASSUME NEW A, Proper(A), NEW b, BgpType(b, A), NEW s \in Svc,
           NEW ads \in Seq(A) \cup {None},
           NEW r \in updateAds([b EXCEPT !.svcAds[s] = ads])
    PROVE  Readvertised(b, r, s, ads, A)
<1> DEFINE d == [b EXCEPT !.svcAds[s] = ads]
           sa == [b.svcAds EXCEPT ![s] = ads]
<1>1. d = [nodeLabels |-> b.nodeLabels, peers |-> b.peers, svcAds |-> sa, open |-> b.open]
  <2>1. d = [b EXCEPT !.svcAds = sa]
    OBVIOUS
  <2> HIDE DEF d, sa
  <2> QED
    BY <2>1 DEF BgpType
<1>2. sa \in [Svc -> Seq(A) \cup {None}]
  BY DEF BgpType
<1>3. r \in updateAds(d)
  OBVIOUS
<1> HIDE DEF d, sa
<1>4. /\ d.nodeLabels = b.nodeLabels /\ d.peers = b.peers /\ d.svcAds = sa
      /\ d.open = b.open
  BY <1>1
<1>5. BgpType(d, A)
  BY Zenon, <1>1, <1>2, <1>4 DEF BgpType
<1>6. Running(d) = Running(b) /\ Selected(d) = Selected(b) /\ Cfgs(d) = Cfgs(b)
  BY <1>4 DEF Running, Selected, Cfgs
<1>7. (Chosen(b) => Chosen(d)) /\ (Opened(b) => Opened(d))
  BY <1>4, <1>6 DEF Chosen, Opened, Count
<1>8. /\ BgpType(r.b, A)
      /\ OnlyRoutesDiffer(d, r.b)
      /\ r.ok \in BOOLEAN
      /\ Accepted(d) => r.ok /\ Told(r.b)
  BY <1>3, <1>5, updateAdsEffect
<1>9. /\ Chosen(d) => Chosen(r.b)
      /\ Opened(d) => Opened(r.b)
      /\ Cfgs(r.b) = Cfgs(d)
  BY <1>8, RoutesAside
<1>10. r.b.svcAds = sa /\ r.b.nodeLabels = b.nodeLabels
  BY <1>4, <1>8 DEF OnlyRoutesDiffer
<1>11. Accepted(r.b) => Accepted(d)
  BY <1>4, <1>10 DEF Accepted
<1> QED
  BY <1>6, <1>7, <1>8, <1>9, <1>10, <1>11 DEF Readvertised, sa

(* SetBalancer replaces the advertisements of the service.                 *)
LEMMA BgpSetBalancerEffect ==
    ASSUME NEW A, Proper(A), NEW b, BgpType(b, A), NEW s \in Svc, NEW ip, NEW pool,
           AdsOf(ip, pool) \in Seq(A), NEW r \in BgpSetBalancer(b, s, ip, pool)
    PROVE  Readvertised(b, r, s, AdsOf(ip, pool), A)
BY ReadvertisedEffect DEF BgpSetBalancer

(* DeleteBalancer removes them.                                            *)
LEMMA BgpDeleteBalancerEffect ==
    ASSUME NEW A, Proper(A), NEW b, BgpType(b, A), NEW s \in Svc,
           NEW r \in BgpDeleteBalancer(b, s)
    PROVE  Readvertised(b, r, s, None, A)
<1>1. CASE b.svcAds[s] = None
  <2>1. r = [b |-> b, ok |-> TRUE]
    BY <1>1 DEF BgpDeleteBalancer
  <2>2. r.b = b /\ r.ok = TRUE
    BY <2>1
  <2>3. b.svcAds = [b.svcAds EXCEPT ![s] = None]
    BY <1>1 DEF BgpType
  <2> QED
    BY Zenon, <2>2, <2>3 DEF Readvertised
<1>2. CASE b.svcAds[s] # None
  BY <1>2, ReadvertisedEffect DEF BgpDeleteBalancer
<1> QED
  BY <1>1, <1>2

-----------------------------------------------------------------------------
(***************************************************************************)
(* The methods of the VPP handler.                                         *)
(***************************************************************************)

(* The VPP handler's struct.                                               *)
VppType(v) ==
    /\ v = [ips |-> v.ips, ipRefcnt |-> v.ipRefcnt, ipAddr |-> v.ipAddr, ethIfcs |-> v.ethIfcs]
    /\ v.ips \in [Name -> IP \cup {None}]
    /\ v.ipRefcnt \in [IP -> Int]
    /\ v.ipAddr \in NodeAddr \cup {None}
    /\ v.ethIfcs \in NodeAddr \cup {None}

(* Result r of entering the address, unless the service has one or it is   *)
(* taken.                                                                  *)
VppEntered(v, r, s, ip) ==
    /\ VppType(r.v)
    /\ r.v.ipAddr = v.ipAddr /\ r.v.ethIfcs = v.ethIfcs
    /\ r.ok \in BOOLEAN /\ r.failures \in Nat
    /\ r.ok \/ r.failures > 0
    /\ v.ips[NameOf[s]] # None => r.v = v
    /\ v.ips[NameOf[s]] = None /\ v.ipRefcnt[ip] = 0 =>
          /\ r.v.ips = [v.ips EXCEPT ![NameOf[s]] = ip]
          /\ r.v.ipRefcnt = [v.ipRefcnt EXCEPT ![ip] = 1]

(* SetBalancer of the VPP handler enters the address.                      *)
LEMMA VppSetBalancerEffect ==
    ASSUME NEW v, VppType(v), NEW e, NEW s \in Svc, NEW ip \in IP,
           NEW r \in VppSetBalancer(v, e, s, ip)
    PROVE  VppEntered(v, r, s, ip)
<1> DEFINE n == NameOf[s]
           counted == [v EXCEPT !.ipRefcnt[ip] = @ + 1]
           refs == [v.ipRefcnt EXCEPT ![ip] = v.ipRefcnt[ip] + 1]
           entered == [counted EXCEPT !.ips[n] = ip]
           ips == [v.ips EXCEPT ![n] = ip]
<1>1. n \in Name /\ v.ipRefcnt[ip] \in Int
  BY VppAssumption DEF VppType
<1>2. counted = [ips |-> v.ips, ipRefcnt |-> refs, ipAddr |-> v.ipAddr, ethIfcs |-> v.ethIfcs]
  <2>1. counted = [v EXCEPT !.ipRefcnt = refs]
    OBVIOUS
  <2> HIDE DEF counted, refs
  <2> QED
    BY <2>1 DEF VppType
<1>3. refs \in [IP -> Int] /\ refs[ip] = v.ipRefcnt[ip] + 1
  BY <1>1 DEF VppType
<1>4. ips \in [Name -> IP \cup {None}]
  BY <1>1 DEF VppType
<1>5. entered = [ips |-> ips, ipRefcnt |-> refs, ipAddr |-> v.ipAddr, ethIfcs |-> v.ethIfcs]
  <2> HIDE DEF counted, refs
  <2>1. entered = [counted EXCEPT !.ips = ips]
    BY <1>2
  <2> HIDE DEF entered, ips
  <2> QED
    BY <1>2, <2>1
<1>6. v.ipRefcnt[ip] = 0 => refs = [v.ipRefcnt EXCEPT ![ip] = 1]
  OBVIOUS
<1>7. \/ v.ips[n] # None /\ r = [v |-> v, e |-> e, ok |-> TRUE, failures |-> 0]
      \/ /\ v.ips[n] = None /\ counted.ipRefcnt[ip] > 1
         /\ r = [v |-> counted, e |-> e, ok |-> TRUE, failures |-> 0]
      \/ /\ v.ips[n] = None /\ r \in updateProxyArp(entered, e)
  BY DEF VppSetBalancer, Unchanged
<1> HIDE DEF counted, refs, entered, ips, n
<1>8. counted.ipRefcnt = refs /\ VppType(counted)
  <2>1. /\ counted.ips = v.ips /\ counted.ipRefcnt = refs /\ counted.ipAddr = v.ipAddr
        /\ counted.ethIfcs = v.ethIfcs
    BY <1>2
  <2> QED
    BY <1>2, <1>3, <2>1 DEF VppType
<1>9. /\ VppType(entered)
      /\ entered.ips = ips /\ entered.ipRefcnt = refs /\ entered.ipAddr = v.ipAddr
      /\ entered.ethIfcs = v.ethIfcs
  <2>1. /\ entered.ips = ips /\ entered.ipRefcnt = refs /\ entered.ipAddr = v.ipAddr
        /\ entered.ethIfcs = v.ethIfcs
    BY <1>5
  <2> QED
    BY <1>3, <1>4, <1>5, <2>1 DEF VppType
<1>10. CASE v.ips[n] # None /\ r = [v |-> v, e |-> e, ok |-> TRUE, failures |-> 0]
  <2>1. r.v = v /\ r.ok = TRUE /\ r.failures = 0
    BY <1>10
  <2>2. 0 \in Nat
    OBVIOUS
  <2> QED
    BY Zenon, <1>10, <2>1, <2>2 DEF n, VppEntered
<1>11. CASE /\ v.ips[n] = None /\ counted.ipRefcnt[ip] > 1
            /\ r = [v |-> counted, e |-> e, ok |-> TRUE, failures |-> 0]
  <2>1. r.v = counted /\ r.ok = TRUE /\ r.failures = 0
    BY <1>11
  <2>2. v.ipRefcnt[ip] # 0
    BY SMTT(30), <1>1, <1>3, <1>8, <1>11
  <2> QED
    BY <1>2, <1>8, <1>11, <2>1, <2>2 DEF n, VppEntered
<1>12. CASE v.ips[n] = None /\ r \in updateProxyArp(entered, e)
  <2>1. /\ r.v = entered
        /\ \/ r.ok = TRUE /\ r.failures = 0
           \/ r.ok = FALSE /\ r.failures = 1
    BY <1>12 DEF updateProxyArp
  <2>2. r.ok \in BOOLEAN /\ r.failures \in Nat /\ (r.ok \/ r.failures > 0)
    <3>1. 1 > 0 /\ 1 \in Nat /\ 0 \in Nat
      OBVIOUS
    <3> QED
      BY Zenon, <2>1, <3>1
  <2>3. r.v.ips = [v.ips EXCEPT ![NameOf[s]] = ip] /\ r.v.ipRefcnt = refs
    BY <1>9, <2>1 DEF n, ips
  <2> QED
    BY Zenon, <1>6, <1>9, <1>12, <2>1, <2>2, <2>3 DEF n, VppEntered
<1> QED
  BY <1>7, <1>10, <1>11, <1>12

(* Result r of removing the address of the service, if it has one.         *)
VppRemoved(v, r, s) ==
    /\ VppType(r.v)
    /\ r.v.ipAddr = v.ipAddr /\ r.v.ethIfcs = v.ethIfcs
    /\ r.ok = TRUE /\ r.failures \in Nat
    /\ v.ips[NameOf[s]] = None => r.v = v
    /\ v.ips[NameOf[s]] # None =>
          /\ r.v.ips = [v.ips EXCEPT ![NameOf[s]] = None]
          /\ r.v.ipRefcnt = [v.ipRefcnt EXCEPT ![v.ips[NameOf[s]]] = @ - 1]

(* DeleteBalancer removes it.                                              *)
LEMMA VppDeleteBalancerEffect ==
    ASSUME NEW v, VppType(v), NEW e, NEW s \in Svc, NEW r \in VppDeleteBalancer(v, e, s)
    PROVE  VppRemoved(v, r, s)
<1> DEFINE n == NameOf[s]
           ip == v.ips[n]
           less == [v EXCEPT !.ips[n] = None, !.ipRefcnt[ip] = @ - 1]
           refs == [v.ipRefcnt EXCEPT ![ip] = @ - 1]
           ips == [v.ips EXCEPT ![n] = None]
<1>1. n \in Name
  BY VppAssumption
<1>2. CASE ip = None
  <2>1. r = [v |-> v, e |-> e, ok |-> TRUE, failures |-> 0]
    BY <1>2 DEF VppDeleteBalancer, Unchanged
  <2> QED
    BY <1>2, <2>1 DEF VppRemoved
<1>3. CASE ip # None
  <2>1. ip \in IP
    BY <1>1, <1>3 DEF VppType
  <2>2. less = [ips |-> ips, ipRefcnt |-> refs, ipAddr |-> v.ipAddr, ethIfcs |-> v.ethIfcs]
    <3>1. less = [v EXCEPT !.ips = ips, !.ipRefcnt = refs]
      OBVIOUS
    <3> HIDE DEF less, ips, refs
    <3> QED
      BY Zenon, <3>1 DEF VppType
  <2>3. refs \in [IP -> Int] /\ ips \in [Name -> IP \cup {None}]
    BY <1>1, <2>1 DEF VppType
  <2>4. \/ r = [v |-> less, e |-> e, ok |-> TRUE, failures |-> 0]
        \/ \E q \in updateProxyArp(less, e) : r = [q EXCEPT !.ok = TRUE]
    BY <1>3 DEF VppDeleteBalancer, Unchanged
  <2> HIDE DEF less, ips, refs
  <2>5. r.v = less /\ r.ok = TRUE /\ r.failures \in Nat
    BY <2>4 DEF updateProxyArp
  <2>6. /\ less.ips = ips /\ less.ipRefcnt = refs /\ less.ipAddr = v.ipAddr
        /\ less.ethIfcs = v.ethIfcs
    BY <2>2
  <2>7. VppType(less)
    BY <2>2, <2>3, <2>6 DEF VppType
  <2> QED
    BY <1>3, <2>5, <2>6, <2>7 DEF VppRemoved, ips, refs
<1> QED
  BY <1>2, <1>3

(* SetNode of the VPP handler, when it succeeds with an address, leaves it *)
(* known and some interfaces read.                                         *)
LEMMA VppSetNodeEffect ==
    ASSUME NEW v, VppType(v), NEW e, NEW addr \in NodeAddr \cup {None},
           NEW r \in VppSetNode(v, e, addr)
    PROVE  /\ VppType(r.v)
           /\ r.v.ips = v.ips /\ r.v.ipRefcnt = v.ipRefcnt
           /\ r.ok \in BOOLEAN /\ r.failures \in Nat
           /\ r.ok /\ addr # None => r.v.ipAddr = addr /\ r.v.ethIfcs # None
<1> DEFINE moved == [v EXCEPT !.ipAddr = addr]
           read == [moved EXCEPT !.ethIfcs = addr]
<1>1. CASE addr = None \/ (addr = v.ipAddr /\ v.ethIfcs # None)
  <2>1. r = [v |-> v, e |-> e, ok |-> TRUE, failures |-> 0]
    BY <1>1 DEF VppSetNode, Unchanged
  <2> QED
    BY <1>1, <2>1
<1>2. CASE ~(addr = None \/ (addr = v.ipAddr /\ v.ethIfcs # None))
  <2>1. \/ r = [v |-> read, e |-> e, ok |-> TRUE, failures |-> 0]
        \/ r = [v |-> moved, e |-> e, ok |-> FALSE, failures |-> 1]
    BY <1>2 DEF VppSetNode
  <2>2. moved = [ips |-> v.ips, ipRefcnt |-> v.ipRefcnt, ipAddr |-> addr, ethIfcs |-> v.ethIfcs]
    BY DEF VppType
  <2> HIDE DEF moved
  <2>3. read = [ips |-> v.ips, ipRefcnt |-> v.ipRefcnt, ipAddr |-> addr, ethIfcs |-> addr]
    BY <2>2
  <2> HIDE DEF read
  <2>4. VppType(read) /\ VppType(moved)
    BY <2>2, <2>3 DEF VppType
  <2>5. CASE r = [v |-> read, e |-> e, ok |-> TRUE, failures |-> 0]
    BY <1>2, <2>3, <2>4, <2>5
  <2>6. CASE r = [v |-> moved, e |-> e, ok |-> FALSE, failures |-> 1]
    BY <2>2, <2>4, <2>6
  <2> QED
    BY <2>1, <2>5, <2>6
<1> QED
  BY <1>1, <1>2

(* A handler that is new announces nothing.                                *)
LEMMA VppNewType == VppType(VppNew)
<1> DEFINE ips == [n \in Name |-> None]
           refs == [i \in IP |-> 0]
<1>1. VppNew = [ips |-> ips, ipRefcnt |-> refs, ipAddr |-> None, ethIfcs |-> None]
  BY DEF VppNew
<1>2. ips \in [Name -> IP \cup {None}] /\ refs \in [IP -> Int]
  OBVIOUS
<1> HIDE DEF ips, refs
<1> QED
  BY <1>1, <1>2 DEF VppType

-----------------------------------------------------------------------------
(***************************************************************************)
(* The controller: its struct, and what is assumed.                        *)
(***************************************************************************)

(* Session.Set refuses nothing that the configurations advertise: their    *)
(* pools advertise IPv4 addresses, and with at most 63 communities.        *)
Advertisable == \A ad \in Advertisement : ~Rejected(ad)

(* The controller's struct, with the sessions of the BGP handler those     *)
(* that should run.                                                        *)
ControllerType(x) ==
    /\ x = [config |-> x.config, announced |-> x.announced, svcIP |-> x.svcIP,
            bgp |-> x.bgp, vpp |-> x.vpp, gauge |-> x.gauge]
    /\ x.config \in Configs \cup {None}
    /\ x.announced \in [Svc -> Protocol \cup {None}]
    /\ x.svcIP \in [Svc -> IP \cup {None}]
    /\ BgpType(x.bgp, Advertisement) /\ Chosen(x.bgp) /\ Opened(x.bgp)
    /\ VppType(x.vpp)

(* The controller and the BGP handler agree on what is advertised.         *)
InStep(x) == \A s \in Svc : x.announced[s] = "bgp" <=> x.bgp.svcAds[s] # None

(* What service s may be, and the addresses of those versions that some    *)
(* configuration has announced by layer 2.                                 *)
Versions(s) == (Services[s] \cup {cl.services[s] : cl \in Cluster}) \ {None}

Layer2Addrs(s) ==
    {o.ip : o \in Versions(s)}
    \cap UNION {p.addrs : p \in {q \in UNION {PoolsOf(cfg) : cfg \in Configs} :
                                     q.Protocol = "layer2"}}

(* Different services have different names with "-" for "/" and different  *)
(* layer 2 addresses, and a service does not change its own.               *)
SteadyLayer2 ==
    /\ \A s, t \in Svc : NameOf[s] = NameOf[t] => s = t
    /\ \A s, t \in Svc : \A i \in Layer2Addrs(s), j \in Layer2Addrs(t) : s = t <=> i = j

(* The controller and the VPP handler agree on what is announced, and each *)
(* address is counted once.                                                *)
Layer2OK(x) ==
    /\ \A s \in Svc : x.vpp.ips[NameOf[s]] = IF x.announced[s] = "layer2" THEN x.svcIP[s]
                                             ELSE None
    /\ \A s \in Svc : x.announced[s] = "layer2" => x.svcIP[s] \in Layer2Addrs(s)
    /\ \A ip \in IP :
          x.vpp.ipRefcnt[ip] = IF \E s \in Svc : x.announced[s] = "layer2" /\ x.svcIP[s] = ip
                               THEN 1 ELSE 0

-----------------------------------------------------------------------------
(***************************************************************************)
(* The controller's struct.                                                *)
(***************************************************************************)

(* The advertisements of the configurations are advertisements.            *)
LEMMA AdvertisementProper == Proper(Advertisement)
<1>1. ASSUME NEW ad \in Advertisement
      PROVE  ad = [prefix |-> ad.prefix, path |-> ad.path]
  <2> DEFINE P == UNION {PoolsOf(cfg) : cfg \in Configs}
  <2>0. PICK p \in P : ad \in {AdsOf(ip, p)[k] : ip \in p.addrs, k \in DOMAIN p.ads}
    <3> HIDE DEF P
    <3> QED
      BY DEF Advertisement, P
  <2>1. PICK ip \in p.addrs, k \in DOMAIN p.ads : ad = AdsOf(ip, p)[k]
    BY <2>0
  <2>2. ad = [prefix |-> Mask(ip, p.ads[k].host), path |-> p.ads[k].path]
    BY <2>1 DEF AdsOf
  <2> QED
    BY <2>2
<1> QED
  BY <1>1, SpeakerAssumption DEF Proper

(* Those that the BGP handler holds are among them.                        *)
LEMMA AllAccepted ==
    ASSUME Advertisable, NEW b, BgpType(b, Advertisement)
    PROVE  Accepted(b)
<1> SUFFICES ASSUME NEW ad \in AllAds(b.svcAds)
             PROVE  ad \in Advertisement
  BY DEF Accepted, Advertisable
<1>1. PICK s \in Svc : b.svcAds[s] # None /\ \E k \in DOMAIN b.svcAds[s] : ad = b.svcAds[s][k]
  BY Zenon DEF AllAds
<1>2. b.svcAds[s] \in Seq(Advertisement)
  BY <1>1 DEF BgpType
<1> QED
  BY <1>1, <1>2

(* The address and the pool of a service make a list of them.              *)
LEMMA AdsOfPool ==
    ASSUME NEW cfg \in Configs, NEW n \in DOMAIN cfg.pools, NEW ip \in cfg.pools[n].addrs
    PROVE  AdsOf(ip, cfg.pools[n]) \in Seq(Advertisement)
<1> DEFINE p == cfg.pools[n]
           A == AdsOf(ip, p)
<1>1. p \in Pool /\ p \in UNION {PoolsOf(d) : d \in Configs}
  BY SMTT(30), SpeakerAssumption DEF PoolsOf
<1>2. p.ads \in Seq([host : 0..32, path : Path])
  BY <1>1 DEF Pool
<1>3. Len(p.ads) \in Nat /\ DOMAIN p.ads = 1..Len(p.ads)
  BY <1>2
<1>4. DOMAIN A = DOMAIN p.ads /\ A = [k \in 1..Len(p.ads) |-> A[k]]
  BY <1>3 DEF AdsOf
<1>5. ASSUME NEW k \in 1..Len(p.ads)
      PROVE  A[k] \in Advertisement
  <2> DEFINE P == UNION {PoolsOf(d) : d \in Configs}
             AdsIn(q) == {AdsOf(i, q)[j] : i \in q.addrs, j \in DOMAIN q.ads}
  <2>1. A[k] \in AdsIn(p)
    BY <1>3
  <2>2. Advertisement = UNION {AdsIn(q) : q \in P}
    BY DEF Advertisement
  <2>3. p \in P
    BY <1>1
  <2> HIDE DEF P, A, AdsIn, p
  <2> QED
    BY Zenon, <2>1, <2>2, <2>3
<1> HIDE DEF A, p
<1>6. [k \in 1..Len(p.ads) |-> A[k]] \in Seq(Advertisement)
  BY <1>3, <1>5
<1> QED
  BY Zenon, <1>4, <1>6 DEF A, p

(* Struct y is x with handlers b and v.                                    *)
WithHandlers(x, y, b, v) ==
    /\ y = [config |-> x.config, announced |-> x.announced, svcIP |-> x.svcIP,
            bgp |-> b, vpp |-> v, gauge |-> x.gauge]
    /\ y.config = x.config /\ y.announced = x.announced /\ y.svcIP = x.svcIP
    /\ y.bgp = b /\ y.vpp = v /\ y.gauge = x.gauge

(* A method of the BGP handler changes that handler only.                  *)
LEMMA WithBgp ==
    ASSUME NEW x, ControllerType(x), NEW b
    PROVE  WithHandlers(x, [x EXCEPT !.bgp = b], b, x.vpp)
<1>1. [x EXCEPT !.bgp = b]
        = [config |-> x.config, announced |-> x.announced, svcIP |-> x.svcIP,
           bgp |-> b, vpp |-> x.vpp, gauge |-> x.gauge]
  BY DEF ControllerType
<1> QED
  BY <1>1 DEF WithHandlers

(* A method of the VPP handler changes that handler only.                  *)
LEMMA WithVpp ==
    ASSUME NEW x, ControllerType(x), NEW v
    PROVE  WithHandlers(x, [x EXCEPT !.vpp = v], x.bgp, v)
<1>1. [x EXCEPT !.vpp = v]
        = [config |-> x.config, announced |-> x.announced, svcIP |-> x.svcIP,
           bgp |-> x.bgp, vpp |-> v, gauge |-> x.gauge]
  BY DEF ControllerType
<1> QED
  BY <1>1 DEF WithHandlers

(* Struct y is x with another entry for service s.                         *)
ServiceSet(x, y, s, a, i) ==
    /\ ControllerType(y)
    /\ y.config = x.config /\ y.bgp = x.bgp /\ y.vpp = x.vpp
    /\ y.announced = [x.announced EXCEPT ![s] = a]
    /\ y.svcIP = [x.svcIP EXCEPT ![s] = i]

(* What the controller records of a service.                               *)
LEMMA WithService ==
    ASSUME NEW x, ControllerType(x), NEW s \in Svc, NEW a \in Protocol \cup {None},
           NEW i \in IP \cup {None}, NEW g
    PROVE  ServiceSet(x, [x EXCEPT !.announced[s] = a, !.svcIP[s] = i, !.gauge = g], s, a, i)
<1> DEFINE y == [x EXCEPT !.announced[s] = a, !.svcIP[s] = i, !.gauge = g]
           an == [x.announced EXCEPT ![s] = a]
           si == [x.svcIP EXCEPT ![s] = i]
<1>1. y = [config |-> x.config, announced |-> an, svcIP |-> si,
           bgp |-> x.bgp, vpp |-> x.vpp, gauge |-> g]
  <2>1. y = [x EXCEPT !.announced = an, !.svcIP = si, !.gauge = g]
    OBVIOUS
  <2> HIDE DEF y, an, si
  <2> QED
    BY Zenon, <2>1 DEF ControllerType
<1>2. an \in [Svc -> Protocol \cup {None}] /\ si \in [Svc -> IP \cup {None}]
  BY DEF ControllerType
<1> HIDE DEF y, an, si
<1>3. /\ y.config = x.config /\ y.announced = an /\ y.svcIP = si
      /\ y.bgp = x.bgp /\ y.vpp = x.vpp /\ y.gauge = g
  BY <1>1
<1>4. ControllerType(y)
  BY <1>1, <1>2, <1>3 DEF ControllerType
<1> QED
  BY <1>3, <1>4 DEF ServiceSet, y, an, si

-----------------------------------------------------------------------------
(***************************************************************************)
(* What the controller and the VPP handler both record.                    *)
(***************************************************************************)

(* The addresses of layer 2 are addresses.                                 *)
LEMMA Layer2AddrsIP ==
    ASSUME NEW s
    PROVE  Layer2Addrs(s) \subseteq IP
<1> SUFFICES ASSUME NEW i \in Layer2Addrs(s)
             PROVE  i \in IP
  OBVIOUS
<1>1. PICK cfg \in Configs : \E p \in PoolsOf(cfg) : i \in p.addrs
  BY Zenon DEF Layer2Addrs
<1>2. PICK n \in DOMAIN cfg.pools : i \in cfg.pools[n].addrs
  BY <1>1 DEF PoolsOf
<1>3. cfg.pools[n] \in Pool
  BY SpeakerAssumption
<1> QED
  BY <1>2, <1>3 DEF Pool

(* Nothing that is about layer 2 changes.                                  *)
LEMMA Layer2Aside ==
    ASSUME NEW x, NEW y, Layer2OK(x),
           y.vpp.ips = x.vpp.ips, y.vpp.ipRefcnt = x.vpp.ipRefcnt,
           \A s \in Svc : y.announced[s] = "layer2" <=> x.announced[s] = "layer2",
           \A s \in Svc : x.announced[s] = "layer2" => y.svcIP[s] = x.svcIP[s]
    PROVE  Layer2OK(y)
BY DEF Layer2OK

(* An address that is not announced for its service is not counted.        *)
LEMMA Layer2Free ==
    ASSUME SteadyLayer2, NEW x, Layer2OK(x), NEW s \in Svc, x.announced[s] # "layer2",
           NEW ip \in Layer2Addrs(s)
    PROVE  x.vpp.ipRefcnt[ip] = 0
<1>1. ip \in IP
  BY Layer2AddrsIP
<1>2. \A t \in Svc : x.announced[t] = "layer2" => x.svcIP[t] # ip
  BY DEF Layer2OK, SteadyLayer2
<1> QED
  BY <1>1, <1>2 DEF Layer2OK

(* A service comes under layer 2.                                          *)
LEMMA Layer2Added ==
    ASSUME SteadyLayer2, NEW x, ControllerType(x), Layer2OK(x),
           NEW s \in Svc, x.announced[s] = None, NEW ip \in Layer2Addrs(s),
           NEW y,
           y.announced = [x.announced EXCEPT ![s] = "layer2"],
           y.svcIP = [x.svcIP EXCEPT ![s] = ip],
           y.vpp.ips = [x.vpp.ips EXCEPT ![NameOf[s]] = ip],
           y.vpp.ipRefcnt = [x.vpp.ipRefcnt EXCEPT ![ip] = 1]
    PROVE  Layer2OK(y)
<1>1. ip \in IP
  BY Layer2AddrsIP
<1>2. /\ x.announced \in [Svc -> Protocol \cup {None}]
      /\ x.svcIP \in [Svc -> IP \cup {None}]
      /\ x.vpp.ips \in [Name -> IP \cup {None}]
      /\ x.vpp.ipRefcnt \in [IP -> Int]
      /\ NameOf \in [Svc -> Name]
  BY VppAssumption DEF ControllerType, VppType
<1>3. /\ y.announced[s] = "layer2" /\ y.svcIP[s] = ip /\ y.vpp.ips[NameOf[s]] = ip
      /\ \A t \in Svc \ {s} : /\ y.announced[t] = x.announced[t] /\ y.svcIP[t] = x.svcIP[t]
                              /\ y.vpp.ips[NameOf[t]] = x.vpp.ips[NameOf[t]]
  BY <1>2 DEF SteadyLayer2
<1>4. y.vpp.ipRefcnt[ip] = 1 /\ \A i \in IP \ {ip} : y.vpp.ipRefcnt[i] = x.vpp.ipRefcnt[i]
  BY Zenon, <1>1, <1>2
<1>5. x.announced[s] # "layer2"
  BY SpeakerAssumption DEF Protocol
<1>6. \A t \in Svc : y.vpp.ips[NameOf[t]] = IF y.announced[t] = "layer2" THEN y.svcIP[t]
                                            ELSE None
  BY SMTT(30), <1>3 DEF Layer2OK
<1>7. \A t \in Svc : y.announced[t] = "layer2" => y.svcIP[t] \in Layer2Addrs(t)
  BY <1>3 DEF Layer2OK
<1>8. \A i \in IP \ {ip} : (\E t \in Svc : y.announced[t] = "layer2" /\ y.svcIP[t] = i)
                             <=> (\E t \in Svc : x.announced[t] = "layer2" /\ x.svcIP[t] = i)
  BY <1>3, <1>5
<1>9. \A i \in IP : y.vpp.ipRefcnt[i]
                      = IF \E t \in Svc : y.announced[t] = "layer2" /\ y.svcIP[t] = i
                        THEN 1 ELSE 0
  BY SMTT(60), <1>3, <1>4, <1>8 DEF Layer2OK
<1> QED
  BY <1>6, <1>7, <1>9 DEF Layer2OK

(* A service is withdrawn from layer 2.                                    *)
LEMMA Layer2Removed ==
    ASSUME SteadyLayer2, NEW x, ControllerType(x), Layer2OK(x),
           NEW s \in Svc, x.announced[s] = "layer2",
           NEW y,
           y.announced = [x.announced EXCEPT ![s] = None],
           y.svcIP = [x.svcIP EXCEPT ![s] = None],
           y.vpp.ips = [x.vpp.ips EXCEPT ![NameOf[s]] = None],
           y.vpp.ipRefcnt = [x.vpp.ipRefcnt EXCEPT ![x.vpp.ips[NameOf[s]]] = @ - 1]
    PROVE  Layer2OK(y)
<1> DEFINE ip == x.svcIP[s]
<1>1. ip \in IP /\ ip \in Layer2Addrs(s) /\ x.vpp.ips[NameOf[s]] = ip /\ x.vpp.ipRefcnt[ip] = 1
  <2>1. ip \in Layer2Addrs(s) /\ x.vpp.ips[NameOf[s]] = ip
    BY DEF Layer2OK
  <2>2. ip \in IP
    BY <2>1, Layer2AddrsIP
  <2> QED
    BY <2>1, <2>2 DEF Layer2OK
<1>2. /\ x.announced \in [Svc -> Protocol \cup {None}]
      /\ x.svcIP \in [Svc -> IP \cup {None}]
      /\ x.vpp.ips \in [Name -> IP \cup {None}]
      /\ x.vpp.ipRefcnt \in [IP -> Int]
      /\ NameOf \in [Svc -> Name]
  BY Zenon, VppAssumption DEF ControllerType, VppType
<1>3. /\ y.announced[s] = None /\ y.vpp.ips[NameOf[s]] = None
      /\ \A t \in Svc \ {s} : /\ y.announced[t] = x.announced[t] /\ y.svcIP[t] = x.svcIP[t]
                              /\ y.vpp.ips[NameOf[t]] = x.vpp.ips[NameOf[t]]
  BY SMTT(30), <1>2 DEF SteadyLayer2
<1>4. y.vpp.ipRefcnt[ip] = 0 /\ \A i \in IP \ {ip} : y.vpp.ipRefcnt[i] = x.vpp.ipRefcnt[i]
  BY SMTT(30), <1>1, <1>2
<1>5. y.announced[s] # "layer2"
  BY Zenon, <1>3, SpeakerAssumption DEF Protocol
<1> HIDE DEF ip
<1>6. \A t \in Svc : y.vpp.ips[NameOf[t]] = IF y.announced[t] = "layer2" THEN y.svcIP[t]
                                            ELSE None
  BY SMTT(60), <1>3, <1>5 DEF Layer2OK
<1>7. \A t \in Svc : y.announced[t] = "layer2" => y.svcIP[t] \in Layer2Addrs(t)
  BY <1>3, <1>5 DEF Layer2OK
<1>8. \A t \in Svc : y.announced[t] = "layer2" => y.svcIP[t] # ip
  BY SMTT(30), <1>1, <1>3, <1>5, <1>7 DEF SteadyLayer2
<1>9. \A i \in IP \ {ip} : (\E t \in Svc : y.announced[t] = "layer2" /\ y.svcIP[t] = i)
                             <=> (\E t \in Svc : x.announced[t] = "layer2" /\ x.svcIP[t] = i)
  BY Zenon, <1>3, <1>5 DEF ip
<1>10. \A i \in IP : y.vpp.ipRefcnt[i]
                       = IF \E t \in Svc : y.announced[t] = "layer2" /\ y.svcIP[t] = i
                         THEN 1 ELSE 0
  <2>1. ASSUME NEW i \in IP, i = ip
        PROVE  y.vpp.ipRefcnt[i] = 0 /\ ~\E t \in Svc : y.announced[t] = "layer2" /\ y.svcIP[t] = i
    BY Zenon, <1>4, <1>8, <2>1
  <2>2. ASSUME NEW i \in IP \ {ip}
        PROVE  y.vpp.ipRefcnt[i]
                 = IF \E t \in Svc : x.announced[t] = "layer2" /\ x.svcIP[t] = i THEN 1 ELSE 0
    BY Zenon, <1>4 DEF Layer2OK
  <2> QED
    BY Zenon, <1>9, <2>1, <2>2
<1> QED
  BY Zenon, <1>6, <1>7, <1>10 DEF Layer2OK

-----------------------------------------------------------------------------
(***************************************************************************)
(* The methods that deal with one service.                                 *)
(***************************************************************************)

(* Result r of such a method: it leaves alone what is not about service s, *)
(* and keeps the controller and its handlers in step.                      *)
ForService(x, r, s) ==
    /\ ControllerType(r.c)
    /\ r.ok \in BOOLEAN /\ r.failures \in Nat
    /\ r.c.config = x.config
    /\ Cfgs(r.c.bgp) = Cfgs(x.bgp)
    /\ r.c.vpp.ipAddr = x.vpp.ipAddr /\ r.c.vpp.ethIfcs = x.vpp.ethIfcs
    /\ \A t \in Svc \ {s} : /\ r.c.announced[t] = x.announced[t]
                            /\ r.c.bgp.svcAds[t] = x.bgp.svcAds[t]
    /\ Advertisable => /\ r.ok \/ r.failures > 0
                       /\ Told(x.bgp) => Told(r.c.bgp)
                       /\ InStep(x) => InStep(r.c)
    /\ SteadyLayer2 /\ r.ok /\ Layer2OK(x) => Layer2OK(r.c)

(* One service changes, and stays in step with its advertisements.         *)
LEMMA InStepService ==
    ASSUME NEW x, NEW y, NEW s \in Svc, InStep(x),
           \A t \in Svc \ {s} : /\ y.announced[t] = x.announced[t]
                                 /\ y.bgp.svcAds[t] = x.bgp.svcAds[t],
           y.announced[s] = "bgp" <=> y.bgp.svcAds[s] # None
    PROVE  InStep(y)
BY Zenon DEF InStep

(* A method that does nothing.                                             *)
LEMMA ForServiceSame ==
    ASSUME NEW x, ControllerType(x), NEW e, NEW s
    PROVE  LET r == Result(x, e, TRUE, 0)
           IN r.c = x /\ r.ok = TRUE /\ ForService(x, r, s)
<1> DEFINE r == Result(x, e, TRUE, 0)
<1>1. r.c = x /\ r.ok = TRUE /\ r.failures = 0
  BY DEF Result
<1> HIDE DEF r
<1>2. 0 \in Nat
  OBVIOUS
<1>3. ForService(x, r, s)
  BY Zenon, <1>1, <1>2 DEF ForService
<1> QED
  BY Zenon, <1>1, <1>3 DEF r

(* One method after another that succeeded.                                *)
LEMMA ForServiceTrans ==
    ASSUME NEW x, NEW r, NEW s, ForService(x, r, s), r.ok,
           NEW q, ForService(r.c, q, s),
           NEW z, z.c = q.c, z.ok = q.ok, z.failures = q.failures + r.failures
    PROVE  ForService(x, z, s)
<1>1. z.failures \in Nat /\ (q.failures > 0 => z.failures > 0)
  BY SMTT(30) DEF ForService
<1> QED
  BY <1>1 DEF ForService

(* Result r of taking the service from the handler that has it.            *)
Withdrawn(x, r, s) ==
    /\ ControllerType(r.c)
    /\ r.c.config = x.config /\ r.c.announced = x.announced /\ r.c.svcIP = x.svcIP
    /\ Cfgs(r.c.bgp) = Cfgs(x.bgp)
    /\ r.c.vpp.ipAddr = x.vpp.ipAddr /\ r.c.vpp.ethIfcs = x.vpp.ethIfcs
    /\ r.ok \in BOOLEAN /\ r.failures \in Nat
    /\ Advertisable => r.ok /\ (Told(x.bgp) => Told(r.c.bgp))
    /\ \A t \in Svc \ {s} : r.c.bgp.svcAds[t] = x.bgp.svcAds[t]
    /\ x.announced[s] = "bgp" => r.c.bgp.svcAds[s] = None /\ r.c.vpp = x.vpp
    /\ x.announced[s] = "layer2" =>
          /\ r.c.bgp = x.bgp
          /\ x.vpp.ips[NameOf[s]] # None =>
                /\ r.c.vpp.ips = [x.vpp.ips EXCEPT ![NameOf[s]] = None]
                /\ r.c.vpp.ipRefcnt
                      = [x.vpp.ipRefcnt EXCEPT ![x.vpp.ips[NameOf[s]]] = @ - 1]

(* Withdraw takes the service from the handler that has it.                *)
LEMMA WithdrawEffect ==
    ASSUME NEW x, ControllerType(x), NEW e, NEW s \in Svc, x.announced[s] # None,
           NEW r \in Withdraw(x, e, s)
    PROVE  Withdrawn(x, r, s)
<1>1. x.announced[s] = "bgp" \/ x.announced[s] = "layer2"
  BY Zenon, SMTT(30) DEF ControllerType, Protocol
<1>2. CASE x.announced[s] = "bgp"
  <2>1. PICK q \in BgpDeleteBalancer(x.bgp, s) : r = Result([x EXCEPT !.bgp = q.b], e, q.ok, 0)
    BY <1>2 DEF Withdraw, ViaBgp
  <2>2. Readvertised(x.bgp, q, s, None, Advertisement)
    BY AdvertisementProper, BgpDeleteBalancerEffect DEF ControllerType
  <2> DEFINE y == [x EXCEPT !.bgp = q.b]
  <2>3. r.c = y /\ r.ok = q.ok /\ r.failures = 0
    BY <2>1 DEF Result
  <2>4. WithHandlers(x, y, q.b, x.vpp)
    BY WithBgp
  <2> HIDE DEF y
  <2>5. ControllerType(y)
    BY Zenon, <2>2, <2>4 DEF ControllerType, Readvertised, WithHandlers
  <2>6. Advertisable => q.ok /\ (Told(x.bgp) => Told(q.b))
    BY Zenon, <2>2, AllAccepted DEF Readvertised
  <2>7. q.b.svcAds[s] = None /\ \A t \in Svc \ {s} : q.b.svcAds[t] = x.bgp.svcAds[t]
    BY <2>2 DEF Readvertised, ControllerType, BgpType
  <2>8. Cfgs(q.b) = Cfgs(x.bgp) /\ q.ok \in BOOLEAN
    BY <2>2 DEF Readvertised
  <2> QED
    <3>1. /\ r.c.config = x.config /\ r.c.announced = x.announced /\ r.c.svcIP = x.svcIP
          /\ r.c.bgp = q.b /\ r.c.vpp = x.vpp /\ r.failures \in Nat
      BY SMTT(30), <2>3, <2>4 DEF WithHandlers
    <3>2. "bgp" # "layer2"
      OBVIOUS
    <3> QED
      BY Zenon, <1>2, <2>3, <2>5, <2>6, <2>7, <2>8, <3>1, <3>2 DEF Withdrawn
<1>3. CASE x.announced[s] = "layer2"
  <2>1. PICK q \in VppDeleteBalancer(x.vpp, e, s) :
          r = Result([x EXCEPT !.vpp = q.v], q.e, q.ok, q.failures)
    BY <1>3 DEF Withdraw, ViaVpp
  <2>2. VppRemoved(x.vpp, q, s)
    BY VppDeleteBalancerEffect DEF ControllerType
  <2> DEFINE y == [x EXCEPT !.vpp = q.v]
  <2>3. r.c = y /\ r.ok = q.ok /\ r.failures = q.failures
    BY <2>1 DEF Result
  <2>4. WithHandlers(x, y, x.bgp, q.v)
    BY Zenon, WithVpp
  <2> HIDE DEF y
  <2>5. ControllerType(y)
    BY Zenon, <2>2, <2>4 DEF ControllerType, VppRemoved, WithHandlers
  <2>6. /\ r.c.config = x.config /\ r.c.announced = x.announced /\ r.c.svcIP = x.svcIP
        /\ r.c.bgp = x.bgp /\ r.c.vpp = q.v /\ r.ok = TRUE /\ r.failures \in Nat
    BY <2>2, <2>3, <2>4 DEF VppRemoved, WithHandlers
  <2>7. "bgp" # "layer2"
    OBVIOUS
  <2> QED
    BY Zenon, <1>3, <2>2, <2>3, <2>5, <2>6, <2>7 DEF VppRemoved, Withdrawn
<1> QED
  BY <1>1, <1>2, <1>3

(* deleteBalancer, when it succeeds, leaves the service unannounced.       *)
LEMMA deleteBalancerEffect ==
    ASSUME NEW x, ControllerType(x), NEW e, NEW s \in Svc, NEW r \in deleteBalancer(x, e, s)
    PROVE  /\ ForService(x, r, s)
           /\ r.ok => r.c.announced[s] = None
           /\ Advertisable => r.ok
<1>1. CASE x.announced[s] = None
  <2>1. r = Result(x, e, TRUE, 0)
    BY <1>1 DEF deleteBalancer
  <2> QED
    BY Zenon, <1>1, <2>1, ForServiceSame
<1>2. CASE x.announced[s] # None
  <2> DEFINE g(w) == w.c.gauge \ {<<x.announced[s], s, x.svcIP[s]>>}
             y(w) == [w.c EXCEPT !.announced[s] = None, !.svcIP[s] = None, !.gauge = g(w)]
  <2>1. PICK w \in Withdraw(x, e, s) :
          \/ ~w.ok /\ r = w
          \/ w.ok /\ \E q \in {Result(y(w), w.e, TRUE, 0)} :
                     r = Result(q.c, q.e, q.ok, q.failures + w.failures)
    BY Zenon, <1>2 DEF deleteBalancer, Then
  <2>2. Withdrawn(x, w, s)
    BY Zenon, <1>2, WithdrawEffect
  <2>3. CASE ~w.ok /\ r = w
    BY <2>2, <2>3 DEF ForService, Withdrawn
  <2>4. CASE w.ok /\ \E q \in {Result(y(w), w.e, TRUE, 0)} :
                       r = Result(q.c, q.e, q.ok, q.failures + w.failures)
    <3>1. r.c = y(w) /\ r.ok = TRUE /\ r.failures = 0 + w.failures
      BY SMTT(30), <2>4 DEF Result
    <3>2. r.failures \in Nat
      BY SMTT(30), <2>2, <3>1 DEF Withdrawn
    <3>3. ServiceSet(w.c, y(w), s, None, None)
      BY Zenon, <2>2, WithService DEF Withdrawn
    <3> HIDE DEF y
    <3> DEFINE z == r.c
    <3>4. /\ ControllerType(z)
          /\ z.config = x.config /\ z.bgp = w.c.bgp /\ z.vpp = w.c.vpp
          /\ z.announced = [x.announced EXCEPT ![s] = None]
          /\ z.svcIP = [x.svcIP EXCEPT ![s] = None]
      BY Zenon, <2>2, <3>1, <3>3 DEF ServiceSet, Withdrawn
    <3> HIDE DEF z
    <3>5. /\ z.announced[s] = None
          /\ \A t \in Svc \ {s} : /\ z.announced[t] = x.announced[t]
                                  /\ z.svcIP[t] = x.svcIP[t]
      BY <3>4 DEF ControllerType
    <3>6. x.announced[s] = "bgp" \/ x.announced[s] = "layer2"
      BY Zenon, <1>2 DEF ControllerType, Protocol
    <3>7. None # "bgp" /\ None # "layer2"
      BY Zenon, SpeakerAssumption DEF Protocol
    <3>8. InStep(x) => InStep(z)
      <4>1. ASSUME InStep(x)
            PROVE  z.bgp.svcAds[s] = None
        <5>1. CASE x.announced[s] = "bgp"
          BY Zenon, <2>2, <3>4, <5>1 DEF Withdrawn
        <5>2. CASE x.announced[s] = "layer2"
          <6>1. x.announced[s] # "bgp"
            BY <5>2
          <6>2. z.bgp = x.bgp
            BY Zenon, <2>2, <3>4, <5>2 DEF Withdrawn
          <6> QED
            BY Zenon, <4>1, <6>1, <6>2 DEF InStep
        <5> QED
          BY Zenon, <3>6, <5>1, <5>2
      <4>2. \A t \in Svc \ {s} : z.bgp.svcAds[t] = x.bgp.svcAds[t]
        BY Zenon, <2>2, <3>4 DEF Withdrawn
      <4> QED
        BY Zenon, <3>5, <3>7, <4>1, <4>2, InStepService
    <3>9. ASSUME SteadyLayer2, Layer2OK(x)
          PROVE  Layer2OK(z)
      <4>1. CASE x.announced[s] = "bgp"
        <5>1. w.c.vpp = x.vpp
          BY Zenon, <2>2, <4>1 DEF Withdrawn
        <5>2. "bgp" # "layer2"
          OBVIOUS
        <5>3. \A t \in Svc : z.announced[t] = "layer2" <=> x.announced[t] = "layer2"
          BY Zenon, <3>5, <3>7, <4>1, <5>2
        <5>4. \A t \in Svc : x.announced[t] = "layer2" => z.svcIP[t] = x.svcIP[t]
          BY Zenon, <3>5, <4>1, <5>2
        <5>5. z.vpp.ips = x.vpp.ips /\ z.vpp.ipRefcnt = x.vpp.ipRefcnt
          BY Zenon, <3>4, <5>1
        <5> QED
          BY Zenon, <3>9, <5>3, <5>4, <5>5, Layer2Aside
      <4>2. CASE x.announced[s] = "layer2"
        <5>1. x.vpp.ips[NameOf[s]] \in IP
          BY Zenon, <3>9, <4>2, Layer2AddrsIP DEF Layer2OK
        <5>2. x.vpp.ips[NameOf[s]] # None
          BY Zenon, <5>1, EndpointsAssumption
        <5>3. /\ w.c.vpp.ips = [x.vpp.ips EXCEPT ![NameOf[s]] = None]
              /\ w.c.vpp.ipRefcnt
                    = [x.vpp.ipRefcnt EXCEPT ![x.vpp.ips[NameOf[s]]] = @ - 1]
          BY Zenon, <2>2, <4>2, <5>2 DEF Withdrawn
        <5> QED
          BY Zenon, <3>4, <3>9, <4>2, <5>3, Layer2Removed
      <4> QED
        BY Zenon, <3>6, <4>1, <4>2
    <3>10. /\ Cfgs(z.bgp) = Cfgs(x.bgp)
           /\ z.vpp.ipAddr = x.vpp.ipAddr /\ z.vpp.ethIfcs = x.vpp.ethIfcs
           /\ \A t \in Svc \ {s} : z.bgp.svcAds[t] = x.bgp.svcAds[t]
           /\ Advertisable => (Told(x.bgp) => Told(z.bgp))
      BY Zenon, <2>2, <3>4 DEF Withdrawn
    <3> QED
      BY Zenon, <3>1, <3>2, <3>4, <3>5, <3>8, <3>9, <3>10 DEF ForService, z
  <2> QED
    BY Zenon, <2>1, <2>3, <2>4
<1> QED
  BY <1>1, <1>2

(* The service is announced by the pool, at the address.                   *)
AnnouncedBy(y, s, ip, pool) ==
    /\ y.announced[s] = pool.Protocol
    /\ pool.Protocol = "bgp" => y.bgp.svcAds[s] = AdsOf(ip, pool)

(* announce, when it succeeds, leaves the service announced by its pool's  *)
(* protocol.                                                               *)
LEMMA announceEffect ==
    ASSUME NEW x, ControllerType(x), NEW e, NEW s \in Svc, NEW ip \in IP, NEW pool,
           pool.Protocol \in Protocol, AdsOf(ip, pool) \in Seq(Advertisement),
           pool.Protocol = "layer2" => ip \in Layer2Addrs(s),
           x.announced[s] \in {None, pool.Protocol},
           NEW r \in announce(x, e, s, ip, pool)
    PROVE  /\ ForService(x, r, s)
           /\ r.ok => AnnouncedBy(r.c, s, ip, pool)
<1> DEFINE P == pool.Protocol
           a(w) == IF w.c.announced[s] = None THEN P ELSE w.c.announced[s]
           i(w) == IF x.announced[s] = None THEN ip ELSE w.c.svcIP[s]
           g(w) == w.c.gauge \cup {<<P, s, ip>>}
           y(w) == [w.c EXCEPT !.announced[s] = a(w), !.svcIP[s] = i(w), !.gauge = g(w)]
           results == IF pool.Protocol = "bgp"
                      THEN ViaBgp(x, e, BgpSetBalancer(x.bgp, s, ip, pool))
                      ELSE ViaVpp(x, VppSetBalancer(x.vpp, e, s, ip))
<1>1. PICK w \in results :
        \/ ~w.ok /\ r = w
        \/ w.ok /\ \E q \in {Result(y(w), w.e, TRUE, 0)} :
                     r = Result(q.c, q.e, q.ok, q.failures + w.failures)
  <2>1. r \in UNION {IF ~w.ok THEN {w}
                     ELSE {Result(q.c, q.e, q.ok, q.failures + w.failures) :
                              q \in {Result(y(w), w.e, TRUE, 0)}} : w \in results}
    BY ZenonT(60) DEF announce, Then
  <2> HIDE DEF results, y
  <2> QED
    BY ZenonT(60), <2>1
<1>2. None # "bgp" /\ None # "layer2" /\ "bgp" # "layer2"
  BY Zenon, SpeakerAssumption DEF Protocol
(* What is the same in both protocols: r records what w did.               *)
<1>3. ASSUME ControllerType(w.c), w.c.announced = x.announced, w.c.svcIP = x.svcIP,
             w.ok, w.failures \in Nat
      PROVE  /\ w.ok => r.ok = TRUE /\ r.failures \in Nat
             /\ ControllerType(r.c)
             /\ r.c.config = w.c.config /\ r.c.bgp = w.c.bgp /\ r.c.vpp = w.c.vpp
             /\ r.c.announced = [x.announced EXCEPT ![s] = P]
             /\ r.c.svcIP = [x.svcIP EXCEPT ![s] = i(w)]
             /\ r.c.announced[s] = P
             /\ \A t \in Svc \ {s} : /\ r.c.announced[t] = x.announced[t]
                                     /\ r.c.svcIP[t] = x.svcIP[t]
  <2>1. r.c = y(w) /\ r.ok = TRUE /\ r.failures = 0 + w.failures
    BY <1>1, <1>3 DEF Result
  <2>2. r.failures \in Nat
    BY <1>3, <2>1
  <2>3. a(w) = P /\ a(w) \in Protocol \cup {None} /\ i(w) \in IP \cup {None}
    BY Zenon, <1>3 DEF ControllerType
  <2>4. ServiceSet(w.c, y(w), s, a(w), i(w))
    <3> HIDE DEF a, i, g
    <3> QED
      BY ZenonT(60), <1>3, <2>3, WithService
  <2> HIDE DEF y, a, i
  <2>5. /\ ControllerType(r.c)
        /\ r.c.config = w.c.config /\ r.c.bgp = w.c.bgp /\ r.c.vpp = w.c.vpp
        /\ r.c.announced = [x.announced EXCEPT ![s] = P]
        /\ r.c.svcIP = [x.svcIP EXCEPT ![s] = i(w)]
    BY Zenon, <1>3, <2>1, <2>3, <2>4 DEF ServiceSet
  <2>6. /\ r.c.announced[s] = P
        /\ \A t \in Svc \ {s} : /\ r.c.announced[t] = x.announced[t]
                                /\ r.c.svcIP[t] = x.svcIP[t]
    BY Zenon, <2>5 DEF ControllerType
  <2> QED
    BY Zenon, <2>1, <2>2, <2>5, <2>6
<1> HIDE DEF y, g, a
<1>4. CASE P = "bgp"
  <2>1. PICK q \in BgpSetBalancer(x.bgp, s, ip, pool) :
          w = Result([x EXCEPT !.bgp = q.b], e, q.ok, 0)
    BY <1>4 DEF ViaBgp
  <2>2. Readvertised(x.bgp, q, s, AdsOf(ip, pool), Advertisement)
    BY AdvertisementProper, BgpSetBalancerEffect DEF ControllerType
  <2> DEFINE z == [x EXCEPT !.bgp = q.b]
  <2>3. w.c = z /\ w.ok = q.ok /\ w.failures = 0
    BY <2>1 DEF Result
  <2>4. WithHandlers(x, z, q.b, x.vpp)
    BY WithBgp
  <2> HIDE DEF z
  <2>5. ControllerType(z)
    BY Zenon, <2>2, <2>4 DEF ControllerType, Readvertised, WithHandlers
  <2>6. Advertisable => q.ok /\ (Told(x.bgp) => Told(q.b))
    BY Zenon, <2>2, AllAccepted DEF Readvertised
  <2>7. /\ q.b.svcAds[s] = AdsOf(ip, pool)
        /\ \A t \in Svc \ {s} : q.b.svcAds[t] = x.bgp.svcAds[t]
    BY Zenon, <2>2 DEF Readvertised, ControllerType, BgpType
  <2>8. Cfgs(q.b) = Cfgs(x.bgp) /\ q.ok \in BOOLEAN /\ 0 \in Nat
    BY Zenon, <2>2 DEF Readvertised
  <2>9. /\ w.c.config = x.config /\ w.c.announced = x.announced /\ w.c.svcIP = x.svcIP
        /\ w.c.bgp = q.b /\ w.c.vpp = x.vpp /\ ControllerType(w.c)
    BY Zenon, <2>3, <2>4, <2>5 DEF WithHandlers
  <2>10. CASE ~w.ok
    <3>1. r = w
      BY Zenon, <1>1, <2>10
    <3> QED
      BY ZenonT(60), <2>3, <2>6, <2>7, <2>8, <2>9, <2>10, <3>1 DEF ForService
  <2>11. CASE w.ok
    <3>1. /\ r.ok = TRUE /\ r.failures \in Nat /\ ControllerType(r.c)
          /\ r.c.config = x.config /\ r.c.bgp = q.b /\ r.c.vpp = x.vpp
          /\ r.c.announced[s] = "bgp"
          /\ \A t \in Svc \ {s} : /\ r.c.announced[t] = x.announced[t]
                                  /\ r.c.svcIP[t] = x.svcIP[t]
      BY ZenonT(60), <1>3, <1>4, <2>3, <2>8, <2>9, <2>11
    <3>2. InStep(x) => InStep(r.c)
      <4>1. AdsOf(ip, pool) # None
        BY Zenon, SpeakerAssumption
      <4> QED
        <5>1. /\ r.c.bgp.svcAds[s] # None /\ r.c.announced[s] = "bgp"
              /\ \A t \in Svc \ {s} : /\ r.c.announced[t] = x.announced[t]
                                      /\ r.c.bgp.svcAds[t] = x.bgp.svcAds[t]
          BY Zenon, <2>7, <3>1, <4>1
        <5> QED
          BY Zenon, <5>1, InStepService
    <3>3. ASSUME Layer2OK(x)
          PROVE  Layer2OK(r.c)
      <4>1. x.announced[s] # "layer2"
        BY Zenon, <1>2, <1>4
      <4>2. \A t \in Svc : r.c.announced[t] = "layer2" <=> x.announced[t] = "layer2"
        BY Zenon, <1>2, <3>1, <4>1
      <4>3. \A t \in Svc : x.announced[t] = "layer2" => r.c.svcIP[t] = x.svcIP[t]
        BY Zenon, <3>1, <4>1
      <4>4. r.c.vpp.ips = x.vpp.ips /\ r.c.vpp.ipRefcnt = x.vpp.ipRefcnt
        BY Zenon, <3>1
      <4> QED
        BY Zenon, <3>3, <4>2, <4>3, <4>4, Layer2Aside
    <3> QED
      BY Zenon, <1>4, <2>6, <2>7, <2>8, <3>1, <3>2, <3>3 DEF ForService, AnnouncedBy
  <2> QED
    BY <2>10, <2>11
<1>5. CASE P = "layer2"
  <2>1. PICK q \in VppSetBalancer(x.vpp, e, s, ip) :
          w = Result([x EXCEPT !.vpp = q.v], q.e, q.ok, q.failures)
    BY Zenon, <1>2, <1>5 DEF ViaVpp
  <2>2. VppEntered(x.vpp, q, s, ip)
    BY VppSetBalancerEffect DEF ControllerType
  <2> DEFINE z == [x EXCEPT !.vpp = q.v]
  <2>3. w.c = z /\ w.ok = q.ok /\ w.failures = q.failures
    BY <2>1 DEF Result
  <2>4. WithHandlers(x, z, x.bgp, q.v)
    BY Zenon, WithVpp
  <2> HIDE DEF z
  <2>5. ControllerType(z)
    BY Zenon, <2>2, <2>4 DEF ControllerType, VppEntered, WithHandlers
  <2>6. /\ w.c.config = x.config /\ w.c.announced = x.announced /\ w.c.svcIP = x.svcIP
        /\ w.c.bgp = x.bgp /\ w.c.vpp = q.v /\ ControllerType(w.c)
    BY Zenon, <2>3, <2>4, <2>5 DEF WithHandlers
  <2>7. /\ w.failures \in Nat /\ w.ok \in BOOLEAN /\ (w.ok \/ w.failures > 0)
        /\ q.v.ipAddr = x.vpp.ipAddr /\ q.v.ethIfcs = x.vpp.ethIfcs
    BY <2>2, <2>3 DEF VppEntered
  <2>8. CASE ~w.ok
    <3>1. r = w
      BY Zenon, <1>1, <2>8
    <3>2. InStep(x) => InStep(w.c)
      BY <2>6 DEF InStep
    <3> QED
      BY ZenonT(60), <2>6, <2>7, <2>8, <3>1, <3>2 DEF ForService
  <2>9. CASE w.ok
    <3>1. /\ r.ok = TRUE /\ r.failures \in Nat /\ ControllerType(r.c)
          /\ r.c.config = x.config /\ r.c.bgp = x.bgp /\ r.c.vpp = q.v
          /\ r.c.announced = [x.announced EXCEPT ![s] = "layer2"]
          /\ r.c.svcIP = [x.svcIP EXCEPT ![s] = i(w)]
          /\ r.c.announced[s] = "layer2"
          /\ \A t \in Svc \ {s} : /\ r.c.announced[t] = x.announced[t]
                                  /\ r.c.svcIP[t] = x.svcIP[t]
      BY Zenon, <1>3, <1>5, <2>6, <2>7, <2>9
    <3>2. InStep(x) => InStep(r.c)
      <4>1. x.announced[s] # "bgp" /\ r.c.announced[s] # "bgp"
        BY Zenon, <1>2, <1>5, <3>1
      <4>2. InStep(x) => x.bgp.svcAds[s] = None
        BY Zenon, <4>1 DEF InStep
      <4> QED
        <5>1. \A t \in Svc \ {s} : /\ r.c.announced[t] = x.announced[t]
                                   /\ r.c.bgp.svcAds[t] = x.bgp.svcAds[t]
          BY Zenon, <3>1
        <5>2. InStep(x) => r.c.bgp.svcAds[s] = None
          BY Zenon, <3>1, <4>2
        <5> QED
          BY Zenon, <4>1, <5>1, <5>2, InStepService
    <3>3. ASSUME SteadyLayer2, Layer2OK(x)
          PROVE  Layer2OK(r.c)
      <4>1. CASE x.announced[s] = None
        <5>1. x.vpp.ips[NameOf[s]] = None /\ x.vpp.ipRefcnt[ip] = 0
          BY Zenon, <1>2, <1>5, <3>3, <4>1, Layer2Free DEF Layer2OK
        <5>2. i(w) = ip
          BY Zenon, <4>1
        <5>3. /\ r.c.vpp.ips = [x.vpp.ips EXCEPT ![NameOf[s]] = ip]
              /\ r.c.vpp.ipRefcnt = [x.vpp.ipRefcnt EXCEPT ![ip] = 1]
          BY Zenon, <2>2, <3>1, <5>1 DEF VppEntered
        <5>4. r.c.svcIP = [x.svcIP EXCEPT ![s] = ip] /\ ip \in Layer2Addrs(s)
          BY Zenon, <1>5, <3>1, <5>2
        <5> QED
          BY Zenon, <3>1, <3>3, <4>1, <5>3, <5>4, Layer2Added
      <4>2. CASE x.announced[s] = "layer2"
        <5>1. x.vpp.ips[NameOf[s]] = x.svcIP[s] /\ x.svcIP[s] \in IP
          BY Zenon, <3>3, <4>2, Layer2AddrsIP DEF Layer2OK
        <5>2. q.v = x.vpp
          BY Zenon, <2>2, <5>1, EndpointsAssumption DEF VppEntered
        <5>3. r.c.svcIP[s] = x.svcIP[s]
          BY SMTT(30), <1>2, <2>6, <3>1, <4>2 DEF ControllerType
        <5>4. \A t \in Svc : r.c.announced[t] = x.announced[t] /\ r.c.svcIP[t] = x.svcIP[t]
          BY Zenon, <3>1, <4>2, <5>3
        <5>5. r.c.vpp.ips = x.vpp.ips /\ r.c.vpp.ipRefcnt = x.vpp.ipRefcnt
          BY Zenon, <3>1, <5>2
        <5> QED
          BY Zenon, <3>3, <5>4, <5>5, Layer2Aside
      <4> QED
        BY Zenon, <1>5, <4>1, <4>2
    <3> QED
      BY Zenon, <1>2, <1>5, <2>7, <3>1, <3>2, <3>3 DEF ForService, AnnouncedBy
  <2> QED
    BY <2>8, <2>9
<1> QED
  BY <1>4, <1>5 DEF Protocol

(* The pool by which a service should be announced, going by what the      *)
(* controller is given.                                                    *)
Want(me, x, s, svc, eps) ==
    LET pool == x.config.pools[PoolOf(x, svc)]
    IN IF svc = None \/ x.config = None THEN None
       ELSE IF ~svc.LoadBalancer \/ PoolOf(x, svc) = None THEN None
       ELSE IF ShouldAnnounce(me, pool.Protocol, s, svc, eps) THEN pool
       ELSE None

(* What is wanted depends on the configuration in force only.              *)
LEMMA WantSame ==
    ASSUME NEW me, NEW x, NEW y, x.config = y.config, NEW s, NEW svc, NEW eps
    PROVE  Want(me, x, s, svc, eps) = Want(me, y, s, svc, eps)
BY DEF Want, PoolOf

(* The pool of a service is one of the configuration, and has its address. *)
LEMMA PoolOfEffect ==
    ASSUME NEW x, x.config \in Configs, NEW svc \in Service, PoolOf(x, svc) # None
    PROVE  LET pool == x.config.pools[PoolOf(x, svc)]
           IN /\ PoolOf(x, svc) \in DOMAIN x.config.pools
              /\ svc.ip \in pool.addrs /\ svc.ip \in IP
              /\ pool.Protocol \in Protocol /\ pool # None
              /\ AdsOf(svc.ip, pool) \in Seq(Advertisement)
<1> DEFINE n == PoolOf(x, svc)
           pools == x.config.pools
<1>1. svc.ip \notin {NoIngress, None} /\ n = poolFor(pools, svc.ip)
  BY Zenon, SMTT(30) DEF PoolOf
<1>2. n \in DOMAIN pools /\ svc.ip \in pools[n].addrs
  BY Zenon, <1>1 DEF poolFor
<1>3. pools[n] \in Pool
  BY <1>2, SpeakerAssumption
<1>4. svc.ip \in IP
  BY Zenon, <1>1 DEF Service
<1>5. AdsOf(svc.ip, pools[n]) \in Seq(Advertisement)
  BY Zenon, <1>2, AdsOfPool
<1>6. pools[n] # None
  BY <1>3, SpeakerAssumption
<1> QED
  BY Zenon, <1>2, <1>3, <1>4, <1>5, <1>6 DEF Pool

(* An address of a layer 2 pool is one of the service's.                   *)
LEMMA PoolOfLayer2 ==
    ASSUME NEW x, x.config \in Configs, NEW s, NEW svc \in Service, svc \in Versions(s),
           PoolOf(x, svc) # None, x.config.pools[PoolOf(x, svc)].Protocol = "layer2"
    PROVE  svc.ip \in Layer2Addrs(s)
<1> DEFINE p == x.config.pools[PoolOf(x, svc)]
           Q == {q \in UNION {PoolsOf(cfg) : cfg \in Configs} : q.Protocol = "layer2"}
<1>1. svc.ip \in p.addrs /\ PoolOf(x, svc) \in DOMAIN x.config.pools
  BY PoolOfEffect
<1>2. p \in PoolsOf(x.config)
  BY <1>1 DEF PoolsOf
<1>3. p \in Q
  BY <1>2
<1>4. svc.ip \in {o.ip : o \in Versions(s)}
  OBVIOUS
<1>5. Layer2Addrs(s) = {o.ip : o \in Versions(s)} \cap UNION {q.addrs : q \in Q}
  BY Zenon, SMTT(30) DEF Layer2Addrs
<1> HIDE DEF p, Q
<1> QED
  BY Zenon, <1>1, <1>3, <1>4, <1>5

(* setBalancer, when it succeeds, leaves the service announced as wanted.  *)
LEMMA setBalancerEffect ==
    ASSUME NEW me, NEW x, ControllerType(x), NEW e, NEW s \in Svc, NEW svc \in Service \cup {None},
           svc # None => svc \in Versions(s), NEW eps,
           x.config = None => x.announced[s] = None,
           NEW r \in setBalancer(me, x, e, s, svc, eps)
    PROVE  LET pool == Want(me, x, s, svc, eps)
           IN /\ ForService(x, r, s)
              /\ r.ok => /\ r.c.announced[s] = IF pool = None THEN None ELSE pool.Protocol
                         /\ pool # None /\ pool.Protocol = "bgp"
                                => r.c.bgp.svcAds[s] = AdsOf(svc.ip, pool)
              /\ x.config = None => r.c.announced[s] = None
<1> DEFINE pool == x.config.pools[PoolOf(x, svc)]
<1>1. CASE svc = None \/ ~svc.LoadBalancer
  <2>1. r \in deleteBalancer(x, e, s)
    BY Zenon, <1>1 DEF setBalancer
  <2>2. Want(me, x, s, svc, eps) = None
    BY <1>1 DEF Want
  <2>3. ASSUME x.config = None
        PROVE  r.c = x
    <3>1. r = Result(x, e, TRUE, 0)
      BY <2>1, <2>3 DEF deleteBalancer
    <3> QED
      BY <3>1 DEF Result
  <2> QED
    BY Zenon, <2>1, <2>2, <2>3, deleteBalancerEffect
<1>2. CASE ~(svc = None \/ ~svc.LoadBalancer) /\ x.config = None
  <2>1. r = Result(x, e, TRUE, 0)
    BY <1>2 DEF setBalancer
  <2>2. Want(me, x, s, svc, eps) = None
    BY <1>2 DEF Want
  <2> QED
    BY Zenon, <1>2, <2>1, <2>2, ForServiceSame
<1>3. CASE ~(svc = None \/ ~svc.LoadBalancer) /\ x.config # None /\ PoolOf(x, svc) = None
  <2>1. r \in deleteBalancer(x, e, s)
    BY Zenon, <1>3 DEF setBalancer
  <2>2. Want(me, x, s, svc, eps) = None
    BY Zenon, <1>3 DEF Want
  <2> QED
    BY Zenon, <1>3, <2>1, <2>2, deleteBalancerEffect
<1>4. CASE ~(svc = None \/ ~svc.LoadBalancer) /\ x.config # None /\ PoolOf(x, svc) # None
  <2> DEFINE Rest(w) == IF ShouldAnnounce(me, pool.Protocol, s, svc, eps)
                        THEN announce(w.c, w.e, s, svc.ip, pool)
                        ELSE deleteBalancer(w.c, w.e, s)
             results == ChangeProtocol(x, e, s, pool.Protocol)
  <2>1. PICK w \in results :
          \/ ~w.ok /\ r = w
          \/ w.ok /\ \E q \in Rest(w) : r = Result(q.c, q.e, q.ok, q.failures + w.failures)
    <3>1. r \in UNION {IF ~w.ok THEN {w}
                       ELSE {Result(q.c, q.e, q.ok, q.failures + w.failures) : q \in Rest(w)} :
                          w \in results}
      BY Zenon, <1>4 DEF setBalancer, Then
    <3> HIDE DEF results, Rest
    <3> QED
      BY Zenon, <3>1
  <2>2. x.config \in Configs /\ svc \in Service
    BY Zenon, <1>4 DEF ControllerType
  <2>3. /\ svc.ip \in pool.addrs /\ svc.ip \in IP
        /\ pool.Protocol \in Protocol /\ pool # None
        /\ AdsOf(svc.ip, pool) \in Seq(Advertisement)
    BY Zenon, <1>4, <2>2, PoolOfEffect
  <2>4. pool.Protocol = "layer2" => svc.ip \in Layer2Addrs(s)
    BY Zenon, <1>4, <2>2, PoolOfLayer2
  <2>5. Want(me, x, s, svc, eps)
          = IF ShouldAnnounce(me, pool.Protocol, s, svc, eps) THEN pool ELSE None
    BY Zenon, <1>4 DEF Want
  <2>6. /\ ForService(x, w, s)
        /\ w.ok => w.c.announced[s] \in {None, pool.Protocol}
    <3> HIDE DEF pool
    <3>1. CASE x.announced[s] \in {None, pool.Protocol}
      BY ZenonT(60), <3>1, ForServiceSame DEF ChangeProtocol
    <3>2. CASE x.announced[s] \notin {None, pool.Protocol}
      BY <3>2, deleteBalancerEffect DEF ChangeProtocol
    <3> QED
      BY Zenon, <3>1, <3>2
  <2> HIDE DEF pool, results
  <2>7. CASE ~w.ok /\ r = w
    BY Zenon, <1>4, <2>6, <2>7
  <2>8. CASE w.ok /\ \E q \in Rest(w) : r = Result(q.c, q.e, q.ok, q.failures + w.failures)
    <3>1. PICK q \in Rest(w) : r = Result(q.c, q.e, q.ok, q.failures + w.failures)
      BY Zenon, <2>8
    <3>2. ControllerType(w.c)
      BY Zenon, <2>6 DEF ForService
    <3>3. CASE ShouldAnnounce(me, pool.Protocol, s, svc, eps)
      <4>1. q \in announce(w.c, w.e, s, svc.ip, pool)
        BY Zenon, <3>3
      <4>2. ForService(w.c, q, s) /\ (q.ok => AnnouncedBy(q.c, s, svc.ip, pool))
        <5>1. w.c.announced[s] \in {None, pool.Protocol}
          BY Zenon, <2>6, <2>8
        <5> QED
          BY Zenon, <2>3, <2>4, <3>2, <4>1, <5>1, announceEffect
      <4>3. r.c = q.c /\ r.ok = q.ok /\ r.failures = q.failures + w.failures
        BY <3>1 DEF Result
      <4>4. ForService(x, r, s)
        BY Zenon, <2>6, <2>8, <4>2, <4>3, ForServiceTrans
      <4> QED
        BY Zenon, <1>4, <2>3, <2>5, <3>3, <4>2, <4>3, <4>4 DEF AnnouncedBy
    <3>4. CASE ~ShouldAnnounce(me, pool.Protocol, s, svc, eps)
      <4>1. q \in deleteBalancer(w.c, w.e, s)
        BY Zenon, <3>4
      <4>2. ForService(w.c, q, s) /\ (q.ok => q.c.announced[s] = None)
        BY Zenon, <3>2, <4>1, deleteBalancerEffect
      <4>3. r.c = q.c /\ r.ok = q.ok /\ r.failures = q.failures + w.failures
        BY Zenon, <3>1 DEF Result
      <4>4. ForService(x, r, s)
        BY Zenon, <2>6, <2>8, <4>2, <4>3, ForServiceTrans
      <4> QED
        BY ZenonT(60), <1>4, <2>5, <3>4, <4>2, <4>3, <4>4
    <3> QED
      BY ZenonT(60), <3>3, <3>4
  <2> QED
    BY Zenon, <2>1, <2>7, <2>8
<1> QED
  BY ZenonT(60), <1>1, <1>2, <1>3, <1>4

-----------------------------------------------------------------------------
(***************************************************************************)
(* The methods that deal with the configuration and the node.              *)
(***************************************************************************)

(* Struct y has what x has of services and peers.                          *)
Alike(x, y) ==
    /\ ControllerType(y)
    /\ y.announced = x.announced /\ y.svcIP = x.svcIP
    /\ y.bgp.svcAds = x.bgp.svcAds
    /\ y.vpp.ips = x.vpp.ips /\ y.vpp.ipRefcnt = x.vpp.ipRefcnt
    /\ Advertisable => (Told(x.bgp) => Told(y.bgp))

(* setConfig adopts a configuration together with its peers.               *)
Reconfigured(x, r, cfg) ==
    /\ Alike(x, r.c)
    /\ r.ok \in BOOLEAN
    /\ r.c.vpp = x.vpp
    /\ r.ok => r.c.config = cfg /\ Cfgs(r.c.bgp) = cfg.peers
    /\ ~r.ok => r.c.config = x.config
    /\ ~r.ok /\ Advertisable => r.c = x

(* setConfig refuses the configuration, or adopts it with its peers.       *)
LEMMA setConfigEffect ==
    ASSUME NEW x, ControllerType(x), NEW e, NEW cfg \in Configs, NEW r \in setConfig(x, e, cfg)
    PROVE  Reconfigured(x, r, cfg)
<1>1. CASE \E s \in Svc : x.svcIP[s] # None /\ poolFor(cfg.pools, x.svcIP[s]) = None
  <2>1. r = Result(x, e, FALSE, 0)
    BY <1>1 DEF setConfig
  <2>2. r.c = x /\ r.ok = FALSE
    BY <2>1 DEF Result
  <2> QED
    BY Zenon, <2>2 DEF Reconfigured, Alike
<1>2. CASE ~\E s \in Svc : x.svcIP[s] # None /\ poolFor(cfg.pools, x.svcIP[s]) = None
  <2> DEFINE results == ViaBgp(x, e, BgpSetConfig(x.bgp, cfg.peers))
             y(w) == [w.c EXCEPT !.config = cfg]
  <2>1. PICK w \in results :
          \/ ~w.ok /\ r = w
          \/ w.ok /\ \E q \in {Result(y(w), w.e, TRUE, 0)} :
                        r = Result(q.c, q.e, q.ok, q.failures + w.failures)
    <3>1. r \in UNION {IF ~w.ok THEN {w}
                       ELSE {Result(q.c, q.e, q.ok, q.failures + w.failures) :
                                q \in {Result(y(w), w.e, TRUE, 0)}} : w \in results}
      BY Zenon, <1>2 DEF setConfig, Then
    <3> HIDE DEF results, y
    <3> QED
      BY Zenon, <3>1
  <2>2. PICK q \in BgpSetConfig(x.bgp, cfg.peers) : w = Result([x EXCEPT !.bgp = q.b], e, q.ok, 0)
    BY DEF ViaBgp
  <2>3. cfg.peers \in Seq(Peer)
    BY SpeakerAssumption
  <2>4. Synced(x.bgp, q, Advertisement) /\ Cfgs(q.b) = cfg.peers
    BY <2>3, AdvertisementProper, BgpSetConfigEffect DEF ControllerType
  <2>5. Advertisable => q.ok /\ (Told(x.bgp) => Told(q.b))
    BY <2>4, AllAccepted DEF Synced, ControllerType
  <2> DEFINE z == [x EXCEPT !.bgp = q.b]
  <2>6. w.c = z /\ w.ok = q.ok
    BY <2>2 DEF Result
  <2>7. WithHandlers(x, z, q.b, x.vpp)
    BY Zenon, WithBgp
  <2> HIDE DEF z
  <2>8. ControllerType(z)
    BY Zenon, <2>4, <2>7 DEF ControllerType, Synced, WithHandlers
  <2>9. Alike(x, z) /\ z.config = x.config /\ z.vpp = x.vpp /\ z.bgp = q.b /\ q.ok \in BOOLEAN
    BY ZenonT(60), <2>4, <2>5, <2>7, <2>8 DEF Alike, Synced, WithHandlers
  <2>10. CASE ~w.ok
    <3>1. r = w
      BY Zenon, <2>1, <2>10
    <3> QED
      BY Zenon, <2>5, <2>6, <2>9, <2>10, <3>1 DEF Reconfigured
  <2>11. CASE w.ok
    <3> DEFINE u == [z EXCEPT !.config = cfg]
    <3>1. r.c = u /\ r.ok = TRUE
      BY <2>1, <2>6, <2>11 DEF Result
    <3>2. u = [config |-> cfg, announced |-> z.announced, svcIP |-> z.svcIP,
               bgp |-> z.bgp, vpp |-> z.vpp, gauge |-> z.gauge]
      BY SMTT(30), <2>8 DEF ControllerType
    <3> HIDE DEF u
    <3>3. /\ u.config = cfg /\ u.announced = z.announced /\ u.svcIP = z.svcIP
          /\ u.bgp = z.bgp /\ u.vpp = z.vpp /\ u.gauge = z.gauge
      BY Zenon, <3>2
    <3>4. ControllerType(u)
      BY Zenon, <2>8, <3>2, <3>3 DEF ControllerType
    <3>5. Alike(x, u) /\ u.config = cfg /\ u.vpp = x.vpp /\ Cfgs(u.bgp) = cfg.peers
      BY ZenonT(60), <2>4, <2>9, <3>3, <3>4 DEF Alike
    <3> QED
      BY Zenon, <3>1, <3>5 DEF Reconfigured
  <2> QED
    BY <2>10, <2>11
<1> QED
  BY Zenon, <1>1, <1>2

(* What the handlers know of the node after SetNode.                       *)
NodeKnown(v, addr) == addr # None => v.ipAddr = addr /\ v.ethIfcs # None

(* Result r of telling the BGP handler of the node.                        *)
LEMMA NodeToBgp ==
    ASSUME NEW x, ControllerType(x), NEW e, NEW labels \in Labels,
           NEW r \in ViaBgp(x, e, BgpSetNode(x.bgp, labels))
    PROVE  /\ Alike(x, r.c) /\ r.c.config = x.config /\ Cfgs(r.c.bgp) = Cfgs(x.bgp)
           /\ r.c.vpp = x.vpp
<1>1. PICK q \in BgpSetNode(x.bgp, labels) : r = Result([x EXCEPT !.bgp = q.b], e, q.ok, 0)
  BY Zenon, SMTT(30) DEF ViaBgp
<1>2. Synced(x.bgp, q, Advertisement) /\ Cfgs(q.b) = Cfgs(x.bgp)
  BY SMTT(30), AdvertisementProper, BgpSetNodeEffect DEF ControllerType
<1>3. Advertisable => (Told(x.bgp) => Told(q.b))
  BY <1>2, AllAccepted DEF Synced, ControllerType
<1> DEFINE z == [x EXCEPT !.bgp = q.b]
<1>4. r.c = z
  BY <1>1 DEF Result
<1>5. WithHandlers(x, z, q.b, x.vpp)
  BY Zenon, WithBgp
<1> HIDE DEF z
<1>6. ControllerType(z)
  BY Zenon, <1>2, <1>5 DEF ControllerType, Synced, WithHandlers
<1> QED
  BY Zenon, <1>2, <1>3, <1>4, <1>5, <1>6 DEF Alike, Synced, WithHandlers

(* Result r of telling the VPP handler of the node.                        *)
LEMMA NodeToVpp ==
    ASSUME NEW x, ControllerType(x), NEW e, NEW addr \in NodeAddr \cup {None},
           NEW r \in ViaVpp(x, VppSetNode(x.vpp, e, addr))
    PROVE  /\ Alike(x, r.c) /\ r.c.config = x.config /\ r.c.bgp = x.bgp
           /\ r.ok => NodeKnown(r.c.vpp, addr)
<1>1. PICK q \in VppSetNode(x.vpp, e, addr) :
        r = Result([x EXCEPT !.vpp = q.v], q.e, q.ok, q.failures)
  BY Zenon, SMTT(30) DEF ViaVpp
<1>2. /\ VppType(q.v)
      /\ q.v.ips = x.vpp.ips /\ q.v.ipRefcnt = x.vpp.ipRefcnt
      /\ q.ok /\ addr # None => q.v.ipAddr = addr /\ q.v.ethIfcs # None
  BY VppSetNodeEffect DEF ControllerType
<1> DEFINE z == [x EXCEPT !.vpp = q.v]
<1>3. r.c = z /\ r.ok = q.ok
  BY <1>1 DEF Result
<1>4. WithHandlers(x, z, x.bgp, q.v)
  BY Zenon, WithVpp
<1> HIDE DEF z
<1>5. ControllerType(z)
  BY Zenon, <1>2, <1>4 DEF ControllerType, WithHandlers
<1> QED
  BY Zenon, <1>2, <1>3, <1>4, <1>5 DEF Alike, WithHandlers, NodeKnown

(* setNode, in either order.                                               *)
LEMMA setNodeEffect ==
    ASSUME NEW x, ControllerType(x), NEW e, NEW node \in NodeObject, NEW r \in setNode(x, e, node)
    PROVE  /\ Alike(x, r.c) /\ r.c.config = x.config /\ Cfgs(r.c.bgp) = Cfgs(x.bgp)
           /\ r.ok => NodeKnown(r.c.vpp, node.addr)
<1> DEFINE B(w) == ViaBgp(w.c, w.e, BgpSetNode(w.c.bgp, node.labels))
           V(w) == ViaVpp(w.c, VppSetNode(w.c.vpp, w.e, node.addr))
           first == Result(x, e, TRUE, 0)
<1>1. node.labels \in Labels /\ node.addr \in NodeAddr \cup {None}
  BY DEF NodeObject
<1>2. first.c = x
  BY DEF Result
<1>3. \/ r \in UNION {IF ~w.ok THEN {w}
                      ELSE {Result(q.c, q.e, q.ok, q.failures + w.failures) : q \in V(w)} :
                         w \in B(first)}
      \/ r \in UNION {IF ~w.ok THEN {w}
                      ELSE {Result(q.c, q.e, q.ok, q.failures + w.failures) : q \in B(w)} :
                         w \in V(first)}
  BY ZenonT(60) DEF setNode, Then
<1>4. ASSUME NEW w \in B(first)
      PROVE  /\ Alike(x, w.c) /\ w.c.config = x.config /\ Cfgs(w.c.bgp) = Cfgs(x.bgp)
             /\ w.c.vpp = x.vpp
  <2>1. w \in ViaBgp(x, first.e, BgpSetNode(x.bgp, node.labels))
    BY Zenon, <1>2
  <2> HIDE DEF B, V, first
  <2> QED
    BY Zenon, <1>1, <2>1, NodeToBgp
<1>5. ASSUME NEW w \in V(first)
      PROVE  /\ Alike(x, w.c) /\ w.c.config = x.config /\ w.c.bgp = x.bgp
             /\ w.ok => NodeKnown(w.c.vpp, node.addr)
  <2>1. w \in ViaVpp(x, VppSetNode(x.vpp, first.e, node.addr))
    BY Zenon, <1>2
  <2> HIDE DEF B, V, first
  <2> QED
    BY Zenon, <1>1, <2>1, NodeToVpp
<1>6. ASSUME NEW w, ControllerType(w.c), NEW q \in B(w)
      PROVE  /\ Alike(w.c, q.c) /\ q.c.config = w.c.config /\ Cfgs(q.c.bgp) = Cfgs(w.c.bgp)
             /\ q.c.vpp = w.c.vpp
  <2>1. q \in ViaBgp(w.c, w.e, BgpSetNode(w.c.bgp, node.labels))
    OBVIOUS
  <2> HIDE DEF B, V, first
  <2> QED
    BY ZenonT(40), <1>1, <1>6, <2>1, NodeToBgp
<1>7. ASSUME NEW w, ControllerType(w.c), NEW q \in V(w)
      PROVE  /\ Alike(w.c, q.c) /\ q.c.config = w.c.config /\ q.c.bgp = w.c.bgp
             /\ q.ok => NodeKnown(q.c.vpp, node.addr)
  <2>1. q \in ViaVpp(w.c, VppSetNode(w.c.vpp, w.e, node.addr))
    OBVIOUS
  <2> HIDE DEF B, V, first
  <2> QED
    BY Zenon, <1>1, <1>7, <2>1, NodeToVpp
<1> HIDE DEF B, V, first
<1>8. ASSUME NEW y, NEW z, Alike(x, y), Alike(y, z)
      PROVE  Alike(x, z)
  BY <1>8 DEF Alike
<1>9. CASE r \in UNION {IF ~w.ok THEN {w}
                        ELSE {Result(q.c, q.e, q.ok, q.failures + w.failures) : q \in V(w)} :
                           w \in B(first)}
  <2>1. PICK w \in B(first) :
          \/ ~w.ok /\ r = w
          \/ w.ok /\ \E q \in V(w) : r = Result(q.c, q.e, q.ok, q.failures + w.failures)
    BY Zenon, <1>9
  <2>2. ControllerType(w.c)
    BY Zenon, <1>4 DEF Alike
  <2>3. CASE ~w.ok /\ r = w
    BY Zenon, <1>4, <2>3
  <2>4. CASE \E q \in V(w) : r = Result(q.c, q.e, q.ok, q.failures + w.failures)
    <3>1. PICK q \in V(w) : r = Result(q.c, q.e, q.ok, q.failures + w.failures)
      BY Zenon, <2>4
    <3>2. r.c = q.c /\ r.ok = q.ok
      BY Zenon, <3>1 DEF Result
    <3> QED
      <4>1. /\ Alike(w.c, q.c) /\ q.c.config = w.c.config /\ q.c.bgp = w.c.bgp
            /\ q.ok => NodeKnown(q.c.vpp, node.addr)
        BY Zenon, <1>7, <2>2
      <4>2. Alike(x, q.c)
        BY Zenon, <1>4, <1>8, <4>1
      <4> QED
        BY SMTT(60), <1>4, <3>2, <4>1, <4>2
  <2> QED
    BY Zenon, <2>1, <2>3, <2>4
<1>10. CASE r \in UNION {IF ~w.ok THEN {w}
                         ELSE {Result(q.c, q.e, q.ok, q.failures + w.failures) : q \in B(w)} :
                            w \in V(first)}
  <2>1. PICK w \in V(first) :
          \/ ~w.ok /\ r = w
          \/ w.ok /\ \E q \in B(w) : r = Result(q.c, q.e, q.ok, q.failures + w.failures)
    BY Zenon, <1>10
  <2>2. ControllerType(w.c)
    BY Zenon, <1>5 DEF Alike
  <2>3. CASE ~w.ok /\ r = w
    BY Zenon, <1>5, <2>3
  <2>4. CASE w.ok /\ \E q \in B(w) : r = Result(q.c, q.e, q.ok, q.failures + w.failures)
    <3>1. PICK q \in B(w) : r = Result(q.c, q.e, q.ok, q.failures + w.failures)
      BY <2>4
    <3>2. r.c = q.c
      BY <3>1 DEF Result
    <3> QED
      <4>1. /\ Alike(w.c, q.c) /\ q.c.config = w.c.config /\ Cfgs(q.c.bgp) = Cfgs(w.c.bgp)
            /\ q.c.vpp = w.c.vpp
        BY Zenon, <1>6, <2>2
      <4>2. Alike(x, q.c)
        BY Zenon, <1>5, <1>8, <4>1
      <4> QED
        BY Zenon, <1>5, <2>4, <3>2, <4>1, <4>2
  <2> QED
    BY Zenon, <2>1, <2>3, <2>4
<1> QED
  BY Zenon, <1>3, <1>9, <1>10

(* A new controller is as it should be.                                    *)
LEMMA NewControllerEffect ==
    /\ ControllerType(NewController) /\ NewController.config = None
    /\ \A s \in Svc : NewController.announced[s] = None /\ NewController.bgp.svcAds[s] = None
    /\ Told(NewController.bgp) /\ Cfgs(NewController.bgp) = <<>>
    /\ InStep(NewController) /\ Layer2OK(NewController)
<1>1. /\ BgpType(BgpNew, Advertisement) /\ Chosen(BgpNew) /\ Opened(BgpNew)
      /\ Told(BgpNew) /\ Cfgs(BgpNew) = <<>>
  BY AdvertisementProper, BgpNewEffect
<1>2. VppType(VppNew)
  BY VppNewType
<1>3. /\ NewController.config = None /\ NewController.bgp = BgpNew /\ NewController.vpp = VppNew
      /\ NewController.announced = [s \in Svc |-> None]
      /\ NewController.svcIP = [s \in Svc |-> None]
      /\ NewController.gauge = {}
      /\ NewController = [config |-> None, announced |-> [s \in Svc |-> None],
                          svcIP |-> [s \in Svc |-> None], bgp |-> BgpNew, vpp |-> VppNew,
                          gauge |-> {}]
  BY DEF NewController
<1>4. \A s \in Svc : BgpNew.svcAds[s] = None
  BY DEF BgpNew
<1>5. /\ \A n \in Name : VppNew.ips[n] = None
      /\ \A ip \in IP : VppNew.ipRefcnt[ip] = 0
  BY DEF VppNew
<1>6. None \notin Protocol /\ None # "bgp" /\ None # "layer2"
  BY SpeakerAssumption DEF Protocol
<1>7. ControllerType(NewController)
  BY Zenon, <1>1, <1>2, <1>3 DEF ControllerType
<1>8. InStep(NewController)
  BY Zenon, <1>3, <1>4, <1>6 DEF InStep
<1>9. \A s \in Svc : NameOf[s] \in Name
  BY VppAssumption
<1>10. Layer2OK(NewController)
  BY Zenon, <1>3, <1>5, <1>6, <1>9 DEF Layer2OK
<1> QED
  BY Zenon, <1>1, <1>3, <1>4, <1>7, <1>8, <1>10
=============================================================================
