--------------------------- MODULE AnnouncerProofs ---------------------------
(***************************************************************************)
(* For any services, addresses, groups and interfaces: the NDP responders' *)
(* group counts never drift.                                               *)
(*                                                                         *)
(* GroupCounts is not inductive.  That withdrawing a service takes exactly *)
(* one address from the watched ones needs HeldOnce: no other service      *)
(* holds the address, and its count of uses is positive.                   *)
(***************************************************************************)
EXTENDS Announcer, FiniteSetTheorems, TLAPS

Responder == [solicitedNodeGroups : [Groups -> Int],
              joined : SUBSET Groups,
              missed : [Groups -> Nat]]

TypeOK ==
    /\ ips \in [Svc -> IP \cup {None}]
    /\ ipRefcnt \in [IP -> Nat]
    /\ ndps \in [DOMAIN ndps -> Responder]

(* No two services hold one address: SetBalancer enters a service in ips   *)
(* only if it is the first on its address.                                 *)
HeldOnce ==
    \A s \in Svc : ips[s] # None =>
        /\ ipRefcnt[ips[s]] > 0
        /\ \A t \in Svc : ips[s] = ips[t] => s = t

IInv == TypeOK /\ HeldOnce /\ GroupCounts

-----------------------------------------------------------------------------
(* The group of an address is one of Groups.                               *)
LEMMA GroupType == \A ip \in V6 : Group[ip] \in Groups
  BY DEF Groups

(* How many watched addresses there are in a group is a number.            *)
LEMMA InFinite ==
  ASSUME NEW g, NEW S \in SUBSET V6
  PROVE  IsFiniteSet(In(g, S)) /\ Cardinality(In(g, S)) \in Nat
<1>1. In(g, S) \subseteq V6
  BY DEF In
<1>2. IsFiniteSet(In(g, S))
  BY <1>1, FS_Subset, AnnouncerAssumption
<1> QED
  BY <1>2, FS_CardinalityType

(* An address more adds one to its own group, and nothing to the others.   *)
LEMMA InMore ==
  ASSUME NEW g, NEW S \in SUBSET V6, NEW ip \in V6, ip \notin S
  PROVE  Cardinality(In(g, S \cup {ip}))
           = Cardinality(In(g, S)) + IF Group[ip] = g THEN 1 ELSE 0
<1>1. CASE Group[ip] = g
  <2>1. In(g, S \cup {ip}) = In(g, S) \cup {ip} /\ ip \notin In(g, S)
    BY <1>1 DEF In
  <2> QED
    BY <1>1, <2>1, InFinite, FS_AddElement
<1>2. CASE Group[ip] # g
  <2>1. In(g, S \cup {ip}) = In(g, S)
    BY <1>2 DEF In
  <2> QED
    BY <1>2, <2>1, InFinite
<1> QED
  BY <1>1, <1>2

(* Initially nobody holds, watches or answers anything.                    *)
LEMMA InitInv == Init => IInv
  BY AnnouncerAssumption DEF Init, IInv, TypeOK, HeldOnce, GroupCounts

(* What Watch does with the count of a group, and with what the responder  *)
(* missed of it: together they grow with the watched addresses.            *)
LEMMA WatchCounts ==
  ASSUME NEW n \in Responder, NEW ip \in V6, NEW joins \in BOOLEAN, NEW g \in Groups,
         g \in n.joined <=> n.solicitedNodeGroups[g] > 0
  PROVE  LET m == Watch(n, ip, joins)
         IN /\ m \in Responder
            /\ m.solicitedNodeGroups[g] + m.missed[g]
                 = n.solicitedNodeGroups[g] + n.missed[g] + IF Group[ip] = g THEN 1 ELSE 0
            /\ g \in m.joined <=> m.solicitedNodeGroups[g] > 0
<1>1. Group[ip] \in Groups
  BY GroupType
<1>2. CASE n.solicitedNodeGroups[Group[ip]] # 0
  BY <1>1, <1>2 DEF Watch, Responder
<1>3. CASE n.solicitedNodeGroups[Group[ip]] = 0 /\ joins
  <2>1. Watch(n, ip, joins)
          = [solicitedNodeGroups |-> [n.solicitedNodeGroups EXCEPT ![Group[ip]] = @ + 1],
             joined |-> n.joined \cup {Group[ip]},
             missed |-> n.missed]
    BY <1>1, <1>3 DEF Watch, Responder
  <2> DEFINE groups == [n.solicitedNodeGroups EXCEPT ![Group[ip]] = @ + 1]
             joined == n.joined \cup {Group[ip]}
  <2>2. /\ n.solicitedNodeGroups \in [Groups -> Int]
        /\ n.joined \in SUBSET Groups
        /\ n.missed \in [Groups -> Nat]
    BY DEF Responder
  <2>3. groups \in [Groups -> Int] /\ joined \in SUBSET Groups
    BY <1>1, <2>2
  <2>4. groups[g] = n.solicitedNodeGroups[g] + IF Group[ip] = g THEN 1 ELSE 0
    BY <1>1, <2>2
  <2>5. g \in joined <=> groups[g] > 0
    BY <1>3, <2>2, <2>4
  <2> HIDE DEF groups, joined
  <2>6. Watch(n, ip, joins)
          = [solicitedNodeGroups |-> groups, joined |-> joined, missed |-> n.missed]
    BY <2>1 DEF groups, joined
  <2> QED
    BY <2>2, <2>3, <2>4, <2>5, <2>6 DEF Responder
<1>4. CASE n.solicitedNodeGroups[Group[ip]] = 0 /\ ~joins
  BY <1>1, <1>4 DEF Watch, Responder
<1> QED
  BY <1>2, <1>3, <1>4

(* The same for Unwatch, which takes one off the count of its group.       *)
LEMMA UnwatchCounts ==
  ASSUME NEW n \in Responder, NEW ip \in V6, NEW g \in Groups,
         g \in n.joined <=> n.solicitedNodeGroups[g] > 0
  PROVE  LET m == Unwatch(n, ip)
         IN /\ m \in Responder
            /\ m.solicitedNodeGroups[g] + m.missed[g]
                 = (n.solicitedNodeGroups[g] + n.missed[g]) - IF Group[ip] = g THEN 1 ELSE 0
            /\ g \in m.joined <=> m.solicitedNodeGroups[g] > 0
<1>1. Group[ip] \in Groups
  BY GroupType
<1>2. CASE n.solicitedNodeGroups[Group[ip]] - 1 = 0
  <2>1. Unwatch(n, ip)
          = [solicitedNodeGroups |-> [n.solicitedNodeGroups EXCEPT ![Group[ip]] = @ - 1],
             joined |-> n.joined \ {Group[ip]},
             missed |-> n.missed]
    BY <1>1, <1>2 DEF Unwatch, Responder
  <2> QED
    BY <1>1, <1>2, <2>1 DEF Responder
<1>3. CASE n.solicitedNodeGroups[Group[ip]] - 1 # 0
  BY <1>1, <1>3 DEF Unwatch, Responder
<1> QED
  BY <1>2, <1>3

-----------------------------------------------------------------------------
(* The counts stay right when a change of the watched addresses is passed  *)
(* on to all responders.                                                   *)
LEMMA CountsFollow ==
  ASSUME IInv, NEW d \in [Groups -> Int],
         Watched' \in SUBSET V6,
         \A g \in Groups : Cardinality(In(g, Watched')) = Cardinality(In(g, Watched)) + d[g],
         DOMAIN ndps' = DOMAIN ndps,
         \A i \in DOMAIN ndps : ndps'[i] \in Responder,
         \A i \in DOMAIN ndps, g \in Groups :
            /\ ndps'[i].solicitedNodeGroups[g] + ndps'[i].missed[g]
                 = ndps[i].solicitedNodeGroups[g] + ndps[i].missed[g] + d[g]
            /\ g \in ndps'[i].joined <=> ndps'[i].solicitedNodeGroups[g] > 0
  PROVE  GroupCounts'
<1> SUFFICES ASSUME NEW i \in DOMAIN ndps, NEW g \in Groups
             PROVE  /\ ndps'[i].solicitedNodeGroups[g]
                         = Cardinality(In(g, Watched')) - ndps'[i].missed[g]
                    /\ g \in ndps'[i].joined <=> ndps'[i].solicitedNodeGroups[g] > 0
  BY SMTT(20) DEF GroupCounts, In, Groups
<1>1. /\ ndps[i] \in Responder
      /\ ndps'[i] \in Responder
      /\ ndps[i].solicitedNodeGroups[g] = Cardinality(In(g, Watched)) - ndps[i].missed[g]
  BY DEF IInv, TypeOK, GroupCounts
<1>2. /\ Cardinality(In(g, Watched)) \in Nat
      /\ Cardinality(In(g, Watched')) \in Nat
  BY InFinite DEF Watched
<1> QED
  BY <1>1, <1>2 DEF Responder

(* A scan that makes and closes responders keeps the invariant: a new one  *)
(* missed all that was being watched.                                      *)
LEMMA WithRespondersInv ==
  ASSUME IInv, NEW I, ndps' = WithResponders(I), UNCHANGED <<ips, ipRefcnt>>
  PROVE  IInv'
<1>1. Watched' = Watched /\ Watched \in SUBSET V6
  BY DEF Watched
<1>2. \A g \in Groups : Cardinality(In(g, Watched)) \in Nat
  BY <1>1, InFinite
<1>3. newNDPResponder \in Responder
  BY <1>2 DEF newNDPResponder, Responder
<1>4. \A i \in I : ndps'[i] = IF i \in DOMAIN ndps THEN ndps[i] ELSE newNDPResponder
  BY DEF WithResponders
<1>5. DOMAIN ndps' = I /\ ndps' \in [I -> Responder]
  BY <1>3 DEF WithResponders, IInv, TypeOK
<1>6. GroupCounts'
  <2> SUFFICES ASSUME NEW i \in I, NEW g \in Groups
               PROVE  /\ ndps'[i].solicitedNodeGroups[g]
                           = Cardinality(In(g, Watched)) - ndps'[i].missed[g]
                      /\ g \in ndps'[i].joined <=> ndps'[i].solicitedNodeGroups[g] > 0
    BY <1>1, <1>5 DEF GroupCounts, In, Groups
  <2>1. CASE i \in DOMAIN ndps
    BY <1>4, <2>1 DEF IInv, GroupCounts
  <2>2. CASE i \notin DOMAIN ndps
    <3>1. /\ newNDPResponder.solicitedNodeGroups[g] = 0
          /\ newNDPResponder.missed[g] = Cardinality(In(g, Watched))
          /\ newNDPResponder.joined = {}
      BY DEF newNDPResponder
    <3>2. ndps'[i] = newNDPResponder
      BY <1>4, <2>2
    <3> QED
      BY <1>2, <3>1, <3>2
  <2> QED
    BY <2>1, <2>2
<1> QED
  BY <1>5, <1>6 DEF IInv, TypeOK, HeldOnce

(* A service takes on an address: only the first one on it gets to hold    *)
(* it, and only then is the address a new one to watch.                    *)
LEMMA SetBalancerInv ==
  ASSUME IInv, NEW s \in Svc, NEW ip \in Assigned[s], SetBalancer(s, ip)
  PROVE  IInv'
<1>1. ip \in IP /\ ips[s] = None /\ ipRefcnt' = [ipRefcnt EXCEPT ![ip] = @ + 1]
  BY AnnouncerAssumption DEF SetBalancer
<1>2. ipRefcnt' \in [IP -> Nat] /\ ipRefcnt'[ip] = ipRefcnt[ip] + 1 /\ ipRefcnt[ip] \in Nat
  BY <1>1 DEF IInv, TypeOK
<1>3. Watched' \in SUBSET V6 /\ Watched \in SUBSET V6
  BY DEF Watched
<1>4. CASE ipRefcnt[ip] > 0
  <2>1. ndps' = ndps /\ ips' = ips
    BY <1>4 DEF SetBalancer
  <2>2. Watched' = Watched
    BY <1>1, <1>2, <1>4 DEF Watched, IInv, TypeOK
  <2>3. GroupCounts'
    BY <2>1, <2>2 DEF IInv, GroupCounts, In, Groups
  <2>4. HeldOnce'
    BY <1>1, <1>2, <2>1 DEF IInv, TypeOK, HeldOnce
  <2> QED
    BY <1>2, <2>1, <2>3, <2>4 DEF IInv, TypeOK
<1>5. CASE ~(ipRefcnt[ip] > 0)
  <2>1. ips' = [ips EXCEPT ![s] = ip]
    BY <1>5 DEF SetBalancer
  <2>2. ips' \in [Svc -> IP \cup {None}]
    BY <1>1, <2>1 DEF IInv, TypeOK
  <2>3. HeldOnce'
    <3>1. \A t \in Svc : ips[t] # ip
      BY <1>1, <1>5, AnnouncerAssumption DEF IInv, HeldOnce
    <3>2. \A t \in Svc : ips'[t] = IF t = s THEN ip ELSE ips[t]
      BY <2>1 DEF IInv, TypeOK
    <3>3. \A t \in Svc \ {s} : ips[t] # None => ipRefcnt'[ips[t]] = ipRefcnt[ips[t]]
      BY <1>1, <3>1 DEF IInv, TypeOK
    <3> QED
      BY <1>2, <1>5, <3>1, <3>2, <3>3 DEF IInv, HeldOnce
  <2>4. CASE ip \in V4
    <3>1. ndps' = ndps
      BY <1>5, <2>4 DEF SetBalancer
    <3>2. Watched' = Watched
      BY <1>1, <2>4, AnnouncerAssumption DEF Watched, IInv, TypeOK, IP
    <3>3. GroupCounts'
      BY <3>1, <3>2 DEF IInv, GroupCounts, In, Groups
    <3> QED
      BY <1>2, <2>2, <2>3, <3>1, <3>3 DEF IInv, TypeOK
  <2>5. CASE ip \in V6
    <3>1. PICK F : ndps' = [i \in DOMAIN ndps |-> Watch(ndps[i], ip, i \notin F)]
      BY <1>5, <2>5, AnnouncerAssumption DEF SetBalancer
    <3>2. Watched' = Watched \cup {ip} /\ ip \notin Watched
      BY <1>1, <1>2, <1>5, <2>5 DEF Watched, IInv, TypeOK, IP
    <3> DEFINE d == [g \in Groups |-> IF Group[ip] = g THEN 1 ELSE 0]
    <3>3. \A g \in Groups : Cardinality(In(g, Watched')) = Cardinality(In(g, Watched)) + d[g]
      BY <1>3, <2>5, <3>2, InMore
    <3>4. Groups # {}
      BY <2>5, GroupType
    <3>5. \A i \in DOMAIN ndps : /\ ndps[i] \in Responder
                                 /\ ndps'[i] = Watch(ndps[i], ip, i \notin F)
                                 /\ (i \notin F) \in BOOLEAN
      BY <3>1 DEF IInv, TypeOK
    <3>6. \A i \in DOMAIN ndps, g \in Groups :
             g \in ndps[i].joined <=> ndps[i].solicitedNodeGroups[g] > 0
      BY DEF IInv, GroupCounts
    <3>7. \A i \in DOMAIN ndps, g \in Groups :
            /\ ndps'[i] \in Responder
            /\ ndps'[i].solicitedNodeGroups[g] + ndps'[i].missed[g]
                 = ndps[i].solicitedNodeGroups[g] + ndps[i].missed[g] + d[g]
            /\ g \in ndps'[i].joined <=> ndps'[i].solicitedNodeGroups[g] > 0
      <4> TAKE i \in DOMAIN ndps, g \in Groups
      <4>1. d[g] = IF Group[ip] = g THEN 1 ELSE 0
        OBVIOUS
      <4> HIDE DEF d
      <4> DEFINE joins == i \notin F
      <4>2. joins \in BOOLEAN /\ ndps'[i] = Watch(ndps[i], ip, joins)
        BY <3>5
      <4> HIDE DEF joins
      <4> QED
        BY <2>5, <3>5, <3>6, <4>1, <4>2, WatchCounts
    <3>8. /\ DOMAIN ndps' = DOMAIN ndps
          /\ ndps' \in [DOMAIN ndps -> Responder]
      BY <3>1, <3>4, <3>7
    <3>9. d \in [Groups -> Int]
      OBVIOUS
    <3>10. GroupCounts'
      <4> HIDE DEF d
      <4> QED
        BY <1>3, <3>3, <3>4, <3>7, <3>8, <3>9, CountsFollow
    <3> QED
      BY <1>2, <2>2, <2>3, <3>8, <3>10 DEF IInv, TypeOK
  <2> QED
    BY <1>1, <2>4, <2>5 DEF IP
<1> QED
  BY <1>4, <1>5

(* A service gives up the address it holds.  By HeldOnce the address was   *)
(* watched, so the responders are told of exactly what is lost.            *)
LEMMA DeleteBalancerInv ==
  ASSUME IInv, NEW s \in Svc, DeleteBalancer(s)
  PROVE  IInv'
<1> DEFINE ip == ips[s]
<1>1. /\ ip \in IP
      /\ ips' = [ips EXCEPT ![s] = None]
      /\ ipRefcnt' = [ipRefcnt EXCEPT ![ip] = @ - 1]
  BY DEF DeleteBalancer, IInv, TypeOK
<1>2. /\ ipRefcnt[ip] \in Nat /\ ipRefcnt[ip] > 0
      /\ ipRefcnt'[ip] = ipRefcnt[ip] - 1
      /\ ipRefcnt' \in [IP -> Nat]
  BY <1>1 DEF DeleteBalancer, IInv, TypeOK, HeldOnce
<1>3. Watched' \in SUBSET V6 /\ Watched \in SUBSET V6
  BY DEF Watched
<1>4. ips' \in [Svc -> IP \cup {None}]
  BY <1>1 DEF IInv, TypeOK
<1>5. HeldOnce'
  <2>1. \A t \in Svc : ips'[t] = IF t = s THEN None ELSE ips[t]
    BY <1>1 DEF IInv, TypeOK
  <2>2. \A t \in Svc \ {s} : ips[t] # ip
    BY <1>1, AnnouncerAssumption DEF IInv, HeldOnce
  <2>3. \A t \in Svc \ {s} : ips[t] # None => ipRefcnt'[ips[t]] = ipRefcnt[ips[t]]
    BY <1>1, <2>2 DEF IInv, TypeOK
  <2> QED
    BY <2>1, <2>2, <2>3 DEF IInv, HeldOnce
<1>6. CASE ipRefcnt'[ip] > 0 \/ ip \in V4
  <2>1. ndps' = ndps
    BY <1>6 DEF DeleteBalancer
  <2>2. Watched' = Watched
    BY <1>1, <1>2, <1>6, AnnouncerAssumption DEF Watched, IInv, TypeOK, IP
  <2>3. GroupCounts'
    BY <2>1, <2>2 DEF IInv, GroupCounts, In, Groups
  <2> QED
    BY <1>2, <1>4, <1>5, <2>1, <2>3 DEF IInv, TypeOK
<1>7. CASE ~(ipRefcnt'[ip] > 0) /\ ip \in V6
  <2>1. ndps' = [i \in DOMAIN ndps |-> Unwatch(ndps[i], ip)]
    BY <1>7, AnnouncerAssumption DEF DeleteBalancer
  <2>2. Watched = Watched' \cup {ip} /\ ip \notin Watched'
    BY <1>1, <1>2, <1>7 DEF Watched, IInv, TypeOK, IP
  <2> DEFINE d == [g \in Groups |-> IF Group[ip] = g THEN -1 ELSE 0]
  <2>3. d \in [Groups -> Int] /\ Groups # {}
    BY <1>7, GroupType
  <2>4. \A g \in Groups : d[g] = IF Group[ip] = g THEN -1 ELSE 0
    OBVIOUS
  <2> HIDE DEF d, ip
  <2>5. \A g \in Groups : Cardinality(In(g, Watched')) = Cardinality(In(g, Watched)) + d[g]
    <3> TAKE g \in Groups
    <3>1. Cardinality(In(g, Watched)) = Cardinality(In(g, Watched')) + IF Group[ip] = g THEN 1 ELSE 0
      BY <1>3, <1>7, <2>2, InMore
    <3>2. Cardinality(In(g, Watched')) \in Nat
      BY <1>3, InFinite
    <3> QED
      BY <2>4, <3>1, <3>2
  <2>6. \A i \in DOMAIN ndps, g \in Groups :
          /\ ndps'[i] \in Responder
          /\ ndps'[i].solicitedNodeGroups[g] + ndps'[i].missed[g]
               = ndps[i].solicitedNodeGroups[g] + ndps[i].missed[g] + d[g]
          /\ g \in ndps'[i].joined <=> ndps'[i].solicitedNodeGroups[g] > 0
    <3> TAKE i \in DOMAIN ndps, g \in Groups
    <3>1. /\ ndps[i] \in Responder
          /\ ndps'[i] = Unwatch(ndps[i], ip)
          /\ g \in ndps[i].joined <=> ndps[i].solicitedNodeGroups[g] > 0
      BY <2>1 DEF IInv, TypeOK, GroupCounts
    <3>2. /\ Unwatch(ndps[i], ip) \in Responder
          /\ Unwatch(ndps[i], ip).solicitedNodeGroups[g] + Unwatch(ndps[i], ip).missed[g]
               = (ndps[i].solicitedNodeGroups[g] + ndps[i].missed[g]) - IF Group[ip] = g THEN 1 ELSE 0
          /\ g \in Unwatch(ndps[i], ip).joined
               <=> Unwatch(ndps[i], ip).solicitedNodeGroups[g] > 0
      BY <1>7, <3>1, UnwatchCounts
    <3>3. ndps[i].solicitedNodeGroups[g] + ndps[i].missed[g] \in Int
      BY <3>1 DEF Responder
    <3> QED
      BY <2>4, <3>1, <3>2, <3>3
  <2>7. DOMAIN ndps' = DOMAIN ndps /\ ndps' \in [DOMAIN ndps -> Responder]
    BY <2>1, <2>3, <2>6
  <2>8. GroupCounts'
    BY <1>3, <2>3, <2>5, <2>6, <2>7, CountsFollow
  <2> QED
    BY <1>2, <1>4, <1>5, <2>7, <2>8 DEF IInv, TypeOK
<1> QED
  BY <1>1, <1>6, <1>7 DEF IP

(* The other steps leave alone what is held, and at most make or close     *)
(* responders.                                                             *)
LEMMA StepInv == IInv /\ [Next]_vars => IInv'
<1> SUFFICES ASSUME IInv, [Next]_vars PROVE IInv'
  OBVIOUS
<1>1. ASSUME NEW s \in Svc, NEW ip \in Assigned[s], SetBalancer(s, ip) PROVE IInv'
  BY <1>1, SetBalancerInv
<1>2. ASSUME NEW s \in Svc, DeleteBalancer(s) PROVE IInv'
  BY <1>2, DeleteBalancerInv
<1>3. CASE updateInterfaces
  BY <1>3, WithRespondersInv DEF updateInterfaces, announce
<1>4. ASSUME NEW f \in Ifc, NEW made \in {0, 1}, updateInterfacesFails(f, made) PROVE IInv'
  BY <1>4, WithRespondersInv DEF updateInterfacesFails, announce
<1>5. ASSUME UNCHANGED <<ips, ipRefcnt, ndps>> PROVE IInv'
  <2>1. Watched' = Watched
    BY <1>5 DEF Watched
  <2>2. GroupCounts'
    BY <1>5, <2>1 DEF IInv, GroupCounts, In, Groups
  <2> QED
    BY <1>5, <2>2 DEF IInv, TypeOK, HeldOnce
<1>6. CASE List
  BY <1>5, <1>6 DEF List, announce
<1>7. ASSUME NEW s \in Svc, gratuitous(s) PROVE IInv'
  BY <1>5, <1>7 DEF gratuitous
<1>8. ASSUME NEW i \in Ifc, NEW ip \in IP, GotRequest(i, ip) PROVE IInv'
  BY <1>5, <1>8 DEF GotRequest, announce
<1>9. ASSUME NEW i \in Ifc, NEW ip \in IP, Reply(i, ip) PROVE IInv'
  BY <1>5, <1>9 DEF Reply, announce
<1>10. ASSUME NEW i \in Ifc, NEW fit \in Fitness, Change(i, fit) PROVE IInv'
  BY <1>5, <1>10 DEF Change, announce
<1>11. CASE UNCHANGED vars
  BY <1>5, <1>11 DEF vars, announce
<1> QED
  BY <1>1, <1>2, <1>3, <1>4, <1>6, <1>7, <1>8, <1>9, <1>10, <1>11 DEF Next

-----------------------------------------------------------------------------
(* The counts of the NDP responders never drift, and a group is joined     *)
(* exactly while its count is positive, for any services that share        *)
(* addresses, any addresses that share groups and any joins that fail      *)
(* (Watch, Unwatch).                                                       *)
THEOREM Counts == Spec => []GroupCounts
<1>1. IInv => GroupCounts
  BY DEF IInv
<1> QED
  BY <1>1, InitInv, StepInv, PTL DEF Spec

(* No two services ever hold one address, and one that is held is counted  *)
(* as used (SetBalancer, DeleteBalancer).                                  *)
THEOREM Holders == Spec => []HeldOnce
<1>1. IInv => HeldOnce
  BY DEF IInv
<1> QED
  BY <1>1, InitInv, StepInv, PTL DEF Spec
=============================================================================
