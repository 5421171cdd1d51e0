-------------------------- MODULE ControllerProofs ---------------------------
(***************************************************************************)
(* The safety properties of Controller, for any services, addresses, pool  *)
(* configurations and bounds: the inductive invariant, what its proof      *)
(* needs to know of the parts (the queue and the watch as sequences, what  *)
(* convergeBalancer decides, that the informer's cache follows the API     *)
(* server), the steps, and the theorems.                                   *)
(***************************************************************************)
EXTENDS Controller, AllocatorProofs

Change == [svc : Svc, object : Service \cup {None}]

(* The type invariant.                                                     *)
ControllerTypeOK ==
    /\ services \in [Svc -> Service \cup {None}]
    /\ svcIndexer \in [Svc -> Service \cup {None}]
    /\ watch \in Seq(Change)
    /\ configMap \in Pools \cup {Invalid, None}
    /\ cmIndexer \in Pools \cup {Invalid, None}
    /\ config \in Pools \cup {None}
    /\ queue \in Seq(QueueKey)
    /\ delayed \in SUBSET QueueKey
    /\ up \in BOOLEAN
    /\ configStale \in BOOLEAN

(* A process that is not running has no memory.                            *)
DownEmpty == ~up => watch = <<>> /\ config = None /\ ~configStale

(* The last change of a service on its way brings what the API server has, *)
(* and a service of which no change is on its way is cached as it is.      *)
Informed(s) == \A e \in Elements(watch) : e.svc # s

LastChange(i) == \A j \in DOMAIN watch : j > i => watch[j].svc # watch[i].svc

CacheFollows ==
    /\ \A i \in DOMAIN watch : LastChange(i) => watch[i].object = services[watch[i].svc]
    /\ up => \A s \in Svc : Informed(s) => svcIndexer[s] = services[s]

(* Service svc, if there is one, and the allocation al say the same: the   *)
(* published address is the one held, under the present request.           *)
Agrees(svc, al) ==
    IF svc = None THEN al = None
    ELSE /\ svc.status = IF al = None THEN None ELSE String(al.ip)
         /\ al # None =>
              /\ svc.spec.LoadBalancer
              /\ [ports |-> al.ports, key |-> al.key] = RequestOf(svc.spec)
              /\ svc.spec.LoadBalancerIP # None => svc.spec.LoadBalancerIP.ip = al.ip

SettledAgree ==
    up /\ config # None => \A s \in Svc : Settled(s) => Agrees(services[s], ips.allocated[s])

(* The inductive invariant.                                                *)
IInv ==
    /\ ControllerTypeOK
    /\ DownEmpty
    /\ Coherent(ips)
    /\ ConfigInForce
    /\ CacheFollows
    /\ SettledAgree

-----------------------------------------------------------------------------
(***************************************************************************)
(* The work queue and the watch, as sequences.                             *)
(***************************************************************************)

(* What is appended is in the sequence, after all that was there.          *)
LEMMA AppendElements ==
    ASSUME NEW S, NEW q \in Seq(S), NEW e \in S
    PROVE  /\ Append(q, e) \in Seq(S)
           /\ Elements(Append(q, e)) = Elements(q) \cup {e}
<1>1. /\ Len(Append(q, e)) = Len(q) + 1
      /\ DOMAIN Append(q, e) = 1..(Len(q) + 1)
      /\ DOMAIN q = 1..Len(q)
      /\ Len(q) \in Nat
      /\ \A i \in 1..Len(q) : Append(q, e)[i] = q[i]
      /\ Append(q, e)[Len(q) + 1] = e
  OBVIOUS
<1>2. \A i \in DOMAIN Append(q, e) : i \in DOMAIN q \/ i = Len(q) + 1
  BY <1>1
<1>3. Len(q) + 1 \in DOMAIN Append(q, e) /\ DOMAIN q \subseteq DOMAIN Append(q, e)
  BY <1>1
<1> QED
  BY <1>1, <1>2, <1>3 DEF Elements

(* What is taken off the front is the only thing that leaves.              *)
LEMMA TailElements ==
    ASSUME NEW S, NEW q \in Seq(S), q # <<>>
    PROVE  /\ Tail(q) \in Seq(S)
           /\ Head(q) \in S
           /\ Elements(q) = Elements(Tail(q)) \cup {Head(q)}
<1>1. /\ Len(q) \in Nat \ {0}
      /\ DOMAIN q = 1..Len(q)
      /\ Tail(q) \in Seq(S)
      /\ DOMAIN Tail(q) = 1..(Len(q) - 1)
      /\ \A i \in 1..(Len(q) - 1) : Tail(q)[i] = q[i + 1]
      /\ Head(q) = q[1]
      /\ q[1] \in S
  OBVIOUS
<1>2. ASSUME NEW i \in DOMAIN q
      PROVE  q[i] \in Elements(Tail(q)) \cup {Head(q)}
  <2>1. CASE i = 1
    BY <1>1, <2>1
  <2>2. CASE i # 1
    <3>1. i - 1 \in DOMAIN Tail(q) /\ Tail(q)[i - 1] = q[i]
      BY <1>1, <2>2
    <3> QED
      BY <3>1 DEF Elements
  <2> QED
    BY <2>1, <2>2
<1>3. ASSUME NEW i \in DOMAIN Tail(q)
      PROVE  Tail(q)[i] \in Elements(q)
  <2>1. i + 1 \in DOMAIN q /\ Tail(q)[i] = q[i + 1]
    BY <1>1
  <2> QED
    BY <2>1 DEF Elements
<1>4. Head(q) \in Elements(q)
  BY <1>1 DEF Elements
<1> QED
  BY <1>1, <1>2, <1>3, <1>4 DEF Elements

(* Add has the key in the queue, and keeps what is there.                  *)
LEMMA AddElements ==
    ASSUME NEW q \in Seq(QueueKey), NEW k \in QueueKey
    PROVE  /\ Add(q, k) \in Seq(QueueKey)
           /\ Elements(Add(q, k)) = Elements(q) \cup {k}
  BY AppendElements DEF Add

(* The keys of services are keys, all different, and not the other two.    *)
LEMMA Keys ==
    /\ cmKey \in QueueKey /\ syncedKey \in QueueKey /\ cmKey # syncedKey
    /\ \A s \in Svc : svcKey(s) \in QueueKey /\ svcKey(s) # cmKey /\ svcKey(s) # syncedKey
    /\ \A s, t \in Svc : svcKey(s) = svcKey(t) => s = t
  BY DEF QueueKey, svcKey, cmKey, syncedKey

(* When the worker takes key k, no other key ceases to be pending.         *)
LEMMA GetPending ==
    ASSUME queue \in Seq(QueueKey), NEW k, Get(k)
    PROVE  /\ queue' \in Seq(QueueKey)
           /\ k \in QueueKey
           /\ Elements(queue) = Elements(queue') \cup {k}
  BY TailElements DEF Get

-----------------------------------------------------------------------------
(***************************************************************************)
(* convergeBalancer.                                                       *)
(***************************************************************************)

(* A specification makes a request.                                        *)
LEMMA RequestType ==
    ASSUME NEW spec \in ServiceSpec
    PROVE  RequestOf(spec) \in Request
  BY SpecsAssumption DEF RequestOf, ServiceSpec, Request, Key

(* Allocator b is a with at most the allocation of s changed.              *)
OnlyChanges(a, b, s) ==
    /\ Coherent(b)
    /\ b.pools = a.pools
    /\ \A t \in Svc \ {s} : b.allocated[t] = a.allocated[t]

(* s holds ip, for req.                                                    *)
HeldFor(al, ip, req) ==
    /\ al # None
    /\ al.ip = ip
    /\ al.ports = req.ports
    /\ al.key = req.key

(* Unassign changes the allocation of s alone, and leaves it with none.    *)
LEMMA UnassignEffect ==
    ASSUME NEW a, Coherent(a), NEW s \in Svc
    PROVE  /\ OnlyChanges(a, Unassign(a, s), s)
           /\ Unassign(a, s).allocated[s] = None
<1> DEFINE u == Unassign(a, s)
<1>1. Coherent(u) /\ u.pools = a.pools /\ u.allocated = [a.allocated EXCEPT ![s] = None]
  BY UnassignCoherent
<1>2. a.allocated \in [Svc -> Alloc \cup {None}]
  BY DEF Coherent, TypeOK
<1> HIDE DEF u
<1>3. /\ u.allocated[s] = None
      /\ \A t \in Svc \ {s} : u.allocated[t] = a.allocated[t]
  BY <1>1, <1>2
<1> QED
  BY <1>1, <1>3 DEF OnlyChanges, u

(* Assign, when it does not refuse, changes the allocation of s alone, and *)
(* records the address for the request.                                    *)
LEMMA AssignEffect ==
    ASSUME NEW a, Coherent(a), NEW s \in Svc, NEW ip \in IP, NEW req \in Request,
           ~Refused(a, s, ip, req)
    PROVE  /\ OnlyChanges(a, Assign(a, s, ip, req), s)
           /\ HeldFor(Assign(a, s, ip, req).allocated[s], ip, req)
<1> DEFINE u == Assign(a, s, ip, req)
           w == Wanted(a, ip, req)
<1>1. Coherent(u) /\ u.pools = a.pools /\ u.allocated = [a.allocated EXCEPT ![s] = w]
  BY AssignCoherent
<1>2. a.allocated \in [Svc -> Alloc \cup {None}] /\ u.allocated \in [Svc -> Alloc \cup {None}]
  BY <1>1 DEF Coherent, TypeOK
<1>3. w.ip = ip /\ w.ports = req.ports /\ w.key = req.key
  BY DEF Wanted
<1>4. poolFor(a.pools, ip) # None
  BY DEF Refused
<1>5. w \in Alloc
  <2>1. a.pools \in Pools \cup {NoPools}
    BY DEF Coherent, TypeOK
  <2>2. poolFor(a.pools, ip) \in PoolName
    BY <1>4, <2>1, PoolForType
  <2> QED
    BY <2>2 DEF Wanted, Alloc, Request
<1> HIDE DEF u, w
<1>6. /\ u.allocated[s] = w
      /\ \A t \in Svc \ {s} : u.allocated[t] = a.allocated[t]
  BY <1>1, <1>2
<1> QED
  BY Zenon, <1>1, <1>3, <1>5, <1>6, NoneAssumption DEF OnlyChanges, HeldFor, u

(* Changes of the one allocation, one after the other.                     *)
LEMMA OnlyChangesTrans ==
    ASSUME NEW a, NEW b, NEW d, NEW s, OnlyChanges(a, b, s), OnlyChanges(b, d, s)
    PROVE  OnlyChanges(a, d, s)
  BY DEF OnlyChanges

(* The address of a service that is kept is held for its present request,  *)
(* and is the one it asks for; a service that keeps none holds none.       *)
Kept(x, s, spec) ==
    IF x.lbIP = None THEN x.ips.allocated[s] = None
    ELSE HeldFor(x.ips.allocated[s], x.lbIP, RequestOf(spec))

(* The first part of convergeBalancer keeps the address in the status or   *)
(* frees what s holds.                                                     *)
LEMMA KeepCurrentEffect ==
    ASSUME NEW a, Coherent(a), NEW s \in Svc, NEW svc \in Service
    PROVE  /\ OnlyChanges(a, KeepCurrent(a, s, svc).ips, s)
           /\ Kept(KeepCurrent(a, s, svc), s, svc.spec)
<1> DEFINE ip == IF svc.status = None THEN None ELSE svc.status.ip
           req == RequestOf(svc.spec)
<1>1. req \in Request /\ ip \in IP \cup {None}
  BY RequestType DEF Service, Text
<1>2. CASE ip = None \/ Refused(a, s, ip, req)
  <2>1. KeepCurrent(a, s, svc) = [ips |-> Unassign(a, s), lbIP |-> None]
    BY <1>2 DEF KeepCurrent, clearServiceState
  <2> QED
    BY <2>1, UnassignEffect DEF Kept
<1>3. CASE ~(ip = None \/ Refused(a, s, ip, req))
  <2>1. KeepCurrent(a, s, svc) = [ips |-> Assign(a, s, ip, req), lbIP |-> ip]
    BY <1>3 DEF KeepCurrent
  <2> HIDE DEF ip, req
  <2>2. /\ OnlyChanges(a, Assign(a, s, ip, req), s)
        /\ HeldFor(Assign(a, s, ip, req).allocated[s], ip, req)
    BY <1>1, <1>3, AssignEffect
  <2> QED
    BY <1>3, <2>1, <2>2 DEF Kept, req
<1> QED
  BY <1>2, <1>3

(* The second part frees the address if it is not the one asked for.       *)
LEMMA HonourRequestEffect ==
    ASSUME NEW a, NEW x, NEW s \in Svc, NEW spec \in ServiceSpec,
           OnlyChanges(a, x.ips, s), Kept(x, s, spec)
    PROVE  LET y == HonourRequest(x, s, spec)
           IN /\ OnlyChanges(a, y.ips, s)
              /\ Kept(y, s, spec)
              /\ y.lbIP # None /\ spec.LoadBalancerIP # None => spec.LoadBalancerIP.ip = y.lbIP
<1>1. CASE spec.LoadBalancerIP # None /\ spec.LoadBalancerIP # String(x.lbIP)
  <2>1. HonourRequest(x, s, spec) = [ips |-> Unassign(x.ips, s), lbIP |-> None]
    BY <1>1 DEF HonourRequest, clearServiceState
  <2>2. OnlyChanges(x.ips, Unassign(x.ips, s), s) /\ Unassign(x.ips, s).allocated[s] = None
    BY UnassignEffect DEF OnlyChanges
  <2> QED
    BY <2>1, <2>2, OnlyChangesTrans DEF Kept
<1>2. CASE ~(spec.LoadBalancerIP # None /\ spec.LoadBalancerIP # String(x.lbIP))
  <2>1. HonourRequest(x, s, spec) = x
    BY <1>2 DEF HonourRequest
  <2> QED
    BY <1>2, <2>1 DEF String
<1> QED
  BY <1>1, <1>2

(* What allocateIP returns is an address that Assign accepts, and the one  *)
(* the user asks for if they ask for one.                                  *)
LEMMA allocateIPEffect ==
    ASSUME NEW a, Coherent(a), NEW s \in Svc, NEW spec \in ServiceSpec,
           NEW i \in allocateIP(a, s, spec)
    PROVE  /\ i \in IP
           /\ ~Refused(a, s, i, RequestOf(spec))
           /\ spec.LoadBalancerIP # None => spec.LoadBalancerIP.ip = i
<1> DEFINE req == RequestOf(spec)
<1>1. req \in Request
  BY RequestType
<1> HIDE DEF req
<1>2. \A j \in Reassignable(a, s, req) : ~Refused(a, s, j, req)
  BY DEF Reassignable
<1>3. \A p : \A j \in FirstAssignable(a, s, p, req) : ~Refused(a, s, j, req)
  BY Zenon DEF FirstAssignable
<1>4. \A n : \A j \in AllocateFromPool(a, s, n, req) : ~Refused(a, s, j, req)
  BY <1>2, <1>3 DEF AllocateFromPool
<1>5. \A j \in Allocate(a, s, req) : ~Refused(a, s, j, req)
  BY <1>2, <1>4 DEF Allocate
<1>6. CASE spec.LoadBalancerIP # None
  <2>1. i = spec.LoadBalancerIP.ip /\ i # None /\ ~Refused(a, s, i, req)
    BY <1>6 DEF allocateIP, req
  <2>2. spec.LoadBalancerIP.ip \in IP \cup {None}
    BY <1>6 DEF ServiceSpec, Text
  <2> QED
    BY <2>1, <2>2 DEF req
<1>7. CASE spec.LoadBalancerIP = None
  <2>1. i \in Allocate(a, s, req) \/ i \in AllocateFromPool(a, s, spec.pool, req)
    BY <1>7 DEF allocateIP, req
  <2>2. i \in IP
    BY <1>1, <2>1, OfferType
  <2> QED
    BY Zenon, <1>4, <1>5, <1>7, <2>1, <2>2 DEF req
<1> QED
  BY <1>6, <1>7

(* A decision on service s: only its allocation changes, and a status that *)
(* is to be published agrees with it.                                      *)
Decided(r, s, svc) ==
    /\ OnlyChanges(ips, r.ips, s)
    /\ r.done \in BOOLEAN
    /\ r.status \in Text \cup {None}
    /\ r.done => Agrees([svc EXCEPT !.status = r.status], r.ips.allocated[s])

(* A service that holds nothing agrees with an empty status.               *)
LEMMA FreedDecided ==
    ASSUME NEW a, NEW s \in Svc, OnlyChanges(ips, a, s), NEW svc \in Service,
           a.allocated[s] = None, NEW d \in BOOLEAN
    PROVE  Decided([ips |-> a, status |-> None, done |-> d], s, svc)
<1> DEFINE n == [svc EXCEPT !.status = None]
<1>1. n.status = None /\ n # None
  BY SpecsAssumption DEF Service
<1>2. Agrees(n, a.allocated[s])
  BY <1>1 DEF Agrees
<1> QED
  BY <1>2 DEF Decided

(* The last test of convergeBalancer, on an address held for s.            *)
LEMMA OutcomeDecided ==
    ASSUME NEW a, NEW s \in Svc, OnlyChanges(ips, a, s), NEW svc \in Service, NEW ip,
           HeldFor(a.allocated[s], ip, RequestOf(svc.spec)), svc.spec.LoadBalancer,
           svc.spec.LoadBalancerIP # None => svc.spec.LoadBalancerIP.ip = ip
    PROVE  Decided(Outcome(a, s, ip), s, svc)
<1> DEFINE al == a.allocated[s]
<1>1. CASE Outcome(a, s, ip) = [ips |-> Unassign(a, s), status |-> None, done |-> TRUE]
  <2>1. OnlyChanges(a, Unassign(a, s), s) /\ Unassign(a, s).allocated[s] = None
    BY UnassignEffect DEF OnlyChanges
  <2>2. OnlyChanges(ips, Unassign(a, s), s)
    BY <2>1, OnlyChangesTrans
  <2> QED
    BY Zenon, <1>1, <2>1, <2>2, FreedDecided
<1>2. CASE Outcome(a, s, ip) = [ips |-> a, status |-> String(ip), done |-> TRUE]
  <2> DEFINE n == [svc EXCEPT !.status = String(ip)]
  <2>1. ip \in IP
    BY DEF OnlyChanges, Coherent, TypeOK, Alloc, HeldFor
  <2>2. String(ip) \in Text
    BY <2>1 DEF String, Text
  <2>3. n.status = String(ip) /\ n.spec = svc.spec /\ n # None
    BY <2>2, SpecsAssumption DEF Service
  <2>4. [ports |-> al.ports, key |-> al.key] = RequestOf(svc.spec)
    BY DEF HeldFor, RequestOf
  <2>5. Agrees(n, al)
    <3> HIDE DEF n
    <3> QED
      BY <2>3, <2>4 DEF Agrees, HeldFor
  <2> QED
    BY <1>2, <2>2, <2>5 DEF Decided
<1> QED
  BY <1>1, <1>2 DEF Outcome

(* Every outcome of convergeBalancer is a decision on s alone that agrees  *)
(* with what is to be published.                                           *)
LEMMA ConvergeDecided ==
    ASSUME Coherent(ips), NEW s \in Svc, NEW svc \in Service,
           NEW r \in convergeBalancer(s, svc)
    PROVE  Decided(r, s, svc)
<1> DEFINE k == KeepCurrent(ips, s, svc)
           x == HonourRequest(k, s, svc.spec)
           found == allocateIP(x.ips, s, svc.spec)
<1>1. svc.spec \in ServiceSpec
  BY DEF Service
<1>2. OnlyChanges(ips, k.ips, s) /\ Kept(k, s, svc.spec)
  BY KeepCurrentEffect
<1> HIDE DEF k
<1>3. /\ OnlyChanges(ips, x.ips, s)
      /\ Kept(x, s, svc.spec)
      /\ x.lbIP # None /\ svc.spec.LoadBalancerIP # None => svc.spec.LoadBalancerIP.ip = x.lbIP
  BY <1>1, <1>2, HonourRequestEffect
<1>4. r \in IF ~svc.spec.LoadBalancer
            THEN {[ips |-> Unassign(ips, s), status |-> None, done |-> TRUE]}
            ELSE IF x.lbIP # None THEN {Outcome(x.ips, s, x.lbIP)}
            ELSE IF ~synced THEN {NotSynced(x.ips)}
            ELSE IF found = {} THEN {[ips |-> x.ips, status |-> None, done |-> TRUE]}
            ELSE {Outcome(Assign(x.ips, s, i, RequestOf(svc.spec)), s, i) : i \in found}
  BY Zenon DEF convergeBalancer, k
<1> HIDE DEF x, found
<1>5. CASE ~svc.spec.LoadBalancer
  <2>1. r = [ips |-> Unassign(ips, s), status |-> None, done |-> TRUE]
    BY <1>4, <1>5
  <2>2. OnlyChanges(ips, Unassign(ips, s), s) /\ Unassign(ips, s).allocated[s] = None
    BY UnassignEffect
  <2> QED
    BY Zenon, <2>1, <2>2, FreedDecided
<1>6. CASE svc.spec.LoadBalancer /\ x.lbIP # None
  <2>1. r = Outcome(x.ips, s, x.lbIP)
    BY <1>4, <1>6
  <2>2. HeldFor(x.ips.allocated[s], x.lbIP, RequestOf(svc.spec))
    BY <1>3, <1>6 DEF Kept
  <2>3. svc.spec.LoadBalancerIP # None => svc.spec.LoadBalancerIP.ip = x.lbIP
    BY <1>3, <1>6
  <2> QED
    BY Zenon, <1>3, <1>6, <2>1, <2>2, <2>3, OutcomeDecided
<1>7. CASE svc.spec.LoadBalancer /\ x.lbIP = None
  <2>1. x.ips.allocated[s] = None
    BY <1>3, <1>7 DEF Kept
  <2>2. CASE ~synced
    BY Zenon, <1>3, <1>4, <1>7, <2>1, <2>2, FreedDecided DEF NotSynced
  <2>3. CASE synced /\ found = {}
    BY Zenon, <1>3, <1>4, <1>7, <2>1, <2>3, FreedDecided
  <2>4. CASE synced /\ found # {}
    <3>1. PICK i \in found : r = Outcome(Assign(x.ips, s, i, RequestOf(svc.spec)), s, i)
      BY <1>4, <1>7, <2>4
    <3>2. /\ i \in IP
          /\ ~Refused(x.ips, s, i, RequestOf(svc.spec))
          /\ svc.spec.LoadBalancerIP # None => svc.spec.LoadBalancerIP.ip = i
      BY SMTT(30), <1>1, <1>3, allocateIPEffect DEF found, OnlyChanges
    <3> DEFINE b == Assign(x.ips, s, i, RequestOf(svc.spec))
    <3>3. OnlyChanges(x.ips, b, s) /\ HeldFor(b.allocated[s], i, RequestOf(svc.spec))
      BY Zenon, <1>1, <1>3, <3>2, RequestType, AssignEffect DEF OnlyChanges
    <3> HIDE DEF b
    <3>4. OnlyChanges(ips, b, s)
      BY <1>3, <3>3, OnlyChangesTrans
    <3> QED
      BY Zenon, <1>7, <3>1, <3>2, <3>3, <3>4, OutcomeDecided DEF b
  <2> QED
    BY <2>2, <2>3, <2>4
<1> QED
  BY <1>5, <1>6, <1>7

-----------------------------------------------------------------------------
(***************************************************************************)
(* The API server and the informers.                                       *)
(***************************************************************************)

(* A write is announced: the cache still follows, and the service written  *)
(* is no longer settled.                                                   *)
LEMMA StoreEffect ==
    ASSUME ControllerTypeOK, DownEmpty, CacheFollows, NEW s \in Svc,
           NEW o \in Service \cup {None}, Store(s, o), UNCHANGED <<up, svcIndexer>>
    PROVE  /\ services' \in [Svc -> Service \cup {None}]
           /\ watch' \in Seq(Change)
           /\ ~up => watch' = <<>>
           /\ CacheFollows'
           /\ \A t \in Svc \ {s} : services'[t] = services[t] /\ (Informed(t)' => Informed(t))
           /\ up => ~Informed(s)'
<1> DEFINE e == [svc |-> s, object |-> o]
<1>1. /\ services \in [Svc -> Service \cup {None}]
      /\ watch \in Seq(Change)
      /\ up \in BOOLEAN
  BY DEF ControllerTypeOK
<1>2. services' = [services EXCEPT ![s] = o]
  BY DEF Store
<1>3. /\ services' \in [Svc -> Service \cup {None}]
      /\ services'[s] = o
      /\ \A t \in Svc \ {s} : services'[t] = services[t]
  BY <1>1, <1>2
<1>4. e \in Change
  BY DEF Change
<1>5. CASE ~up
  <2>1. watch' = <<>> /\ watch = <<>>
    BY <1>5 DEF Store, DownEmpty
  <2>2. CacheFollows'
    BY <1>5, <2>1 DEF CacheFollows
  <2> QED
    BY <1>3, <1>5, <2>1, <2>2 DEF Informed
<1>6. CASE up
  <2>1. watch' = Append(watch, e)
    BY <1>6 DEF Store
  <2> HIDE DEF e
  <2>2. watch' \in Seq(Change) /\ Elements(watch') = Elements(watch) \cup {e}
    BY <1>1, <1>4, <2>1, AppendElements
  <2>3. e.svc = s /\ e.object = o
    BY DEF e
  <2>4. ~Informed(s)'
    BY <2>2, <2>3 DEF Informed
  <2>5. \A t \in Svc : Informed(t)' => Informed(t)
    BY <2>2 DEF Informed
  <2>6. ASSUME NEW i \in DOMAIN watch', LastChange(i)'
        PROVE  watch'[i].object = services'[watch'[i].svc]
    <3>1. /\ DOMAIN watch' = 1..(Len(watch) + 1)
          /\ DOMAIN watch = 1..Len(watch)
          /\ Len(watch) \in Nat
          /\ \A j \in 1..Len(watch) : watch'[j] = watch[j]
          /\ watch'[Len(watch) + 1] = e
      BY <1>1, <1>4, <2>1
    <3>2. CASE i = Len(watch) + 1
      BY Zenon, <1>3, <2>3, <3>1, <3>2
    <3>3. CASE i # Len(watch) + 1
      <4>1. i \in DOMAIN watch /\ watch'[i] = watch[i]
        BY <3>1, <3>3
      <4>2. watch[i].svc # s
        <5>1. Len(watch) + 1 \in DOMAIN watch' /\ Len(watch) + 1 > i
          BY <3>1, <4>1
        <5> QED
          BY Zenon, <2>3, <2>6, <3>1, <4>1, <5>1 DEF LastChange
      <4>3. LastChange(i)
        <5>1. \A j \in DOMAIN watch : j \in DOMAIN watch' /\ watch'[j] = watch[j]
          BY <3>1
        <5> QED
          BY <2>6, <4>1, <5>1 DEF LastChange
      <4>4. watch[i].object = services[watch[i].svc]
        BY <4>1, <4>3 DEF CacheFollows
      <4>5. watch[i].svc \in Svc
        <5>1. watch[i] \in Change
          BY <1>1, <3>1, <4>1
        <5> QED
          BY <5>1 DEF Change
      <4> QED
        BY Zenon, <1>3, <4>1, <4>2, <4>4, <4>5
    <3> QED
      BY <3>2, <3>3
  <2>7. \A t \in Svc : Informed(t)' => svcIndexer'[t] = services'[t]
    <3> SUFFICES ASSUME NEW t \in Svc, Informed(t)'
                 PROVE  svcIndexer'[t] = services'[t]
      OBVIOUS
    <3>1. t # s /\ Informed(t)
      BY <2>4, <2>5
    <3>2. svcIndexer[t] = services[t]
      BY <1>6, <3>1 DEF CacheFollows
    <3> QED
      BY Zenon, <1>3, <3>1, <3>2
  <2>8. CacheFollows'
    BY <2>6, <2>7 DEF CacheFollows
  <2> QED
    BY Zenon, <1>3, <1>6, <2>2, <2>4, <2>5, <2>8
<1> QED
  BY <1>5, <1>6

(* The cache follows also when the oldest change is delivered.             *)
LEMMA DeliverEffect ==
    ASSUME ControllerTypeOK, CacheFollows, DeliverService
    PROVE  /\ Head(watch) \in Change
           /\ watch' \in Seq(Change)
           /\ svcIndexer' \in [Svc -> Service \cup {None}]
           /\ CacheFollows'
           /\ \A t \in Svc \ {Head(watch).svc} : Informed(t)' => Informed(t)
<1> DEFINE e == Head(watch)
<1>1. /\ watch \in Seq(Change)
      /\ svcIndexer \in [Svc -> Service \cup {None}]
      /\ UNCHANGED <<services, up>> /\ up
      /\ svcIndexer' = [svcIndexer EXCEPT ![e.svc] = e.object]
      /\ watch' = Tail(watch) /\ watch # <<>>
  BY DEF ControllerTypeOK, DeliverService, apiVars, processVars
<1>2. e \in Change /\ watch' \in Seq(Change) /\ Elements(watch) = Elements(watch') \cup {e}
  BY <1>1, TailElements
<1>3. e.svc \in Svc /\ e.object \in Service \cup {None}
  BY <1>2 DEF Change
<1>4. /\ Len(watch) \in Nat \ {0}
      /\ DOMAIN watch = 1..Len(watch)
      /\ DOMAIN watch' = 1..(Len(watch) - 1)
      /\ \A i \in 1..(Len(watch) - 1) : watch'[i] = watch[i + 1]
      /\ e = watch[1]
  BY <1>1
<1> HIDE DEF e
<1>5. /\ svcIndexer' \in [Svc -> Service \cup {None}]
      /\ svcIndexer'[e.svc] = e.object
      /\ \A t \in Svc \ {e.svc} : svcIndexer'[t] = svcIndexer[t]
  BY <1>1, <1>3
<1>6. \A t \in Svc \ {e.svc} : Informed(t)' => Informed(t)
  BY <1>2 DEF Informed
<1>7. ASSUME NEW i \in DOMAIN watch', LastChange(i)'
      PROVE  watch'[i].object = services'[watch'[i].svc]
  <2>1. i + 1 \in DOMAIN watch /\ watch'[i] = watch[i + 1]
    BY <1>4
  <2>2. LastChange(i + 1)
    <3> SUFFICES ASSUME NEW j \in DOMAIN watch, j > i + 1
                 PROVE  watch[j].svc # watch[i + 1].svc
      BY DEF LastChange
    <3>1. j - 1 \in DOMAIN watch' /\ j - 1 > i /\ watch'[j - 1] = watch[j]
      BY <1>4
    <3> QED
      BY <1>7, <2>1, <3>1 DEF LastChange
  <2> QED
    BY <1>1, <2>1, <2>2 DEF CacheFollows
<1>8. ASSUME NEW t \in Svc, Informed(t)'
      PROVE  svcIndexer'[t] = services'[t]
  <2>1. CASE t # e.svc
    BY Zenon, <1>1, <1>5, <1>6, <1>8, <2>1 DEF CacheFollows
  <2>2. CASE t = e.svc
    <3>1. 1 \in DOMAIN watch
      BY <1>4
    <3>2. LastChange(1)
      <4> SUFFICES ASSUME NEW j \in DOMAIN watch, j > 1
                   PROVE  watch[j].svc # watch[1].svc
        BY DEF LastChange
      <4>1. j - 1 \in DOMAIN watch' /\ watch'[j - 1] = watch[j]
        BY <1>4
      <4>2. watch[j] \in Elements(watch')
        BY <4>1 DEF Elements
      <4> QED
        BY Zenon, <1>4, <1>8, <2>2, <4>2 DEF Informed
    <3>3. e.object = services[e.svc]
      BY <1>4, <3>1, <3>2 DEF CacheFollows
    <3> QED
      BY Zenon, <1>1, <1>5, <2>2, <3>3
  <2> QED
    BY <2>1, <2>2
<1>9. CacheFollows'
  BY <1>1, <1>7, <1>8 DEF CacheFollows
<1> QED
  BY Zenon, <1>2, <1>5, <1>6, <1>9 DEF e

-----------------------------------------------------------------------------
(***************************************************************************)
(* The steps.                                                              *)
(***************************************************************************)

(* A step that leaves the process alone, and unsettles every service it    *)
(* changes, keeps the settled ones in agreement.                           *)
LEMMA StillAgree ==
    ASSUME SettledAgree, UNCHANGED <<up, config, ips>>,
           \A t \in Svc : Settled(t)' => Settled(t) /\ services'[t] = services[t]
    PROVE  SettledAgree'
  BY DEF SettledAgree

(* Users write a service.                                                  *)
LEMMA EditKeeps ==
    ASSUME IInv, NEW s \in Svc, NEW o \in Service \cup {None}, Edit, Store(s, o),
           UNCHANGED <<configMap, cmChanged>>
    PROVE  IInv'
<1>1. /\ ControllerTypeOK /\ DownEmpty /\ Coherent(ips) /\ ConfigInForce
      /\ CacheFollows /\ SettledAgree
  BY DEF IInv
<1>2. UNCHANGED <<cmIndexer, svcIndexer, queue, delayed, up, ips, config, configStale>>
  BY DEF Edit, queueVars, processVars
<1>3. /\ services' \in [Svc -> Service \cup {None}]
      /\ watch' \in Seq(Change)
      /\ ~up => watch' = <<>>
      /\ CacheFollows'
      /\ \A t \in Svc \ {s} : services'[t] = services[t] /\ (Informed(t)' => Informed(t))
      /\ up => ~Informed(s)'
  BY <1>1, <1>2, StoreEffect
<1>4. ControllerTypeOK'
  BY Zenon, <1>1, <1>2, <1>3 DEF ControllerTypeOK
<1>5. DownEmpty'
  BY Zenon, <1>1, <1>2, <1>3 DEF DownEmpty
<1>6. ConfigInForce'
  BY <1>1, <1>2 DEF ConfigInForce, Pending
<1>7. SettledAgree'
  <2>1. CASE up
    <3>1. \A t \in Svc : Settled(t)' => Settled(t) /\ services'[t] = services[t]
      BY <1>2, <1>3, <2>1 DEF Settled, Pending, Informed
    <3> QED
      BY Zenon, <1>1, <1>2, <3>1, StillAgree
  <2>2. CASE ~up
    BY <1>2, <2>2 DEF SettledAgree
  <2> QED
    BY <2>1, <2>2
<1> QED
  BY Zenon, <1>1, <1>2, <1>3, <1>4, <1>5, <1>6, <1>7 DEF IInv

(* Whatever users do to services and to the ConfigMap.                     *)
LEMMA UsersKeep ==
    ASSUME IInv, Users
    PROVE  IInv'
<1>1. services \in [Svc -> Service \cup {None}]
  BY DEF IInv, ControllerTypeOK
<1>2. ASSUME NEW s \in Svc, NEW spec \in Specs, CreateService(s, spec)
      PROVE  IInv'
  <2>1. [spec |-> spec, status |-> None] \in Service
    BY SpecsAssumption DEF Service
  <2> QED
    BY <1>2, <2>1, EditKeeps DEF CreateService
<1>3. ASSUME NEW s \in Svc, NEW spec \in Specs, EditService(s, spec)
      PROVE  IInv'
  <2>1. [services[s] EXCEPT !.spec = spec] \in Service
    BY Zenon, <1>1, <1>3, SpecsAssumption DEF EditService, Service
  <2> QED
    BY <1>3, <2>1, EditKeeps DEF EditService
<1>4. ASSUME NEW s \in Svc, DeleteService(s)
      PROVE  IInv'
  BY <1>4, EditKeeps DEF DeleteService
<1>5. ASSUME NEW c \in Pools \cup {Invalid, None}, EditConfig(c)
      PROVE  IInv'
  <2>1. /\ UNCHANGED <<services, watch, cmIndexer, svcIndexer, queue, delayed, up, ips,
                      config, configStale>>
        /\ configMap' = c
    BY <1>5 DEF EditConfig, Edit, queueVars, processVars
  <2>2. ControllerTypeOK'
    BY <2>1 DEF IInv, ControllerTypeOK
  <2>3. DownEmpty' /\ Coherent(ips')
    BY <2>1 DEF IInv, DownEmpty
  <2>4. ConfigInForce'
    BY <2>1 DEF IInv, ConfigInForce, Pending
  <2>5. CacheFollows'
    BY <2>1 DEF IInv, CacheFollows, LastChange, Informed
  <2>6. SettledAgree'
    BY <2>1 DEF IInv, SettledAgree, Settled, Pending
  <2> QED
    BY Zenon, <2>2, <2>3, <2>4, <2>5, <2>6 DEF IInv
<1> QED
  BY Zenon, <1>2, <1>3, <1>4, <1>5 DEF Users

(* The informer stores a change of a service: its key is pending.          *)
LEMMA DeliverServiceKeeps ==
    ASSUME IInv, DeliverService
    PROVE  IInv'
<1>1. /\ ControllerTypeOK /\ DownEmpty /\ Coherent(ips) /\ ConfigInForce
      /\ CacheFollows /\ SettledAgree
  BY DEF IInv
<1>2. /\ UNCHANGED <<services, configMap, cmIndexer, delayed, up, ips, config, configStale>>
      /\ up
      /\ queue' = Add(queue, svcKey(Head(watch).svc))
  BY DEF DeliverService, apiVars, processVars
<1>3. /\ Head(watch) \in Change
      /\ watch' \in Seq(Change)
      /\ svcIndexer' \in [Svc -> Service \cup {None}]
      /\ CacheFollows'
      /\ \A t \in Svc \ {Head(watch).svc} : Informed(t)' => Informed(t)
  BY <1>1, DeliverEffect
<1>4. PICK s \in Svc : s = Head(watch).svc
  BY <1>3 DEF Change
<1>5. queue' \in Seq(QueueKey) /\ Elements(queue') = Elements(queue) \cup {svcKey(s)}
  BY Zenon, <1>1, <1>2, <1>4, Keys, AddElements DEF ControllerTypeOK
<1>6. ControllerTypeOK'
  BY Zenon, <1>1, <1>2, <1>3, <1>5 DEF ControllerTypeOK
<1>7. DownEmpty'
  BY <1>2 DEF DownEmpty
<1>8. ConfigInForce'
  <2>1. Pending(cmKey)' <=> Pending(cmKey)
    BY Zenon, <1>2, <1>4, <1>5, Keys DEF Pending
  <2> QED
    BY <1>1, <1>2, <2>1 DEF ConfigInForce
<1>9. SettledAgree'
  <2>1. Pending(svcKey(s))'
    BY <1>5 DEF Pending
  <2>2. \A t \in Svc : Pending(svcKey(t)) => Pending(svcKey(t))'
    BY <1>2, <1>5 DEF Pending
  <2>3. \A t \in Svc : Settled(t)' => Settled(t)
    BY Zenon, <1>3, <1>4, <2>1, <2>2 DEF Settled, Informed
  <2> QED
    BY Zenon, <1>1, <1>2, <2>3, StillAgree
<1> QED
  BY Zenon, <1>1, <1>2, <1>3, <1>6, <1>7, <1>8, <1>9 DEF IInv

(* The informer stores the ConfigMap: its key is pending.                  *)
LEMMA DeliverConfigKeeps ==
    ASSUME IInv, DeliverConfig
    PROVE  IInv'
<1>1. /\ ControllerTypeOK /\ DownEmpty /\ Coherent(ips) /\ ConfigInForce
      /\ CacheFollows /\ SettledAgree
  BY DEF IInv
<1>2. /\ UNCHANGED <<services, configMap, watch, svcIndexer, delayed, up, ips, config,
                     configStale>>
      /\ cmIndexer' = configMap
      /\ queue' = Add(queue, cmKey)
  BY DEF DeliverConfig, apiVars, processVars
<1>3. queue' \in Seq(QueueKey) /\ Elements(queue') = Elements(queue) \cup {cmKey}
  BY Zenon, <1>1, <1>2, Keys, AddElements DEF ControllerTypeOK
<1>4. ControllerTypeOK'
  BY <1>1, <1>2, <1>3 DEF ControllerTypeOK
<1>5. DownEmpty'
  BY <1>1, <1>2 DEF DownEmpty
<1>6. ConfigInForce'
  BY <1>1, <1>2, <1>3 DEF ConfigInForce, Pending
<1>7. CacheFollows'
  BY <1>1, <1>2 DEF CacheFollows, LastChange, Informed
<1>8. SettledAgree'
  BY Zenon, <1>1, <1>2, <1>3, StillAgree DEF Settled, Pending
<1> QED
  BY Zenon, <1>1, <1>2, <1>4, <1>5, <1>6, <1>7, <1>8 DEF IInv

(* A key whose delay is over is pending before and after.                  *)
LEMMA DelayOverKeeps ==
    ASSUME IInv, NEW k \in QueueKey, DelayOver(k)
    PROVE  IInv'
<1>1. /\ ControllerTypeOK /\ DownEmpty /\ Coherent(ips) /\ ConfigInForce
      /\ CacheFollows /\ SettledAgree
  BY DEF IInv
<1>2. /\ UNCHANGED <<services, configMap, watch, svcIndexer, cmIndexer, up, ips, config,
                     configStale>>
      /\ delayed' = delayed \ {k} /\ k \in delayed
      /\ queue' = Add(queue, k)
  BY DEF DelayOver, apiVars, processVars, informerVars
<1>3. queue' \in Seq(QueueKey) /\ Elements(queue') = Elements(queue) \cup {k}
  BY <1>1, <1>2, AddElements DEF ControllerTypeOK
<1>4. ControllerTypeOK'
  BY <1>1, <1>2, <1>3 DEF ControllerTypeOK
<1>5. DownEmpty'
  BY <1>1, <1>2 DEF DownEmpty
<1>6. \A l : Pending(l)' <=> Pending(l)
  BY <1>2, <1>3 DEF Pending
<1>7. ConfigInForce'
  BY Zenon, <1>1, <1>2, <1>6 DEF ConfigInForce
<1>8. CacheFollows'
  BY <1>1, <1>2 DEF CacheFollows, LastChange, Informed
<1>9. SettledAgree'
  BY Zenon, <1>1, <1>2, <1>6, StillAgree DEF Settled
<1> QED
  BY Zenon, <1>1, <1>2, <1>4, <1>5, <1>7, <1>8, <1>9 DEF IInv

(* The keys of what there is, in any order, are a queue.                   *)
LEMMA OrdersType ==
    ASSUME NEW keys \in Orders(Listed)
    PROVE  keys \in Seq(QueueKey) /\ Elements(keys) = Listed
<1> DEFINE K == {svcKey(s) : s \in Svc}
           f == [s \in Svc |-> svcKey(s)]
<1>1. f \in Surjection(Svc, K)
  BY DEF Surjection
<1>2. IsFiniteSet(K)
  BY <1>1, FiniteAssumption, FS_Surjection
<1>3. IsFiniteSet((K \cup {cmKey}) \cup {syncedKey})
  BY Zenon, <1>2, FS_AddElement
<1>4. Listed \subseteq QueueKey /\ QueueKey = (K \cup {cmKey}) \cup {syncedKey}
  BY DEF Listed, QueueKey
<1>5. Cardinality(Listed) \in Nat
  BY Zenon, <1>3, <1>4, FS_Subset, FS_CardinalityType
<1>6. keys \in [1..Cardinality(Listed) -> Listed] /\ Elements(keys) = Listed
  BY DEF Orders
<1> QED
  BY <1>4, <1>5, <1>6

(* A process that starts has everything listed still to handle, the        *)
(* ConfigMap included.                                                     *)
LEMMA StartKeeps ==
    ASSUME IInv, Start
    PROVE  IInv'
<1>1. ControllerTypeOK /\ DownEmpty /\ Coherent(ips) /\ ConfigInForce
  BY DEF IInv
<1>2. /\ UNCHANGED <<services, configMap, watch, delayed, ips, config, configStale>>
      /\ ~up /\ up' = TRUE /\ svcIndexer' = services /\ cmIndexer' = configMap
  BY DEF Start, apiVars
<1>3. PICK keys \in Orders(Listed) : queue' = Append(keys, syncedKey)
  BY DEF Start
<1>4. /\ queue' \in Seq(QueueKey)
      /\ Elements(queue') = Listed \cup {syncedKey}
  BY <1>3, OrdersType, AppendElements, Keys
<1>5. config = None /\ watch = <<>> /\ ~configStale
  BY <1>1, <1>2 DEF DownEmpty
<1>6. ControllerTypeOK'
  BY <1>1, <1>2, <1>4 DEF ControllerTypeOK
<1>7. DownEmpty'
  BY <1>2 DEF DownEmpty
<1>8. ConfigInForce'
  <2>1. configMap # None => Pending(cmKey)'
    BY <1>4 DEF Pending, Listed
  <2> QED
    BY <1>1, <1>2, <1>5, <2>1 DEF ConfigInForce
<1>9. CacheFollows'
  BY <1>2, <1>5 DEF CacheFollows
<1>10. SettledAgree'
  BY <1>2, <1>5 DEF SettledAgree
<1> QED
  BY Zenon, <1>1, <1>2, <1>6, <1>7, <1>8, <1>9, <1>10 DEF IInv

(* A crash leaves the initial state of the process.                        *)
LEMMA CrashKeeps ==
    ASSUME IInv, Crash
    PROVE  IInv'
<1>1. /\ UNCHANGED <<services, configMap>>
      /\ up' = FALSE /\ watch' = <<>> /\ svcIndexer' = [s \in Svc |-> None]
      /\ cmIndexer' = None /\ queue' = <<>> /\ delayed' = {} /\ ips' = New
      /\ config' = None /\ configStale' = FALSE
  BY DEF Crash, apiVars
<1>2. ControllerTypeOK'
  <2>1. /\ services' \in [Svc -> Service \cup {None}]
        /\ configMap' \in Pools \cup {Invalid, None}
    BY <1>1 DEF IInv, ControllerTypeOK
  <2>2. watch' \in Seq(Change) /\ queue' \in Seq(QueueKey)
    BY <1>1
  <2>3. svcIndexer' \in [Svc -> Service \cup {None}]
    BY <1>1
  <2> QED
    BY Zenon, <1>1, <2>1, <2>2, <2>3 DEF ControllerTypeOK
<1>3. DownEmpty' /\ CacheFollows' /\ SettledAgree'
  BY <1>1 DEF DownEmpty, CacheFollows, SettledAgree
<1>4. ConfigInForce'
  BY <1>1 DEF ConfigInForce, New
<1> QED
  BY Zenon, <1>1, <1>2, <1>3, <1>4, NewCoherent DEF IInv

-----------------------------------------------------------------------------
(***************************************************************************)
(* The worker's steps.                                                     *)
(***************************************************************************)

(* The worker handles the key of service s: the other services stay        *)
(* settled or not, as they are.                                            *)
LEMMA HandledOthers ==
    ASSUME queue \in Seq(QueueKey), NEW s \in Svc, Get(svcKey(s)), delayed \subseteq delayed',
           \A t \in Svc \ {s} : Informed(t)' => Informed(t)
    PROVE  /\ \A t \in Svc \ {s} : Settled(t)' => Settled(t)
           /\ Pending(cmKey) => Pending(cmKey)'
<1>1. Elements(queue) = Elements(queue') \cup {svcKey(s)}
  BY GetPending
<1>2. \A k : k # svcKey(s) /\ Pending(k) => Pending(k)'
  BY <1>1 DEF Pending
<1>3. \A t \in Svc \ {s} : svcKey(t) # svcKey(s)
  BY Keys
<1>4. cmKey # svcKey(s)
  BY Keys
<1>5. ASSUME NEW t \in Svc \ {s}, Settled(t)'
      PROVE  Settled(t)
  <2>1. ~Pending(svcKey(t))
    BY <1>2, <1>3, <1>5 DEF Settled
  <2>2. Informed(t)
    BY <1>5 DEF Settled, Informed
  <2> QED
    BY <2>1, <2>2 DEF Settled, Informed
<1> QED
  BY <1>2, <1>4, <1>5

(* A service that is gone: what it held is freed.                          *)
LEMMA SetBalancerDeletedKeeps ==
    ASSUME IInv, NEW s \in Svc, SetBalancerDeleted(s)
    PROVE  IInv'
<1>1. /\ ControllerTypeOK /\ DownEmpty /\ Coherent(ips) /\ ConfigInForce
      /\ CacheFollows /\ SettledAgree
  BY DEF IInv
<1>2. /\ UNCHANGED <<services, configMap, watch, svcIndexer, cmIndexer, delayed, up, config,
                     configStale>>
      /\ Get(svcKey(s)) /\ svcIndexer[s] = None /\ ips' = Unassign(ips, s)
  BY DEF SetBalancerDeleted, apiVars, informerVars
<1>3. queue \in Seq(QueueKey) /\ queue' \in Seq(QueueKey)
  BY <1>1, <1>2, GetPending DEF ControllerTypeOK
<1>4. OnlyChanges(ips, ips', s) /\ ips'.allocated[s] = None
  BY <1>1, <1>2, UnassignEffect
<1>5. /\ \A t \in Svc \ {s} : Settled(t)' => Settled(t)
      /\ Pending(cmKey) => Pending(cmKey)'
  BY <1>2, <1>3, HandledOthers DEF Informed
<1>6. ControllerTypeOK'
  BY <1>1, <1>2, <1>3 DEF ControllerTypeOK
<1>7. DownEmpty'
  BY <1>1, <1>2 DEF DownEmpty
<1>8. ConfigInForce'
  BY Zenon, <1>1, <1>2, <1>4, <1>5 DEF ConfigInForce, OnlyChanges
<1>9. CacheFollows'
  BY <1>1, <1>2 DEF CacheFollows, LastChange, Informed
<1>10. SettledAgree'
  <2> SUFFICES ASSUME up, config # None, NEW t \in Svc, Settled(t)'
               PROVE  Agrees(services[t], ips'.allocated[t])
    BY <1>2 DEF SettledAgree
  <2>1. CASE t # s
    BY Zenon, <1>1, <1>4, <1>5, <2>1 DEF SettledAgree, OnlyChanges
  <2>2. CASE t = s
    <3>1. Informed(s)
      BY SMTT(60), <1>2, <2>2 DEF Settled, Informed
    <3>2. services[s] = None
      BY <1>1, <1>2, <3>1 DEF CacheFollows
    <3> QED
      BY <1>4, <2>2, <3>2 DEF Agrees
  <2> QED
    BY <2>1, <2>2
<1> QED
  BY Zenon, <1>4, <1>6, <1>7, <1>8, <1>9, <1>10 DEF IInv, OnlyChanges

(* A key dropped for want of a configuration.                              *)
LEMMA SetBalancerUnconfiguredKeeps ==
    ASSUME IInv, NEW s \in Svc, SetBalancerUnconfigured(s)
    PROVE  IInv'
<1>1. /\ ControllerTypeOK /\ DownEmpty /\ Coherent(ips) /\ ConfigInForce /\ CacheFollows
  BY DEF IInv
<1>2. /\ UNCHANGED <<services, configMap, watch, svcIndexer, cmIndexer, delayed, up, ips,
                     config, configStale>>
      /\ Get(svcKey(s)) /\ config = None
  BY DEF SetBalancerUnconfigured, apiVars, informerVars, processVars
<1>3. queue \in Seq(QueueKey) /\ queue' \in Seq(QueueKey)
  BY <1>1, <1>2, GetPending DEF ControllerTypeOK
<1>4. Pending(cmKey) => Pending(cmKey)'
  BY Zenon, <1>2, <1>3, HandledOthers DEF Informed
<1>5. ControllerTypeOK'
  BY Zenon, <1>1, <1>2, <1>3 DEF ControllerTypeOK
<1>6. DownEmpty' /\ SettledAgree'
  BY <1>1, <1>2 DEF DownEmpty, SettledAgree
<1>7. ConfigInForce'
  BY Zenon, <1>1, <1>2, <1>4 DEF ConfigInForce
<1>8. CacheFollows'
  BY <1>1, <1>2 DEF CacheFollows, LastChange, Informed
<1> QED
  BY Zenon, <1>1, <1>2, <1>5, <1>6, <1>7, <1>8 DEF IInv

(* The ways a decision on s is published, or left for later: the others    *)
(* are not touched, and if s is settled afterwards, its status was already *)
(* the decided one.                                                        *)
LEMMA PublishEffect ==
    ASSUME ControllerTypeOK, DownEmpty, CacheFollows, NEW s \in Svc, Get(svcKey(s)),
           UNCHANGED <<up, svcIndexer>>, NEW r, r.status \in Text \cup {None},
           r.done \in BOOLEAN,
           \/ /\ ~r.done
              /\ AddRateLimited({svcKey(s)})
              /\ UNCHANGED <<services, watch, budget>>
           \/ /\ r.done /\ r.status = svcIndexer[s].status
              /\ UNCHANGED <<services, watch, delayed, budget>>
           \/ /\ r.done /\ r.status # svcIndexer[s].status
              /\ UpdateStatus(s, r.status) \/ UpdateStatusFails(s, r.status)
    PROVE  /\ services' \in [Svc -> Service \cup {None}]
           /\ watch' \in Seq(Change)
           /\ CacheFollows'
           /\ delayed \subseteq delayed' /\ delayed' \subseteq QueueKey
           /\ \A t \in Svc \ {s} : services'[t] = services[t] /\ (Informed(t)' => Informed(t))
           /\ Settled(s)' => /\ r.done /\ r.status = svcIndexer[s].status
                             /\ services'[s] = services[s] /\ Informed(s)
<1>1. /\ services \in [Svc -> Service \cup {None}] /\ watch \in Seq(Change)
      /\ delayed \subseteq QueueKey /\ svcKey(s) \in QueueKey /\ up
  BY Keys DEF ControllerTypeOK, Get
<1>2. CASE UNCHANGED <<services, watch>>
  <2>1. CacheFollows'
    BY <1>2 DEF CacheFollows, LastChange, Informed
  <2>2. \A t \in Svc : services'[t] = services[t] /\ (Informed(t)' => Informed(t))
    BY <1>2 DEF Informed
  <2>3. \/ delayed' = delayed \cup {svcKey(s)}
        \/ delayed' = delayed /\ r.done /\ r.status = svcIndexer[s].status
        \/ Store(s, [services[s] EXCEPT !.status = r.status])
    BY <1>2 DEF AddRateLimited, UpdateStatus, UpdateStatusFails
  <2>4. ~Store(s, [services[s] EXCEPT !.status = r.status])
    BY <1>1, <1>2 DEF Store
  <2>5. svcKey(s) \in delayed' => ~Settled(s)'
    BY DEF Settled, Pending
  <2>6. Settled(s)' => Informed(s)
    BY SMTT(30), <1>2 DEF Settled, Informed
  <2> QED
    BY Zenon, <1>1, <1>2, <2>1, <2>2, <2>3, <2>4, <2>5, <2>6
<1>3. CASE Current(s) /\ Store(s, [services[s] EXCEPT !.status = r.status])
  <2>1. [services[s] EXCEPT !.status = r.status] \in Service
    BY <1>1, <1>3 DEF Current, Service
  <2>2. /\ services' \in [Svc -> Service \cup {None}]
        /\ watch' \in Seq(Change)
        /\ CacheFollows'
        /\ \A t \in Svc \ {s} : services'[t] = services[t] /\ (Informed(t)' => Informed(t))
        /\ ~Informed(s)'
    BY Zenon, <1>1, <1>3, <2>1, StoreEffect
  <2>3. ~Settled(s)'
    BY <2>2 DEF Settled, Informed
  <2>4. delayed' = delayed \/ delayed' = delayed \cup {svcKey(s)}
    BY <1>3 DEF AddRateLimited, UpdateStatus, UpdateStatusFails
  <2> QED
    BY Zenon, <1>1, <2>2, <2>3, <2>4
<1>4. \/ UNCHANGED <<services, watch>>
      \/ Current(s) /\ Store(s, [services[s] EXCEPT !.status = r.status])
  BY SMTT(30) DEF UpdateStatus, UpdateStatusFails
<1> QED
  BY Zenon, <1>2, <1>3, <1>4

(* SetBalancer decides on s, and publishes the decision or tries again.    *)
LEMMA SetBalancerKeeps ==
    ASSUME IInv, NEW s \in Svc, SetBalancer(s)
    PROVE  IInv'
<1>1. /\ ControllerTypeOK /\ DownEmpty /\ Coherent(ips) /\ ConfigInForce
      /\ CacheFollows /\ SettledAgree
  BY DEF IInv
<1>2. /\ UNCHANGED <<configMap, svcIndexer, cmIndexer, up, config, configStale>>
      /\ Get(svcKey(s)) /\ svcIndexer[s] # None
  BY DEF SetBalancer
<1>3. PICK r \in convergeBalancer(s, svcIndexer[s]) :
        /\ ips' = r.ips
        /\ \/ /\ ~r.done
              /\ AddRateLimited({svcKey(s)})
              /\ UNCHANGED <<services, watch, budget>>
           \/ /\ r.done /\ r.status = svcIndexer[s].status
              /\ UNCHANGED <<services, watch, delayed, budget>>
           \/ /\ r.done /\ r.status # svcIndexer[s].status
              /\ UpdateStatus(s, r.status) \/ UpdateStatusFails(s, r.status)
  BY Zenon DEF SetBalancer
<1>4. svcIndexer[s] \in Service
  BY Zenon, <1>1, <1>2 DEF ControllerTypeOK
<1>5. Decided(r, s, svcIndexer[s])
  BY Zenon, <1>1, <1>3, <1>4, ConvergeDecided
<1>6. OnlyChanges(ips, ips', s) /\ r.done \in BOOLEAN /\ r.status \in Text \cup {None}
  BY SMTT(30), <1>3, <1>5 DEF Decided
<1>7. /\ services' \in [Svc -> Service \cup {None}]
      /\ watch' \in Seq(Change)
      /\ CacheFollows'
      /\ delayed \subseteq delayed' /\ delayed' \subseteq QueueKey
      /\ \A t \in Svc \ {s} : services'[t] = services[t] /\ (Informed(t)' => Informed(t))
      /\ Settled(s)' => /\ r.done /\ r.status = svcIndexer[s].status
                        /\ services'[s] = services[s] /\ Informed(s)
  BY Zenon, <1>1, <1>2, <1>3, <1>6, PublishEffect
<1>8. queue \in Seq(QueueKey) /\ queue' \in Seq(QueueKey)
  BY Zenon, <1>1, <1>2, GetPending DEF ControllerTypeOK
<1>9. /\ \A t \in Svc \ {s} : Settled(t)' => Settled(t)
      /\ Pending(cmKey) => Pending(cmKey)'
  BY Zenon, <1>2, <1>7, <1>8, HandledOthers
<1>10. ControllerTypeOK'
  BY Zenon, <1>1, <1>2, <1>7, <1>8 DEF ControllerTypeOK
<1>11. DownEmpty'
  BY <1>2 DEF DownEmpty, Get
<1>12. ConfigInForce'
  BY Zenon, <1>1, <1>2, <1>6, <1>9 DEF ConfigInForce, OnlyChanges
<1>13. SettledAgree'
  <2> SUFFICES ASSUME up, config # None, NEW t \in Svc, Settled(t)'
               PROVE  Agrees(services'[t], ips'.allocated[t])
    BY SMTT(30), <1>2 DEF SettledAgree
  <2>1. CASE t # s
    BY Zenon, <1>1, <1>6, <1>7, <1>9, <2>1 DEF SettledAgree, OnlyChanges
  <2>2. CASE t = s
    <3>1. services'[s] = svcIndexer[s] /\ r.done /\ r.status = svcIndexer[s].status
      BY Zenon, <1>1, <1>7, <2>2 DEF CacheFollows
    <3>2. [svcIndexer[s] EXCEPT !.status = r.status] = svcIndexer[s]
      BY <1>4, <3>1 DEF Service
    <3> QED
      BY Zenon, <1>3, <1>5, <2>2, <3>1, <3>2 DEF Decided
  <2> QED
    BY <2>1, <2>2
<1> QED
  BY Zenon, <1>6, <1>7, <1>10, <1>11, <1>12, <1>13 DEF IInv, OnlyChanges

(* The worker handles another key: services settle no further.             *)
LEMMA HandledElse ==
    ASSUME queue \in Seq(QueueKey), NEW k, Get(k), \A t \in Svc : k # svcKey(t),
           delayed \subseteq delayed', UNCHANGED watch
    PROVE  \A t \in Svc : Settled(t)' => Settled(t)
<1>1. Elements(queue) = Elements(queue') \cup {k}
  BY GetPending
<1>2. \A l : l # k /\ Pending(l) => Pending(l)'
  BY SMTT(30), <1>1 DEF Pending
<1> QED
  BY <1>2 DEF Settled

(* Without a configuration nothing is held.                                *)
LEMMA NothingHeld ==
    ASSUME Coherent(ips), ConfigInForce, config = None, NEW s \in Svc
    PROVE  ips.allocated[s] = None
<1> SUFFICES ASSUME ips.allocated[s] # None
             PROVE  FALSE
  OBVIOUS
<1>1. ips.pools = NoPools
  BY DEF ConfigInForce
<1>2. poolFor(ips.pools, ips.allocated[s].ip) = None
  BY SMTT(30), <1>1 DEF poolFor, NoPools
<1>3. ips.allocated[s].pool \in PoolName
  BY DEF Coherent, TypeOK, Alloc
<1> QED
  BY <1>2, <1>3, NoneAssumption DEF Coherent, PoolIndex

(* The configuration in force would not be refused.                        *)
LEMMA InForceAccepted ==
    ASSUME Coherent(ips), ConfigInForce, config # None
    PROVE  ~PoolsRefused(ips, config)
<1>1. ips.pools = config
  BY DEF ConfigInForce
<1>2. ASSUME NEW s \in Svc, ips.allocated[s] # None
      PROVE  poolFor(config, ips.allocated[s].ip) # None
  <2>1. ips.allocated[s].pool \in PoolName
    BY <1>2 DEF Coherent, TypeOK, Alloc
  <2> QED
    BY Zenon, <1>1, <1>2, <2>1, NoneAssumption DEF Coherent, PoolIndex
<1> QED
  BY <1>2 DEF PoolsRefused

(* SetConfig fails, one way or the other: the configuration in force is    *)
(* not the ConfigMap's, or there is going to be another attempt.           *)
LEMMA SetConfigFailsKeeps ==
    ASSUME IInv, SetConfigMissing \/ SetConfigRefused
    PROVE  IInv'
<1>1. /\ ControllerTypeOK /\ DownEmpty /\ Coherent(ips) /\ ConfigInForce
      /\ CacheFollows /\ SettledAgree
  BY DEF IInv
<1>2. /\ UNCHANGED <<services, configMap, watch, svcIndexer, cmIndexer, up, ips, config>>
      /\ Get(cmKey) /\ configStale' = TRUE
  BY DEF SetConfigMissing, SetConfigRefused, apiVars, informerVars
<1>3. \/ delayed' = delayed \cup {cmKey}
      \/ delayed' = delayed /\ cmIndexer # config
  <2>1. CASE SetConfigMissing
    BY <2>1 DEF SetConfigMissing, AddRateLimited
  <2>2. CASE SetConfigRefused
    <3>1. delayed' = delayed
      BY <2>2 DEF SetConfigRefused
    <3>2. CASE cmIndexer = Invalid
      BY Zenon, <1>1, <3>1, <3>2, SpecsAssumption DEF ControllerTypeOK
    <3>3. CASE cmIndexer \in Pools /\ PoolsRefused(ips, cmIndexer)
      BY Zenon, <1>1, <3>1, <3>3, InForceAccepted, SpecsAssumption
    <3> QED
      BY <2>2, <3>2, <3>3 DEF SetConfigRefused
  <2> QED
    BY <2>1, <2>2
<1>4. queue \in Seq(QueueKey) /\ queue' \in Seq(QueueKey)
  BY <1>1, <1>2, GetPending DEF ControllerTypeOK
<1>5. delayed' \subseteq QueueKey
  BY <1>1, <1>3, Keys DEF ControllerTypeOK
<1>6. ControllerTypeOK'
  BY Zenon, <1>1, <1>2, <1>4, <1>5 DEF ControllerTypeOK
<1>7. DownEmpty'
  BY SMTT(30), <1>2 DEF DownEmpty, Get
<1>8. ConfigInForce'
  BY <1>1, <1>2, <1>3 DEF ConfigInForce, Pending
<1>9. CacheFollows'
  BY <1>1, <1>2 DEF CacheFollows, LastChange, Informed
<1>10. SettledAgree'
  <2>1. \A t \in Svc : Settled(t)' => Settled(t)
    BY Zenon, <1>2, <1>3, <1>4, Keys, HandledElse
  <2> QED
    BY Zenon, <1>1, <1>2, <2>1, StillAgree
<1> QED
  BY Zenon, <1>1, <1>2, <1>6, <1>7, <1>8, <1>9, <1>10 DEF IInv

(* A configuration is accepted: only services the cache does not know stay *)
(* settled, and they hold nothing.                                         *)
LEMMA SetConfigKeeps ==
    ASSUME IInv, SetConfig
    PROVE  IInv'
<1>1. /\ ControllerTypeOK /\ DownEmpty /\ Coherent(ips) /\ ConfigInForce
      /\ CacheFollows /\ SettledAgree
  BY DEF IInv
<1>2. /\ UNCHANGED <<services, configMap, watch, svcIndexer, cmIndexer, up>>
      /\ Get(cmKey) /\ configStale' = FALSE /\ config' = cmIndexer /\ cmIndexer \in Pools
      /\ ~PoolsRefused(ips, cmIndexer) /\ ips' = SetPools(ips, cmIndexer)
      /\ delayed' = delayed \cup {svcKey(s) : s \in {t \in Svc : svcIndexer[t] # None}}
  BY SMTT(30) DEF SetConfig, apiVars, informerVars, AddRateLimited
<1>3. /\ Coherent(ips')
      /\ ips'.pools = cmIndexer
      /\ \A s \in Svc : ips.allocated[s] = None => ips'.allocated[s] = None
  BY <1>1, <1>2, SetPoolsCoherent
<1>4. queue \in Seq(QueueKey) /\ queue' \in Seq(QueueKey)
  BY <1>1, <1>2, GetPending DEF ControllerTypeOK
<1>5. delayed' \subseteq QueueKey
  BY <1>1, <1>2, Keys DEF ControllerTypeOK
<1>6. cmIndexer # None
  BY <1>2, SpecsAssumption
<1>7. ControllerTypeOK'
  BY ZenonT(60), <1>1, <1>2, <1>4, <1>5 DEF ControllerTypeOK
<1>8. DownEmpty'
  BY <1>2 DEF DownEmpty, Get
<1>9. ConfigInForce'
  BY <1>2, <1>3, <1>6 DEF ConfigInForce
<1>10. CacheFollows'
  BY <1>1, <1>2 DEF CacheFollows, LastChange, Informed
<1>11. SettledAgree'
  <2> SUFFICES ASSUME up, NEW t \in Svc, Settled(t)'
               PROVE  Agrees(services[t], ips'.allocated[t])
    BY <1>2 DEF SettledAgree
  <2>1. Settled(t)
    BY Zenon, <1>2, <1>4, Keys, HandledElse
  <2>2. svcKey(t) \notin delayed'
    BY DEF Settled, Pending
  <2>3. svcIndexer[t] = None
    BY SMTT(30), <1>2, <2>2
  <2>4. services[t] = None
    BY Zenon, <1>1, <2>1, <2>3 DEF CacheFollows, Settled, Informed
  <2>5. ips.allocated[t] = None
    BY Zenon, <1>1, <2>1, <2>4, NothingHeld DEF SettledAgree, Agrees
  <2> QED
    BY Zenon, <1>3, <2>4, <2>5 DEF Agrees
<1> QED
  BY Zenon, <1>3, <1>7, <1>8, <1>9, <1>10, <1>11 DEF IInv

(* The "synced" key changes nothing that the invariant mentions.           *)
LEMMA MarkSyncedKeeps ==
    ASSUME IInv, MarkSynced
    PROVE  IInv'
<1>1. /\ ControllerTypeOK /\ DownEmpty /\ Coherent(ips) /\ ConfigInForce
      /\ CacheFollows /\ SettledAgree
  BY DEF IInv
<1>2. /\ UNCHANGED <<services, configMap, watch, svcIndexer, cmIndexer, delayed, up, ips,
                     config, configStale>>
      /\ Get(syncedKey)
  BY DEF MarkSynced, apiVars, informerVars
<1>3. queue \in Seq(QueueKey) /\ queue' \in Seq(QueueKey)
      /\ Elements(queue) = Elements(queue') \cup {syncedKey}
  BY <1>1, <1>2, GetPending DEF ControllerTypeOK
<1>4. ControllerTypeOK'
  BY <1>1, <1>2, <1>3 DEF ControllerTypeOK
<1>5. DownEmpty'
  BY <1>1, <1>2 DEF DownEmpty
<1>6. ConfigInForce'
  <2>1. Pending(cmKey) => Pending(cmKey)'
    BY Zenon, <1>2, <1>3, Keys DEF Pending
  <2> QED
    BY <1>1, <1>2, <2>1 DEF ConfigInForce
<1>7. CacheFollows'
  BY <1>1, <1>2 DEF CacheFollows, LastChange, Informed
<1>8. SettledAgree'
  <2>1. \A t \in Svc : Settled(t)' => Settled(t)
    BY Zenon, <1>2, <1>3, Keys, HandledElse
  <2> QED
    BY Zenon, <1>1, <1>2, <2>1, StillAgree
<1> QED
  BY Zenon, <1>1, <1>2, <1>4, <1>5, <1>6, <1>7, <1>8 DEF IInv

-----------------------------------------------------------------------------
(***************************************************************************)
(* The theorems.                                                           *)
(***************************************************************************)

(* The invariant holds before the controller is first started.             *)
LEMMA InitIInv == Init => IInv
<1> SUFFICES ASSUME Init
             PROVE  IInv
  OBVIOUS
<1>1. ControllerTypeOK
  <2>1. watch \in Seq(Change) /\ queue \in Seq(QueueKey)
    BY DEF Init
  <2>2. services \in [Svc -> Service \cup {None}] /\ svcIndexer \in [Svc -> Service \cup {None}]
    BY DEF Init
  <2> QED
    BY Zenon, <2>1, <2>2 DEF Init, ControllerTypeOK
<1>2. DownEmpty /\ CacheFollows /\ SettledAgree
  BY DEF Init, DownEmpty, CacheFollows, SettledAgree
<1>3. ConfigInForce
  BY DEF Init, ConfigInForce, New
<1> QED
  BY Zenon, <1>1, <1>2, <1>3, NewCoherent DEF Init, IInv

(* Every step keeps the invariant.                                         *)
LEMMA NextIInv == IInv /\ [Next]_vars => IInv'
<1> SUFFICES ASSUME IInv, [Next]_vars
             PROVE  IInv'
  OBVIOUS
<1>1. CASE Users
  BY <1>1, UsersKeep
<1>2. CASE DeliverService
  BY <1>2, DeliverServiceKeeps
<1>3. CASE DeliverConfig
  BY <1>3, DeliverConfigKeeps
<1>4. CASE \E k \in QueueKey : DelayOver(k)
  BY SMTT(30), <1>4, DelayOverKeeps
<1>5. CASE Start
  BY <1>5, StartKeeps
<1>6. CASE Crash
  BY <1>6, CrashKeeps
<1>7. CASE Worker
  BY Zenon, <1>7, SetBalancerDeletedKeeps, SetBalancerUnconfiguredKeeps, SetBalancerKeeps,
     SetConfigFailsKeeps, SetConfigKeeps, MarkSyncedKeeps DEF Worker
<1>8. CASE UNCHANGED vars
  <2>1. UNCHANGED <<services, configMap, watch, svcIndexer, cmIndexer, queue, delayed, up,
                    ips, config, configStale>>
    BY <1>8 DEF vars
  <2>2. ControllerTypeOK' /\ DownEmpty' /\ Coherent(ips')
    BY <2>1 DEF IInv, ControllerTypeOK, DownEmpty
  <2>3. ConfigInForce'
    BY SMTT(30), <2>1 DEF IInv, ConfigInForce, Pending
  <2>4. CacheFollows'
    BY SMTT(30), <2>1 DEF IInv, CacheFollows, LastChange, Informed
  <2>5. SettledAgree'
    BY <2>1 DEF IInv, SettledAgree, Settled, Pending
  <2> QED
    BY Zenon, <2>2, <2>3, <2>4, <2>5 DEF IInv
<1> QED
  BY Zenon, <1>1, <1>2, <1>3, <1>4, <1>5, <1>6, <1>7, <1>8 DEF Next

(* The invariant holds in every state the controller reaches.              *)
THEOREM ControllerInvariant == Spec => []IInv
  BY InitIInv, NextIInv, PTL DEF Spec

(* The allocator inside the controller, called by its handlers in any      *)
(* order the queue brings about and started afresh after each crash, stays *)
(* coherent: its indexes agree and Unassign never panics.                  *)
THEOREM ControllerAllocatorCoherent == Spec => [](Coherent(ips) /\ ~ips.panicked)
<1>1. IInv => Coherent(ips) /\ ~ips.panicked
  BY DEF IInv, Coherent
<1> QED
  BY <1>1, ControllerInvariant, PTL

(* SetConfig keeps controller.config and the pools of the allocator        *)
(* together, and the stale gauge honest.                                   *)
THEOREM ControllerConfigInForce == Spec => []ConfigInForce
<1>1. IInv => ConfigInForce
  BY SMTT(30) DEF IInv
<1> QED
  BY <1>1, ControllerInvariant, PTL

(* The status of a settled service is what the allocator has recorded for  *)
(* it, through lost answers, stale caches, conflicts and restarts.         *)
THEOREM ControllerPublishedIsAllocated == Spec => []PublishedIsAllocated
<1>1. IInv => PublishedIsAllocated
  BY Zenon DEF IInv, SettledAgree, Agrees, PublishedIsAllocated
<1> QED
  BY <1>1, ControllerInvariant, PTL

(* A settled service holds the address it asks for or none, for its        *)
(* present ports and keys.                                                 *)
THEOREM ControllerRequestHonoured == Spec => []RequestHonoured
<1>1. IInv => RequestHonoured
  BY DEF IInv, SettledAgree, Agrees, RequestHonoured
<1> QED
  BY <1>1, ControllerInvariant, PTL

(* When the controller has nothing left to do, two services have the same  *)
(* address published only if both agree to share it: what agrees with the  *)
(* allocator is as exclusive as the allocator.                             *)
THEOREM ControllerQuietExclusive == Spec => []QuietExclusive
<1>1. IInv => QuietExclusive
  <2> SUFFICES ASSUME IInv, Quiet, config # None, NEW s \in Svc, NEW t \in Svc,
                      SameAddress(s, t)
               PROVE  MayShare(services[s].spec, services[t].spec)
    BY DEF QuietExclusive, PublishedExclusive
  <2> DEFINE a == ips.allocated[s]
             b == ips.allocated[t]
  <2>1. Agrees(services[s], a) /\ Agrees(services[t], b)
    <3>1. Settled(s) /\ Settled(t)
      BY SMTT(30) DEF Quiet, Settled, Pending, Elements
    <3> QED
      BY SMTT(30), <3>1 DEF IInv, SettledAgree, Quiet
  <2> HIDE DEF a, b
  <2>2. /\ a # None /\ b # None /\ String(a.ip) = String(b.ip)
        /\ [ports |-> a.ports, key |-> a.key] = RequestOf(services[s].spec)
        /\ [ports |-> b.ports, key |-> b.key] = RequestOf(services[t].spec)
    BY <2>1 DEF Agrees, SameAddress
  <2>3. a.ip = b.ip
    BY SMTT(30), <2>2 DEF String
  <2>4. sharingOK(a.key, b.key) /\ a.ports \cap b.ports = {}
    BY Zenon, <2>2, <2>3, CoherentSharing DEF IInv, SameAddress, a, b
  <2>5. /\ RequestOf(services[s].spec).key = a.key /\ RequestOf(services[s].spec).ports = a.ports
        /\ RequestOf(services[t].spec).key = b.key /\ RequestOf(services[t].spec).ports = b.ports
    BY <2>2
  <2> QED
    BY <2>4, <2>5 DEF MayShare
<1> QED
  BY <1>1, ControllerInvariant, PTL
=============================================================================
