--------------------------- MODULE AllocatorProofs ---------------------------
(***************************************************************************)
(* The methods of the allocator keep it coherent, for any sets of          *)
(* services, addresses, ports and keys and any pool configurations; from   *)
(* this, the safety properties of AllocatorSpec, and that the allocator    *)
(* implements the address book.                                            *)
(***************************************************************************)
EXTENDS AllocatorSpec, FiniteSetTheorems, WellFoundedInduction, TLAPS

(* The inductive invariant.  CountsExact apart, no conjunct is inductive   *)
(* on its own: that the ports of a service are its own (no panic) needs    *)
(* that Assign sees every port in use, hence an exact portsInUse and a     *)
(* sharing key on every address in use; that the key is there needs that   *)
(* the last port leaves with the last service.                             *)
Coherent(a) ==
    /\ TypeOK(a)
    /\ PortsIndex(a)
    /\ ServicesIndex(a)
    /\ KeyIndex(a)
    /\ SharersAgree(a)
    /\ PoolIndex(a)
    /\ CountsExact(a)
    /\ ~a.panicked

(* The same, but for the pools under which allocations are recorded: what  *)
(* holds also in the middle of SetPools.                                   *)
Consistent(a) ==
    /\ TypeOK(a)
    /\ PortsIndex(a)
    /\ ServicesIndex(a)
    /\ KeyIndex(a)
    /\ SharersAgree(a)
    /\ CountsExact(a)
    /\ ~a.panicked

(* Record a has the fields of an Allocator and no other.                   *)
HasFields(a) ==
    a = [pools           |-> a.pools,
         allocated       |-> a.allocated,
         sharingKeyForIP |-> a.sharingKeyForIP,
         portsInUse      |-> a.portsInUse,
         servicesOnIP    |-> a.servicesOnIP,
         poolIPsInUse    |-> a.poolIPsInUse,
         poolServices    |-> a.poolServices,
         panicked        |-> a.panicked]

(* A table of tables of which one entry is changed.                        *)
LEMMA NestedExcept ==
    ASSUME NEW S, NEW T, NEW f \in [S -> [T -> Int]], NEW p \in S, NEW q \in T, NEW w,
           NEW n \in S, NEW i \in T
    PROVE  [f EXCEPT ![p][q] = w][n][i] = IF n = p /\ i = q THEN w ELSE f[n][i]
<1>1. CASE n = p
  BY <1>1
<1>2. CASE n # p
  BY <1>2
<1> QED
  BY <1>1, <1>2

(* An Allocator is well typed when each of its fields is.                  *)
LEMMA TypeByField ==
    ASSUME NEW a, HasFields(a),
           a.pools \in Pools \cup {NoPools},
           a.allocated \in [Svc -> Alloc \cup {None}],
           a.sharingKeyForIP \in [IP -> Key \cup {None}],
           a.portsInUse \in [IP -> [Port -> Svc \cup {None}]],
           a.servicesOnIP \in [IP -> SUBSET Svc],
           a.poolIPsInUse \in [PoolName -> [IP -> Int]],
           a.poolServices \in [PoolName -> Int],
           a.panicked \in BOOLEAN
    PROVE  TypeOK(a)
BY DEF HasFields, TypeOK

-----------------------------------------------------------------------------
(***************************************************************************)
(* Unassign.                                                               *)
(***************************************************************************)

(* What the ports of an address look like once those of al are free.       *)
Freed(a, al) == [q \in Port |-> IF q \in al.ports
                               THEN None ELSE a.portsInUse[al.ip][q]]

(* Allocator u is what is left of a when svc is released without a panic,  *)
(* field by field.                                                         *)
Released(a, svc, u) ==
    LET al == a.allocated[svc]
    IN /\ HasFields(u)
       /\ al \in Alloc
       /\ Freed(a, al) \in [Port -> Svc \cup {None}]
       /\ u.pools = a.pools
       /\ u.allocated = [a.allocated EXCEPT ![svc] = None]
       /\ u.portsInUse = [a.portsInUse EXCEPT ![al.ip] = Freed(a, al)]
       /\ u.servicesOnIP = [a.servicesOnIP EXCEPT ![al.ip] = @ \ {svc}]
       /\ u.sharingKeyForIP = [a.sharingKeyForIP EXCEPT ![al.ip] =
             IF \A q \in Port : Freed(a, al)[q] = None THEN None ELSE @]
       /\ u.poolIPsInUse = [a.poolIPsInUse EXCEPT ![al.pool][al.ip] = @ - 1]
       /\ u.poolServices = [a.poolServices EXCEPT ![al.pool] = @ - 1]
       /\ u.panicked = a.panicked

(* Unassign does that when it finds an allocation that owns its ports.     *)
LEMMA UnassignFields ==
    ASSUME NEW a, TypeOK(a), NEW svc \in Svc,
           a.allocated[svc] # None, OwnsPorts(a, svc, a.allocated[svc])
    PROVE  Released(a, svc, Unassign(a, svc))
<1> DEFINE u == Unassign(a, svc)
           al == a.allocated[svc]
<1>1. al \in Alloc
  BY NoneAssumption DEF TypeOK
<1>2. Freed(a, al) \in [Port -> Svc \cup {None}]
  BY <1>1 DEF TypeOK, Alloc, Freed
<1>3. HasFields(u)
  BY Zenon DEF Unassign, TypeOK, HasFields
<1> QED
  BY ZenonT(40), <1>1, <1>2, <1>3 DEF Released, Unassign, TypeOK, Freed

(* Releasing a service keeps the allocator consistent: it does not panic,  *)
(* and the key of the address survives exactly when another service stays. *)
LEMMA UnassignConsistent ==
    ASSUME NEW a, Consistent(a), NEW svc \in Svc
    PROVE  /\ Consistent(Unassign(a, svc))
           /\ Unassign(a, svc).pools = a.pools
           /\ Unassign(a, svc).allocated = [a.allocated EXCEPT ![svc] = None]
<1> DEFINE u == Unassign(a, svc)
           al == a.allocated[svc]
<1>1. CASE al = None
  BY Zenon, <1>1 DEF Consistent, Unassign, TypeOK
<1>2. CASE al # None
  <2>1. OwnsPorts(a, svc, al)
    BY <1>2, NoneAssumption DEF Consistent, PortsIndex, Holds, OwnsPorts, TypeOK, Alloc
  <2>2. Released(a, svc, u)
    BY <1>2, <2>1, UnassignFields DEF Consistent
  <2> HIDE DEF u, al
  <2>al. al \in Alloc /\ al.ip \in IP /\ al.pool \in PoolName
    <3>1. al \in Alloc
      BY Zenon, <2>2 DEF Released, al
    <3> QED
      BY <3>1 DEF Alloc
  <2>rest. HasFields(u) /\ u.pools = a.pools /\ u.panicked = a.panicked
    BY Zenon, <2>2 DEF Released
  <2>allocated. u.allocated = [a.allocated EXCEPT ![svc] = None]
    BY Zenon, <2>2 DEF Released
  <2>ports. /\ u.portsInUse = [a.portsInUse EXCEPT ![al.ip] = Freed(a, al)]
            /\ Freed(a, al) \in [Port -> Svc \cup {None}]
    BY Zenon, <2>2 DEF Released, al
  <2>services. u.servicesOnIP = [a.servicesOnIP EXCEPT ![al.ip] = @ \ {svc}]
    BY Zenon, <2>2 DEF Released, al
  <2>key. u.sharingKeyForIP = [a.sharingKeyForIP EXCEPT ![al.ip] =
             IF \A q \in Port : Freed(a, al)[q] = None THEN None ELSE @]
    BY Zenon, <2>2 DEF Released, al
  <2>inUse. u.poolIPsInUse = [a.poolIPsInUse EXCEPT ![al.pool][al.ip] = @ - 1]
    BY Zenon, <2>2 DEF Released, al
  <2>count. u.poolServices = [a.poolServices EXCEPT ![al.pool] = @ - 1]
    BY Zenon, <2>2 DEF Released, al
  <2>ofA. TypeOK(a)
    BY Zenon DEF Consistent
  <2>3. TypeOK(u)
    <3>2. u.allocated \in [Svc -> Alloc \cup {None}]
      BY <2>allocated, <2>ofA DEF TypeOK
    <3>3. u.portsInUse \in [IP -> [Port -> Svc \cup {None}]]
      <4>1. a.portsInUse \in [IP -> [Port -> Svc \cup {None}]]
        BY Zenon, <2>ofA DEF TypeOK
      <4> QED
        BY <2>al, <2>ports, <4>1
    <3>4. u.servicesOnIP \in [IP -> SUBSET Svc]
      <4>1. a.servicesOnIP \in [IP -> SUBSET Svc]
        BY Zenon, <2>ofA DEF TypeOK
      <4> QED
        BY <2>al, <2>services, <4>1
    <3>5. u.sharingKeyForIP \in [IP -> Key \cup {None}]
      <4>1. a.sharingKeyForIP \in [IP -> Key \cup {None}]
        BY Zenon, <2>ofA DEF TypeOK
      <4> QED
        BY <2>al, <2>key, <4>1
    <3>6. u.poolIPsInUse \in [PoolName -> [IP -> Int]]
      <4>1. a.poolIPsInUse \in [PoolName -> [IP -> Int]]
        BY Zenon, <2>ofA DEF TypeOK
      <4> QED
        BY <2>al, <2>inUse, <4>1
    <3>7. u.poolServices \in [PoolName -> Int]
      <4>1. a.poolServices \in [PoolName -> Int]
        BY Zenon, <2>ofA DEF TypeOK
      <4> QED
        BY <2>al, <2>count, <4>1
    <3> QED
      BY Zenon, <2>rest, <2>ofA, <3>2, <3>3, <3>4, <3>5, <3>6, <3>7, TypeByField DEF TypeOK
  <2>5. u.allocated[svc] = None /\ \A s \in Svc \ {svc} : u.allocated[s] = a.allocated[s]
    BY <2>allocated, <2>ofA DEF TypeOK
  <2>4. \A s \in Svc, i \in IP : Holds(u, s, i) <=> Holds(a, s, i) /\ s # svc
    BY <2>5 DEF Holds
  <2>6. PortsIndex(u)
    <3> SUFFICES ASSUME NEW i \in IP, NEW q \in Port, NEW s \in Svc
                 PROVE  (u.portsInUse[i][q] = s)
                          <=> (Holds(u, s, i) /\ q \in u.allocated[s].ports)
      BY DEF PortsIndex
    <3>1. u.portsInUse[i][q] = IF i = al.ip /\ q \in al.ports
                               THEN None ELSE a.portsInUse[i][q]
      <4>1. a.portsInUse \in [IP -> [Port -> Svc \cup {None}]]
        BY Zenon, <2>ofA DEF TypeOK
      <4> QED
        BY <2>al, <2>ports, <4>1 DEF Freed
    <3>2. (a.portsInUse[i][q] = s) <=> (Holds(a, s, i) /\ q \in a.allocated[s].ports)
      BY Zenon DEF Consistent, PortsIndex
    <3>3. i = al.ip /\ q \in al.ports => a.portsInUse[i][q] = svc
      BY <2>1 DEF OwnsPorts
    <3>4. s = svc => (Holds(a, s, i) <=> i = al.ip) /\ al = a.allocated[s]
      BY <1>2 DEF Holds, al
    <3> QED
      BY <2>4, <2>5, <3>1, <3>2, <3>3, <3>4, NoneAssumption
  <2>7. ServicesIndex(u)
    <3> SUFFICES ASSUME NEW i \in IP
                 PROVE  u.servicesOnIP[i] = {s \in Svc : Holds(u, s, i)}
      BY DEF ServicesIndex
    <3>1. a.servicesOnIP \in [IP -> SUBSET Svc]
      BY Zenon, <2>ofA DEF TypeOK
    <3>3. a.servicesOnIP[i] = {s \in Svc : Holds(a, s, i)}
      BY Zenon DEF Consistent, ServicesIndex
    <3>4. Holds(a, svc, i) => i = al.ip
      BY Zenon DEF Holds, al
    <3>5. u.servicesOnIP[i] = a.servicesOnIP[i] \ {svc}
      BY <2>al, <2>services, <3>1, <3>3, <3>4
    <3> QED
      BY <2>4, <3>3, <3>5
  <2>8. KeyIndex(u)
    <3> SUFFICES ASSUME NEW i \in IP
                 PROVE  /\ \A s \in Svc : Holds(u, s, i)
                              => u.sharingKeyForIP[i] = u.allocated[s].key
                        /\ u.sharingKeyForIP[i] # None => \E s \in Svc : Holds(u, s, i)
      BY DEF KeyIndex
    <3>0. a.sharingKeyForIP \in [IP -> Key \cup {None}]
      BY Zenon, <2>ofA DEF TypeOK
    <3>1. CASE i # al.ip
      <4>1. u.sharingKeyForIP[i] = a.sharingKeyForIP[i]
        BY <2>al, <2>key, <3>0, <3>1
      <4>2. ~Holds(a, svc, i)
        BY Zenon, <3>1 DEF Holds, al
      <4> QED
        BY <4>1, <4>2, <2>4, <2>5 DEF Consistent, KeyIndex
    <3>2. CASE i = al.ip
      <4>1. u.sharingKeyForIP[i] = IF \A q \in Port : Freed(a, al)[q] = None
                                   THEN None ELSE a.sharingKeyForIP[i]
        BY <2>al, <2>key, <3>0, <3>2
      <4>2. \A q \in Port : Freed(a, al)[q] = u.portsInUse[i][q]
        <5>1. a.portsInUse \in [IP -> [Port -> Svc \cup {None}]]
          BY Zenon, <2>ofA DEF TypeOK
        <5> QED
          BY <2>al, <2>ports, <3>2, <5>1
      <4>3. ASSUME NEW s \in Svc, Holds(u, s, i)
            PROVE  \E q \in Port : Freed(a, al)[q] # None
        <5>1. u.allocated[s] \in Alloc
          BY <2>3, <4>3 DEF TypeOK, Holds
        <5>2. PICK q \in Port : q \in u.allocated[s].ports
          <6>1. u.allocated[s].ports \in SUBSET Port
            BY <5>1 DEF Alloc
          <6>2. u.allocated[s].ports # {}
            BY <5>1 DEF Alloc
          <6> QED
            BY <6>1, <6>2
        <5>3. u.portsInUse[i][q] = s
          BY <2>6, <4>3, <5>2 DEF PortsIndex
        <5> QED
          BY <4>2, <5>3, NoneAssumption
      <4>4. ASSUME NEW q \in Port, Freed(a, al)[q] # None
            PROVE  \E s \in Svc : Holds(u, s, i)
        <5>1. u.portsInUse[i][q] \in Svc
          BY <2>3, <4>2, <4>4 DEF TypeOK
        <5> QED
          BY <2>6, <5>1 DEF PortsIndex
      <4>5. ASSUME NEW s \in Svc, Holds(u, s, i)
            PROVE  u.sharingKeyForIP[i] = u.allocated[s].key
        <5>1. u.sharingKeyForIP[i] = a.sharingKeyForIP[i]
          BY <4>1, <4>3, <4>5
        <5>2. Holds(a, s, i) /\ u.allocated[s] = a.allocated[s]
          BY Zenon, <2>4, <2>5, <4>5
        <5>3. a.sharingKeyForIP[i] = a.allocated[s].key
          BY Zenon, <5>2 DEF Consistent, KeyIndex
        <5> QED
          BY <5>1, <5>2, <5>3
      <4>6. u.sharingKeyForIP[i] # None => \E s \in Svc : Holds(u, s, i)
        BY <4>1, <4>4
      <4> QED
        BY Zenon, <4>5, <4>6
    <3> QED
      BY <3>1, <3>2
  <2>9. SharersAgree(u)
    BY SMTT(20), <2>4, <2>5 DEF Consistent, SharersAgree, Holds
  <2>10. CountsExact(u)
    <3> SUFFICES ASSUME NEW n \in PoolName
                 PROVE  /\ u.poolServices[n] = Cardinality(UsersInPool(u, n))
                        /\ \A i \in IP :
                             u.poolIPsInUse[n][i] = Cardinality(UsersOfIPInPool(u, n, i))
      BY SMTT(20) DEF CountsExact
    <3>1. UsersInPool(u, n) = UsersInPool(a, n) \ {svc}
      BY <2>5, NoneAssumption DEF UsersInPool
    <3>2. svc \in UsersInPool(a, n) <=> n = al.pool
      BY <1>2 DEF UsersInPool, al
    <3>3. IsFiniteSet(UsersInPool(a, n))
      BY FiniteAssumption, FS_Subset DEF UsersInPool
    <3>4. u.poolServices[n] = Cardinality(UsersInPool(u, n))
      <4>1. u.poolServices[n] = IF n = al.pool
                                THEN a.poolServices[n] - 1 ELSE a.poolServices[n]
        <5>1. a.poolServices \in [PoolName -> Int]
          BY Zenon, <2>ofA DEF TypeOK
        <5> QED
          BY <2>al, <2>count, <5>1
      <4>2. a.poolServices[n] = Cardinality(UsersInPool(a, n))
        BY Zenon DEF Consistent, CountsExact
      <4>3. Cardinality(UsersInPool(a, n) \ {svc}) =
               IF n = al.pool THEN Cardinality(UsersInPool(a, n)) - 1
               ELSE Cardinality(UsersInPool(a, n))
        BY Zenon, <3>2, <3>3, FS_RemoveElement
      <4> QED
        BY <3>1, <4>1, <4>2, <4>3
    <3>5. ASSUME NEW i \in IP
          PROVE  u.poolIPsInUse[n][i] = Cardinality(UsersOfIPInPool(u, n, i))
      <4>1. UsersOfIPInPool(u, n, i) = UsersOfIPInPool(a, n, i) \ {svc}
        BY <3>1, <2>5 DEF UsersOfIPInPool, UsersInPool
      <4>2. svc \in UsersOfIPInPool(a, n, i) <=> n = al.pool /\ i = al.ip
        BY <3>2 DEF UsersOfIPInPool, al
      <4>3. IsFiniteSet(UsersOfIPInPool(a, n, i))
        BY SMTT(30), <3>3, FS_Subset DEF UsersOfIPInPool
      <4>4. u.poolIPsInUse[n][i] = IF n = al.pool /\ i = al.ip
                                   THEN a.poolIPsInUse[n][i] - 1
                                   ELSE a.poolIPsInUse[n][i]
        <5>2. a.poolIPsInUse \in [PoolName -> [IP -> Int]]
          BY Zenon, <2>ofA DEF TypeOK
        <5> DEFINE f == a.poolIPsInUse
                   g == u.poolIPsInUse
                   w == f[al.pool][al.ip] - 1
        <5>4. g = [f EXCEPT ![al.pool][al.ip] = w]
          BY Zenon, <2>inUse
        <5> HIDE DEF f, g, w
        <5>5. g[n][i] = IF n = al.pool /\ i = al.ip THEN w ELSE f[n][i]
          BY <2>al, <5>2, <5>4, NestedExcept DEF f
        <5> QED
          BY Zenon, <5>5 DEF f, g, w
      <4>5. a.poolIPsInUse[n][i] = Cardinality(UsersOfIPInPool(a, n, i))
        BY Zenon DEF Consistent, CountsExact
      <4>6. Cardinality(UsersOfIPInPool(a, n, i) \ {svc}) =
               IF n = al.pool /\ i = al.ip
               THEN Cardinality(UsersOfIPInPool(a, n, i)) - 1
               ELSE Cardinality(UsersOfIPInPool(a, n, i))
        BY Zenon, <4>2, <4>3, FS_RemoveElement
      <4> QED
        BY <4>1, <4>4, <4>5, <4>6
    <3> QED
      BY <3>4, <3>5
  <2> QED
    BY Zenon, <2>rest, <2>allocated, <2>3, <2>6, <2>7, <2>8, <2>9, <2>10 DEF Consistent, u
<1> QED
  BY <1>1, <1>2

(* And it keeps it coherent.                                               *)
LEMMA UnassignCoherent ==
    ASSUME NEW a, Coherent(a), NEW svc \in Svc
    PROVE  /\ Coherent(Unassign(a, svc))
           /\ Unassign(a, svc).pools = a.pools
           /\ Unassign(a, svc).allocated = [a.allocated EXCEPT ![svc] = None]
<1> DEFINE u == Unassign(a, svc)
<1>1. Consistent(a) /\ PoolIndex(a)
  BY Zenon DEF Coherent, Consistent
<1>2. /\ Consistent(u)
      /\ u.pools = a.pools
      /\ u.allocated = [a.allocated EXCEPT ![svc] = None]
  BY Zenon, <1>1, UnassignConsistent
<1> HIDE DEF u
<1>3. PoolIndex(u)
  BY <1>1, <1>2 DEF Consistent, PoolIndex, TypeOK
<1> QED
  BY Zenon, <1>2, <1>3 DEF Coherent, Consistent, u

-----------------------------------------------------------------------------
(***************************************************************************)
(* assign, and Assign.                                                     *)
(***************************************************************************)

(* Nobody but svc is on the address of al in a way that excludes al.       *)
Fits(a, svc, al) ==
    \A t \in Svc \ {svc} : Holds(a, t, al.ip) =>
        /\ a.allocated[t].key = al.key
        /\ al.key.sharing # NoSharing
        /\ a.allocated[t].ports \cap al.ports = {}

(* What the ports of an address look like once those of al are svc's.      *)
Taken(u, svc, al) == [q \in Port |-> IF q \in al.ports
                                    THEN svc ELSE u.portsInUse[al.ip][q]]

(* Allocator v is u with al recorded as the allocation of svc.             *)
Recorded(u, svc, al, v) ==
    /\ HasFields(v)
    /\ v.pools = u.pools
    /\ v.allocated = [u.allocated EXCEPT ![svc] = al]
    /\ v.sharingKeyForIP = [u.sharingKeyForIP EXCEPT ![al.ip] = al.key]
    /\ v.portsInUse = [u.portsInUse EXCEPT ![al.ip] = Taken(u, svc, al)]
    /\ v.servicesOnIP = [u.servicesOnIP EXCEPT ![al.ip] = @ \cup {svc}]
    /\ v.poolIPsInUse = [u.poolIPsInUse EXCEPT ![al.pool][al.ip] = @ + 1]
    /\ v.poolServices = [u.poolServices EXCEPT ![al.pool] = @ + 1]
    /\ v.panicked = u.panicked

(* assign does that to what Unassign leaves, unless Unassign panics.       *)
LEMMA AssignFields ==
    ASSUME NEW a, NEW svc \in Svc, NEW al \in Alloc,
           TypeOK(Unassign(a, svc)), ~Unassign(a, svc).panicked
    PROVE  Recorded(Unassign(a, svc), svc, al, assign(a, svc, al))
<1> DEFINE u == Unassign(a, svc)
           v == assign(a, svc, al)
<1> HIDE DEF u
<1>1. TypeOK(u) /\ ~u.panicked
  BY DEF u
<1>2. v = [u EXCEPT
             !.allocated[svc] = al,
             !.sharingKeyForIP[al.ip] = al.key,
             !.portsInUse[al.ip] =
                  [q \in Port |-> IF q \in al.ports THEN svc ELSE @[q]],
             !.servicesOnIP[al.ip] = @ \cup {svc},
             !.poolIPsInUse[al.pool][al.ip] = @ + 1,
             !.poolServices[al.pool] = @ + 1]
  BY <1>1 DEF assign, u
<1> HIDE DEF v
<1>3. HasFields(v)
  BY Zenon, <1>1, <1>2 DEF TypeOK, HasFields
<1>4. Recorded(u, svc, al, v)
  BY <1>1, <1>2, <1>3 DEF TypeOK, Recorded, Taken
<1> QED
  BY <1>4 DEF u, v

(* Recording an allocation that fits keeps the allocator consistent.       *)
LEMMA RecordConsistent ==
    ASSUME NEW u, Consistent(u), NEW svc \in Svc, u.allocated[svc] = None,
           NEW al \in Alloc, Fits(u, svc, al),
           NEW v, Recorded(u, svc, al, v)
    PROVE  Consistent(v)
<1>rest. HasFields(v) /\ v.pools = u.pools /\ v.panicked = u.panicked
  BY Zenon DEF Recorded
<1>allocated. v.allocated = [u.allocated EXCEPT ![svc] = al]
  BY Zenon DEF Recorded
<1>key. v.sharingKeyForIP = [u.sharingKeyForIP EXCEPT ![al.ip] = al.key]
  BY Zenon DEF Recorded
<1>ports. v.portsInUse = [u.portsInUse EXCEPT ![al.ip] = Taken(u, svc, al)]
  BY Zenon DEF Recorded
<1>services. v.servicesOnIP = [u.servicesOnIP EXCEPT ![al.ip] = @ \cup {svc}]
  BY Zenon DEF Recorded
<1>inUse. v.poolIPsInUse = [u.poolIPsInUse EXCEPT ![al.pool][al.ip] = @ + 1]
  BY Zenon DEF Recorded
<1>count. v.poolServices = [u.poolServices EXCEPT ![al.pool] = @ + 1]
  BY Zenon DEF Recorded
<1>ofU. /\ u.allocated \in [Svc -> Alloc \cup {None}]
        /\ u.sharingKeyForIP \in [IP -> Key \cup {None}]
        /\ u.portsInUse \in [IP -> [Port -> Svc \cup {None}]]
        /\ u.servicesOnIP \in [IP -> SUBSET Svc]
        /\ u.poolIPsInUse \in [PoolName -> [IP -> Int]]
        /\ u.poolServices \in [PoolName -> Int]
  BY Zenon DEF Consistent, TypeOK
<1>1. al.ip \in IP /\ al.pool \in PoolName /\ al.key \in Key
  BY DEF Alloc
<1>2. al.ports \subseteq Port /\ al.ports # {}
  BY DEF Alloc
<1>3. Taken(u, svc, al) \in [Port -> Svc \cup {None}]
  BY <1>1, <1>ofU DEF Taken
<1>4. TypeOK(v)
  <2>1. v.allocated \in [Svc -> Alloc \cup {None}]
    BY <1>allocated, <1>ofU
  <2>2. v.portsInUse \in [IP -> [Port -> Svc \cup {None}]]
    BY <1>1, <1>3, <1>ports, <1>ofU
  <2>3. v.servicesOnIP \in [IP -> SUBSET Svc]
    BY <1>1, <1>services, <1>ofU
  <2>4. v.sharingKeyForIP \in [IP -> Key \cup {None}]
    BY <1>1, <1>key, <1>ofU
  <2>5. v.poolIPsInUse \in [PoolName -> [IP -> Int]]
    BY <1>1, <1>inUse, <1>ofU
  <2>6. v.poolServices \in [PoolName -> Int]
    BY <1>1, <1>count, <1>ofU
  <2> QED
    BY Zenon, <1>rest, <2>1, <2>2, <2>3, <2>4, <2>5, <2>6, TypeByField DEF Consistent, TypeOK
<1>5. v.allocated[svc] = al /\ \A s \in Svc \ {svc} : v.allocated[s] = u.allocated[s]
  BY <1>allocated, <1>ofU
<1>6. \A s \in Svc, i \in IP :
         Holds(v, s, i) <=> Holds(u, s, i) \/ (s = svc /\ i = al.ip)
  BY <1>5, NoneAssumption DEF Holds
<1>7. PortsIndex(v)
  <2> SUFFICES ASSUME NEW i \in IP, NEW q \in Port, NEW s \in Svc
               PROVE  (v.portsInUse[i][q] = s)
                        <=> (Holds(v, s, i) /\ q \in v.allocated[s].ports)
    BY DEF PortsIndex
  <2>1. v.portsInUse[i][q] = IF i = al.ip /\ q \in al.ports
                             THEN svc ELSE u.portsInUse[i][q]
    BY <1>ports, <1>ofU DEF Taken
  <2>2. (u.portsInUse[i][q] = s) <=> (Holds(u, s, i) /\ q \in u.allocated[s].ports)
    BY Zenon DEF Consistent, PortsIndex
  <2>3. s # svc /\ Holds(u, s, i) /\ i = al.ip => u.allocated[s].ports \cap al.ports = {}
    BY DEF Fits
  <2>4. ~Holds(u, svc, i)
    BY DEF Holds
  <2> QED
    BY <1>5, <1>6, <2>1, <2>2, <2>3, <2>4
<1>8. ServicesIndex(v)
  <2> SUFFICES ASSUME NEW i \in IP
               PROVE  v.servicesOnIP[i] = {s \in Svc : Holds(v, s, i)}
    BY DEF ServicesIndex
  <2>1. u.servicesOnIP[i] = {s \in Svc : Holds(u, s, i)}
    BY Zenon DEF Consistent, ServicesIndex
  <2>2. v.servicesOnIP[i] = IF i = al.ip THEN u.servicesOnIP[i] \cup {svc}
                            ELSE u.servicesOnIP[i]
    <3>1. u.servicesOnIP \in [IP -> SUBSET Svc]
      BY <1>ofU
    <3> QED
      BY Zenon, <1>services, <3>1
  <2> QED
    BY <1>6, <2>1, <2>2
<1>9. KeyIndex(v)
  <2> SUFFICES ASSUME NEW i \in IP
               PROVE  /\ \A s \in Svc : Holds(v, s, i)
                            => v.sharingKeyForIP[i] = v.allocated[s].key
                      /\ v.sharingKeyForIP[i] # None => \E s \in Svc : Holds(v, s, i)
    BY DEF KeyIndex
  <2>1. v.sharingKeyForIP[i] = IF i = al.ip THEN al.key ELSE u.sharingKeyForIP[i]
    BY <1>key, <1>ofU
  <2>2. \A s \in Svc \ {svc} : Holds(u, s, al.ip) => u.allocated[s].key = al.key
    BY DEF Fits
  <2>3. ~Holds(u, svc, i)
    BY DEF Holds
  <2> QED
    BY <1>5, <1>6, <2>1, <2>2, <2>3 DEF Consistent, KeyIndex
<1>10. SharersAgree(v)
  <2> SUFFICES ASSUME NEW s \in Svc, NEW t \in Svc, NEW i \in IP,
                      s # t, Holds(v, s, i), Holds(v, t, i)
               PROVE  v.allocated[s].key.sharing # NoSharing
    BY DEF SharersAgree
  <2>1. CASE s # svc /\ t # svc
    BY <2>1, <1>5, <1>6 DEF Consistent, SharersAgree
  <2>2. CASE s = svc
    BY <2>2, <1>5, <1>6 DEF Fits, Holds
  <2>3. CASE t = svc
    BY <2>3, <1>5, <1>6 DEF Fits, Holds
  <2> QED
    BY <2>1, <2>2, <2>3
<1>11. CountsExact(v)
  <2> SUFFICES ASSUME NEW n \in PoolName
               PROVE  /\ v.poolServices[n] = Cardinality(UsersInPool(v, n))
                      /\ \A i \in IP :
                           v.poolIPsInUse[n][i] = Cardinality(UsersOfIPInPool(v, n, i))
    BY DEF CountsExact
  <2>1. UsersInPool(v, n) = IF n = al.pool THEN UsersInPool(u, n) \cup {svc}
                            ELSE UsersInPool(u, n)
    BY <1>5, NoneAssumption DEF UsersInPool
  <2>2. svc \notin UsersInPool(u, n)
    BY DEF UsersInPool
  <2>3. IsFiniteSet(UsersInPool(u, n))
    BY FiniteAssumption, FS_Subset DEF UsersInPool
  <2>4. v.poolServices[n] = Cardinality(UsersInPool(v, n))
    <3>1. v.poolServices[n] = IF n = al.pool
                              THEN u.poolServices[n] + 1 ELSE u.poolServices[n]
      BY <1>1, <1>count, <1>ofU
    <3>2. u.poolServices[n] = Cardinality(UsersInPool(u, n))
      BY Zenon DEF Consistent, CountsExact
    <3>3. Cardinality(UsersInPool(u, n) \cup {svc}) = Cardinality(UsersInPool(u, n)) + 1
      BY Zenon, <2>2, <2>3, FS_AddElement
    <3> QED
      BY <2>1, <3>1, <3>2, <3>3
  <2>5. ASSUME NEW i \in IP
        PROVE  v.poolIPsInUse[n][i] = Cardinality(UsersOfIPInPool(v, n, i))
    <3>1. UsersOfIPInPool(v, n, i) =
             IF n = al.pool /\ i = al.ip THEN UsersOfIPInPool(u, n, i) \cup {svc}
             ELSE UsersOfIPInPool(u, n, i)
      BY <2>1, <2>2, <1>5 DEF UsersOfIPInPool, UsersInPool
    <3>2. svc \notin UsersOfIPInPool(u, n, i)
      BY <2>2 DEF UsersOfIPInPool
    <3>3. IsFiniteSet(UsersOfIPInPool(u, n, i))
      BY <2>3, FS_Subset DEF UsersOfIPInPool
    <3>4. v.poolIPsInUse[n][i] = IF n = al.pool /\ i = al.ip
                                 THEN u.poolIPsInUse[n][i] + 1
                                 ELSE u.poolIPsInUse[n][i]
      BY <1>1, <1>inUse, <1>ofU
    <3>5. u.poolIPsInUse[n][i] = Cardinality(UsersOfIPInPool(u, n, i))
      BY Zenon DEF Consistent, CountsExact
    <3>6. Cardinality(UsersOfIPInPool(u, n, i) \cup {svc}) =
             Cardinality(UsersOfIPInPool(u, n, i)) + 1
      BY Zenon, <3>2, <3>3, FS_AddElement
    <3> QED
      BY <3>1, <3>4, <3>5, <3>6
  <2> QED
    BY <2>4, <2>5
<1> QED
  BY Zenon, <1>rest, <1>4, <1>7, <1>8, <1>9, <1>10, <1>11 DEF Consistent

(* And it keeps it coherent, if it is recorded under its pool.             *)
LEMMA RecordCoherent ==
    ASSUME NEW u, Coherent(u), NEW svc \in Svc, u.allocated[svc] = None,
           NEW al \in Alloc, Fits(u, svc, al), al.pool = poolFor(u.pools, al.ip),
           NEW v, Recorded(u, svc, al, v)
    PROVE  Coherent(v)
<1>1. Consistent(u) /\ PoolIndex(u)
  BY Zenon DEF Coherent, Consistent
<1>2. Consistent(v)
  BY Zenon, <1>1, RecordConsistent
<1>3. v.pools = u.pools /\ v.allocated = [u.allocated EXCEPT ![svc] = al]
  BY Zenon DEF Recorded
<1>4. PoolIndex(v)
  BY <1>1, <1>3 DEF Consistent, PoolIndex, TypeOK
<1> QED
  BY Zenon, <1>2, <1>4 DEF Coherent, Consistent

(* poolFor returns a pool of the map that may hand out the address.        *)
LEMMA PoolForType ==
    ASSUME NEW pools \in Pools \cup {NoPools}, NEW ip, poolFor(pools, ip) # None
    PROVE  /\ poolFor(pools, ip) \in DOMAIN pools
           /\ poolFor(pools, ip) \in PoolName
           /\ Usable(pools[poolFor(pools, ip)], ip)
<1>1. DOMAIN pools \subseteq PoolName
  BY PoolsAssumption DEF NoPools
<1>2. \E n \in DOMAIN pools : Usable(pools[n], ip)
  BY DEF poolFor
<1>3. poolFor(pools, ip) = CHOOSE n \in DOMAIN pools : Usable(pools[n], ip)
  BY <1>2 DEF poolFor
<1> HIDE DEF Usable
<1> QED
  BY <1>1, <1>2, <1>3

(* Conversely, an address that some pool may hand out has a pool.          *)
LEMMA PoolForFound ==
    ASSUME NEW pools \in Pools \cup {NoPools}, NEW ip,
           NEW n \in DOMAIN pools, Usable(pools[n], ip)
    PROVE  poolFor(pools, ip) # None
<1>1. DOMAIN pools \subseteq PoolName
  BY PoolsAssumption DEF NoPools
<1>2. poolFor(pools, ip) = CHOOSE m \in DOMAIN pools : Usable(pools[m], ip)
  BY DEF poolFor
<1>3. (CHOOSE m \in DOMAIN pools : Usable(pools[m], ip)) \in DOMAIN pools
  OBVIOUS
<1> QED
  BY <1>1, <1>2, <1>3, NoneAssumption

(* What Assign makes of a request it accepts.                              *)
Wanted(a, ip, req) ==
    [pool |-> poolFor(a.pools, ip), ip |-> ip, ports |-> req.ports, key |-> req.key]

(* Assign, which looks only at the indexes, accepts a request exactly when *)
(* the address is in a pool and nobody on it stands in the way.            *)
LEMMA RefusedIffNoFit ==
    ASSUME NEW a, Coherent(a), NEW svc \in Svc, NEW ip \in IP, NEW req \in Request
    PROVE  Refused(a, svc, ip, req)
             <=> (poolFor(a.pools, ip) = None \/ ~Fits(a, svc, Wanted(a, ip, req)))
<1> DEFINE al == Wanted(a, ip, req)
<1>1. al.ip = ip /\ al.ports = req.ports /\ al.key = req.key
  BY DEF Wanted
<1>2. req.ports \subseteq Port /\ req.key \in Key
  BY DEF Request
<1>3. \A q \in req.ports : a.portsInUse[ip][q] \in Svc \cup {None}
  BY <1>2 DEF Coherent, TypeOK
<1>4. \A t \in Svc : Holds(a, t, ip) => /\ a.sharingKeyForIP[ip] = a.allocated[t].key
                                       /\ a.allocated[t].key \in Key
                                       /\ a.sharingKeyForIP[ip] # None
                                       /\ a.allocated[t].ports \subseteq Port
  BY NoneAssumption DEF Coherent, KeyIndex, Holds, TypeOK, Alloc
<1>5. a.sharingKeyForIP[ip] # None => \E t \in Svc : Holds(a, t, ip)
  BY DEF Coherent, KeyIndex
<1>6. a.servicesOnIP[ip] = {t \in Svc : Holds(a, t, ip)}
  BY DEF Coherent, ServicesIndex
<1>7. \A t \in Svc, q \in req.ports :
         a.portsInUse[ip][q] = t <=> (Holds(a, t, ip) /\ q \in a.allocated[t].ports)
  BY <1>2 DEF Coherent, PortsIndex
<1>8. \A k \in Key : sharingOK(k, req.key) <=> (k = req.key /\ req.key.sharing # NoSharing)
  BY <1>2 DEF sharingOK, Key
<1>9. ASSUME ~Refused(a, svc, ip, req), NEW t \in Svc \ {svc}, Holds(a, t, ip)
      PROVE  /\ a.allocated[t].key = req.key
             /\ req.key.sharing # NoSharing
             /\ a.allocated[t].ports \cap req.ports = {}
  <2>1. sharingOK(a.sharingKeyForIP[ip], req.key)
    BY <1>9, <1>4, <1>6 DEF Refused
  <2>2. \A q \in req.ports : a.portsInUse[ip][q] # t
    BY <1>9, <1>4, NoneAssumption DEF Refused
  <2> QED
    BY <1>9, <1>4, <1>7, <1>8, <2>1, <2>2
<1>10. ASSUME Refused(a, svc, ip, req), poolFor(a.pools, ip) # None
       PROVE  \E t \in Svc \ {svc} :
                 /\ Holds(a, t, ip)
                 /\ ~(/\ a.allocated[t].key = req.key
                      /\ req.key.sharing # NoSharing
                      /\ a.allocated[t].ports \cap req.ports = {})
  <2>1. CASE ~sharingOK(a.sharingKeyForIP[ip], req.key) /\ a.servicesOnIP[ip] \ {svc} # {}
    BY <2>1, <1>4, <1>6, <1>8
  <2>2. CASE \E q \in req.ports : a.portsInUse[ip][q] \notin {None, svc}
    <3>1. PICK q \in req.ports : a.portsInUse[ip][q] \notin {None, svc}
      BY <2>2
    <3>2. a.portsInUse[ip][q] \in Svc \ {svc}
      BY <1>3, <3>1
    <3> QED
      BY <1>7, <3>2
  <2> QED
    BY <1>10, <2>1, <2>2 DEF Refused
<1>11. Fits(a, svc, al) <=>
         \A t \in Svc \ {svc} : Holds(a, t, ip) =>
            /\ a.allocated[t].key = req.key
            /\ req.key.sharing # NoSharing
            /\ a.allocated[t].ports \cap req.ports = {}
  BY <1>1 DEF Fits
<1>12. poolFor(a.pools, ip) = None => Refused(a, svc, ip, req)
  BY DEF Refused
<1> HIDE DEF al
<1> QED
  BY <1>9, <1>10, <1>11, <1>12 DEF al

(* A request Assign accepts becomes the service's allocation, everybody    *)
(* else keeps theirs, and the allocator stays coherent.                    *)
LEMMA AssignCoherent ==
    ASSUME NEW a, Coherent(a), NEW svc \in Svc, NEW ip \in IP, NEW req \in Request
    PROVE  /\ Coherent(Assign(a, svc, ip, req))
           /\ Assign(a, svc, ip, req).pools = a.pools
           /\ Assign(a, svc, ip, req).allocated =
                 IF Refused(a, svc, ip, req) THEN a.allocated
                 ELSE [a.allocated EXCEPT ![svc] = Wanted(a, ip, req)]
<1>1. CASE Refused(a, svc, ip, req)
  BY <1>1 DEF Assign
<1>2. CASE ~Refused(a, svc, ip, req)
  <2> DEFINE u  == Unassign(a, svc)
             al == Wanted(a, ip, req)
             v  == assign(a, svc, al)
  <2>1. Assign(a, svc, ip, req) = v
    BY <1>2 DEF Assign, Wanted
  <2>2. poolFor(a.pools, ip) # None /\ Fits(a, svc, al)
    BY <1>2, RefusedIffNoFit
  <2>3. al \in Alloc
    BY Zenon, <2>2, PoolForType DEF Wanted, Alloc, Request, Coherent, TypeOK
  <2>4. /\ Coherent(u)
        /\ u.pools = a.pools
        /\ u.allocated = [a.allocated EXCEPT ![svc] = None]
    BY UnassignCoherent
  <2>5. al.pool = poolFor(u.pools, al.ip)
    BY <2>4 DEF Wanted
  <2> HIDE DEF al
  <2>6. Recorded(u, svc, al, v)
    BY <2>3, <2>4, AssignFields DEF Coherent
  <2> HIDE DEF u, v
  <2>7. u.allocated[svc] = None
    BY <2>4 DEF Coherent, TypeOK
  <2>8. Fits(u, svc, al)
    BY <2>2, <2>4 DEF Fits, Holds, Coherent, TypeOK
  <2>9. Coherent(v)
    BY Zenon, <2>3, <2>4, <2>5, <2>6, <2>7, <2>8, RecordCoherent
  <2>10. v.pools = a.pools /\ v.allocated = [a.allocated EXCEPT ![svc] = al]
    BY ZenonT(40), <2>4, <2>6 DEF Recorded, Coherent, TypeOK
  <2> QED
    BY <1>2, <2>1, <2>9, <2>10 DEF al
<1> QED
  BY <1>1, <1>2

-----------------------------------------------------------------------------
(***************************************************************************)
(* SetPools.                                                               *)
(***************************************************************************)

(* The size of a finite set after some elements leave and others enter.    *)
LEMMA CardinalityMove ==
    ASSUME NEW S, IsFiniteSet(S), NEW O \in SUBSET S,
           NEW I, IsFiniteSet(I), I \cap S = {}
    PROVE  Cardinality((S \ O) \cup I) = Cardinality(S) - Cardinality(O) + Cardinality(I)
<1>1. IsFiniteSet(O) /\ IsFiniteSet(S \ O)
  BY FS_Subset, FS_Difference
<1>2. Cardinality(S \ O) = Cardinality(S) - Cardinality(O)
  <2>1. S \cap O = O
    OBVIOUS
  <2> QED
    BY Zenon, <2>1, FS_Difference
<1>3. (S \ O) \cap I = {}
  OBVIOUS
<1>4. Cardinality((S \ O) \cup I) =
         Cardinality(S \ O) + Cardinality(I) - Cardinality((S \ O) \cap I)
  BY <1>1, FS_Union
<1>5. /\ Cardinality(S) \in Nat /\ Cardinality(O) \in Nat
      /\ Cardinality(I) \in Nat /\ Cardinality((S \ O) \cap I) = 0
  BY SMTT(30), <1>1, <1>3, FS_CardinalityType, FS_EmptySet
<1> QED
  BY <1>2, <1>4, <1>5

(* Allocator v is a under the pools of a configuration that is accepted.   *)
Rearranged(a, pools, v) ==
    /\ HasFields(v)
    /\ v.pools = pools
    /\ v.allocated =
          [s \in Svc |-> IF s \in Moved(a, pools)
                         THEN [a.allocated[s] EXCEPT
                                 !.pool = poolFor(pools, a.allocated[s].ip)]
                         ELSE a.allocated[s]]
    /\ v.sharingKeyForIP = a.sharingKeyForIP
    /\ v.portsInUse = a.portsInUse
    /\ v.servicesOnIP = a.servicesOnIP
    /\ v.poolIPsInUse =
          [n \in PoolName |-> [i \in IP |->
              a.poolIPsInUse[n][i] - Cardinality(OnIP(a, Leaving(a, pools, n), i))
                                  + Cardinality(OnIP(a, Entering(a, pools, n), i))]]
    /\ v.poolServices =
          [n \in PoolName |-> a.poolServices[n] - Cardinality(Leaving(a, pools, n))
                                                + Cardinality(Entering(a, pools, n))]
    /\ v.panicked = a.panicked

(* SetPools does that to an allocator whose services all have a pool in    *)
(* the new map.                                                            *)
LEMMA SetPoolsFields ==
    ASSUME NEW a, Coherent(a), NEW pools \in Pools, ~PoolsRefused(a, pools)
    PROVE  Rearranged(a, pools, SetPools(a, pools))
<1>1. \A s \in Moved(a, pools) : OwnsPorts(a, s, a.allocated[s])
  BY NoneAssumption
     DEF Moved, Coherent, PortsIndex, Holds, OwnsPorts, TypeOK, Alloc
<1>2. HasFields(SetPools(a, pools))
  BY Zenon, <1>1 DEF SetPools, Coherent, TypeOK, HasFields
<1> QED
  BY Zenon, <1>1, <1>2 DEF SetPools, Coherent, TypeOK, Rearranged

(* A new configuration keeps the allocator coherent: every service keeps   *)
(* its address, ports and key, and is counted where its address now is.    *)
LEMMA SetPoolsCoherent ==
    ASSUME NEW a, Coherent(a), NEW pools \in Pools
    PROVE  LET v == SetPools(a, pools)
           IN /\ Coherent(v)
              /\ v.pools = IF PoolsRefused(a, pools) THEN a.pools ELSE pools
              /\ \A s \in Svc :
                    /\ (v.allocated[s] = None) <=> (a.allocated[s] = None)
                    /\ a.allocated[s] # None =>
                          /\ v.allocated[s].ip = a.allocated[s].ip
                          /\ v.allocated[s].ports = a.allocated[s].ports
                          /\ v.allocated[s].key = a.allocated[s].key
<1> DEFINE v == SetPools(a, pools)
<1>1. CASE PoolsRefused(a, pools)
  BY <1>1 DEF SetPools
<1>2. CASE ~PoolsRefused(a, pools)
  <2>1. Rearranged(a, pools, v)
    BY <1>2, SetPoolsFields
  <2> HIDE DEF v
  <2>2. \A s \in Svc : a.allocated[s] # None =>
           /\ a.allocated[s] \in Alloc
           /\ poolFor(pools, a.allocated[s].ip) \in PoolName
    BY <1>2, PoolForType DEF PoolsRefused, Coherent, TypeOK
  <2>3. \A s \in Svc :
           /\ (v.allocated[s] = None) <=> (a.allocated[s] = None)
           /\ a.allocated[s] # None =>
                 /\ v.allocated[s] \in Alloc
                 /\ v.allocated[s].ip = a.allocated[s].ip
                 /\ v.allocated[s].ports = a.allocated[s].ports
                 /\ v.allocated[s].key = a.allocated[s].key
                 /\ v.allocated[s].pool = poolFor(pools, a.allocated[s].ip)
    <3> SUFFICES ASSUME NEW s \in Svc
                 PROVE  /\ (v.allocated[s] = None) <=> (a.allocated[s] = None)
                        /\ a.allocated[s] # None =>
                           /\ v.allocated[s] \in Alloc
                           /\ v.allocated[s].ip = a.allocated[s].ip
                           /\ v.allocated[s].ports = a.allocated[s].ports
                           /\ v.allocated[s].key = a.allocated[s].key
                           /\ v.allocated[s].pool = poolFor(pools, a.allocated[s].ip)
      OBVIOUS
    <3>1. CASE s \notin Moved(a, pools)
      BY <2>1, <2>2, <3>1 DEF Rearranged, Moved
    <3>2. CASE s \in Moved(a, pools)
      <4> DEFINE al == a.allocated[s]
                 n  == poolFor(pools, a.allocated[s].ip)
      <4>1. v.allocated[s] = [al EXCEPT !.pool = n]
        BY <2>1, <3>2 DEF Rearranged
      <4>2. al # None /\ al \in Alloc /\ n \in PoolName
        BY <2>2, <3>2 DEF Moved
      <4> HIDE DEF al, n
      <4>3. /\ v.allocated[s] \in Alloc
            /\ v.allocated[s].ip = al.ip
            /\ v.allocated[s].ports = al.ports
            /\ v.allocated[s].key = al.key
            /\ v.allocated[s].pool = n
        BY <4>1, <4>2 DEF Alloc
      <4> QED
        BY <4>2, <4>3, NoneAssumption DEF al, n
    <3> QED
      BY <3>1, <3>2
  <2>4. \A s \in Svc, i \in IP : Holds(v, s, i) <=> Holds(a, s, i)
    BY <2>3 DEF Holds
  <2>5. \A n \in PoolName :
           /\ IsFiniteSet(Leaving(a, pools, n)) /\ IsFiniteSet(Entering(a, pools, n))
           /\ \A i \in IP : /\ IsFiniteSet(OnIP(a, Leaving(a, pools, n), i))
                            /\ IsFiniteSet(OnIP(a, Entering(a, pools, n), i))
    BY FiniteAssumption, FS_Subset DEF Leaving, Entering, Moved, OnIP
  <2>6. TypeOK(v)
    <3>1. v.allocated \in [Svc -> Alloc \cup {None}]
      <4>1. \A s \in Svc : v.allocated[s] \in Alloc \cup {None}
        BY <2>3
      <4> QED
        BY <2>1, <4>1 DEF Rearranged
    <3>2. v.poolServices \in [PoolName -> Int]
      BY <2>1, <2>5, FS_CardinalityType DEF Rearranged, Coherent, TypeOK
    <3>3. v.poolIPsInUse \in [PoolName -> [IP -> Int]]
      BY <2>1, <2>5, FS_CardinalityType DEF Rearranged, Coherent, TypeOK
    <3> QED
      BY Zenon, <2>1, <3>1, <3>2, <3>3, TypeByField DEF Rearranged, Coherent, TypeOK
  <2>7. PortsIndex(v)
    BY <2>1, <2>3, <2>4 DEF Coherent, PortsIndex, Rearranged, Holds
  <2>8. ServicesIndex(v)
    BY <2>1, <2>4 DEF Coherent, ServicesIndex, Rearranged
  <2>9. KeyIndex(v)
    BY SMTT(20), <2>1, <2>3, <2>4 DEF Coherent, KeyIndex, Rearranged, Holds
  <2>10. SharersAgree(v)
    BY <2>3, <2>4 DEF Coherent, SharersAgree, Holds
  <2>11. PoolIndex(v)
    BY Zenon, <2>1, <2>3 DEF PoolIndex, Rearranged
  <2>12. CountsExact(v)
    <3> SUFFICES ASSUME NEW n \in PoolName
                 PROVE  /\ v.poolServices[n] = Cardinality(UsersInPool(v, n))
                        /\ \A i \in IP :
                             v.poolIPsInUse[n][i] = Cardinality(UsersOfIPInPool(v, n, i))
      BY Zenon DEF CountsExact
    <3> DEFINE S == UsersInPool(a, n)
               O == Leaving(a, pools, n)
               I == Entering(a, pools, n)
    <3>1. O \subseteq S /\ I \cap S = {} /\ IsFiniteSet(S)
      BY FiniteAssumption, FS_Subset DEF Leaving, Entering, Moved, UsersInPool
    <3>2. UsersInPool(v, n) = (S \ O) \cup I
      BY <2>3 DEF UsersInPool, Leaving, Entering, Moved
    <3>3. /\ v.poolServices[n] = a.poolServices[n] - Cardinality(O) + Cardinality(I)
          /\ a.poolServices[n] = Cardinality(S)
      BY <2>1 DEF Rearranged, Coherent, CountsExact
    <3>4. v.poolServices[n] = Cardinality(UsersInPool(v, n))
      BY SMTT(30), <2>5, <3>1, <3>2, <3>3, CardinalityMove
    <3>5. ASSUME NEW i \in IP
          PROVE  v.poolIPsInUse[n][i] = Cardinality(UsersOfIPInPool(v, n, i))
      <4> DEFINE Si == UsersOfIPInPool(a, n, i)
                 Oi == OnIP(a, O, i)
                 Ii == OnIP(a, I, i)
      <4>1. Oi \subseteq Si /\ Ii \cap Si = {} /\ IsFiniteSet(Si)
        BY <3>1, FS_Subset DEF UsersOfIPInPool, OnIP
      <4>2. UsersOfIPInPool(v, n, i) = (Si \ Oi) \cup Ii
        <5>1. \A s \in UsersInPool(v, n) : v.allocated[s].ip = a.allocated[s].ip
          BY <2>3 DEF UsersInPool
        <5> HIDE DEF S, O, I
        <5> QED
          BY <3>2, <5>1 DEF UsersOfIPInPool, OnIP, S
      <4>3. /\ v.poolIPsInUse[n][i] =
                 a.poolIPsInUse[n][i] - Cardinality(Oi) + Cardinality(Ii)
            /\ a.poolIPsInUse[n][i] = Cardinality(Si)
        BY <2>1 DEF Rearranged, Coherent, CountsExact
      <4> QED
        BY <2>5, <4>1, <4>2, <4>3, CardinalityMove
    <3> QED
      BY <3>4, <3>5
  <2>13. v.pools = pools /\ ~v.panicked
    BY <2>1 DEF Rearranged, Coherent
  <2> QED
    BY SMTT(30), <1>2, <2>3, <2>6, <2>7, <2>8, <2>9, <2>10, <2>11, <2>12, <2>13 DEF Coherent, v
<1> QED
  BY <1>1, <1>2

-----------------------------------------------------------------------------
(***************************************************************************)
(* The loop of SetPools.                                                   *)
(***************************************************************************)

(* Pools and allocations determine the rest of a consistent allocator.     *)
LEMMA Determined ==
    ASSUME NEW a, Consistent(a), NEW b, Consistent(b),
           a.pools = b.pools, a.allocated = b.allocated
    PROVE  a = b
<1>1. TypeOK(a) /\ TypeOK(b)
  BY Zenon DEF Consistent
<1>2. \A s \in Svc, i \in IP : Holds(a, s, i) <=> Holds(b, s, i)
  BY Zenon DEF Holds
<1>3. a.portsInUse = b.portsInUse
  <2>1. ASSUME NEW i \in IP, NEW q \in Port
        PROVE  a.portsInUse[i][q] = b.portsInUse[i][q]
    <3>1. a.portsInUse[i][q] \in Svc \cup {None} /\ b.portsInUse[i][q] \in Svc \cup {None}
      BY <1>1 DEF TypeOK
    <3>2. \A s \in Svc : a.portsInUse[i][q] = s <=> b.portsInUse[i][q] = s
      <4>1. \A s \in Svc : a.portsInUse[i][q] = s <=> Holds(a, s, i) /\ q \in a.allocated[s].ports
        BY DEF Consistent, PortsIndex
      <4>2. \A s \in Svc : b.portsInUse[i][q] = s <=> Holds(b, s, i) /\ q \in b.allocated[s].ports
        BY DEF Consistent, PortsIndex
      <4> QED
        BY <1>2, <4>1, <4>2
    <3> QED
      BY <3>1, <3>2, NoneAssumption
  <2>2. /\ a.portsInUse \in [IP -> [Port -> Svc \cup {None}]]
        /\ b.portsInUse \in [IP -> [Port -> Svc \cup {None}]]
    BY <1>1 DEF TypeOK
  <2> QED
    BY <2>1, <2>2
<1>4. a.servicesOnIP = b.servicesOnIP
  <2>1. ASSUME NEW i \in IP
        PROVE  a.servicesOnIP[i] = b.servicesOnIP[i]
    <3>1. a.servicesOnIP[i] = {s \in Svc : Holds(a, s, i)}
      BY Zenon DEF Consistent, ServicesIndex
    <3>2. b.servicesOnIP[i] = {s \in Svc : Holds(b, s, i)}
      BY Zenon DEF Consistent, ServicesIndex
    <3> QED
      BY <1>2, <3>1, <3>2
  <2>2. a.servicesOnIP \in [IP -> SUBSET Svc] /\ b.servicesOnIP \in [IP -> SUBSET Svc]
    BY <1>1 DEF TypeOK
  <2> QED
    BY <2>1, <2>2
<1>5. a.sharingKeyForIP = b.sharingKeyForIP
  <2>1. ASSUME NEW i \in IP
        PROVE  a.sharingKeyForIP[i] = b.sharingKeyForIP[i]
    <3>1. /\ \A s \in Svc : Holds(a, s, i) => a.sharingKeyForIP[i] = a.allocated[s].key
          /\ a.sharingKeyForIP[i] # None => \E s \in Svc : Holds(a, s, i)
      BY Zenon DEF Consistent, KeyIndex
    <3>2. /\ \A s \in Svc : Holds(b, s, i) => b.sharingKeyForIP[i] = b.allocated[s].key
          /\ b.sharingKeyForIP[i] # None => \E s \in Svc : Holds(b, s, i)
      BY Zenon DEF Consistent, KeyIndex
    <3> QED
      BY <1>2, <3>1, <3>2
  <2>2. /\ a.sharingKeyForIP \in [IP -> Key \cup {None}]
        /\ b.sharingKeyForIP \in [IP -> Key \cup {None}]
    BY <1>1 DEF TypeOK
  <2> QED
    BY <2>1, <2>2
<1>6. /\ \A n \in PoolName : UsersInPool(a, n) = UsersInPool(b, n)
      /\ \A n \in PoolName, i \in IP : UsersOfIPInPool(a, n, i) = UsersOfIPInPool(b, n, i)
  BY Zenon DEF UsersInPool, UsersOfIPInPool
<1>7. a.poolServices = b.poolServices
  <2>1. \A n \in PoolName : a.poolServices[n] = b.poolServices[n]
    BY Zenon, <1>6 DEF Consistent, CountsExact
  <2>2. a.poolServices \in [PoolName -> Int] /\ b.poolServices \in [PoolName -> Int]
    BY <1>1 DEF TypeOK
  <2> QED
    BY <2>1, <2>2
<1>8. a.poolIPsInUse = b.poolIPsInUse
  <2>1. \A n \in PoolName : \A i \in IP : a.poolIPsInUse[n][i] = b.poolIPsInUse[n][i]
    BY Zenon, <1>6 DEF Consistent, CountsExact
  <2>2. /\ a.poolIPsInUse \in [PoolName -> [IP -> Int]]
        /\ b.poolIPsInUse \in [PoolName -> [IP -> Int]]
    BY <1>1 DEF TypeOK
  <2> QED
    BY <2>1, <2>2
<1>9. a.panicked = b.panicked
  BY <1>1 DEF TypeOK, Consistent
<1>10. HasFields(a) /\ HasFields(b)
  BY <1>1 DEF TypeOK, HasFields
<1> QED
  BY Zenon, <1>3, <1>4, <1>5, <1>7, <1>8, <1>9, <1>10 DEF HasFields

(* An allocation under the pool that owns its address now.                 *)
Renamed(al, pools) ==
    IF al = None THEN None ELSE [al EXCEPT !.pool = poolFor(pools, al.ip)]

(* Renaming leaves an allocation whose address is the same, and renaming   *)
(* it again leaves it as it is.                                            *)
LEMMA RenamedIs ==
    ASSUME NEW pools \in Pools, NEW al \in Alloc, poolFor(pools, al.ip) # None
    PROVE  LET r == Renamed(al, pools)
           IN /\ r \in Alloc
              /\ r.ip = al.ip /\ r.ports = al.ports /\ r.key = al.key
              /\ r.pool = poolFor(pools, al.ip)
              /\ Renamed(r, pools) = r
              /\ poolFor(pools, al.ip) = al.pool => r = al
<1> DEFINE n == poolFor(pools, al.ip)
           r == Renamed(al, pools)
<1>1. n \in PoolName
  BY Zenon, PoolForType
<1>2. al # None
  BY NoneAssumption
<1>3. r = [al EXCEPT !.pool = n]
  BY Zenon, <1>2 DEF Renamed
<1> HIDE DEF n
<1>4. al = [pool |-> al.pool, ip |-> al.ip, ports |-> al.ports, key |-> al.key]
  BY DEF Alloc
<1>5. r = [pool |-> n, ip |-> al.ip, ports |-> al.ports, key |-> al.key]
  <2> HIDE DEF r
  <2> QED
    BY <1>3, <1>4
<1>6. al.ip \in IP /\ al.ports \in (SUBSET Port) \ {{}} /\ al.key \in Key
  BY DEF Alloc
<1> HIDE DEF r
<1>7. r \in Alloc
  BY Zenon, <1>1, <1>5, <1>6 DEF Alloc
<1>8. r.ip = al.ip /\ r.ports = al.ports /\ r.key = al.key /\ r.pool = n
  BY <1>5
<1>9. [r EXCEPT !.pool = n] = r
  BY <1>5
<1>10. n = al.pool => r = al
  BY Zenon, <1>4, <1>5
<1>11. Renamed(r, pools) = [r EXCEPT !.pool = n]
  <2>1. r # None
    BY <1>7, NoneAssumption
  <2> QED
    BY Zenon, <1>8, <2>1 DEF Renamed, n
<1> QED
  BY Zenon, <1>7, <1>8, <1>9, <1>10, <1>11 DEF n, r

(* One round of the loop renames one allocation and keeps the indexes.     *)
LEMMA RearrangeIs ==
    ASSUME NEW a, Consistent(a), a.pools \in Pools, NEW s \in Svc,
           a.allocated[s] # None => poolFor(a.pools, a.allocated[s].ip) # None
    PROVE  /\ Consistent(Rearrange(a, s))
           /\ Rearrange(a, s).pools = a.pools
           /\ Rearrange(a, s).allocated =
                 [a.allocated EXCEPT ![s] = Renamed(a.allocated[s], a.pools)]
<1> DEFINE al == a.allocated[s]
           r == Renamed(al, a.pools)
<1>1. a.allocated \in [Svc -> Alloc \cup {None}]
  BY DEF Consistent, TypeOK
<1>2. CASE al = None
  <2>1. Rearrange(a, s) = a /\ r = al
    BY Zenon, <1>2 DEF Rearrange, Renamed
  <2> HIDE DEF al, r
  <2>2. [a.allocated EXCEPT ![s] = al] = a.allocated
    BY <1>1 DEF al
  <2> QED
    BY Zenon, <2>1, <2>2 DEF al, r
<1>3. CASE al # None
  <2>1. al \in Alloc /\ poolFor(a.pools, al.ip) # None
    BY <1>1, <1>3
  <2>2. /\ r \in Alloc
        /\ r.ip = al.ip /\ r.ports = al.ports /\ r.key = al.key
        /\ poolFor(a.pools, al.ip) = al.pool => r = al
    BY Zenon, <2>1, RenamedIs
  <2>3. r = [al EXCEPT !.pool = poolFor(a.pools, al.ip)]
    BY Zenon, <1>3 DEF Renamed
  <2>4. CASE poolFor(a.pools, al.ip) = al.pool
    <3>1. Rearrange(a, s) = a /\ r = al
      BY Zenon, <1>3, <2>2, <2>4 DEF Rearrange
    <3> HIDE DEF al, r
    <3>2. [a.allocated EXCEPT ![s] = al] = a.allocated
      BY <1>1 DEF al
    <3> QED
      BY Zenon, <3>1, <3>2 DEF al, r
  <2>5. CASE poolFor(a.pools, al.ip) # al.pool
    <3> DEFINE u == Unassign(a, s)
               v == assign(u, s, r)
    <3>1. Rearrange(a, s) = v
      BY Zenon, <1>3, <2>3, <2>5 DEF Rearrange
    <3>2. /\ Consistent(u)
          /\ u.pools = a.pools
          /\ u.allocated = [a.allocated EXCEPT ![s] = None]
      BY Zenon, UnassignConsistent
    <3> HIDE DEF u, r, al
    <3>3. /\ u.allocated[s] = None
          /\ \A t \in Svc \ {s} : u.allocated[t] = a.allocated[t]
          /\ [u.allocated EXCEPT ![s] = r] = [a.allocated EXCEPT ![s] = r]
      BY <1>1, <3>2
    <3>4. Unassign(u, s) = u
      BY Zenon, <3>3 DEF Unassign
    <3>5. Recorded(u, s, r, v)
      <4>1. TypeOK(u) /\ ~u.panicked
        BY Zenon, <3>2 DEF Consistent
      <4> QED
        BY Zenon, <2>2, <3>4, <4>1, AssignFields
    <3>6. Fits(u, s, r)
      <4> SUFFICES ASSUME NEW t \in Svc \ {s}, Holds(u, t, r.ip)
                   PROVE  /\ u.allocated[t].key = r.key
                          /\ r.key.sharing # NoSharing
                          /\ u.allocated[t].ports \cap r.ports = {}
        BY Zenon DEF Fits
      <4>1. u.allocated[t] = a.allocated[t] /\ t \in Svc /\ t # s /\ al.ip \in IP
        BY <2>1, <3>3 DEF Alloc
      <4>2. Holds(a, t, al.ip) /\ Holds(a, s, al.ip)
        BY Zenon, <1>3, <2>2, <4>1 DEF Holds, al
      <4>3. a.allocated[t].key = al.key /\ al.key.sharing # NoSharing
        BY Zenon, <4>1, <4>2 DEF Consistent, KeyIndex, SharersAgree, al
      <4>4. \A q \in Port : ~(q \in al.ports /\ q \in a.allocated[t].ports)
        <5>1. \A q \in Port, w \in Svc :
                 a.portsInUse[al.ip][q] = w <=> Holds(a, w, al.ip) /\ q \in a.allocated[w].ports
          BY <4>1 DEF Consistent, PortsIndex
        <5> QED
          BY <4>1, <4>2, <5>1 DEF al
      <4>5. al.ports \subseteq Port
        BY <2>1 DEF Alloc
      <4> QED
        BY Zenon, <2>2, <4>1, <4>3, <4>4, <4>5
    <3> HIDE DEF v
    <3>7. Consistent(v)
      BY Zenon, <2>2, <3>2, <3>3, <3>5, <3>6, RecordConsistent
    <3>8. v.pools = a.pools /\ v.allocated = [a.allocated EXCEPT ![s] = r]
      BY Zenon, <3>2, <3>3, <3>5 DEF Recorded
    <3> QED
      BY Zenon, <3>1, <3>7, <3>8 DEF r, al
  <2> QED
    BY <2>4, <2>5
<1> QED
  BY <1>2, <1>3

(* A non-empty set of numbers has a least element.                         *)
LEMMA LeastIndex ==
    ASSUME NEW T \in SUBSET Nat, T # {}
    PROVE  \E x \in T : \A y \in T : ~(y < x)
<1>1. PICK x \in T : \A y \in T : ~(<<y, x>> \in OpToRel(<, Nat))
  BY Zenon, NatLessThanWellFounded, WFMin
<1>2. \A y \in T : ~(y < x)
  BY Zenon, <1>1 DEF OpToRel
<1> QED
  BY <1>2

(* Induction, for a set of numbers.                                        *)
LEMMA InductiveSet ==
    ASSUME NEW T, 0 \in T, \A n \in Nat : n \in T => n + 1 \in T
    PROVE  Nat \subseteq T
<1> DEFINE U == Nat \ T
<1> SUFFICES ASSUME U # {}
             PROVE  FALSE
  OBVIOUS
<1>1. PICK m \in U : \A k \in U : ~(k < m)
  <2>1. U \in SUBSET Nat
    OBVIOUS
  <2> HIDE DEF U
  <2> QED
    BY Zenon, <2>1, LeastIndex
<1>2. m # 0 /\ m \in Nat /\ m - 1 \in Nat /\ m - 1 < m
  BY <1>1
<1>3. m - 1 \in T
  BY <1>1, <1>2
<1> QED
  BY <1>1, <1>2, <1>3

(* The rounds of the loop, one after the other.                            *)
AreRounds(t, a, pools, order) ==
    /\ t[0] = [a EXCEPT !.pools = pools]
    /\ \A k \in 1..Len(order) : t[k] = Rearrange(t[k - 1], order[k])
    /\ SetPoolsLoop(a, pools, order) = t[Len(order)]

(* The loop has rounds, and its result is that of the last.                *)
LEMMA Rounds ==
    ASSUME NEW a, NEW pools, ~PoolsRefused(a, pools), NEW order, Len(order) \in Nat
    PROVE  \E t : AreRounds(t, a, pools, order)
<1> DEFINE first == [a EXCEPT !.pools = pools]
           T == {n \in Nat : \E g : g = [k \in 0..n |-> IF k = 0 THEN first
                                                        ELSE Rearrange(g[k - 1], order[k])]}
           rounds[k \in 0..Len(order)] ==
               IF k = 0 THEN [a EXCEPT !.pools = pools] ELSE Rearrange(rounds[k - 1], order[k])
<1> HIDE DEF first
<1>1. 0 \in T
  <2> DEFINE g == [k \in 0..0 |-> first]
  <2>1. g = [k \in 0..0 |-> IF k = 0 THEN first ELSE Rearrange(g[k - 1], order[k])]
    OBVIOUS
  <2>2. 0 \in Nat
    OBVIOUS
  <2> HIDE DEF g
  <2> QED
    BY Zenon, <2>1, <2>2
<1>2. ASSUME NEW n \in Nat, n \in T
      PROVE  n + 1 \in T
  <2>1. PICK g : g = [k \in 0..n |-> IF k = 0 THEN first ELSE Rearrange(g[k - 1], order[k])]
    BY Zenon, <1>2
  <2> DEFINE new == Rearrange(g[n], order[n + 1])
             h == [k \in 0..(n + 1) |-> IF k = n + 1 THEN new ELSE g[k]]
  <2> HIDE DEF new
  <2>2. ASSUME NEW k \in 0..(n + 1)
        PROVE  h[k] = IF k = 0 THEN first ELSE Rearrange(h[k - 1], order[k])
    <3>1. CASE k = n + 1
      <4>1. h[k] = new /\ k # 0 /\ h[k - 1] = g[n]
        BY <3>1
      <4> HIDE DEF h
      <4> QED
        BY Zenon, <3>1, <4>1 DEF new
    <3>2. CASE k # n + 1
      <4>1. k \in 0..n /\ h[k] = g[k] /\ (k # 0 => h[k - 1] = g[k - 1])
        BY <3>2
      <4>2. g[k] = IF k = 0 THEN first ELSE Rearrange(g[k - 1], order[k])
        BY Zenon, <2>1, <4>1
      <4> HIDE DEF h
      <4> QED
        BY Zenon, <4>1, <4>2
    <3> QED
      BY <3>1, <3>2
  <2>3. h = [k \in 0..(n + 1) |-> h[k]] /\ n + 1 \in Nat
    OBVIOUS
  <2> HIDE DEF h
  <2>4. h = [k \in 0..(n + 1) |-> IF k = 0 THEN first ELSE Rearrange(h[k - 1], order[k])]
    BY Zenon, <2>2, <2>3
  <2> QED
    BY Zenon, <2>3, <2>4
<1> HIDE DEF T
<1>3. Len(order) \in T
  BY <1>1, <1>2, InductiveSet
<1>4. PICK g : g = [k \in 0..Len(order) |-> IF k = 0 THEN first ELSE Rearrange(g[k - 1], order[k])]
  BY Zenon, <1>3 DEF T
<1>5. rounds = [k \in 0..Len(order) |-> IF k = 0 THEN [a EXCEPT !.pools = pools]
                                        ELSE Rearrange(rounds[k - 1], order[k])]
  BY Zenon, <1>4 DEF first
<1>6. SetPoolsLoop(a, pools, order) = rounds[Len(order)]
  BY DEF SetPoolsLoop
<1> HIDE DEF rounds
<1>7. 0 \in 0..Len(order) /\ \A k \in 1..Len(order) : k \in 0..Len(order) /\ k # 0
  OBVIOUS
<1>8. /\ rounds[0] = [a EXCEPT !.pools = pools]
      /\ \A k \in 1..Len(order) : rounds[k] = Rearrange(rounds[k - 1], order[k])
  BY Zenon, <1>5, <1>7
<1>9. AreRounds(rounds, a, pools, order)
  BY Zenon, <1>6, <1>8 DEF AreRounds
<1> QED
  BY Zenon, <1>9

(* In whatever order the loop visits all services, and however often, it   *)
(* leaves what SetPools states.                                            *)
LEMMA LoopIs ==
    ASSUME NEW a, Coherent(a), NEW pools \in Pools, NEW order \in Seq(Svc),
           \A s \in Svc : \E k \in DOMAIN order : order[k] = s
    PROVE  SetPoolsLoop(a, pools, order) = SetPools(a, pools)
<1>1. CASE PoolsRefused(a, pools)
  BY Zenon, <1>1 DEF SetPoolsLoop, SetPools
<1>2. CASE ~PoolsRefused(a, pools)
  <2>1. Len(order) \in Nat /\ DOMAIN order = 1..Len(order)
    OBVIOUS
  <2>2. PICK t : AreRounds(t, a, pools, order)
    BY Zenon, <1>2, <2>1, Rounds
  <2> DEFINE Visited(k) == {order[i] : i \in 1..k}
             After(k) == [s \in Svc |-> IF s \in Visited(k) THEN Renamed(a.allocated[s], pools)
                                        ELSE a.allocated[s]]
             Good(k) == Consistent(t[k]) /\ t[k].pools = pools /\ t[k].allocated = After(k)
             T == {k \in Nat : k <= Len(order) => Good(k)}
  <2>3. /\ a.allocated \in [Svc -> Alloc \cup {None}]
        /\ \A s \in Svc : a.allocated[s] # None =>
              a.allocated[s] \in Alloc /\ poolFor(pools, a.allocated[s].ip) # None
    BY <1>2 DEF Coherent, TypeOK, PoolsRefused
  <2>4. Good(0)
    <3> DEFINE f == t[0]
    <3>1. TypeOK(a) /\ f = [a EXCEPT !.pools = pools]
      BY Zenon, <2>2 DEF Coherent, AreRounds
    <3> HIDE DEF f
    <3>2. /\ HasFields(f)
          /\ f.pools = pools /\ f.allocated = a.allocated
          /\ f.sharingKeyForIP = a.sharingKeyForIP /\ f.portsInUse = a.portsInUse
          /\ f.servicesOnIP = a.servicesOnIP /\ f.poolIPsInUse = a.poolIPsInUse
          /\ f.poolServices = a.poolServices /\ f.panicked = a.panicked
      BY Zenon, <3>1 DEF TypeOK, HasFields
    <3>3. TypeOK(f)
      BY Zenon, <3>1, <3>2, TypeByField DEF TypeOK
    <3>4. Consistent(f)
      <4>1. \A s, i : Holds(f, s, i) <=> Holds(a, s, i)
        BY Zenon, <3>2 DEF Holds
      <4>2. PortsIndex(f)
        BY <3>2, <4>1 DEF Coherent, PortsIndex
      <4>3. ServicesIndex(f)
        BY <3>2, <4>1 DEF Coherent, ServicesIndex
      <4>4. KeyIndex(f) /\ SharersAgree(f)
        BY <3>2, <4>1 DEF Coherent, KeyIndex, SharersAgree
      <4>5. /\ \A n : UsersInPool(f, n) = UsersInPool(a, n)
            /\ \A n, i : UsersOfIPInPool(f, n, i) = UsersOfIPInPool(a, n, i)
        BY Zenon, <3>2 DEF UsersInPool, UsersOfIPInPool
      <4>6. CountsExact(f)
        BY <3>2, <4>5 DEF Coherent, CountsExact
      <4> QED
        BY Zenon, <3>2, <3>3, <4>2, <4>3, <4>4, <4>6 DEF Coherent, Consistent
    <3>5. Visited(0) = {}
      OBVIOUS
    <3>6. After(0) = a.allocated
      BY <2>3, <3>5
    <3> QED
      BY Zenon, <3>2, <3>4, <3>6 DEF f
  <2>5. ASSUME NEW k \in Nat, k + 1 <= Len(order), Good(k)
        PROVE  Good(k + 1)
    <3> DEFINE x == t[k]
               s == order[k + 1]
    <3>1. k + 1 \in 1..Len(order) /\ (k + 1) - 1 = k
      BY <2>1, <2>5
    <3>2. t[k + 1] = Rearrange(x, s) /\ s \in Svc
      <4>1. t[k + 1] = Rearrange(t[(k + 1) - 1], order[k + 1])
        BY Zenon, <2>2, <3>1 DEF AreRounds
      <4>2. order[k + 1] \in Svc
        BY <3>1
      <4> QED
        BY Zenon, <3>1, <4>1, <4>2
    <3>3. /\ Consistent(x) /\ x.pools = pools /\ x.allocated = After(k)
      BY Zenon, <2>5
    <3>4. x.allocated[s] = IF s \in Visited(k) THEN Renamed(a.allocated[s], pools)
                           ELSE a.allocated[s]
      BY Zenon, <3>2, <3>3
    <3>5. /\ x.allocated[s] # None => poolFor(pools, x.allocated[s].ip) # None
          /\ Renamed(x.allocated[s], pools) = Renamed(a.allocated[s], pools)
      <4>1. CASE a.allocated[s] = None
        BY Zenon, <3>4, <4>1 DEF Renamed
      <4>2. CASE a.allocated[s] # None
        <5> DEFINE al == a.allocated[s]
                   y == x.allocated[s]
        <5>1. al \in Alloc /\ poolFor(pools, al.ip) # None
          BY Zenon, <2>3, <3>2, <4>2
        <5>2. Renamed(al, pools).ip = al.ip /\ Renamed(Renamed(al, pools), pools) = Renamed(al, pools)
          BY Zenon, <5>1, RenamedIs
        <5>3. y = Renamed(al, pools) \/ y = al
          BY Zenon, <3>4
        <5> HIDE DEF al, y, s, x
        <5>4. poolFor(pools, y.ip) # None /\ Renamed(y, pools) = Renamed(al, pools)
          BY Zenon, <5>1, <5>2, <5>3
        <5> QED
          BY Zenon, <5>4 DEF al, y
      <4> QED
        BY <4>1, <4>2
    <3>6. /\ Consistent(t[k + 1]) /\ t[k + 1].pools = pools
          /\ t[k + 1].allocated = [x.allocated EXCEPT ![s] = Renamed(a.allocated[s], pools)]
      <4> HIDE DEF x, s
      <4>1. /\ Consistent(x) /\ x.pools \in Pools /\ s \in Svc
            /\ x.allocated[s] # None => poolFor(x.pools, x.allocated[s].ip) # None
        BY Zenon, <3>2, <3>3, <3>5
      <4>2. /\ Consistent(Rearrange(x, s)) /\ Rearrange(x, s).pools = x.pools
            /\ Rearrange(x, s).allocated =
                  [x.allocated EXCEPT ![s] = Renamed(x.allocated[s], x.pools)]
        BY Zenon, <4>1, RearrangeIs
      <4> QED
        BY Zenon, <3>2, <3>3, <3>5, <4>2
    <3>7. Visited(k + 1) = Visited(k) \cup {s}
      <4>1. 1..(k + 1) = (1..k) \cup {k + 1}
        OBVIOUS
      <4> QED
        BY Zenon, <4>1
    <3> DEFINE V == Visited(k)
               W == Visited(k + 1)
               R(r) == Renamed(a.allocated[r], pools)
    <3>8. [[r \in Svc |-> IF r \in V THEN R(r) ELSE a.allocated[r]] EXCEPT ![s] = R(s)]
             = [r \in Svc |-> IF r \in W THEN R(r) ELSE a.allocated[r]]
      <4>1. W = V \cup {s} /\ s \in Svc
        BY Zenon, <3>2, <3>7
      <4> DEFINE g == [r \in Svc |-> IF r \in V THEN R(r) ELSE a.allocated[r]]
                 h == [r \in Svc |-> IF r \in W THEN R(r) ELSE a.allocated[r]]
      <4> HIDE DEF V, W, s, R
      <4>2. \A r \in Svc : [g EXCEPT ![s] = R(s)][r] = h[r]
        BY <4>1
      <4>3. [g EXCEPT ![s] = R(s)] = [r \in Svc |-> [g EXCEPT ![s] = R(s)][r]]
        BY Zenon
      <4>4. h = [r \in Svc |-> h[r]]
        BY Zenon
      <4> HIDE DEF g, h
      <4>5. [g EXCEPT ![s] = R(s)] = h
        BY Zenon, <4>2, <4>3, <4>4
      <4> QED
        BY Zenon, <4>5 DEF g, h
    <3> QED
      BY Zenon, <3>3, <3>6, <3>8
  <2>6. Good(Len(order))
    <3> HIDE DEF Good
    <3>1. 0 \in T
      BY <2>4
    <3>2. ASSUME NEW k \in Nat, k \in T
          PROVE  k + 1 \in T
      BY <2>1, <2>5, <3>2
    <3>3. T = {k \in Nat : k <= Len(order) => Good(k)}
      OBVIOUS
    <3> HIDE DEF T
    <3>4. Len(order) \in T
      BY Zenon, <2>1, <3>1, <3>2, InductiveSet
    <3> QED
      BY <2>1, <3>3, <3>4
  <2> DEFINE v == SetPools(a, pools)
  <2>7. Coherent(v) /\ v.pools = pools
    BY Zenon, <1>2, SetPoolsCoherent
  <2>8. v.allocated = [s \in Svc |-> IF s \in Moved(a, pools)
                                     THEN [a.allocated[s] EXCEPT
                                              !.pool = poolFor(pools, a.allocated[s].ip)]
                                     ELSE a.allocated[s]]
    <3>1. Rearranged(a, pools, v)
      BY Zenon, <1>2, SetPoolsFields
    <3> QED
      BY Zenon, <3>1 DEF Rearranged
  <2> HIDE DEF v
  <2>9. v.allocated = After(Len(order))
    <3>1. ASSUME NEW s \in Svc
          PROVE  /\ s \in Visited(Len(order))
                 /\ v.allocated[s] = Renamed(a.allocated[s], pools)
      <4>1. s \in Visited(Len(order))
        BY Zenon, <2>1
      <4>2. v.allocated[s] = IF s \in Moved(a, pools)
                             THEN [a.allocated[s] EXCEPT
                                      !.pool = poolFor(pools, a.allocated[s].ip)]
                             ELSE a.allocated[s]
        BY Zenon, <2>8
      <4>3. CASE a.allocated[s] = None
        BY Zenon, <4>1, <4>2, <4>3 DEF Renamed, Moved
      <4>4. CASE a.allocated[s] # None
        <5>1. CASE poolFor(pools, a.allocated[s].ip) = a.allocated[s].pool
          BY Zenon, <2>3, <4>1, <4>2, <4>4, <5>1, RenamedIs DEF Moved
        <5>2. CASE poolFor(pools, a.allocated[s].ip) # a.allocated[s].pool
          BY Zenon, <4>1, <4>2, <4>4, <5>2 DEF Renamed, Moved
        <5> QED
          BY Zenon, <5>1, <5>2
      <4> QED
        BY Zenon, <4>3, <4>4
    <3>2. v.allocated = [s \in Svc |-> v.allocated[s]]
      BY <2>8
    <3> HIDE DEF Visited
    <3> QED
      BY Zenon, <3>1, <3>2
  <2>10. Consistent(v)
    BY Zenon, <2>7 DEF Coherent, Consistent
  <2>11. t[Len(order)] = v
    BY Zenon, <2>6, <2>7, <2>9, <2>10, Determined
  <2> QED
    BY Zenon, <2>2, <2>11 DEF v, AreRounds
<1> QED
  BY <1>1, <1>2

-----------------------------------------------------------------------------
(***************************************************************************)
(* New, Allocate and AllocateFromPool.                                     *)
(***************************************************************************)

(* A new allocator is coherent.                                            *)
LEMMA NewCoherent == Coherent(New)
<1>1. TypeOK(New)
  BY DEF TypeOK, New
<1>2. \A n \in PoolName : UsersInPool(New, n) = {}
  BY DEF UsersInPool, New
<1>3. \A n \in PoolName, i \in IP : UsersOfIPInPool(New, n, i) = {}
  BY <1>2 DEF UsersOfIPInPool
<1>4. CountsExact(New)
  BY Zenon, <1>2, <1>3, FS_EmptySet DEF CountsExact, New
<1> QED
  BY Zenon, <1>1, <1>4, NoneAssumption
     DEF Coherent, PortsIndex, ServicesIndex, KeyIndex, SharersAgree, PoolIndex, New, Holds

(* The addresses AllocateFromPool and Allocate may return are addresses.   *)
LEMMA OfferType ==
    ASSUME NEW a, Coherent(a), NEW svc \in Svc, NEW req \in Request
    PROVE  /\ \A n : AllocateFromPool(a, svc, n, req) \subseteq IP
           /\ Allocate(a, svc, req) \subseteq IP
<1>1. a.allocated[svc] # None => Reassignable(a, svc, req) \subseteq IP
  BY DEF Reassignable, Coherent, TypeOK, Alloc
<1>2. ASSUME NEW n \in DOMAIN a.pools
      PROVE  FirstAssignable(a, svc, a.pools[n], req) \subseteq IP
  <2>1. a.pools \in Pools \cup {NoPools}
    BY DEF Coherent, TypeOK
  <2>2. a.pools[n].cidr \in Seq(IP)
    BY <2>1, PoolsAssumption DEF NoPools, Pool
  <2>3. \A i \in DOMAIN a.pools[n].cidr : a.pools[n].cidr[i] \in IP
    BY <2>2
  <2> QED
    BY <2>3 DEF FirstAssignable
<1>3. \A n : AllocateFromPool(a, svc, n, req) \subseteq IP
  BY <1>1, <1>2 DEF AllocateFromPool
<1>4. Allocate(a, svc, req) \subseteq IP
  BY <1>1, <1>3 DEF Allocate
<1> QED
  BY <1>3, <1>4

(* In a coherent allocator, services on one address have one non-empty     *)
(* sharing key, one backend key and different ports.                       *)
LEMMA CoherentSharing ==
    ASSUME NEW a, Coherent(a), NEW s \in Svc, NEW t \in Svc, s # t,
           a.allocated[s] # None, a.allocated[t] # None,
           a.allocated[s].ip = a.allocated[t].ip
    PROVE  /\ sharingOK(a.allocated[s].key, a.allocated[t].key)
           /\ a.allocated[s].ports \cap a.allocated[t].ports = {}
<1> DEFINE i == a.allocated[s].ip
<1>1. /\ i \in IP
      /\ a.allocated[s].ports \subseteq Port
      /\ a.allocated[t].ports \subseteq Port
  BY DEF Coherent, TypeOK, Alloc
<1>2. Holds(a, s, i) /\ Holds(a, t, i)
  BY DEF Holds
<1>3. /\ a.allocated[s].key = a.allocated[t].key
      /\ a.allocated[s].key.sharing # NoSharing
  BY Zenon, <1>1, <1>2 DEF Coherent, KeyIndex, SharersAgree
<1>4. a.allocated[s].ports \cap a.allocated[t].ports = {}
  <2> SUFFICES ASSUME NEW q \in Port, q \in a.allocated[s].ports,
                      q \in a.allocated[t].ports
               PROVE  FALSE
    BY <1>1
  <2>1. PortsIndex(a)
    BY Zenon DEF Coherent
  <2>2. a.portsInUse[i][q] = s /\ a.portsInUse[i][q] = t
    BY <1>1, <1>2, <2>1 DEF PortsIndex
  <2> QED
    BY <2>2
<1> QED
  BY <1>3, <1>4 DEF sharingOK

-----------------------------------------------------------------------------
(***************************************************************************)
(* The state machine.                                                      *)
(***************************************************************************)

(* Taking one of the addresses on offer leaves a coherent allocator.       *)
LEMMA TakeOneOfCoherent ==
    ASSUME Coherent(alloc), NEW svc \in Svc, NEW req \in Request,
           NEW offer \in SUBSET IP, TakeOneOf(offer, svc, req)
    PROVE  Coherent(alloc')
<1>1. CASE \E ip \in offer : alloc' = Assign(alloc, svc, ip, req)
  <2>1. PICK ip \in offer : alloc' = Assign(alloc, svc, ip, req)
    BY <1>1
  <2>2. Coherent(Assign(alloc, svc, ip, req))
    BY Zenon, AssignCoherent
  <2> QED
    BY <2>1, <2>2
<1>2. CASE UNCHANGED alloc
  BY <1>2
<1> QED
  BY <1>1, <1>2 DEF TakeOneOf

(* Every call leaves a coherent allocator behind.                          *)
LEMMA NextCoherent ==
    ASSUME Coherent(alloc), [CallNext]_callVars
    PROVE  Coherent(alloc')
<1>1. ASSUME NEW pools \in Pools, CallSetPools(pools)
      PROVE  Coherent(alloc')
  BY <1>1, SetPoolsCoherent DEF CallSetPools
<1>2. ASSUME NEW svc \in Svc, CallUnassign(svc)
      PROVE  Coherent(alloc')
  BY Zenon, <1>2, UnassignCoherent DEF CallUnassign
<1>3. ASSUME NEW svc \in Svc, NEW ip \in IP, NEW req \in Request,
             CallAssign(svc, ip, req)
      PROVE  Coherent(alloc')
  BY Zenon, <1>3, AssignCoherent DEF CallAssign
<1>4. ASSUME NEW svc \in Svc, NEW n \in PoolName, NEW req \in Request,
             CallAllocateFromPool(svc, n, req)
      PROVE  Coherent(alloc')
  BY <1>4, TakeOneOfCoherent, OfferType DEF CallAllocateFromPool
<1>5. ASSUME NEW svc \in Svc, NEW req \in Request, CallAllocate(svc, req)
      PROVE  Coherent(alloc')
  BY <1>5, TakeOneOfCoherent, OfferType DEF CallAllocate
<1>6. CASE UNCHANGED callVars
  BY <1>6 DEF callVars
<1> QED
  BY <1>1, <1>2, <1>3, <1>4, <1>5, <1>6 DEF CallNext

(* The inductive invariant holds in every reachable state.                 *)
THEOREM AlwaysCoherent == CallSpec => []Coherent(alloc)
<1>1. CallInit => Coherent(alloc)
  BY NewCoherent DEF CallInit
<1>2. Coherent(alloc) /\ [CallNext]_callVars => Coherent(alloc)'
  BY NextCoherent
<1> QED
  BY <1>1, <1>2, PTL DEF CallSpec

(* Every field of the allocator keeps its type.                            *)
THEOREM TypeCorrect == CallSpec => []TypeInv
BY AlwaysCoherent, PTL DEF Coherent, TypeInv

(* The "incoherent state" panic of Unassign is unreachable.                *)
THEOREM NeverPanics == CallSpec => []NoPanic
BY AlwaysCoherent, PTL DEF Coherent, NoPanic

(* portsInUse, servicesOnIP and sharingKeyForIP always say exactly what    *)
(* the allocations say.                                                    *)
THEOREM AlwaysIndexed == CallSpec => []IndexesExact
BY AlwaysCoherent, PTL DEF Coherent, IndexesExact

(* Services on one address have one non-empty sharing key, one backend key *)
(* and different ports.                                                    *)
THEOREM AlwaysSharingSafe == CallSpec => []SharingSafe
<1>1. Coherent(alloc) => SharingSafe
  BY CoherentSharing DEF SharingSafe
<1> QED
  BY <1>1, AlwaysCoherent, PTL

(* What Assign decides from the indexes is what the holdings of the others *)
(* call for.                                                               *)
THEOREM AlwaysDecidesByHoldings == CallSpec => []DecidesByHoldings
<1>1. ASSUME Coherent(alloc), NEW svc \in Svc, NEW ip \in IP, NEW req \in Request
      PROVE  Refused(alloc, svc, ip, req) <=>
                \/ poolFor(alloc.pools, ip) = None
                \/ \E t \in Svc \ {svc} :
                      /\ Holds(alloc, t, ip)
                      /\ ~(/\ sharingOK(alloc.allocated[t].key, req.key)
                           /\ alloc.allocated[t].ports \cap req.ports = {})
  <2>1. \A t \in Svc : Holds(alloc, t, ip) => alloc.allocated[t].key \in Key
    BY <1>1, NoneAssumption DEF Coherent, Holds, TypeOK, Alloc
  <2>2. \A k \in Key : sharingOK(k, req.key) <=> (k = req.key /\ req.key.sharing # NoSharing)
    BY <1>1 DEF sharingOK, Key, Request
  <2>3. Fits(alloc, svc, Wanted(alloc, ip, req)) <=>
          \A t \in Svc \ {svc} : Holds(alloc, t, ip) =>
             /\ alloc.allocated[t].key = req.key
             /\ req.key.sharing # NoSharing
             /\ alloc.allocated[t].ports \cap req.ports = {}
    BY DEF Fits, Wanted
  <2> QED
    BY <1>1, <2>1, <2>2, <2>3, RefusedIffNoFit
<1>2. Coherent(alloc) => DecidesByHoldings
  BY <1>1 DEF DecidesByHoldings
<1> QED
  BY <1>2, AlwaysCoherent, PTL

(* Every address handed out is in a pool of the configuration in force.    *)
THEOREM AlwaysInConfiguredPool == CallSpec => []InConfiguredPool
<1>1. Coherent(alloc) => InConfiguredPool
  BY NoneAssumption DEF Coherent, InConfiguredPool, TypeOK, Alloc
<1> QED
  BY <1>1, AlwaysCoherent, PTL

(* The counts of a pool are those of the allocations in it.                *)
THEOREM AlwaysCountsRight == CallSpec => []CountsRight
BY AlwaysCoherent, PTL DEF Coherent, CountsRight

(* The loop of SetPools comes to the same end in whatever order the Go map *)
(* hands it the services: it keeps the indexes consistent round by round,  *)
(* and pools and allocations determine the rest.                           *)
THEOREM AlwaysRearrangeInAnyOrder == CallSpec => []RearrangeInAnyOrder
<1>1. Coherent(alloc) => RearrangeInAnyOrder
  <2> SUFFICES ASSUME Coherent(alloc), NEW pools \in Pools, NEW order \in Visits
               PROVE  SetPoolsLoop(alloc, pools, order) = SetPools(alloc, pools)
    BY Zenon DEF RearrangeInAnyOrder
  <2>1. PICK k \in 0..(Cardinality(Svc) + 1) : order \in [1..k -> Svc]
    BY Zenon DEF Visits
  <2>2. Cardinality(Svc) \in Nat
    BY Zenon, FiniteAssumption, FS_CardinalityType
  <2>3. order \in Seq(Svc)
    BY <2>1, <2>2
  <2>4. \A s \in Svc : \E i \in DOMAIN order : order[i] = s
    BY Zenon DEF Visits
  <2> QED
    BY Zenon, <2>3, <2>4, LoopIs
<1> QED
  BY <1>1, AlwaysCoherent, PTL

-----------------------------------------------------------------------------
(***************************************************************************)
(* The allocator implements the address book: with Book, which forgets the *)
(* pool and the indexes, every call is a step of AddressBook that grants,  *)
(* refuses, releases or reconfigures with the same outcome.                *)
(***************************************************************************)

(* The abstract pool membership is the code's.                             *)
LEMMA SameUsable ==
    ASSUME NEW p, NEW ip
    PROVE  AB!InPool(p, ip) <=> Usable(p, ip)
BY DEF AB!InPool, Usable, Addrs

(* poolFor finds a pool for exactly the addresses the book allows.         *)
LEMMA SameAllowed ==
    ASSUME NEW ps \in Pools \cup {NoPools}, NEW ip
    PROVE  AB!Allowed(ps, ip) <=> poolFor(ps, ip) # None
<1>1. AB!Allowed(ps, ip) <=> \E n \in DOMAIN ps : Usable(ps[n], ip)
  BY SameUsable DEF AB!Allowed
<1> QED
  BY <1>1, PoolForType, PoolForFound

(* A service holds in the book what it holds in the allocator.             *)
LEMMA BookEntry ==
    ASSUME Coherent(alloc), NEW s \in Svc
    PROVE  /\ (Book[s] = None) <=> (alloc.allocated[s] = None)
           /\ alloc.allocated[s] # None =>
                 Book[s] = [ip    |-> alloc.allocated[s].ip,
                            ports |-> alloc.allocated[s].ports,
                            key   |-> alloc.allocated[s].key]
<1>1. CASE alloc.allocated[s] = None
  BY <1>1 DEF Book
<1>2. CASE alloc.allocated[s] # None
  <2> DEFINE h == [ip    |-> alloc.allocated[s].ip,
                   ports |-> alloc.allocated[s].ports,
                   key   |-> alloc.allocated[s].key]
  <2>1. alloc.allocated[s] \in Alloc
    BY <1>2 DEF Coherent, TypeOK
  <2>2. h \in Holding
    BY <2>1 DEF Alloc, Holding
  <2>3. Book[s] = h
    BY <1>2 DEF Book
  <2> QED
    BY <1>2, <2>2, <2>3, NoneAssumption
<1> QED
  BY <1>1, <1>2

(* Assign accepts exactly what the book can grant.                         *)
LEMMA SameGrantable ==
    ASSUME Coherent(alloc), NEW svc \in Svc, NEW ip \in IP, NEW req \in Request
    PROVE  AB!Grantable(svc, ip, req) <=> ~Refused(alloc, svc, ip, req)
<1>1. AB!Allowed(alloc.pools, ip) <=> poolFor(alloc.pools, ip) # None
  BY Zenon, SameAllowed DEF Coherent, TypeOK
<1>2. ASSUME NEW t \in Svc
      PROVE  (Book[t] # None /\ Book[t].ip = ip => AB!Compatible(Book[t], req))
               <=> (Holds(alloc, t, ip) =>
                      /\ alloc.allocated[t].key = req.key
                      /\ req.key.sharing # NoSharing
                      /\ alloc.allocated[t].ports \cap req.ports = {})
  <2>1. CASE alloc.allocated[t] = None
    BY Zenon, <2>1, BookEntry DEF Holds
  <2>2. CASE alloc.allocated[t] # None
    <3>1. /\ Book[t] # None
          /\ Book[t] = [ip    |-> alloc.allocated[t].ip,
                        ports |-> alloc.allocated[t].ports,
                        key   |-> alloc.allocated[t].key]
      BY <2>2, BookEntry, Zenon
    <3>2. /\ Book[t].ip = alloc.allocated[t].ip
          /\ Book[t].ports = alloc.allocated[t].ports
          /\ Book[t].key = alloc.allocated[t].key
      BY <3>1
    <3> QED
      BY <2>2, <3>1, <3>2 DEF AB!Compatible, Holds
  <2> QED
    BY <2>1, <2>2
<1>3. Fits(alloc, svc, Wanted(alloc, ip, req)) <=>
         \A t \in Svc \ {svc} : Holds(alloc, t, ip) =>
            /\ alloc.allocated[t].key = req.key
            /\ req.key.sharing # NoSharing
            /\ alloc.allocated[t].ports \cap req.ports = {}
  BY DEF Fits, Wanted
<1>4. AB!Grantable(svc, ip, req) <=>
         (poolFor(alloc.pools, ip) # None /\ Fits(alloc, svc, Wanted(alloc, ip, req)))
  BY <1>1, <1>2, <1>3 DEF AB!Grantable
<1> QED
  BY <1>4, RefusedIffNoFit

(* An accepted Assign is a grant of the address.                           *)
LEMMA AssignGrants ==
    ASSUME Coherent(alloc), NEW svc \in Svc, NEW ip \in IP, NEW req \in Request,
           ~Refused(alloc, svc, ip, req), alloc' = Assign(alloc, svc, ip, req)
    PROVE  /\ AB!Grantable(svc, ip, req)
           /\ Book' = [Book EXCEPT ![svc] =
                          [ip |-> ip, ports |-> req.ports, key |-> req.key]]
           /\ alloc'.pools = alloc.pools
<1>1. /\ alloc'.pools = alloc.pools
      /\ alloc'.allocated = [alloc.allocated EXCEPT ![svc] = Wanted(alloc, ip, req)]
  BY AssignCoherent
<1>2. Wanted(alloc, ip, req) # None
  <2>1. Wanted(alloc, ip, req) \in Alloc
    BY Zenon, RefusedIffNoFit, PoolForType DEF Wanted, Alloc, Request, Coherent, TypeOK
  <2> QED
    BY <2>1, NoneAssumption
<1>3. ASSUME NEW s \in Svc
      PROVE  Book'[s] = IF s = svc
                        THEN [ip |-> ip, ports |-> req.ports, key |-> req.key]
                        ELSE Book[s]
  <2>1. Book'[s] = IF alloc'.allocated[s] = None THEN None
                   ELSE [ip |-> alloc'.allocated[s].ip,
                         ports |-> alloc'.allocated[s].ports,
                         key |-> alloc'.allocated[s].key]
    BY DEF Book
  <2>2. CASE s = svc
    <3>1. alloc'.allocated[s] = Wanted(alloc, ip, req)
      BY <1>1, <2>2 DEF Coherent, TypeOK
    <3> QED
      BY SMTT(30), <1>2, <2>1, <2>2, <3>1 DEF Wanted
  <2>3. CASE s # svc
    <3>1. alloc'.allocated[s] = alloc.allocated[s]
      BY <1>1, <2>3 DEF Coherent, TypeOK
    <3> QED
      BY <2>1, <2>3, <3>1 DEF Book
  <2> QED
    BY <2>2, <2>3
<1>4. Book' = [Book EXCEPT ![svc] =
                  [ip |-> ip, ports |-> req.ports, key |-> req.key]]
  BY Zenon, <1>3 DEF Book
<1> QED
  BY <1>1, <1>4, SameGrantable

(* Offering addresses to svc that can all be granted, or nothing when none *)
(* of the wanted ones can be, is a grant or a refusal of the wanted ones.  *)
LEMMA TakeOneOfGrants ==
    ASSUME Coherent(alloc), NEW svc \in Svc, NEW req \in Request,
           NEW wanted \in SUBSET IP, NEW offer \in SUBSET wanted,
           \A ip \in offer : ~Refused(alloc, svc, ip, req),
           offer = {} => \A ip \in wanted : Refused(alloc, svc, ip, req),
           TakeOneOf(offer, svc, req)
    PROVE  AB!Grant(svc, wanted, req)
<1>1. CASE \E ip \in offer : alloc' = Assign(alloc, svc, ip, req) /\ ok' = TRUE
  <2>1. PICK ip \in offer : alloc' = Assign(alloc, svc, ip, req) /\ ok' = TRUE
    BY <1>1
  <2>2. /\ AB!Grantable(svc, ip, req)
        /\ Book' = [Book EXCEPT ![svc] =
                       [ip |-> ip, ports |-> req.ports, key |-> req.key]]
        /\ alloc'.pools = alloc.pools
    BY <2>1, AssignGrants
  <2>3. ip \in wanted
    OBVIOUS
  <2> QED
    BY Zenon, <2>1, <2>2, <2>3 DEF AB!Grant
<1>2. CASE offer = {} /\ ok' = FALSE /\ UNCHANGED alloc
  <2>1. \A ip \in wanted : ~AB!Grantable(svc, ip, req)
    BY <1>2, SameGrantable
  <2>2. Book' = Book /\ alloc'.pools = alloc.pools
    BY <1>2 DEF Book
  <2> QED
    BY <1>2, <2>1, <2>2 DEF AB!Grant
<1> QED
  BY Zenon, <1>1, <1>2 DEF TakeOneOf

(* The addresses the pools of P may hand out.                              *)
Of(P) == {ip \in IP : \E n \in P : Usable(alloc.pools[n], ip)}

(* What a service without an address wants in the book, and one with.      *)
LEMMA WantEntry ==
    ASSUME Coherent(alloc), NEW svc \in Svc, NEW P
    PROVE  AB!Want(svc, P) = IF alloc.allocated[svc] # None
                             THEN {alloc.allocated[svc].ip} ELSE Of(P)
<1>1. CASE alloc.allocated[svc] = None
  <2>1. Book[svc] = None
    BY Zenon, <1>1, BookEntry
  <2> QED
    BY <1>1, <2>1, SameUsable DEF AB!Want, Of
<1>2. CASE alloc.allocated[svc] # None
  <2>1. /\ Book[svc] # None
        /\ Book[svc] = [ip    |-> alloc.allocated[svc].ip,
                        ports |-> alloc.allocated[svc].ports,
                        key   |-> alloc.allocated[svc].key]
    BY <1>2, BookEntry, Zenon
  <2>2. Book[svc].ip = alloc.allocated[svc].ip
    BY <2>1
  <2> QED
    BY <1>2, <2>1, <2>2 DEF AB!Want
<1> QED
  BY <1>1, <1>2

(* The first assignable address of a pool exists if any does.              *)
LEMMA FirstOfPool ==
    ASSUME Coherent(alloc), NEW svc \in Svc, NEW req \in Request,
           NEW n \in DOMAIN alloc.pools
    PROVE  LET F == FirstAssignable(alloc, svc, alloc.pools[n], req)
           IN /\ F \subseteq Of({n})
              /\ \A ip \in F : ~Refused(alloc, svc, ip, req)
              /\ F = {} => \A ip \in Of({n}) : Refused(alloc, svc, ip, req)
<1> DEFINE p == alloc.pools[n]
           F == FirstAssignable(alloc, svc, p, req)
           ok1(i) == Usable(p, p.cidr[i]) /\ ~Refused(alloc, svc, p.cidr[i], req)
           T == {i \in DOMAIN p.cidr : ok1(i)}
<1>1. p.cidr \in Seq(IP)
  <2>1. alloc.pools \in Pools \cup {NoPools}
    BY DEF Coherent, TypeOK
  <2> QED
    BY <2>1, PoolsAssumption DEF NoPools, Pool
<1>2. DOMAIN p.cidr = 1 .. Len(p.cidr) /\ Len(p.cidr) \in Nat
  BY <1>1
<1>3. \A i \in DOMAIN p.cidr : p.cidr[i] \in IP
  BY <1>1
<1>4. F = {p.cidr[i] : i \in {j \in DOMAIN p.cidr :
                                ok1(j) /\ \A k \in 1 .. (j - 1) : ~ok1(k)}}
  BY DEF FirstAssignable
<1>5. F \subseteq Of({n}) /\ \A ip \in F : ~Refused(alloc, svc, ip, req)
  BY <1>3, <1>4 DEF Of
<1>6. ASSUME NEW ip \in Of({n}), ~Refused(alloc, svc, ip, req)
      PROVE  F # {}
  <2>1. PICK i \in DOMAIN p.cidr : p.cidr[i] = ip
    BY DEF Of, Usable, Addrs
  <2>2. i \in T
    BY <1>6, <2>1 DEF Of
  <2>3. T \in SUBSET Nat
    BY <1>2
  <2> HIDE DEF T
  <2>4. PICK x \in T : \A y \in T : ~(y < x)
    BY <2>2, <2>3, LeastIndex
  <2>5. x \in DOMAIN p.cidr /\ ok1(x)
    BY <2>4 DEF T
  <2>6. \A k \in 1 .. (x - 1) : ~ok1(k)
    <3> SUFFICES ASSUME NEW k \in 1 .. (x - 1), ok1(k) PROVE FALSE
      OBVIOUS
    <3>1. k \in DOMAIN p.cidr /\ k < x
      BY SMTT(30), <1>2, <2>5
    <3>2. k \in T
      BY <3>1 DEF T
    <3> QED
      BY <2>4, <3>1, <3>2
  <2> HIDE DEF ok1
  <2>7. p.cidr[x] \in F
    BY <1>4, <2>5, <2>6
  <2> QED
    BY <2>7
<1> QED
  BY <1>5, <1>6

(* The first blocks of AllocateFromPool and Allocate offer the address the *)
(* service already has, exactly when it may keep it.                       *)
LEMMA ReassignableOffer ==
    ASSUME Coherent(alloc), NEW svc \in Svc, NEW req \in Request,
           alloc.allocated[svc] # None
    PROVE  LET R == Reassignable(alloc, svc, req)
               W == {alloc.allocated[svc].ip}
           IN /\ W \subseteq IP
              /\ R \subseteq W
              /\ \A ip \in R : ~Refused(alloc, svc, ip, req)
              /\ R = {} => \A ip \in W : Refused(alloc, svc, ip, req)
<1>1. alloc.allocated[svc].ip \in IP
  BY DEF Coherent, TypeOK, Alloc
<1> QED
  BY <1>1 DEF Reassignable

(* A call of SetPools is a reconfiguration of the book, or a refusal.      *)
LEMMA SetPoolsStep ==
    ASSUME Coherent(alloc), NEW pools \in Pools, CallSetPools(pools)
    PROVE  AB!Next
<1>1. /\ alloc'.pools = IF PoolsRefused(alloc, pools) THEN alloc.pools ELSE pools
      /\ \A s \in Svc :
            /\ (alloc'.allocated[s] = None) <=> (alloc.allocated[s] = None)
            /\ alloc.allocated[s] # None =>
                  /\ alloc'.allocated[s].ip = alloc.allocated[s].ip
                  /\ alloc'.allocated[s].ports = alloc.allocated[s].ports
                  /\ alloc'.allocated[s].key = alloc.allocated[s].key
  BY SetPoolsCoherent DEF CallSetPools
<1>2. Book' = Book
  <2>1. ASSUME NEW s \in Svc
        PROVE  (IF alloc'.allocated[s] = None THEN None
                ELSE [ip |-> alloc'.allocated[s].ip,
                      ports |-> alloc'.allocated[s].ports,
                      key |-> alloc'.allocated[s].key])
             = (IF alloc.allocated[s] = None THEN None
                ELSE [ip |-> alloc.allocated[s].ip,
                      ports |-> alloc.allocated[s].ports,
                      key |-> alloc.allocated[s].key])
    BY <1>1
  <2> QED
    BY <2>1 DEF Book
<1>3. ASSUME NEW s \in Svc, alloc.allocated[s] # None
      PROVE  AB!Allowed(pools, Book[s].ip) <=> poolFor(pools, alloc.allocated[s].ip) # None
  <2>1. Book[s] = [ip    |-> alloc.allocated[s].ip,
                   ports |-> alloc.allocated[s].ports,
                   key   |-> alloc.allocated[s].key]
    BY <1>3, BookEntry, Zenon
  <2>2. Book[s].ip = alloc.allocated[s].ip
    BY <2>1
  <2> QED
    BY <2>2, SameAllowed
<1>4. (\A s \in Svc : Book[s] # None => AB!Allowed(pools, Book[s].ip))
         <=> ~PoolsRefused(alloc, pools)
  BY Zenon, <1>3, BookEntry DEF PoolsRefused
<1>5. ok' = ~PoolsRefused(alloc, pools)
  BY DEF CallSetPools
<1>6. AB!Reconfigure(pools)
  BY Zenon, <1>1, <1>2, <1>4, <1>5 DEF AB!Reconfigure
<1> QED
  BY <1>6 DEF AB!Next

(* A call of Unassign is a release in the book, or changes nothing.        *)
LEMMA UnassignStep ==
    ASSUME Coherent(alloc), NEW svc \in Svc, CallUnassign(svc)
    PROVE  AB!Next
<1>1. /\ alloc'.pools = alloc.pools
      /\ alloc'.allocated = [alloc.allocated EXCEPT ![svc] = None]
  BY UnassignCoherent DEF CallUnassign
<1>2. alloc.allocated \in [Svc -> Alloc \cup {None}]
  BY DEF Coherent, TypeOK
<1>3. Book' = [Book EXCEPT ![svc] = None]
  <2>1. \A s \in Svc : alloc'.allocated[s] = IF s = svc THEN None ELSE alloc.allocated[s]
    BY <1>1, <1>2
  <2> QED
    BY Zenon, <2>1 DEF Book
<1>4. ok' = (Book[svc] # None)
  BY Zenon, BookEntry DEF CallUnassign
<1>5. AB!Release(svc)
  BY <1>1, <1>3, <1>4 DEF AB!Release
<1> QED
  BY <1>5 DEF AB!Next

(* A call of Assign is a request for one address, granted or refused.      *)
LEMMA AssignStep ==
    ASSUME Coherent(alloc), NEW svc \in Svc, NEW ip \in IP, NEW req \in Request,
           CallAssign(svc, ip, req)
    PROVE  AB!Next
<1>1. CASE Refused(alloc, svc, ip, req)
  <2>1. alloc' = alloc /\ ok' = FALSE
    BY Zenon, <1>1 DEF CallAssign, Assign
  <2>2. Book' = Book /\ alloc'.pools = alloc.pools
    BY <2>1 DEF Book
  <2>3. ~AB!Grantable(svc, ip, req)
    BY <1>1, SameGrantable
  <2>4. AB!Grant(svc, {ip}, req)
    BY <2>1, <2>2, <2>3 DEF AB!Grant
  <2> QED
    BY Zenon, <2>4 DEF AB!Next
<1>2. CASE ~Refused(alloc, svc, ip, req)
  <2>1. alloc' = Assign(alloc, svc, ip, req) /\ ok' = TRUE
    BY Zenon, <1>2 DEF CallAssign
  <2>2. TakeOneOf({ip}, svc, req)
    BY <2>1 DEF TakeOneOf
  <2>3. AB!Grant(svc, {ip}, req)
    BY <1>2, <2>2, TakeOneOfGrants
  <2> QED
    BY Zenon, <2>3 DEF AB!Next
<1> QED
  BY <1>1, <1>2

(* A call of AllocateFromPool is a request for the addresses of one pool.  *)
LEMMA AllocateFromPoolStep ==
    ASSUME Coherent(alloc), NEW svc \in Svc, NEW n \in PoolName, NEW req \in Request,
           CallAllocateFromPool(svc, n, req)
    PROVE  AB!Next
<1> DEFINE P == {n} \cap DOMAIN alloc.pools
           W == AB!Want(svc, P)
           offer == AllocateFromPool(alloc, svc, n, req)
<1>1. /\ W \subseteq IP
      /\ offer \subseteq W
      /\ \A ip \in offer : ~Refused(alloc, svc, ip, req)
      /\ offer = {} => \A ip \in W : Refused(alloc, svc, ip, req)
  <2>1. CASE alloc.allocated[svc] # None
    <3>1. W = {alloc.allocated[svc].ip}
      BY <2>1, WantEntry
    <3>2. offer = Reassignable(alloc, svc, req)
      BY <2>1 DEF AllocateFromPool
    <3> QED
      BY Zenon, <2>1, <3>1, <3>2, ReassignableOffer
  <2>2. CASE alloc.allocated[svc] = None /\ n \notin DOMAIN alloc.pools
    <3>1. W = Of(P) /\ P = {}
      BY <2>2, WantEntry
    <3>2. W = {}
      BY <3>1 DEF Of
    <3>3. offer = {}
      BY <2>2 DEF AllocateFromPool
    <3> QED
      BY <3>2, <3>3
  <2>3. CASE alloc.allocated[svc] = None /\ n \in DOMAIN alloc.pools
    <3>1. W = Of({n})
      <4>1. P = {n}
        BY <2>3
      <4>2. W = Of(P)
        BY <2>3, WantEntry
      <4> QED
        BY <4>1, <4>2
    <3>2. offer = FirstAssignable(alloc, svc, alloc.pools[n], req)
      BY <2>3 DEF AllocateFromPool
    <3>3. Of({n}) \subseteq IP
      BY DEF Of
    <3>4. LET F == FirstAssignable(alloc, svc, alloc.pools[n], req)
          IN /\ F \subseteq Of({n})
             /\ \A ip \in F : ~Refused(alloc, svc, ip, req)
             /\ F = {} => \A ip \in Of({n}) : Refused(alloc, svc, ip, req)
      BY Zenon, <2>3, FirstOfPool
    <3> HIDE DEF W, offer
    <3> QED
      BY <3>1, <3>2, <3>3, <3>4
  <2> QED
    BY <2>1, <2>2, <2>3
<1>2. TakeOneOf(offer, svc, req)
  BY DEF CallAllocateFromPool
<1> HIDE DEF offer, W
<1>3. AB!Grant(svc, W, req)
  BY <1>1, <1>2, TakeOneOfGrants
<1>4. P \in SUBSET DOMAIN alloc.pools
  OBVIOUS
<1> QED
  BY <1>3, <1>4 DEF AB!Next, W

(* A call of Allocate is a request for the addresses of all pools that     *)
(* assign automatically.                                                   *)
LEMMA AllocateStep ==
    ASSUME Coherent(alloc), NEW svc \in Svc, NEW req \in Request,
           CallAllocate(svc, req)
    PROVE  AB!Next
<1> DEFINE P == {m \in DOMAIN alloc.pools : alloc.pools[m].AutoAssign}
           W == AB!Want(svc, P)
           offer == Allocate(alloc, svc, req)
<1>1. /\ W \subseteq IP
      /\ offer \subseteq W
      /\ \A ip \in offer : ~Refused(alloc, svc, ip, req)
      /\ offer = {} => \A ip \in W : Refused(alloc, svc, ip, req)
  <2>1. CASE alloc.allocated[svc] # None
    <3>1. W = {alloc.allocated[svc].ip}
      BY <2>1, WantEntry
    <3>2. offer = Reassignable(alloc, svc, req)
      BY <2>1 DEF Allocate
    <3> QED
      BY <2>1, <3>1, <3>2, ReassignableOffer
  <2>2. CASE alloc.allocated[svc] = None
    <3>1. W = Of(P)
      BY <2>2, WantEntry
    <3>2. offer = UNION {FirstAssignable(alloc, svc, alloc.pools[n], req) : n \in P}
      BY <2>2 DEF Allocate, AllocateFromPool
    <3>3. \A n \in P : Of({n}) \subseteq Of(P)
      BY DEF Of
    <3>4. \A ip \in Of(P) : \E n \in P : ip \in Of({n})
      BY DEF Of
    <3>5. Of(P) \subseteq IP
      BY DEF Of
    <3>6. ASSUME NEW n \in P
          PROVE  /\ FirstAssignable(alloc, svc, alloc.pools[n], req) \subseteq Of({n})
                 /\ \A ip \in FirstAssignable(alloc, svc, alloc.pools[n], req) :
                       ~Refused(alloc, svc, ip, req)
                 /\ FirstAssignable(alloc, svc, alloc.pools[n], req) = {} =>
                       \A ip \in Of({n}) : Refused(alloc, svc, ip, req)
      BY FirstOfPool
    <3> HIDE DEF P, W, offer
    <3>7. ASSUME NEW ip \in offer
          PROVE  ip \in W /\ ~Refused(alloc, svc, ip, req)
      <4>1. PICK n \in P : ip \in FirstAssignable(alloc, svc, alloc.pools[n], req)
        BY <3>2
      <4>2. ip \in Of({n}) /\ ~Refused(alloc, svc, ip, req)
        BY <3>6, <4>1
      <4> QED
        BY <3>1, <3>3, <4>2
    <3>8. ASSUME offer = {}, NEW ip \in W
          PROVE  Refused(alloc, svc, ip, req)
      <4>1. PICK n \in P : ip \in Of({n})
        BY Zenon, <3>1, <3>4
      <4>2. FirstAssignable(alloc, svc, alloc.pools[n], req) = {}
        BY <3>2, <3>8
      <4> QED
        BY <3>6, <4>1, <4>2
    <3>9. offer = {} => \A ip \in W : Refused(alloc, svc, ip, req)
      BY <3>8
    <3>10. W \subseteq IP
      BY <3>1, <3>5
    <3> QED
      BY <3>7, <3>9, <3>10
  <2> QED
    BY SMTT(60), <2>1, <2>2
<1>2. TakeOneOf(offer, svc, req)
  BY DEF CallAllocate
<1>3. P \in SUBSET DOMAIN alloc.pools
  OBVIOUS
<1> HIDE DEF offer, W, P
<1>4. AB!Grant(svc, W, req)
  BY <1>1, <1>2, TakeOneOfGrants
<1> QED
  BY <1>3, <1>4 DEF AB!Next, W

(* Every behaviour of the allocator is one of the address book: it grants  *)
(* a request if and only if the holdings allow it, a grant or a release    *)
(* touches nobody else, and a reconfiguration moves nobody.                *)
THEOREM ImplementsAddressBook == CallSpec => IsAddressBook
<1>1. CallInit => AB!Init
  BY DEF CallInit, New, AB!Init, Book, NoPools
<1>2. Coherent(alloc) /\ [CallNext]_callVars => [AB!Next]_(AB!vars)
  <2> SUFFICES ASSUME Coherent(alloc), [CallNext]_callVars
               PROVE  [AB!Next]_(AB!vars)
    OBVIOUS
  <2>1. CASE CallNext
    <3>1. CASE \E pools \in Pools : CallSetPools(pools)
      BY <3>1, SetPoolsStep
    <3>2. CASE \E svc \in Svc : CallUnassign(svc)
      BY <3>2, UnassignStep
    <3>3. CASE \E svc \in Svc, req \in Request, ip \in IP : CallAssign(svc, ip, req)
      BY <3>3, AssignStep
    <3>4. CASE \E svc \in Svc, req \in Request, n \in PoolName :
                  CallAllocateFromPool(svc, n, req)
      BY <3>4, AllocateFromPoolStep
    <3>5. CASE \E svc \in Svc, req \in Request : CallAllocate(svc, req)
      BY <3>5, AllocateStep
    <3> QED
      BY SMTT(30), <2>1, <3>1, <3>2, <3>3, <3>4, <3>5 DEF CallNext
  <2>2. CASE UNCHANGED callVars
    BY <2>2 DEF callVars, AB!vars, Book
  <2> QED
    BY <2>1, <2>2
<1> QED
  BY <1>1, <1>2, AlwaysCoherent, PTL DEF CallSpec, IsAddressBook, AB!Spec
==============================================================================
