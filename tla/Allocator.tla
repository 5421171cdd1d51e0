------------------------------ MODULE Allocator ------------------------------
(***************************************************************************)
(* The IP address allocator of the controller (internal/allocator).        *)
(*                                                                         *)
(* The Go struct Allocator is a record; its methods are operators from a   *)
(* record (and the arguments) to the record they leave behind, so that the *)
(* controller's handlers, which call several of them in a row, can be      *)
(* written as their composition.  A Go map is a function, None standing    *)
(* for a missing entry.                                                    *)
(*                                                                         *)
(* Module AllocatorSpec is the state machine of an allocator on its own.   *)
(***************************************************************************)
EXTENDS Integers, Sequences, FiniteSets

CONSTANTS
    Svc,            \* service names
    IP,             \* addresses
    Port,           \* protocol/port pairs
    PoolName,       \* names of address pools
    SharingKey,     \* values of the allow-shared-ip annotation
    BackendKey,     \* what k8salloc.BackendKey returns
    Pools,          \* the pool maps a configuration may carry
    BuggyIP,        \* the addresses ipConfusesBuggyFirmwares is true of
    NoSharing,      \* the empty sharing key
    None            \* nil, or a missing map entry

(* An address pool: its addresses in the order the cursor over pool.CIDR   *)
(* visits them, and the two switches that govern their use.                *)
Pool == [cidr : Seq(IP), AvoidBuggyIPs : BOOLEAN, AutoAssign : BOOLEAN]

Key == [sharing : SharingKey, backend : BackendKey]

(* What a service asks for.  The API server rejects a LoadBalancer service *)
(* without ports, hence the non-empty set.                                 *)
Request == [ports : (SUBSET Port) \ {{}}, key : Key]

Alloc == [pool : PoolName, ip : IP, ports : (SUBSET Port) \ {{}}, key : Key]

(* An allocation without its pool: what the caller knows of it.            *)
Holding == [ip : IP, ports : (SUBSET Port) \ {{}}, key : Key]

(* The addresses in the CIDRs of pool p.                                   *)
Addrs(p) == {p.cidr[i] : i \in DOMAIN p.cidr}

ASSUME NoneAssumption ==
    None \notin Svc \cup IP \cup PoolName \cup Key \cup Alloc \cup Holding

ASSUME FiniteAssumption == IsFiniteSet(Svc)

(* config.Parse refuses a configuration in which two CIDRs overlap.        *)
ASSUME PoolsAssumption ==
    \A pools \in Pools :
        /\ DOMAIN pools \subseteq PoolName
        /\ \A n \in DOMAIN pools : pools[n] \in Pool
        /\ \A m, n \in DOMAIN pools :
              m # n => Addrs(pools[m]) \cap Addrs(pools[n]) = {}

-----------------------------------------------------------------------------
(***************************************************************************)
(* The methods.                                                            *)
(***************************************************************************)

(* New: an allocator that manages no pools.                                *)
NoPools == [n \in {} |-> None]

New ==
    [pools           |-> NoPools,
     allocated       |-> [s \in Svc |-> None],
     sharingKeyForIP |-> [i \in IP |-> None],
     portsInUse      |-> [i \in IP |-> [q \in Port |-> None]],
     servicesOnIP    |-> [i \in IP |-> {}],
     poolIPsInUse    |-> [n \in PoolName |-> [i \in IP |-> 0]],
     poolServices    |-> [n \in PoolName |-> 0],
     panicked        |-> FALSE]

(* Pool p may hand out ip.                                                 *)
Usable(p, ip) ==
    /\ ip \in Addrs(p)
    /\ ~(p.AvoidBuggyIPs /\ ip \in BuggyIP)

(* The pool that owns ip; unique, since pools do not overlap.              *)
poolFor(pools, ip) ==
    IF \E n \in DOMAIN pools : Usable(pools[n], ip)
    THEN CHOOSE n \in DOMAIN pools : Usable(pools[n], ip)
    ELSE None

(* Two services with these keys may live on one address.                   *)
sharingOK(existing, new) ==
    /\ existing.sharing # NoSharing
    /\ new.sharing # NoSharing
    /\ existing.sharing = new.sharing
    /\ existing.backend = new.backend

(* The check that Unassign backs with a panic: the ports of al, held by    *)
(* svc, are recorded as svc's.                                             *)
OwnsPorts(a, svc, al) == \A q \in al.ports : a.portsInUse[al.ip][q] = svc

(* Unassign frees the address of svc, if any.  The sharing key of the      *)
(* address goes with the last port in use on it.                           *)
Unassign_KeepsKey(a, svc) ==
    LET al == a.allocated[svc]
    IN IF al = None THEN a
       ELSE [a EXCEPT
               !.allocated[svc] = None,
               !.portsInUse[al.ip] =
                    [q \in Port |-> IF q \in al.ports THEN None ELSE @[q]],
               !.servicesOnIP[al.ip] = @ \ {svc},
               !.poolIPsInUse[al.pool][al.ip] = @ - 1,
               !.poolServices[al.pool] = @ - 1]

Unassign(a, svc) ==
    LET al   == a.allocated[svc]
        left == [q \in Port |-> IF q \in al.ports
                                THEN None ELSE a.portsInUse[al.ip][q]]
    IN IF al = None THEN a
       ELSE IF ~OwnsPorts(a, svc, al) THEN [a EXCEPT !.panicked = TRUE]
       ELSE [a EXCEPT
               !.allocated[svc] = None,
               !.portsInUse[al.ip] = left,
               !.servicesOnIP[al.ip] = @ \ {svc},
               !.sharingKeyForIP[al.ip] =
                    IF \A q \in Port : left[q] = None THEN None ELSE @,
               !.poolIPsInUse[al.pool][al.ip] = @ - 1,
               !.poolServices[al.pool] = @ - 1]

(* assign records al as svc's allocation, without asking whether it may.   *)
assign_Overwrites(a, svc, al) ==
    LET u == Unassign(a, svc)
    IN [u EXCEPT
          !.allocated[svc] = al,
          !.sharingKeyForIP[al.ip] = al.key,
          !.portsInUse[al.ip] =
               [q \in Port |-> IF q \in al.ports THEN svc ELSE @[q]],
          !.servicesOnIP[al.ip] = {svc},
          !.poolIPsInUse[al.pool][al.ip] = @ + 1,
          !.poolServices[al.pool] = @ + 1]

assign(a, svc, al) ==
    LET u == Unassign(a, svc)
    IN IF u.panicked THEN u
       ELSE [u EXCEPT
               !.allocated[svc] = al,
               !.sharingKeyForIP[al.ip] = al.key,
               !.portsInUse[al.ip] =
                    [q \in Port |-> IF q \in al.ports THEN svc ELSE @[q]],
               !.servicesOnIP[al.ip] = @ \cup {svc},
               !.poolIPsInUse[al.pool][al.ip] = @ + 1,
               !.poolServices[al.pool] = @ + 1]

(* Assign returns an error: ip is in no pool, or in use in a way that      *)
(* excludes req.                                                           *)
Refused_IgnoresPorts(a, svc, ip, req) ==
    \/ poolFor(a.pools, ip) = None
    \/ /\ a.sharingKeyForIP[ip] # None
       /\ ~sharingOK(a.sharingKeyForIP[ip], req.key)
       /\ a.servicesOnIP[ip] \ {svc} # {}

Refused(a, svc, ip, req) ==
    \/ poolFor(a.pools, ip) = None
    \/ /\ a.sharingKeyForIP[ip] # None
       /\ \/ /\ ~sharingOK(a.sharingKeyForIP[ip], req.key)
             /\ a.servicesOnIP[ip] \ {svc} # {}
          \/ \E q \in req.ports : a.portsInUse[ip][q] \notin {None, svc}

Assign(a, svc, ip, req) ==
    IF Refused(a, svc, ip, req) THEN a
    ELSE assign(a, svc, [pool |-> poolFor(a.pools, ip), ip |-> ip,
                         ports |-> req.ports, key |-> req.key])

(* The address svc already holds, if it may be held with req: the first    *)
(* block of AllocateFromPool and of Allocate.                              *)
Reassignable(a, svc, req) ==
    LET ip == a.allocated[svc].ip
    IN {i \in {ip} : ~Refused(a, svc, i, req)}

(* The first address of pool p that Assign accepts: a set with at most one *)
(* element, empty when the pool is exhausted.                              *)
FirstAssignable(a, svc, p, req) ==
    LET ok(i) == Usable(p, p.cidr[i]) /\ ~Refused(a, svc, p.cidr[i], req)
    IN {p.cidr[i] : i \in {j \in DOMAIN p.cidr :
                              ok(j) /\ \A k \in 1 .. (j - 1) : ~ok(k)}}

(* The addresses AllocateFromPool may assign; empty when it fails.         *)
AllocateFromPool(a, svc, poolName, req) ==
    IF a.allocated[svc] # None THEN Reassignable(a, svc, req)
    ELSE IF poolName \notin DOMAIN a.pools THEN {}
    ELSE FirstAssignable(a, svc, a.pools[poolName], req)

(* The addresses Allocate may assign.  It tries the pools in the random    *)
(* order of a Go map, so that the first success may come from any of them. *)
Allocate(a, svc, req) ==
    IF a.allocated[svc] # None THEN Reassignable(a, svc, req)
    ELSE UNION {AllocateFromPool(a, svc, n, req) :
                   n \in {m \in DOMAIN a.pools : a.pools[m].AutoAssign}}

(* SetPools returns an error: some service would be left with an address   *)
(* that is in no pool.                                                     *)
PoolsRefused(a, pools) ==
    \E s \in Svc : /\ a.allocated[s] # None
                   /\ poolFor(pools, a.allocated[s].ip) = None

(* The services whose address changes pool.                                *)
Moved_Never(a, pools) == {}

Moved(a, pools) ==
    {s \in Svc : /\ a.allocated[s] # None
                 /\ poolFor(pools, a.allocated[s].ip) # a.allocated[s].pool}

(* Those that leave pool n, those that enter it, and those of S on ip i    *)
(* (the loop's Unassign and assign undo and redo the counts).              *)
Leaving_Forgotten(a, pools, n) == {}

Leaving(a, pools, n) == {s \in Moved(a, pools) : a.allocated[s].pool = n}
Entering(a, pools, n) ==
    {s \in Moved(a, pools) : poolFor(pools, a.allocated[s].ip) = n}
OnIP(a, S, i) == {s \in S : a.allocated[s].ip = i}

(* SetPools adopts the new pools and moves each service whose pool changed *)
(* by an Unassign and an assign.  What the loop leaves behind, whatever    *)
(* the order in which it visits the services, is stated at once: ports,    *)
(* services and sharing keys are put back where they were, and the counts  *)
(* follow the services (RearrangeInAnyOrder, in AllocatorSpec).            *)
SetPools(a, pools) ==
    IF PoolsRefused(a, pools) THEN a
    ELSE IF \E s \in Moved(a, pools) : ~OwnsPorts(a, s, a.allocated[s])
    THEN [a EXCEPT !.panicked = TRUE]
    ELSE [a EXCEPT
            !.pools = pools,
            !.allocated =
                [s \in Svc |->
                    IF s \in Moved(a, pools)
                    THEN [a.allocated[s] EXCEPT
                             !.pool = poolFor(pools, a.allocated[s].ip)]
                    ELSE a.allocated[s]],
            !.poolIPsInUse =
                [n \in PoolName |-> [i \in IP |->
                    a.poolIPsInUse[n][i]
                            - Cardinality(OnIP(a, Leaving(a, pools, n), i))
                            + Cardinality(OnIP(a, Entering(a, pools, n), i))]],
            !.poolServices =
                [n \in PoolName |->
                    a.poolServices[n]
                         - Cardinality(Leaving(a, pools, n))
                         + Cardinality(Entering(a, pools, n))]]

(* One round of that loop: Unassign, then assign under the new pool.       *)
Rearrange(a, s) ==
    LET al == a.allocated[s]
        n  == poolFor(a.pools, al.ip)
    IN IF al = None THEN a
       ELSE IF n = al.pool THEN a
       ELSE assign(Unassign(a, s), s, [al EXCEPT !.pool = n])

(* The loop, visiting the services in the order of the sequence.           *)
SetPoolsLoop(a, pools, order) ==
    LET rounds[k \in 0..Len(order)] ==
            IF k = 0 THEN [a EXCEPT !.pools = pools]
            ELSE Rearrange(rounds[k - 1], order[k])
    IN IF PoolsRefused(a, pools) THEN a ELSE rounds[Len(order)]

(* Orders in which it may do so.  Every service is visited; one whose      *)
(* entry is taken out and put back may come up again.                      *)
Visits ==
    {order \in UNION {[1..k -> Svc] : k \in 0..(Cardinality(Svc) + 1)} :
        \A s \in Svc : \E k \in DOMAIN order : order[k] = s}

-----------------------------------------------------------------------------
(***************************************************************************)
(* What is true of an allocator between two calls.                         *)
(***************************************************************************)

TypeOK(a) ==
    a \in [pools           : Pools \cup {NoPools},
          allocated       : [Svc -> Alloc \cup {None}],
          sharingKeyForIP : [IP -> Key \cup {None}],
          portsInUse      : [IP -> [Port -> Svc \cup {None}]],
          servicesOnIP    : [IP -> SUBSET Svc],
          poolIPsInUse    : [PoolName -> [IP -> Int]],
          poolServices    : [PoolName -> Int],
          panicked        : BOOLEAN]

(* Service s holds address i.                                              *)
Holds(a, s, i) == a.allocated[s] # None /\ a.allocated[s].ip = i

(* portsInUse lists exactly the ports of the allocations.                  *)
PortsIndex(a) ==
    \A i \in IP, q \in Port, s \in Svc :
        (a.portsInUse[i][q] = s) <=> (Holds(a, s, i) /\ q \in a.allocated[s].ports)

(* servicesOnIP lists exactly the holders of each address.                 *)
ServicesIndex(a) ==
    \A i \in IP : a.servicesOnIP[i] = {s \in Svc : Holds(a, s, i)}

(* sharingKeyForIP has an entry for exactly the addresses in use, and it   *)
(* is the key of every service there.                                      *)
KeyIndex(a) ==
    \A i \in IP :
        /\ \A s \in Svc : Holds(a, s, i) => a.sharingKeyForIP[i] = a.allocated[s].key
        /\ a.sharingKeyForIP[i] # None => \E s \in Svc : Holds(a, s, i)

(* Only services that ask for it share an address.                         *)
SharersAgree(a) ==
    \A s, t \in Svc : \A i \in IP :
        s # t /\ Holds(a, s, i) /\ Holds(a, t, i)
            => a.allocated[s].key.sharing # NoSharing

(* Every allocation is recorded under the pool that owns its address now.  *)
PoolIndex(a) ==
    \A s \in Svc : a.allocated[s] # None
        => a.allocated[s].pool = poolFor(a.pools, a.allocated[s].ip)

(* The usage counts of a pool are those of the allocations.                *)
UsersInPool(a, n) ==
    {s \in Svc : a.allocated[s] # None /\ a.allocated[s].pool = n}

UsersOfIPInPool(a, n, i) == {s \in UsersInPool(a, n) : a.allocated[s].ip = i}

CountsExact(a) ==
    \A n \in PoolName :
        /\ a.poolServices[n] = Cardinality(UsersInPool(a, n))
        /\ \A i \in IP :
              a.poolIPsInUse[n][i] = Cardinality(UsersOfIPInPool(a, n, i))
==============================================================================
