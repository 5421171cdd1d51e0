---------------------------- MODULE AllocatorSpec ----------------------------
(***************************************************************************)
(* The allocator on its own: a state machine whose environment calls the   *)
(* methods of the Allocator in any order with any arguments.  Module       *)
(* AddressBook says what it promises.                                      *)
(***************************************************************************)
EXTENDS Allocator

VARIABLES
    alloc,  \* the Allocator
    ok      \* whether the last call succeeded

callVars == <<alloc, ok>>

CallInit == alloc = New /\ ok = TRUE

(* The caller gets one of the addresses on offer, or an error.             *)
TakeOneOf(offer, svc, req) ==
    \/ \E ip \in offer : alloc' = Assign(alloc, svc, ip, req) /\ ok' = TRUE
    \/ offer = {} /\ ok' = FALSE /\ UNCHANGED alloc

CallSetPools(pools) ==
    /\ alloc' = SetPools(alloc, pools)
    /\ ok' = ~PoolsRefused(alloc, pools)

CallAssign(svc, ip, req) ==
    /\ alloc' = Assign(alloc, svc, ip, req)
    /\ ok' = ~Refused(alloc, svc, ip, req)

CallUnassign(svc) ==
    /\ alloc' = Unassign(alloc, svc)
    /\ ok' = (alloc.allocated[svc] # None)

CallAllocateFromPool(svc, poolName, req) ==
    TakeOneOf(AllocateFromPool(alloc, svc, poolName, req), svc, req)

CallAllocate(svc, req) == TakeOneOf(Allocate(alloc, svc, req), svc, req)

CallNext ==
    /\ ~alloc.panicked
    /\ \/ \E pools \in Pools : CallSetPools(pools)
       \/ \E svc \in Svc :
            \/ CallUnassign(svc)
            \/ \E req \in Request :
                 \/ \E ip \in IP : CallAssign(svc, ip, req)
                 \/ \E n \in PoolName : CallAllocateFromPool(svc, n, req)
                 \/ CallAllocate(svc, req)

CallSpec == CallInit /\ [][CallNext]_callVars

-----------------------------------------------------------------------------
(***************************************************************************)
(* Properties.                                                             *)
(***************************************************************************)

TypeInv == TypeOK(alloc)

(* The "incoherent state" panic of Unassign is never reached: when a       *)
(* service is released, or moved by SetPools, each of its ports is still   *)
(* recorded as its own, whatever was assigned in between.                  *)
NoPanic == ~alloc.panicked

(* The three indexes of the addresses in use say what the allocations say, *)
(* entry by entry, after any history of assignments and releases.          *)
IndexesExact == PortsIndex(alloc) /\ ServicesIndex(alloc) /\ KeyIndex(alloc)

(* Two services are on one address only if both carry the same non-empty   *)
(* sharing key and the same backend key, and no port is used by both, even *)
(* after one of them changed its request in place (Assign, sharingOK).     *)
SharingSafe ==
    \A s, t \in Svc :
        LET x == alloc.allocated[s]
            y == alloc.allocated[t]
        IN (s # t /\ x # None /\ y # None) => (x.ip = y.ip =>
              sharingOK(x.key, y.key) /\ x.ports \cap y.ports = {})

(* Assign looks at the indexes alone, and yet accepts a request exactly    *)
(* when the address is in a pool and no other service that holds it stands *)
(* in the way: nothing is refused because of a service that is gone, or    *)
(* because of what the service itself held before.                         *)
DecidesByHoldings ==
    \A svc \in Svc, ip \in IP, req \in Request :
        Refused(alloc, svc, ip, req) <=>
            \/ poolFor(alloc.pools, ip) = None
            \/ \E t \in Svc \ {svc} :
                  /\ Holds(alloc, t, ip)
                  /\ ~(/\ sharingOK(alloc.allocated[t].key, req.key)
                       /\ alloc.allocated[t].ports \cap req.ports = {})

(* Every address handed out is in a pool of the configuration in force,    *)
(* and counted under that pool, after any sequence of SetPools.            *)
InConfiguredPool ==
    /\ PoolIndex(alloc)
    /\ \A s \in Svc : alloc.allocated[s] # None => alloc.allocated[s].pool # None

(* The usage counts survive sharing, release and the renaming, splitting   *)
(* and merging of pools by SetPools.                                       *)
CountsRight == CountsExact(alloc)

(* The loop of SetPools leaves the same allocator behind in whatever order *)
(* the Go map hands it the services, even if it hands out one of them      *)
(* twice, and it is the one that SetPools states: no order drops a sharing *)
(* key or miscounts a pool.                                                *)
RearrangeInAnyOrder ==
    \A pools \in Pools : \A order \in Visits :
        SetPoolsLoop(alloc, pools, order) = SetPools(alloc, pools)

(* The allocator is an address book: every call grants only what the book  *)
(* allows, keeps every other service's holding, and changes nothing when   *)
(* it reports an error.                                                    *)
Book ==
    [s \in Svc |-> IF alloc.allocated[s] = None THEN None
                   ELSE [ip |-> alloc.allocated[s].ip,
                         ports |-> alloc.allocated[s].ports,
                         key |-> alloc.allocated[s].key]]

AB == INSTANCE AddressBook WITH pools <- alloc.pools, book <- Book

IsAddressBook == AB!Spec
==============================================================================
