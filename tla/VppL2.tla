-------------------------------- MODULE VppL2 --------------------------------
(***************************************************************************)
(* The speaker's layer 2 protocol handler (speaker/vpp_l2_controller.go),  *)
(* which has the VPP agent of the node answer ARP requests.  It writes one *)
(* key in etcd, with the addresses to answer for and the interfaces to do  *)
(* so on, under a lease that it must renew.                                *)
(*                                                                         *)
(* The struct is a record v.  A method maps v, and etcd as the record e,   *)
(* to the set of its results [v, e, ok, failures]: failures counts the     *)
(* requests that got no answer.                                            *)
(***************************************************************************)
EXTENDS Endpoints

CONSTANTS
    Name,           \* names of services with "-" for "/"
    NameOf,         \* the name of each service
    NodeAddr        \* internal addresses of the node

ASSUME VppAssumption ==
    /\ NameOf \in [Svc -> Name]
    /\ None \notin NodeAddr

(* ipAddr is "" (None) and ethIfcs nil (None) until the node is known.     *)
(* The interfaces are identified by the address of the agent they were     *)
(* read from.                                                              *)
VppNew ==
    [ips      |-> [n \in Name |-> None],
     ipRefcnt |-> [i \in IP |-> 0],
     ipAddr   |-> None,
     ethIfcs  |-> None]

(* The key's value, and the renewals missed since it was last written; a   *)
(* lease of 2.5 minutes renewed each minute survives one.                  *)
MayExpire == 2

(* What updateProxyArp writes: the key is deleted when there are no        *)
(* addresses.                                                              *)
Content(v) ==
    LET ranges == {v.ips[n] : n \in Name} \ {None}
    IN IF ranges = {} THEN None ELSE [ranges |-> ranges, interfaces |-> v.ethIfcs]

(* The request succeeds, or fails, carried out or not.                     *)
updateProxyArp(v, e) ==
    LET written == [arp |-> Content(v), missed |-> 0]
    IN {[v |-> v, e |-> written, ok |-> TRUE, failures |-> 0],
        [v |-> v, e |-> written, ok |-> FALSE, failures |-> 1],
        [v |-> v, e |-> e, ok |-> FALSE, failures |-> 1]}

Unchanged(v, e) == {[v |-> v, e |-> e, ok |-> TRUE, failures |-> 0]}

(* A service that has an address here is left alone, also when the address *)
(* is not the same any more; and only the first service on an address is   *)
(* entered in ips.                                                         *)
VppSetBalancer(v, e, s, ip) ==
    IF v.ips[NameOf[s]] # None THEN Unchanged(v, e)
    ELSE LET counted == [v EXCEPT !.ipRefcnt[ip] = @ + 1]
         IN IF counted.ipRefcnt[ip] > 1 THEN Unchanged(counted, e)
            ELSE updateProxyArp([counted EXCEPT !.ips[NameOf[s]] = ip], e)

(* A request that fails is only logged: the next renewal repairs it.       *)
VppDeleteBalancer(v, e, s) ==
    LET ip == v.ips[NameOf[s]]
        less == [v EXCEPT !.ips[NameOf[s]] = None, !.ipRefcnt[ip] = @ - 1]
    IN IF ip = None THEN Unchanged(v, e)
       ELSE IF less.ipRefcnt[ip] > 0 THEN Unchanged(less, e)
       ELSE {[r EXCEPT !.ok = TRUE] : r \in updateProxyArp(less, e)}

(* The interfaces are read from the agent at the node's address, unless    *)
(* the address is known and some interfaces are.  The read may fail.       *)
VppSetNode_Once(v, e, addr) ==
    IF addr = None \/ addr = v.ipAddr THEN Unchanged(v, e)
    ELSE LET moved == [v EXCEPT !.ipAddr = addr]
         IN {[v |-> [moved EXCEPT !.ethIfcs = addr], e |-> e, ok |-> TRUE, failures |-> 0],
             [v |-> moved, e |-> e, ok |-> FALSE, failures |-> 1]}

VppSetNode(v, e, addr) ==
    IF addr = None \/ (addr = v.ipAddr /\ v.ethIfcs # None) THEN Unchanged(v, e)
    ELSE LET moved == [v EXCEPT !.ipAddr = addr]
         IN {[v |-> [moved EXCEPT !.ethIfcs = addr], e |-> e, ok |-> TRUE, failures |-> 0],
             [v |-> moved, e |-> e, ok |-> FALSE, failures |-> 1]}

(* One turn of the loop that renews the lease.                             *)
RenewLease_Skipped(v, e) == Unchanged(v, e)

RenewLease(v, e) ==
    updateProxyArp(v, [e EXCEPT !.missed = IF @ < MayExpire THEN @ + 1 ELSE @])
=============================================================================
