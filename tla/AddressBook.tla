----------------------------- MODULE AddressBook -----------------------------
(***************************************************************************)
(* What the allocator promises its caller, without the indexes by which it *)
(* keeps the promise: a book of who holds which address for which ports,   *)
(* in which two services appear under one address only when both ask for   *)
(* it, agree on the key and backends, and use different ports.  The book   *)
(* does not show what was asked for, only the answer: that nothing is      *)
(* refused without need is the allocator's property DecidesByHoldings.     *)
(***************************************************************************)
EXTENDS Sequences

CONSTANTS Svc, IP, Pools, BuggyIP, NoSharing, Request, None

VARIABLES
    pools,      \* the address pools in force
    book,       \* the holding of each service: [ip, ports, key] or None
    ok          \* whether the last request was granted

vars == <<pools, book, ok>>

(* Address ip is in pool p and may be handed out.                          *)
InPool(p, ip) ==
    /\ \E i \in DOMAIN p.cidr : p.cidr[i] = ip
    /\ p.AvoidBuggyIPs => ip \notin BuggyIP

Allowed(ps, ip) == \E n \in DOMAIN ps : InPool(ps[n], ip)

(* Holding h does not stand in the way of request req.                     *)
Compatible(h, req) ==
    /\ h.key = req.key
    /\ req.key.sharing # NoSharing
    /\ h.ports \cap req.ports = {}

(* The book has room for svc to hold ip with req.                          *)
Grantable(svc, ip, req) ==
    /\ Allowed(pools, ip)
    /\ \A t \in Svc \ {svc} :
          book[t] # None /\ book[t].ip = ip => Compatible(book[t], req)

Init ==
    /\ pools = [n \in {} |-> None]
    /\ book = [s \in Svc |-> None]
    /\ ok = TRUE

(* One of the wanted addresses is granted, or there is none to grant.      *)
Grant(svc, wanted, req) ==
    \/ /\ \E ip \in wanted :
             /\ Grantable(svc, ip, req)
             /\ book' = [book EXCEPT ![svc] =
                            [ip |-> ip, ports |-> req.ports, key |-> req.key]]
       /\ ok' = TRUE
       /\ UNCHANGED pools
    \/ /\ \A ip \in wanted : ~Grantable(svc, ip, req)
       /\ ok' = FALSE
       /\ UNCHANGED <<pools, book>>

(* A service that holds an address and asks for any gets that one again.   *)
Want(svc, P) ==
    IF book[svc] # None THEN {book[svc].ip}
    ELSE {ip \in IP : \E n \in P : InPool(pools[n], ip)}

Release(svc) ==
    /\ book' = [book EXCEPT ![svc] = None]
    /\ ok' = (book[svc] # None)
    /\ UNCHANGED pools

(* New pools are adopted unless an address in use is in none of them.      *)
Reconfigure(ps) ==
    /\ ok' = \A s \in Svc : book[s] # None => Allowed(ps, book[s].ip)
    /\ pools' = IF ok' THEN ps ELSE pools
    /\ UNCHANGED book

Next ==
    \/ \E ps \in Pools : Reconfigure(ps)
    \/ \E svc \in Svc :
         \/ Release(svc)
         \/ \E req \in Request :
              \/ \E ip \in IP : Grant(svc, {ip}, req)
              \/ \E P \in SUBSET DOMAIN pools : Grant(svc, Want(svc, P), req)

Spec == Init /\ [][Next]_vars
==============================================================================
