------------------------------ MODULE Announcer ------------------------------
(***************************************************************************)
(* The layer 2 announcer (internal/layer2) as layer2Controller drives it:  *)
(* it answers ARP and NDP requests for the addresses of services, on every *)
(* interface that a scan of the node's interfaces found fit.               *)
(*                                                                         *)
(* Its goroutines are the worker that calls SetBalancer and                *)
(* DeleteBalancer, the scan, one spam for each address taken on, and one   *)
(* for each responder.  They meet under the mutex of Announce, so what is  *)
(* done while it is held is one step.  A scan lists the interfaces before  *)
(* it takes the mutex, and a responder answers after it gave it back.      *)
(***************************************************************************)
EXTENDS Integers, FiniteSets

CONSTANTS
    Svc,            \* service names
    V4, V6,         \* addresses
    Group,          \* the solicited-node multicast group of each of V6
    Assigned,       \* the addresses the controller may give each service
    NIfc,           \* the interfaces have the indexes 1..NIfc
    Start,          \* what interfaces there may be at first
    None,           \* a missing map entry
    Rounds,         \* gratuitous announcements of one spam: 5 s, one each 1.1 s
    MaxCalls,       \* bounds on the calls that change something,
    MaxChanges,     \* on the changes of the node's interfaces,
    MaxAnswering,   \* on the requests answered at a time,
    MaxFailures     \* and on the system calls that fail

IP == V4 \cup V6
Ifc == 1..NIfc
Groups == {Group[ip] : ip \in V6}

(* What makes an interface fit for ARP and for NDP.  One that is not there *)
(* is fit for neither.  (So is one that is down, enslaved or NOARP; an     *)
(* interface comes to be so between scans, or not at all.)                 *)
Fitness == SUBSET {"broadcast", "linkLocal"}

ASSUME AnnouncerAssumption ==
    /\ IsFiniteSet(V6)
    /\ V4 \cap V6 = {}
    /\ None \notin IP
    /\ DOMAIN Group = V6
    /\ Assigned \in [Svc -> SUBSET IP]
    /\ NIfc \in Nat
    /\ Start \subseteq [Ifc -> Fitness]
    /\ Rounds \in Nat \ {0}

VARIABLES
    ifcs,       \* what a scan can see of each interface now
    listed,     \* what the scan under way saw of it; None between scans
    ips,        \* svcName -> IP
    ipRefcnt,   \* IP -> number of uses
    arps,       \* the interfaces with an ARP responder
    ndps,       \* interface -> its NDP responder
    spams,      \* rounds that the spams for each service have left
    answering,  \* requests that a responder is about to answer
    sent,       \* what the last step told neighbours: addresses and interfaces
    budget      \* calls, changes and failures so far

announce == <<ips, ipRefcnt, spams>>
vars == <<ifcs, listed, announce, arps, ndps, answering, sent, budget>>

Quiet == sent' = {}

Init ==
    /\ ifcs \in Start
    /\ listed = None
    /\ ips = [s \in Svc |-> None]
    /\ ipRefcnt = [ip \in IP |-> 0]
    /\ arps = {}
    /\ ndps = [i \in {} |-> None]
    /\ spams = [s \in Svc |-> 0]
    /\ answering = {}
    /\ sent = {}
    /\ budget = [calls |-> 0, changes |-> 0, failures |-> 0]

CanFail(n) == budget.failures + n <= MaxFailures
Fails(n) == CanFail(n) /\ budget' = [budget EXCEPT !.failures = @ + n]

-----------------------------------------------------------------------------
(***************************************************************************)
(* The NDP responder.  missed is not in the code: it counts, for each      *)
(* group, the addresses that were being watched when the responder was     *)
(* made, and those for which it failed to join the group.                  *)
(***************************************************************************)

Watched == {ip \in V6 : ipRefcnt[ip] > 0}
In(g, S) == {ip \in S : Group[ip] = g}

newNDPResponder ==
    [solicitedNodeGroups |-> [g \in Groups |-> 0],
     joined |-> {},
     missed |-> [g \in Groups |-> Cardinality(In(g, Watched))]]

(* The first watcher joins the group; joins says whether that works.       *)
Watch_CountsFailures(n, ip, joins) ==
    LET g == Group[ip]
        counted == [n EXCEPT !.solicitedNodeGroups[g] = @ + 1]
    IN IF n.solicitedNodeGroups[g] # 0 THEN counted
       ELSE IF joins THEN [counted EXCEPT !.joined = @ \cup {g}]
       ELSE [counted EXCEPT !.missed[g] = @ + 1]

Watch(n, ip, joins) ==
    LET g == Group[ip]
        counted == [n EXCEPT !.solicitedNodeGroups[g] = @ + 1]
    IN IF n.solicitedNodeGroups[g] # 0 THEN counted
       ELSE IF joins THEN [counted EXCEPT !.joined = @ \cup {g}]
       ELSE [n EXCEPT !.missed[g] = @ + 1]

(* The last one leaves it, which is taken to work.                         *)
Unwatch(n, ip) ==
    LET g == Group[ip]
        less == [n EXCEPT !.solicitedNodeGroups[g] = @ - 1]
    IN IF less.solicitedNodeGroups[g] = 0 THEN [less EXCEPT !.joined = @ \ {g}] ELSE less

(* Where watching ip means joining its group.                              *)
Joins(ip) == {i \in DOMAIN ndps : ip \in V6 /\ ndps[i].solicitedNodeGroups[Group[ip]] = 0}

-----------------------------------------------------------------------------
(***************************************************************************)
(* The calls of layer2Controller.  SetBalancer changes nothing for a       *)
(* service that holds an address, nor DeleteBalancer for one that holds    *)
(* none (AnnounceName).                                                    *)
(***************************************************************************)

Calls(failures) ==
    /\ budget.calls < MaxCalls
    /\ CanFail(failures)
    /\ budget' = [budget EXCEPT !.calls = @ + 1, !.failures = @ + failures]

(* The first service on an address gets to hold it; for any other, or for  *)
(* the same one when it has given it up meanwhile, it is only counted.     *)
SetBalancer(s, ip) ==
    /\ ips[s] = None
    /\ ipRefcnt' = [ipRefcnt EXCEPT ![ip] = @ + 1]
    /\ IF ipRefcnt[ip] > 0
       THEN Calls(0) /\ UNCHANGED <<ips, spams, ndps>>
       ELSE \E F \in SUBSET Joins(ip) :
            /\ Calls(Cardinality(F))
            /\ ndps' = IF ip \in V4 THEN ndps
                       ELSE [i \in DOMAIN ndps |-> Watch(ndps[i], ip, i \notin F)]
            /\ ips' = [ips EXCEPT ![s] = ip]
            /\ spams' = [spams EXCEPT ![s] = @ + Rounds]
    /\ Quiet
    /\ UNCHANGED <<ifcs, listed, arps, answering>>

DeleteBalancer(s) ==
    LET ip == ips[s]
    IN /\ ip # None
       /\ Calls(0)
       /\ ips' = [ips EXCEPT ![s] = None]
       /\ ipRefcnt' = [ipRefcnt EXCEPT ![ip] = @ - 1]
       /\ ndps' = IF ipRefcnt'[ip] > 0 \/ ip \in V4 THEN ndps
                  ELSE [i \in DOMAIN ndps |-> Unwatch(ndps[i], ip)]
       /\ Quiet
       /\ UNCHANGED <<ifcs, listed, arps, spams, answering>>

-----------------------------------------------------------------------------
(***************************************************************************)
(* The scan.                                                               *)
(***************************************************************************)

List ==
    /\ listed = None
    /\ listed' = ifcs
    /\ Quiet
    /\ UNCHANGED <<ifcs, announce, arps, ndps, answering, budget>>

(* The flags are those that were listed, the addresses are read now.       *)
keepARP == {i \in Ifc : "broadcast" \in listed[i]}
keepNDP == {i \in Ifc : listed[i] # {} /\ "linkLocal" \in ifcs[i]}

WithResponders(I) ==
    [i \in I |-> IF i \in DOMAIN ndps THEN ndps[i] ELSE newNDPResponder]

(* A socket can be opened wherever one is missing on interfaces below n.   *)
Opens(n) == \A i \in keepARP \ arps : i < n => ifcs[i] # {}

(* Responders that are not kept are closed, and answer no more.            *)
updateInterfaces_KeepsAll ==
    /\ listed # None
    /\ listed' = None
    /\ Opens(NIfc + 1)
    /\ arps' = arps \cup keepARP
    /\ ndps' = WithResponders(DOMAIN ndps \cup keepNDP)
    /\ Quiet
    /\ UNCHANGED <<ifcs, announce, answering, budget>>

updateInterfaces ==
    /\ listed # None
    /\ listed' = None
    /\ Opens(NIfc + 1)
    /\ arps' = keepARP
    /\ ndps' = WithResponders(keepNDP)
    /\ answering' = {q \in answering : q[1] \in IF q[2] \in V4 THEN keepARP ELSE keepNDP}
    /\ Quiet
    /\ UNCHANGED <<ifcs, announce, budget>>

(* The scan returns at interface f, with its ARP responder made or not:    *)
(* the responders of the interfaces before it have been made, nothing has  *)
(* been closed.                                                            *)
updateInterfacesFails(f, made) ==
    /\ listed # None
    /\ listed' = None
    /\ Opens(f + made)
    /\ arps' = arps \cup {i \in keepARP : i < f + made}
    /\ ndps' = WithResponders(DOMAIN ndps \cup {i \in keepNDP : i < f})
    /\ IF made = 0 /\ f \in keepARP \ arps /\ ifcs[f] = {}
       THEN UNCHANGED budget
       ELSE Fails(1)
    /\ made = 1 => f \in keepNDP \ DOMAIN ndps
    /\ Quiet
    /\ UNCHANGED <<ifcs, announce, answering>>

-----------------------------------------------------------------------------
(***************************************************************************)
(* What is sent.                                                           *)
(***************************************************************************)

(* The responders for ip.                                                  *)
Clients(ip) == IF ip \in V4 THEN arps ELSE DOMAIN ndps

(* One round of a spam: whatever the service holds now is announced, on    *)
(* all interfaces or, when a write fails, on those that came before.       *)
gratuitous_GivesUp(s) ==
    /\ spams[s] > 0
    /\ IF ips[s] = None THEN spams' = [spams EXCEPT ![s] = @ - 1] /\ Quiet /\ UNCHANGED budget
       ELSE \E I \in SUBSET Clients(ips[s]) :
            /\ sent' = I \X {ips[s]}
            /\ spams' = [spams EXCEPT ![s] = IF I = Clients(ips[s]) THEN @ - 1 ELSE 0]
            /\ Fails(IF I = Clients(ips[s]) THEN 0 ELSE 1)
    /\ UNCHANGED <<ifcs, listed, ips, ipRefcnt, arps, ndps, answering>>

gratuitous(s) ==
    /\ spams[s] > 0
    /\ spams' = [spams EXCEPT ![s] = @ - 1]
    /\ IF ips[s] = None THEN Quiet /\ UNCHANGED budget
       ELSE \E I \in SUBSET Clients(ips[s]) :
            /\ sent' = I \X {ips[s]}
            /\ Fails(IF I = Clients(ips[s]) THEN 0 ELSE 1)
    /\ UNCHANGED <<ifcs, listed, ips, ipRefcnt, arps, ndps, answering>>


shouldAnnounce(ip) == \E s \in Svc : ips[s] = ip

(* A request reaches a responder by broadcast, or in a group it joined.    *)
Reaches(i, ip) ==
    /\ i \in Clients(ip)
    /\ ip \in V6 => Group[ip] \in ndps[i].joined

(* processRequest, up to the decision to answer.                           *)
GotRequest(i, ip) ==
    /\ Reaches(i, ip)
    /\ Cardinality(answering) < MaxAnswering
    /\ \A q \in answering : q[1] = i => (q[2] \in V4) # (ip \in V4)
    /\ shouldAnnounce(ip)
    /\ answering' = answering \cup {<<i, ip>>}
    /\ Quiet
    /\ UNCHANGED <<ifcs, listed, announce, arps, ndps, budget>>

(* The rest of it; a write that fails is only logged.                      *)
Reply(i, ip) ==
    /\ <<i, ip>> \in answering
    /\ answering' = answering \ {<<i, ip>>}
    /\ \/ sent' = {<<i, ip>>} /\ UNCHANGED budget
       \/ Quiet /\ Fails(1)
    /\ UNCHANGED <<ifcs, listed, announce, arps, ndps>>

-----------------------------------------------------------------------------
(***************************************************************************)
(* The node.                                                               *)
(***************************************************************************)

Change(i, fit) ==
    /\ budget.changes < MaxChanges
    /\ budget' = [budget EXCEPT !.changes = @ + 1]
    /\ ifcs[i] # fit
    /\ ifcs' = [ifcs EXCEPT ![i] = fit]
    /\ Quiet
    /\ UNCHANGED <<listed, announce, arps, ndps, answering>>

Next ==
    \/ \E s \in Svc : \E ip \in Assigned[s] : SetBalancer(s, ip)
    \/ \E s \in Svc : DeleteBalancer(s)
    \/ List
    \/ updateInterfaces
    \/ \E f \in Ifc, made \in {0, 1} : updateInterfacesFails(f, made)
    \/ \E s \in Svc : gratuitous(s)
    \/ \E i \in Ifc, ip \in IP : GotRequest(i, ip)
    \/ \E i \in Ifc, ip \in IP : Reply(i, ip)
    \/ \E i \in Ifc, fit \in Fitness : Change(i, fit)

Spec == Init /\ [][Next]_vars

(* The scan and the spams are loops of goroutines of their own.  Nothing   *)
(* is owed by the cluster, the node or its neighbours.                     *)
Fairness ==
    /\ WF_vars(List)
    /\ WF_vars(updateInterfaces \/ \E f \in Ifc, made \in {0, 1} : updateInterfacesFails(f, made))
    /\ \A s \in Svc : WF_vars(gratuitous(s))

FairSpec == Spec /\ Fairness

-----------------------------------------------------------------------------
(***************************************************************************)
(* Properties.                                                             *)
(***************************************************************************)

(* How far a responder's count of a group (solicitedNodeGroups) is off the *)
(* number of addresses watched in the group never changes, except by a     *)
(* join that fails: it is what the responder missed, for good.  And the    *)
(* group is joined exactly while the count is positive.                    *)
GroupCounts ==
    \A i \in DOMAIN ndps, g \in Groups :
        /\ ndps[i].solicitedNodeGroups[g] = Cardinality(In(g, Watched)) - ndps[i].missed[g]
        /\ g \in ndps[i].joined <=> ndps[i].solicitedNodeGroups[g] > 0


(* When the interfaces stop changing, the responders come to be on those   *)
(* that are fit for them, and on no others, whatever the scans listed      *)
(* before and wherever they had to return.                                 *)
RespondersFollow ==
    <>[](/\ arps = {i \in Ifc : "broadcast" \in ifcs[i]}
         /\ DOMAIN ndps = {i \in Ifc : "linkLocal" \in ifcs[i]})

(* An address that a service has just got to hold is announced on all      *)
(* interfaces that have a responder for it at one time, in spite of writes *)
(* that fail, unless it is given up before.                                *)
MadeKnown ==
    \A s \in Svc :
        (ips[s] # None /\ spams[s] >= Rounds)
            ~> (ips[s] = None \/ sent = Clients(ips[s]) \X {ips[s]})
=============================================================================
