---------------------------- MODULE MCController -----------------------------
(* Small instances of the controller.                                      *)
EXTENDS Controller, TLC

CONSTANTS s1, s2, i1, i2, http, dns, p1, none

Pool1(addrs) == [cidr |-> addrs, AvoidBuggyIPs |-> FALSE, AutoAssign |-> TRUE]

OneAddress == p1 :> Pool1(<<i1>>)
TwoAddresses == p1 :> Pool1(<<i1, i2>>)
BothPools == {OneAddress, TwoAddresses}
LargePool == {TwoAddresses}

Plain == [LoadBalancer |-> TRUE, LoadBalancerIP |-> none, pool |-> none,
          sharing |-> "", Local |-> FALSE, selector |-> "", ports |-> {http}]

(* A request for i2, not in the form in which IP.String writes it.         *)
Wants2 == [Plain EXCEPT !.LoadBalancerIP = [ip |-> i2, canonical |-> FALSE]]
NotBalanced == [Plain EXCEPT !.LoadBalancer = FALSE]

(* Services that may share: by ports, by policy and by selector.           *)
SharedWeb == [Wants2 EXCEPT !.sharing = "key", !.selector = "app"]
LocalDns == [Plain EXCEPT !.sharing = "key", !.selector = "app", !.ports = {dns}, !.Local = TRUE]

PlainOnly == {Plain}
Various == {Plain, NotBalanced, SharedWeb, LocalDns}

Symmetry == Permutations({s1, s2})
=============================================================================
