----------------------------- MODULE MCAllocator -----------------------------
(***************************************************************************)
(* AllocatorSpec on a small instance: three services, three addresses of   *)
(* which i0 confuses buggy firmwares, two ports, and pool maps that        *)
(* rename, split, merge, shrink and restrict the pools.                    *)
(***************************************************************************)
EXTENDS AllocatorSpec, TLC

CONSTANTS s1, s2, s3, i0, i1, i2, p1, p2, http, dns, b1, b2

MCPool(addrs, avoid, auto) ==
    [cidr |-> addrs, AvoidBuggyIPs |-> avoid, AutoAssign |-> auto]

P1(p) == [n \in {p1} |-> p]
P12(p, q) == [n \in {p1, p2} |-> IF n = p1 THEN p ELSE q]

MCPools ==
    {P1(MCPool(<<i0, i1, i2>>, FALSE, TRUE)),
     P12(MCPool(<<i0, i1>>, TRUE, TRUE), MCPool(<<i2>>, FALSE, FALSE)),
     P12(MCPool(<<i2>>, FALSE, TRUE), MCPool(<<i1, i0>>, FALSE, TRUE))}

MCSvc == {s1, s2, s3}
MCIP == {i0, i1, i2}
MCBuggyIP == {i0}
MCPoolName == {p1, p2}

MCPort == {http, dns}
MCBackendKey == {b1, b2}

Symmetry == Permutations(MCSvc) \cup Permutations(MCPort)
                \cup Permutations(MCBackendKey)
==============================================================================
