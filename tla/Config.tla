------------------------------- MODULE Config --------------------------------
(***************************************************************************)
(* The configuration parser (internal/config): from the file in the        *)
(* ConfigMap, after YAML, to the Config that the controller and the        *)
(* speaker adopt.  A parser returns None where the code returns an error.  *)
(*                                                                         *)
(* Addresses are the last 2^Bits of IPv4 and of IPv6, numbered from 0 in   *)
(* each family.  Lengths of prefixes are the real ones: a prefix is the    *)
(* number of bits of its mask (32 or 128) and how many of them are host    *)
(* bits.  An IPv4 address may be written as an IPv6 one; a prefix written  *)
(* so has an IPv4 address and a mask of 128 bits.                          *)
(***************************************************************************)
EXTENDS Integers, Sequences, FiniteSetsExt, Functions

CONSTANTS
    Bits,       \* host bits of the widest prefix
    Labels,     \* the label sets a node may have
    Bad,        \* text that is not what it should be
    None        \* nothing written (nil, ""); an error

ASSUME ConfigAssumption == Bits \in 0..31

(* The number of addresses with the same prefix.                           *)
Size(host) == 2^host

(* An IP, and an IPNet.                                                    *)
Addr == [family : {4, 6}, ip : 0..Size(Bits) - 1]
Net == [family : {4, 6}, mask : {32, 128}, ip : 0..Size(Bits) - 1, host : 0..Bits]

ones(n) == n.mask - n.host
Masked(ip, host) == ip - (ip % Size(host))

(* IPNet.Contains of the standard library.                                 *)
ContainsIP(n, family, ip) == n.family = family /\ Masked(ip, n.host) = n.ip

-----------------------------------------------------------------------------
(***************************************************************************)
(* Address ranges.                                                         *)
(***************************************************************************)

(* A prefix with h host bits starts at fi, and does not reach beyond li.   *)
Fits_Unaligned(fi, h, li) == fi + Size(h) - 1 <= li

Fits(fi, h, li) == fi % Size(h) = 0 /\ fi + Size(h) - 1 <= li

Widest(fi, li) == CHOOSE h \in 0..Bits : \A k \in 1..Bits : Fits(fi, k, li) <=> k <= h

(* The prefixes from first to last, each the widest that fits.  The loop   *)
(* ends with the last address there is, too.                               *)
Summarize(first, last) ==
    LET Prefix(fi) == [family |-> first.family, mask |-> IF first.family = 4 THEN 32 ELSE 128,
                       ip |-> fi, host |-> Widest(fi, last.ip)]
        s[fi \in 0..Size(Bits)] ==
            IF fi > last.ip THEN <<>> ELSE <<Prefix(fi)>> \o s[fi + Size(Widest(fi, last.ip))]
    IN IF first.family = last.family THEN s[first.ip] ELSE <<>>

(* An entry of addresses: a prefix, as <<net>> whose host bits need not be *)
(* zero, or a range, as <<from, to>>.                                      *)
Entry == [1..1 -> Net] \cup [1..2 -> Addr]

parseCIDR(cidr) ==
    IF cidr = Bad THEN None
    ELSE IF Len(cidr) = 1 THEN <<[cidr[1] EXCEPT !.ip = Masked(@, cidr[1].host)]>>
    ELSE Summarize(cidr[1], cidr[2])

cidrContainsCIDR_SameLength(outer, inner) ==
    ones(outer) = ones(inner) /\ outer.family = inner.family /\ outer.ip = inner.ip

cidrContainsCIDR(outer, inner) ==
    \/ ones(outer) = ones(inner) /\ outer.family = inner.family /\ outer.ip = inner.ip
    \/ ones(outer) < ones(inner) /\ ContainsIP(outer, inner.family, inner.ip)

cidrsOverlap(a, b) == cidrContainsCIDR(a, b) \/ cidrContainsCIDR(b, a)

-----------------------------------------------------------------------------
(***************************************************************************)
(* Pools.                                                                  *)
(***************************************************************************)

(* Sequences, appended one after the other.                                *)
Appended(ss) ==
    LET all[k \in 0..Len(ss)] == IF k = 0 THEN <<>> ELSE all[k - 1] \o ss[k]
    IN all[Len(ss)]

(* A community is its sections, with a negative number for one that is not *)
(* a number; the uint32 made of two of them is left in halves.             *)
parseCommunity(c) ==
    IF Len(c) = 2 /\ \A k \in 1..2 : c[k] \in 0..65535 THEN c ELSE None

(* What an advertisement's communities stand for: those with a name in     *)
(* bgp-communities, and the others as they are.                            *)
Communities(cs, named) ==
    {IF c \in DOMAIN named THEN named[c] ELSE parseCommunity(c) : c \in cs}

Given(v, default) == IF v = None THEN default ELSE v

(* An aggregate is within the prefix of an address, for each of cidrs.     *)
Aggregates_Wider(length, cidrs) ==
    /\ length <= 32
    /\ \A i \in DOMAIN cidrs : length >= ones(cidrs[i]) - 1

Aggregates(length, cidrs) ==
    /\ length <= 32
    /\ \A i \in DOMAIN cidrs : length >= ones(cidrs[i])

parseBGPAdvertisements(ads, cidrs, named) ==
    LET Ad(ad) == [AggregationLength |-> Given(ad.AggregationLength, 32),
                   LocalPref |-> Given(ad.LocalPref, 0),
                   Communities |-> Communities(ad.Communities, named)]
        ret == [k \in DOMAIN ads |-> Ad(ads[k])]
    IN CASE ads = <<>> -> <<[AggregationLength |-> 32, LocalPref |-> 0, Communities |-> {}]>>
         [] \E k \in DOMAIN ret : \/ ~Aggregates(ret[k].AggregationLength, cidrs)
                                 \/ None \in ret[k].Communities -> None
         [] OTHER -> ret

parseAddressPool(p, named) ==
    LET nets == [k \in DOMAIN p.Addresses |-> parseCIDR(p.Addresses[k])]
        cidrs == Appended(nets)
        Pool(ads) == [Protocol |-> p.Protocol, CIDR |-> cidrs,
                      AvoidBuggyIPs |-> p.AvoidBuggyIPs,
                      AutoAssign |-> Given(p.AutoAssign, TRUE), BGPAdvertisements |-> ads]
    IN CASE \/ p.Name = None
            \/ p.Addresses = <<>>
            \/ \E k \in DOMAIN nets : nets[k] = None -> None
         [] OTHER ->
            CASE p.Protocol = "layer2" -> IF p.BGPAdvertisements = <<>> THEN Pool(<<>>) ELSE None
              [] p.Protocol = "bgp" ->
                    LET ads == parseBGPAdvertisements(p.BGPAdvertisements, cidrs, named)
                    IN IF ads = None THEN None ELSE Pool(ads)
              [] OTHER -> None

-----------------------------------------------------------------------------
(***************************************************************************)
(* Peers.                                                                  *)
(***************************************************************************)

(* A hold time is written in milliseconds here, and counted in seconds.    *)
(* The conversion to an integer rounds towards zero.                       *)
Seconds(ms) == IF ms < 0 THEN -((-ms) \div 1000) ELSE ms \div 1000

parseHoldTime(ht) ==
    IF ht = None THEN 90
    ELSE IF ht = Bad \/ (Seconds(ht) # 0 /\ Seconds(ht) < 3) THEN None
    ELSE Seconds(ht)

(* The label sets that meet all requirements of a node selector; one that  *)
(* is not well formed is Bad.                                              *)
parseNodeSelector(ns) ==
    IF \E k \in DOMAIN ns : ns[k] = Bad THEN None
    ELSE {l \in Labels : \A k \in DOMAIN ns : l \in ns[k]}

(* An address is its family here, a peer's own and that of its router ID;  *)
(* the password is left out.                                               *)
parsePeer(p) ==
    LET holdTime == parseHoldTime(p.HoldTime)
        sels == {parseNodeSelector(p.NodeSelectors[k]) : k \in DOMAIN p.NodeSelectors}
    IN IF \/ p.MyASN = 0
          \/ p.ASN = 0
          \/ p.Addr = Bad
          \/ holdTime = None
          \/ p.RouterID = Bad
          \/ None \in sels
       THEN None
       ELSE [MyASN |-> p.MyASN, ASN |-> p.ASN, Addr |-> p.Addr, HoldTime |-> holdTime,
             Port |-> IF p.Port = 0 THEN 179 ELSE p.Port, RouterID |-> p.RouterID,
             selects |-> IF sels = {} THEN Labels ELSE UNION sels]

-----------------------------------------------------------------------------
(***************************************************************************)
(* The whole file.                                                         *)
(***************************************************************************)

peersOf(raw) == [k \in DOMAIN raw.Peers |-> parsePeer(raw.Peers[k])]
communitiesOf(raw) == [n \in DOMAIN raw.BGPCommunities |-> parseCommunity(raw.BGPCommunities[n])]
poolsOf(raw) == [k \in DOMAIN raw.Pools |-> parseAddressPool(raw.Pools[k], communitiesOf(raw))]
allCIDRs(pools) == Appended([k \in DOMAIN pools |-> pools[k].CIDR])

(* Each part of the file would do by itself, and pools have different      *)
(* names.                                                                  *)
Acceptable(raw) ==
    /\ \A k \in DOMAIN raw.Peers : peersOf(raw)[k] # None
    /\ \A n \in DOMAIN raw.BGPCommunities : communitiesOf(raw)[n] # None
    /\ \A k \in DOMAIN raw.Pools : poolsOf(raw)[k] # None
    /\ \A j, k \in DOMAIN raw.Pools : j < k => raw.Pools[j].Name # raw.Pools[k].Name

Overlap(all) == \E i, j \in DOMAIN all : i < j /\ cidrsOverlap(all[i], all[j])

Accepts(raw) == Acceptable(raw) /\ ~Overlap(allCIDRs(poolsOf(raw)))

Parse(raw) ==
    LET Name(k) == raw.Pools[k].Name
    IN IF Accepts(raw)
       THEN [Peers |-> peersOf(raw),
             Pools |-> [n \in {Name(k) : k \in DOMAIN raw.Pools} |->
                           poolsOf(raw)[CHOOSE k \in DOMAIN raw.Pools : Name(k) = n]]]
       ELSE None

(* What may be written in a file, after YAML.                              *)
IsPool(p) ==
    /\ p.Addresses \in Seq(Entry \cup {Bad})
    /\ \A i \in DOMAIN p.BGPAdvertisements :
          LET ad == p.BGPAdvertisements[i]
          IN ad.AggregationLength \in Int \cup {None} /\ IsFiniteSet(ad.Communities)

IsPeer(p) ==
    /\ p.MyASN \in Nat /\ p.ASN \in Nat /\ p.Addr \in {4, 6, Bad}
    /\ p.HoldTime \in Int \cup {None, Bad} /\ p.RouterID \in {4, 6, None, Bad}

IsFile(raw) ==
    /\ Len(raw.Pools) \in Nat /\ raw.Pools = [k \in 1..Len(raw.Pools) |-> raw.Pools[k]]
    /\ \A k \in DOMAIN raw.Pools : IsPool(raw.Pools[k])
    /\ \A k \in DOMAIN raw.Peers : IsPeer(raw.Peers[k])
=============================================================================
