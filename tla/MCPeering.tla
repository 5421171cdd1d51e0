------------------------------ MODULE MCPeering ------------------------------
(***************************************************************************)
(* Small instances of configuration files and routers.  The files vary     *)
(* one thing at a time: the addresses of one or two pools, the             *)
(* advertisements of a pool, or a peer.                                    *)
(***************************************************************************)
EXTENDS Peering, TLC

CONSTANTS rack, plain

IP4(ip) == [family |-> 4, ip |-> ip]
IP6(ip) == [family |-> 6, ip |-> ip]
MCLbIPs == {IP4(ip) : ip \in {0, 1, 127, 128, 254, 255, 256, 383, 384, 510, 511}} \cup {IP6(0), IP6(511)}

(* Blocks with and without host bits set, nested, adjacent and equal; an *)
(* IPv4 prefix written as IPv6 (with mask 128); ranges up to the last      *)
(* address, of one address, of none, and from one family to the other.     *)
Prefix(family, mask, ip, host) == <<[family |-> family, mask |-> mask, ip |-> ip, host |-> host]>>
Blocks == {Prefix(4, 32, 0, 9), Prefix(4, 32, 0, 8), Prefix(4, 32, 300, 8), Prefix(4, 32, 128, 7),
             Prefix(4, 32, 255, 0), Prefix(4, 128, 0, 8), Prefix(4, 128, 128, 7),
             Prefix(6, 128, 0, 9), Prefix(6, 128, 511, 0)}
Ranges == {<<IP4(1), IP4(254)>>, <<IP4(255), IP4(256)>>, <<IP4(384), IP4(511)>>, <<IP4(511), IP4(511)>>,
           <<IP4(2), IP4(1)>>, <<IP4(0), IP6(9)>>, <<IP6(255), IP6(511)>>}
Entries == Blocks \cup Ranges \cup {Bad}

Pool(name, protocol, addresses, ads) ==
    [Name |-> name, Protocol |-> protocol, Addresses |-> addresses, AvoidBuggyIPs |-> FALSE,
     AutoAssign |-> None, BGPAdvertisements |-> ads]
L2(name, addresses) == Pool(name, "layer2", addresses, <<>>)

Router == [MyASN |-> 64512, ASN |-> 64512, Addr |-> 4, Port |-> 0, HoldTime |-> None,
           RouterID |-> None, NodeSelectors |-> <<>>]

(* The names of communities, which are not numbers.                        *)
gold == <<-1>>
silver == <<-2>>
File(peers, pools) == [Peers |-> peers, Pools |-> pools,
                       BGPCommunities |-> gold :> <<65535, 65535>>]

Many(n) == {<<0, k>> : k \in 1..n}
Ad(length, pref, communities) ==
    [AggregationLength |-> length, LocalPref |-> pref, Communities |-> communities]
Ads == {<<Ad(length, None, {})>> : length \in {None, -1, 0, 23, 24, 25, 32, 33}}
       \cup {<<Ad(32, 100, cs)>> : cs \in {{gold}, {silver}, {gold, <<65535, 65535>>}, {<<65536, 0>>},
                                           {<<1, 2, 3>>}, Many(63), Many(64)}}
       \cup {<<>>, <<Ad(24, None, {gold}), Ad(32, 100, {<<0, 1>>})>>}

TwoPools == {File(<<>>, <<L2("a", <<x>>), L2(name, y)>>) :
                 name \in {"a", "b"}, x \in Entries, y \in {<<e>> : e \in Entries} \cup {<<>>}}
OnePool == {File(<<>>, <<L2("a", <<x, y, z>>)>>) : x \in Blocks, y, z \in Ranges}
           \cup {File(<<>>, <<Pool(name, protocol, <<x>>, <<>>)>>) :
                     name \in {"a", None}, protocol \in {"layer2", "bgp", None, Bad}, x \in Entries}
Routes == {File(<<peer>>, <<Pool("a", protocol, addresses, ads)>>) :
               peer \in {Router, [Router EXCEPT !.ASN = 65000], [Router EXCEPT !.Addr = 6]},
               protocol \in {"layer2", "bgp"},
               addresses \in {<<e>> : e \in Entries} \cup
                             {<<Prefix(4, 32, 0, 8), <<IP4(256), IP4(300)>>>>},
               ads \in Ads}
Peers == {File(<<[MyASN |-> mine, ASN |-> asn, Addr |-> addr, Port |-> 0, HoldTime |-> ht,
                  RouterID |-> id, NodeSelectors |-> sels]>>, <<Pool("a", "bgp", <<Prefix(4, 32, 0, 8)>>, <<>>)>>) :
              mine \in {0, 64512, 65536}, asn \in {0, 65535, 65536}, addr \in {4, 6, Bad},
              ht \in {None, 0, -500, -5000, 900, 2999, 3000, 65535999, 65537000, Bad},
              id \in {None, 4, 6, Bad},
              sels \in {<<>>, <<<<>>>>, <<<<{rack}>>, <<{rack}, {plain}>>>>, <<<<Bad>>>>}}
MCRaws == TwoPools \cup OnePool \cup Routes \cup Peers

(* Routers: their capabilities in one option or in one each, with others   *)
(* among them, with none, and with 4-byte AS numbers or without.           *)
Restart == <<64, 2, <<0>>>>
Remote(asn, ht, options) ==
    [asn |-> asn, Type |-> 1, Version |-> 4, ASN16 |-> IF asn > 65535 THEN 23456 ELSE asn,
     HoldTime |-> ht, options |-> options,
     Len |-> 29 + Total([k \in DOMAIN options |->
                            2 + Total([i \in DOMAIN options[k][2] |-> 2 + CapLen(options[k][2][i])])])]
Packed(asn) == <<<<2, <<MP(1), Restart, ASN32(asn)>>>>>>
Spread(asn) == <<<<2, <<ASN32(asn)>>>>, <<2, <<MP(1)>>>>, <<2, <<MP(2)>>>>>>
Old == <<<<2, <<MP(1), Restart>>>>>>
Odd == {[Remote(65535, 90, Old) EXCEPT !.Type = 3], [Remote(65535, 90, Old) EXCEPT !.Version = 3],
        Remote(65535, 90, <<>>), Remote(65535, 90, <<<<1, Old[1][2]>>>>),
        Remote(65535, 90, <<<<2, <<<<1, 8, <<1, 1>>>>>>>>>>), Remote(65535, 2, Old)}
MCRemotes == {Remote(asn, ht, opts) : asn \in {64512, 65000, 65535}, ht \in {0, 3, 90}, opts \in {Old}}
             \cup {Remote(asn, ht, opts) : asn \in {65536}, ht \in {0, 3, 90}, opts \in {Packed(65536), Spread(65536)}}
             \cup {Remote(65535, 90, Packed(65535)), Remote(65535, 90, Spread(65535))} \cup Odd
MCLocals == {<<4, 6>>, <<6, 4>>, <<>>}
=============================================================================
