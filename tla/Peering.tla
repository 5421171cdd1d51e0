------------------------------- MODULE Peering -------------------------------
(***************************************************************************)
(* From the configuration file to what a router is told: the file is       *)
(* parsed (Config), a session to one of its peers exchanges OPENs, and     *)
(* the addresses of its pools are announced and withdrawn (Messages).      *)
(* Session looks at when these things are done, this module at what is     *)
(* said.                                                                   *)
(***************************************************************************)
EXTENDS Config

INSTANCE Messages

CONSTANTS
    Raws,       \* the files
    Remotes,    \* the routers: their AS numbers, and the OPENs they send
    Locals,     \* the families of an interface's addresses, in order, or
                \* <<>> when the interface cannot be found
    LbIPs,      \* the addresses given to services
    Counts      \* how many routes may be withdrawn at once

(* The capabilities in an OPEN that tell a 4-byte AS number.               *)
ASNs(open) ==
    {cap \in UNION {Range(open.options[k][2]) : k \in DOMAIN open.options} : Code(cap) = 65}

(* An OPEN, with the real AS number of the router; and what is read of it. *)
Word == {n \in Nat : n < 2^16}
Option == (0..255) \X Seq((0..255) \X (0..255) \X Seq(Nat))
Open == [asn : Nat \ {0}, Type : 0..255, Version : 0..255, ASN16 : Word, HoldTime : Word,
         Len : Word, options : Seq(Option)]
openResult == [asn : Nat, holdTime : Nat, mp4 : BOOLEAN, mp6 : BOOLEAN]

(* A router's OPEN tells its AS number, in the 2 bytes if it fits there    *)
(* and in a capability if it does not.                                     *)
Honest(open) ==
    /\ open.asn <= 65535 => open.ASN16 = open.asn
    /\ open.asn > 65535 => ASNs(open) # {}
    /\ \A cap \in ASNs(open) : CapLen(cap) = 4 => cap[3] = <<open.asn>>

(* None and Bad are nothing else.                                          *)
ASSUME NothingAssumption ==
    {None, Bad} \cap (Int \cup Entry \cup openResult) = {} /\ None # Bad

ASSUME PeeringAssumption ==
    /\ \A raw \in Raws : IsFile(raw)
    /\ \A open \in Remotes : open \in Open /\ Honest(open)
    /\ Locals \subseteq Seq({4, 6})
    /\ LbIPs \subseteq Addr
    /\ Counts \subseteq Nat

VARIABLES
    phase,      \* how far the speaker has come
    raw, cfg,   \* the file, and what Parse made of it
    link,       \* the session: [peer, remote, local, actualHoldTime]
    route,      \* the last route announced
    sent        \* the messages sent in the last step

vars == <<phase, raw, cfg, link, route, sent>>

Init ==
    /\ phase = "start"
    /\ raw \in Raws
    /\ cfg = None
    /\ link = None
    /\ route = None
    /\ sent = <<>>

(* A file that is refused leaves everything as it was.                     *)
Load ==
    /\ phase = "start"
    /\ cfg' = Parse(raw)
    /\ phase' = IF Accepts(raw) THEN "configured" ELSE "refused"
    /\ UNCHANGED <<raw, link, route, sent>>

-----------------------------------------------------------------------------
(***************************************************************************)
(* The session.                                                            *)
(***************************************************************************)

(* For an IPv6 connection the loop looks at the first address of the      *)
(* interface only, and returns it if it is IPv4.                           *)
getRouterID(addr, local) ==
    IF addr = 4 \/ (local # <<>> /\ local[1] = 4) THEN 4 ELSE None

(* New keeps a router ID of the file if it is IPv4 (To4).                  *)
New(peer) == IF peer.RouterID = 4 THEN 4 ELSE None

RouterID(peer, local) ==
    IF New(peer) # None THEN New(peer) ELSE getRouterID(peer.Addr, local)

(* One attempt.  Without a router ID there is no OPEN.                     *)
Connect(peer, remote, local) ==
    LET id == RouterID(peer, local)
        open == sendOpen(peer.MyASN, peer.HoldTime)
        op == readOpen(remote)
        accepted == id # None /\ op # None /\ op.asn = peer.ASN
    IN /\ phase \in {"configured", "failed"}
       /\ phase' = IF accepted THEN "up" ELSE "failed"
       /\ sent' = CASE id = None -> <<>>
                    [] accepted -> <<open, sendKeepalive>>
                    [] OTHER -> <<open>>
       /\ link' = [peer |-> peer, remote |-> remote, local |-> local, actualHoldTime |->
                      IF accepted /\ op.holdTime < peer.HoldTime THEN op.holdTime ELSE peer.HoldTime]
       /\ UNCHANGED <<raw, cfg, route>>

-----------------------------------------------------------------------------
(***************************************************************************)
(* Routes.                                                                 *)
(***************************************************************************)

(* What bgpController makes of an address: nothing is left of an IPv6 one  *)
(* under an IPv4 mask.                                                     *)
Route(ad, lbIP) ==
    [prefix |-> IF lbIP.family = 6 THEN None ELSE Masked(lbIP.ip, 32 - ad.AggregationLength),
     length |-> ad.AggregationLength,
     NextHop |-> None, LocalPref |-> ad.LocalPref, Communities |-> ad.Communities]

(* Session.Set accepts the route.                                          *)
SetAccepts_64(adv) ==
    adv.prefix # None /\ adv.NextHop \in {None, 4} /\ Cardinality(adv.Communities) <= 64

SetAccepts(adv) ==
    adv.prefix # None /\ adv.NextHop \in {None, 4} /\ Cardinality(adv.Communities) <= 63

InPool(pool, lbIP) ==
    \E k \in DOMAIN pool.CIDR : ContainsIP(pool.CIDR[k], lbIP.family, lbIP.ip)

Announce(pool, ad, lbIP) ==
    LET adv == Route(ad, lbIP)
        peer == link.peer
    IN /\ phase = "up"
       /\ InPool(pool, lbIP)
       /\ IF SetAccepts(adv)
          THEN /\ route' = [adv |-> adv, pool |-> pool, lbIP |-> lbIP]
               /\ sent' = <<sendUpdate(peer.MyASN, peer.MyASN = peer.ASN, peer.Addr, adv)>>
          ELSE sent' = <<>> /\ UNCHANGED route
       /\ UNCHANGED <<phase, raw, cfg, link>>

(* n routes like the last one are given up at once.                        *)
Withdraw(n) ==
    /\ phase = "up"
    /\ route # None
    /\ sent' = <<sendWithdraw(<<[length |-> route.adv.length, n |-> n]>>)>>
    /\ route' = None
    /\ UNCHANGED <<phase, raw, cfg, link>>

Loaded == phase \notin {"start", "refused"}

Next ==
    \/ Load
    \/ \E remote \in Remotes, local \in Locals :
         Loaded /\ \E k \in DOMAIN cfg.Peers : Connect(cfg.Peers[k], remote, local)
    \/ \E lbIP \in LbIPs :
         Loaded /\ \E p \in DOMAIN cfg.Pools : \E k \in DOMAIN cfg.Pools[p].BGPAdvertisements :
             Announce(cfg.Pools[p], cfg.Pools[p].BGPAdvertisements[k], lbIP)
    \/ \E n \in Counts : Withdraw(n)

Spec == Init /\ [][Next]_vars

-----------------------------------------------------------------------------
(***************************************************************************)
(* Properties.                                                             *)
(***************************************************************************)

(* The addresses of a prefix are those from n.ip to Top(n).                *)
Top(n) == n.ip + Size(n.host) - 1
Share(m, n) == m.family = n.family /\ m.ip <= Top(n) /\ n.ip <= Top(m)

(* "config.Parse guarantees that these are non-overlapping, both within    *)
(* and between pools" (Pool.CIDR), and it refuses nothing else: a file     *)
(* whose peers, communities and pools are acceptable each by itself, and   *)
(* whose pools have different names, is refused if two prefixes written    *)
(* alike have an address in common, and only if two prefixes do.  (An IPv4 *)
(* prefix written as one of IPv6 has a length that cidrContainsCIDR cannot *)
(* compare with that of one written as IPv4.)                              *)
RefusesOverlap ==
    phase \in {"refused", "configured"} =>
        LET all == allCIDRs(poolsOf(raw))
        IN Acceptable(raw) =>
              /\ (\E i, j \in DOMAIN all :
                     i < j /\ Share(all[i], all[j]) /\ all[i].mask = all[j].mask)
                  => phase = "refused"
              /\ phase = "refused" =>
                    \E i, j \in DOMAIN all : i < j /\ Share(all[i], all[j])

(* An entry of addresses, as it is written, is meant to include lbIP.      *)
Includes(cidr, lbIP) ==
    \/ Len(cidr) = 1 /\ lbIP.family = cidr[1].family
                     /\ lbIP.ip \div Size(cidr[1].host) = cidr[1].ip \div Size(cidr[1].host)
    \/ Len(cidr) = 2 /\ lbIP.family = cidr[1].family /\ lbIP.family = cidr[2].family
                     /\ lbIP.ip \in cidr[1].ip..cidr[2].ip

(* A pool has exactly the addresses that were written down for it, up to   *)
(* both ends of a range and to the last address there is.                  *)
AsWritten ==
    Loaded =>
        \A k \in DOMAIN raw.Pools, lbIP \in LbIPs :
            InPool(cfg.Pools[raw.Pools[k].Name], lbIP) <=>
                \E i \in DOMAIN raw.Pools[k].Addresses : Includes(raw.Pools[k].Addresses[i], lbIP)

(* The aggregate of a route has the address of its service, and is inside  *)
(* a prefix of the service's pool.                                         *)
Inside(r) ==
    LET adv == r.adv
        top == adv.prefix + Size(32 - adv.length) - 1
    IN /\ r.lbIP.ip \in adv.prefix..top
       /\ \E k \in DOMAIN r.pool.CIDR :
             LET n == r.pool.CIDR[k]
             IN n.family = 4 /\ n.ip <= adv.prefix /\ top <= Top(n)

(* A route to the address of a service attracts traffic for addresses of   *)
(* the service's pool only.                                                *)
AggregatesInside == route # None => Inside(route)

(* The OPEN that is sent tells the configured AS number, be it of 2 or 4   *)
(* bytes, and the configured hold time, which is one that a peer may       *)
(* accept.  (A hold time of 65536 s and more does not fit its field.)      *)
OpenReadBack ==
    \A k \in DOMAIN sent :
        sent[k].Type = 1 /\ link.peer.HoldTime < 2^16 =>
            readOpen(sent[k]) = [asn |-> link.peer.MyASN, holdTime |-> link.peer.HoldTime,
                                 mp4 |-> TRUE, mp6 |-> TRUE]

(* What a router's OPEN should look like; the code asks for 37 bytes where *)
(* 29 can be enough.                                                       *)
Proper(open) ==
    /\ open.Type = 1
    /\ open.Version = 4
    /\ open.HoldTime \notin {1, 2}
    /\ open.Len >= 37
    /\ \A k \in DOMAIN open.options :
          /\ open.options[k][1] = 2
          /\ \A i \in DOMAIN open.options[k][2] :
                LET cap == open.options[k][2][i]
                IN Code(cap) \in {1, 65} => CapLen(cap) = 4

(* A session comes up with a router of the configured AS number, and with  *)
(* no other, however the router packs its capabilities; both ends then     *)
(* keep to the same hold time, the lesser of the two.  With the router it  *)
(* should be with, an attempt fails only over IPv6, without an IPv4        *)
(* router-id in the file, on an interface whose first address is not IPv4. *)
(* (That is more than getRouterID's comment allows, "Pick the first ipv4   *)
(* address on the same interface": a later one would do by that.)          *)
Negotiates ==
    /\ phase = "up" =>
         /\ link.remote.asn = link.peer.ASN
         /\ link.actualHoldTime = Min({link.peer.HoldTime, link.remote.HoldTime})
         /\ link.actualHoldTime \notin {1, 2}
    /\ phase = "failed" =>
         \/ link.remote.asn # link.peer.ASN
         \/ ~Proper(link.remote)
         \/ link.peer.Addr = 6 /\ link.peer.RouterID # 4 /\ (link.local = <<>> \/ link.local[1] = 6)

(* The bytes that are really in a message after its header.                *)
BodyBytes(m) ==
    LET Caps(o) == Total([i \in DOMAIN o[2] |-> 2 + CapLen(o[2][i])])
    IN CASE m.Type = 1 -> 10 + Total([k \in DOMAIN m.options |-> 2 + Caps(m.options[k])])
         [] m.Type = 2 -> 4 + encodePrefixes(m.withdrawn) + AttrsBytes(m.attrs) + encodePrefixes(m.nlri)
         [] m.Type = 4 -> 0

(* Least number of bytes for so many bits.                                 *)
Ceiling(bits) == CHOOSE n \in 0..4 : 8 * n >= bits /\ \A k \in 0..4 : 8 * k >= bits => n <= k

(* The longest message that BGP allows, and how many prefixes it can       *)
(* withdraw whatever their lengths.                                        *)
MaxLen == 4096
MaxWithdrawn == 814

Bytes(m) == 19 + BodyBytes(m)

(* Every length in a message on a session to an address of family addr is  *)
(* that of what follows it, except for the next hop over IPv6.             *)
Formed(m, addr) ==
    /\ m.Len = Bytes(m)
    /\ m.Type = 1 => m.OptsLen = BodyBytes(m) - 10 /\ m.OptLen = m.OptsLen - 2
    /\ m.Type = 2 =>
         /\ m.WdrLen = encodePrefixes(m.withdrawn)
         /\ m.AttrLen = AttrsBytes(m.attrs)
         /\ \A i \in DOMAIN m.attrs :
              \/ m.attrs[i].len = m.attrs[i].bytes
              \/ m.attrs[i].code = "next-hop" /\ addr = 6
         /\ \A p \in Range(m.withdrawn) \cup Range(m.nlri) :
               PrefixBytes(p.length) = 1 + Ceiling(p.length)

(* A message is longer than BGP allows only if it withdraws more than 814  *)
(* routes (the code puts any number into one).                             *)
NotTooLong(m) ==
    Bytes(m) > MaxLen =>
        m.Type = 2 /\ Total([k \in DOMAIN m.withdrawn |-> m.withdrawn[k].n]) > MaxWithdrawn

(* A message whose length can be written in two bytes is well formed, so   *)
(* that the router reads it as it was meant: with as many communities as   *)
(* Session.Set accepts, and with prefixes of any length.  Only withdrawals *)
(* can be too long.  (The next hop is longer than its length says when the *)
(* session runs over IPv6.)                                                *)
WellFormed ==
    \A k \in DOMAIN sent :
        /\ Bytes(sent[k]) < 2^16 => Formed(sent[k], link.peer.Addr)
        /\ NotTooLong(sent[k])
=============================================================================
