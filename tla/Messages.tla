------------------------------ MODULE Messages -------------------------------
(***************************************************************************)
(* The BGP messages of internal/bgp/messages.go.  A message is a record of *)
(* its fields; fields of fixed value that nothing depends on are left out. *)
(* Where the code writes a length into a message, the length is a field,   *)
(* cut to its width, and beside it is what was written.                    *)
(***************************************************************************)
EXTENDS Integers, FiniteSetsExt, Sequences

CONSTANT None   \* nil; an error

uint8(n) == n % 2^8
uint16(n) == n % 2^16

(* The bytes of parts that are written one after the other.                *)
Total(parts) ==
    LET total[k \in 0..Len(parts)] == IF k = 0 THEN 0 ELSE total[k - 1] + parts[k]
    IN total[Len(parts)]

-----------------------------------------------------------------------------
(***************************************************************************)
(* OPEN.                                                                   *)
(***************************************************************************)

(* A capability is its code, its declared length and its value.            *)
MP(afi) == <<1, 4, <<afi, 1>>>>
ASN32(asn) == <<65, 4, <<asn>>>>
Code(cap) == cap[1]
CapLen(cap) == cap[2]

(* The router ID, an IPv4 address, is left out.                            *)
sendOpen_TwoBytes(asn, holdTime) ==
    [Type |-> 1, Len |-> 49, Version |-> 4,
     ASN16 |-> uint16(asn),
     HoldTime |-> uint16(holdTime),
     OptsLen |-> 20,
     OptLen |-> 18,
     options |-> <<<<2, <<MP(1), MP(2), ASN32(uint16(asn))>>>>>>]

sendOpen(asn, holdTime) ==
    [Type |-> 1, Len |-> 49, Version |-> 4,
     ASN16 |-> IF asn > 65535 THEN 23456 ELSE uint16(asn),
     HoldTime |-> uint16(holdTime),
     OptsLen |-> 20,
     OptLen |-> 18,
     options |-> <<<<2, <<MP(1), MP(2), ASN32(asn)>>>>>>]

(* The capabilities of an option, read one after the other; a field that   *)
(* is read has a length of its own, and of others any length is skipped.   *)
readCapabilities_NoASN32(caps, ret) ==
    IF \E k \in DOMAIN caps : Code(caps[k]) \in {1, 65} /\ CapLen(caps[k]) # 4 THEN None
    ELSE [ret EXCEPT !.mp4 = @ \/ \E k \in DOMAIN caps : caps[k] = MP(1),
                     !.mp6 = @ \/ \E k \in DOMAIN caps : caps[k] = MP(2)]

readCapabilities(caps, ret) ==
    LET asns == {k \in DOMAIN caps : Code(caps[k]) = 65}
    IN IF \E k \in DOMAIN caps : Code(caps[k]) \in {1, 65} /\ CapLen(caps[k]) # 4 THEN None
       ELSE [asn |-> IF asns = {} THEN ret.asn ELSE caps[Max(asns)][3][1],
             holdTime |-> ret.holdTime,
             mp4 |-> ret.mp4 \/ \E k \in DOMAIN caps : caps[k] = MP(1),
             mp6 |-> ret.mp6 \/ \E k \in DOMAIN caps : caps[k] = MP(2)]

(* An option is its type and its capabilities.                             *)
readOptions(options, ret) ==
    LET step(r, o) == IF r = None \/ o[1] # 2 THEN None ELSE readCapabilities(o[2], r)
        read[k \in 0..Len(options)] == IF k = 0 THEN ret ELSE step(read[k - 1], options[k])
    IN read[Len(options)]

(* A NOTIFICATION, too, ends in an error (readNotification).               *)
readOpen(m) ==
    IF \/ m.Type # 1
       \/ m.Len < 37
       \/ m.Version # 4
       \/ m.HoldTime # 0 /\ m.HoldTime < 3
    THEN None
    ELSE readOptions(m.options, [asn |-> m.ASN16, holdTime |-> m.HoldTime,
                                 mp4 |-> FALSE, mp6 |-> FALSE])

-----------------------------------------------------------------------------
(***************************************************************************)
(* UPDATE and KEEPALIVE.                                                   *)
(***************************************************************************)

(* (n + 7) &^ 7 clears the three low bits.                                 *)
bytesForBits(n) == ((n + 7) - ((n + 7) % 8)) \div 8

(* A prefix is its length, and then as much of its address as is needed;   *)
(* prefixes of one length are [length, n], with their number.              *)
PrefixBytes(length) == 1 + bytesForBits(length)
encodePrefixes(prefixes) ==
    Total([k \in DOMAIN prefixes |-> prefixes[k].n * PrefixBytes(prefixes[k].length)])

(* A path attribute: its declared length len, and the bytes of its value.  *)
Attr(code, len, bytes, value) ==
    <<[code |-> code, len |-> uint8(len), bytes |-> bytes, value |-> value]>>

(* adv.NextHop and defaultNextHop are address families; an address of the  *)
(* latter is written as it is.                                             *)
encodePathAttrs(asn, ibgp, defaultNextHop, adv) ==
    LET n == Cardinality(adv.Communities)
    IN Attr("origin", 1, 1, "incomplete")
       \o (IF ibgp THEN Attr("as-path", 0, 0, <<>>) ELSE Attr("as-path", 6, 6, <<asn>>))
       \o Attr("next-hop", 4, IF adv.NextHop = None /\ defaultNextHop = 6 THEN 16 ELSE 4,
               IF adv.NextHop = None THEN "default" ELSE "given")
       \o (IF ibgp THEN Attr("localpref", 4, 4, adv.LocalPref) ELSE <<>>)
       \o (IF n > 0 THEN Attr("communities", n * 4, n * 4, adv.Communities) ELSE <<>>)

AttrsBytes(attrs) == Total([k \in DOMAIN attrs |-> 3 + attrs[k].bytes])

sendUpdate(asn, ibgp, defaultNextHop, adv) ==
    LET attrs == encodePathAttrs(asn, ibgp, defaultNextHop, adv)
        nlri == <<[length |-> adv.length, n |-> 1]>>
    IN [Type |-> 2, WdrLen |-> 0, withdrawn |-> <<>>,
        AttrLen |-> uint16(AttrsBytes(attrs)), attrs |-> attrs, nlri |-> nlri,
        Len |-> uint16(23 + AttrsBytes(attrs) + encodePrefixes(nlri))]

sendWithdraw(prefixes) ==
    [Type |-> 2, WdrLen |-> uint16(encodePrefixes(prefixes)), withdrawn |-> prefixes,
     AttrLen |-> 0, attrs |-> <<>>, nlri |-> <<>>,
     Len |-> uint16(21 + encodePrefixes(prefixes) + 2)]

sendKeepalive == [Type |-> 4, Len |-> 19]
=============================================================================
