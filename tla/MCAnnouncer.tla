---------------------------- MODULE MCAnnouncer ------------------------------
(* Small instances of the layer 2 announcer.                               *)
EXTENDS Announcer, TLC

CONSTANTS s1, s2, four, six1, six2

(* Two IPv6 addresses with the same last 24 bits share their group.        *)
OneGroup == (six1 :> "ff02::1:ff00:1") @@ (six2 :> "ff02::1:ff00:1")

Addresses == (s1 :> {four, six1}) @@ (s2 :> {six1, six2})

Both == {"broadcast", "linkLocal"}
OneOrTwo == {<<Both, Both>>, <<Both, {}>>}
=============================================================================
