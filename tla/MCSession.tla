------------------------------ MODULE MCSession ------------------------------
(* Small instances of the BGP session.                                     *)
EXTENDS Session, TLC

CONSTANTS a, b, v, w, c1, c2, c3, c4

(* One connection more than can fail.                                      *)
MCConn == {c1, c2, c3, c4}
=============================================================================
