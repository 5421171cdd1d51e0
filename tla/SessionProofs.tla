---------------------------- MODULE SessionProofs ----------------------------
(***************************************************************************)
(* The safety properties of Session, for every set of prefixes, paths and  *)
(* hold times and every bound.                                             *)
(***************************************************************************)
EXTENDS Session, FiniteSetTheorems, TLAPS

(* What the peer knows is determined by this side: on a connection that    *)
(* works it has what was advertised and, while run sends, those of the new *)
(* routes that have had their turn.                                        *)
Known ==
    IF conn = None \/ broken \/ run \notin {"sendAll", "wait", "woken", "sendNew"} THEN Empty
    ELSE IF run = "sendAll" THEN [p \in Prefix |-> IF p \in todo THEN None ELSE advertised[p]]
    ELSE IF run = "sendNew"
    THEN [p \in Prefix |-> IF p \in todo \/ new[p] = None THEN advertised[p] ELSE new[p]]
    ELSE advertised

PeerKnows == learnt = Known

(* While run sends it has a connection, and what is left of its loop is    *)
(* part of what the loop is over.                                          *)
Loops ==
    /\ ~Sending => todo = {}
    /\ Sending => conn # None
    /\ run = "sendAll" => new = None /\ \A p \in todo : advertised[p] # None
    /\ run = "sendNew" => new # None /\ todo \subseteq Changed

(* run waits only with a connection and nothing to send.                   *)
WaitsIdle == run = "wait" => new = None /\ conn # None

(* Close leaves no connection, and only a connection can be broken.        *)
OpenConnection == (conn # None => ~closed) /\ (broken => conn # None)

(* The inductive invariant.                                                *)
IInv ==
    /\ TypeInv
    /\ WantedIsKept
    /\ PeerKnows
    /\ Loops
    /\ WaitsIdle
    /\ OpenConnection
    /\ ConnectionOwned
    /\ TickerCurrent
    /\ NotStuckUp

(* The number of routes of a table is a natural number.                    *)
LEMMA SizeNat ==
    ASSUME NEW t \in Table
    PROVE  Size(t) \in Nat
<1>1. IsFiniteSet({p \in Prefix : t[p] # None})
  BY SessionAssumption, FS_Subset
<1>2. QED
  BY <1>1, FS_CardinalityType DEF Size

(* The table without routes is a table.                                    *)
LEMMA EmptyTable == Empty \in Table
  BY DEF Empty, Table

(* Wish is the table in use or the table to come.                          *)
LEMMA WishTable == TypeInv => Wish \in Table
  BY DEF TypeInv, Wish

(* There is a connection to number the next attempt with.                  *)
LEMMA AttemptFresh ==
    ASSUME consumers \subseteq Conn, consumers # Conn
    PROVE  Attempt \in Conn /\ Attempt \notin consumers /\ Attempt # None
  BY SessionAssumption DEF Attempt

(* The delays of the backoff stay within its limit.                        *)
LEMMA DurationType ==
    ASSUME NEW d \in 0..BackoffMax
    PROVE  Duration(d) \in 0..BackoffMax
  BY SessionAssumption DEF Duration

(* The initial state satisfies the invariant.                              *)
LEMMA InitInv == Init => IInv
<1> SUFFICES ASSUME Init PROVE IInv
  OBVIOUS
<1>1. TypeInv
  <2>1. gauges \in [up : BOOLEAN, prefixes : Nat, pending : Nat]
    BY DEF Init
  <2>2. advertised \in Table /\ learnt \in Table /\ wanted \in Table
    BY EmptyTable DEF Init
  <2>3. /\ actualHoldTime \in 0..HoldTime /\ ticker \in 0..HoldTime
        /\ nextDelay \in 0..BackoffMax
        /\ sets \in 0..MaxSets /\ failures \in 0..MaxFailures
    BY SessionAssumption DEF Init
  <2>4. /\ run \in {"connect", "backoff", "established", "send", "sendAll", "wait",
                    "woken", "sendNew", "down", "done"}
        /\ todo \subseteq Prefix
        /\ keepalive \in {"select", "read", "done"}
        /\ consumers \subseteq Conn
        /\ conn \in Conn \cup {None}
        /\ new \in Table \cup {None}
    BY DEF Init
  <2>5. closed \in BOOLEAN /\ broken \in BOOLEAN /\ newHoldTime \in BOOLEAN /\ created \in BOOLEAN
    BY Zenon DEF Init
  <2>6. QED
    BY <2>1, <2>2, <2>3, <2>4, <2>5 DEF TypeInv
<1>2. WantedIsKept /\ PeerKnows /\ Loops /\ WaitsIdle /\ OpenConnection
  BY DEF Init, WantedIsKept, Wish, PeerKnows, Known, Loops, Sending, Changed, WaitsIdle, OpenConnection
<1>3. ConnectionOwned /\ TickerCurrent
  BY DEF Init, ConnectionOwned, TickerCurrent
<1>4. NotStuckUp
  BY DEF Init, NotStuckUp
<1>5. QED
  BY <1>1, <1>2, <1>3, <1>4 DEF IInv

(* Set replaces what is wanted and what is still to be sent, and wakes run. *)
LEMMA SetInv ==
    ASSUME IInv, NEW t \in Table, Set(t)
    PROVE  IInv'
<1>1. TypeInv'
  BY SizeNat, SessionAssumption DEF IInv, TypeInv, Set, Broadcast
<1>2. WantedIsKept' /\ PeerKnows' /\ Loops' /\ WaitsIdle' /\ OpenConnection'
  BY SessionAssumption DEF Set, Broadcast, IInv, WantedIsKept, Wish, PeerKnows, Known, Loops, Sending, Changed, WaitsIdle, OpenConnection
<1>3. ConnectionOwned' /\ TickerCurrent'
  BY DEF Set, Broadcast, IInv, ConnectionOwned, TickerCurrent, WaitsIdle
<1>4. NotStuckUp'
  BY DEF Set, Broadcast, IInv, NotStuckUp, TypeInv
<1>5. QED
  BY <1>1, <1>2, <1>3, <1>4 DEF IInv

(* New's last writes touch the metrics only.                               *)
LEMMA NewReturnsInv ==
    ASSUME IInv, NewReturns
    PROVE  IInv'
<1>1. TypeInv'
  BY Zenon, SessionAssumption DEF IInv, TypeInv, NewReturns, fields, bounds
<1>2. WantedIsKept' /\ PeerKnows' /\ Loops' /\ WaitsIdle' /\ OpenConnection'
  BY SessionAssumption
  DEF IInv, WantedIsKept, Wish, PeerKnows, Known, Loops, Sending, Changed, WaitsIdle, OpenConnection, NewReturns, fields, bounds
<1>3. ConnectionOwned' /\ TickerCurrent'
  BY SessionAssumption
  DEF IInv, ConnectionOwned, OpenConnection, TickerCurrent, WaitsIdle, NewReturns, fields, bounds
<1>4. NotStuckUp'
  BY SessionAssumption DEF IInv, TypeInv, NotStuckUp, WaitsIdle, NewReturns, fields, bounds
<1>5. QED
  BY <1>1, <1>2, <1>3, <1>4 DEF IInv

(* run ends only on a closed session, which has no connection.             *)
LEMMA RunEndsInv ==
    ASSUME IInv, RunEnds, closed
    PROVE  IInv'
<1>1. TypeInv'
  BY SessionAssumption DEF IInv, TypeInv, RunEnds, fields, bounds
<1>2. WantedIsKept' /\ PeerKnows' /\ Loops' /\ WaitsIdle' /\ OpenConnection'
  BY SessionAssumption
  DEF IInv, WantedIsKept, Wish, PeerKnows, Known, Loops, Sending, Changed, WaitsIdle, OpenConnection, RunEnds, fields, bounds
<1>3. ConnectionOwned' /\ TickerCurrent'
  BY SessionAssumption
  DEF IInv, ConnectionOwned, OpenConnection, TickerCurrent, WaitsIdle, RunEnds, fields, bounds
<1>4. NotStuckUp'
  BY SessionAssumption DEF IInv, TypeInv, NotStuckUp, WaitsIdle, RunEnds, fields, bounds
<1>5. QED
  BY <1>1, <1>2, <1>3, <1>4 DEF IInv

(* A new connection starts with an ignorant peer and a token.              *)
LEMMA ConnectInv ==
    ASSUME IInv, NEW h \in PeerHoldTimes, Connect(h)
    PROVE  IInv'
<1>1. TypeInv'
  <2>1. Attempt \in Conn
    BY AttemptFresh DEF IInv, TypeInv, Connect
  <2>2. actualHoldTime' \in 0..HoldTime
    BY SessionAssumption DEF Connect
  <2>3. learnt' \in Table
    BY EmptyTable DEF Connect
  <2>4. QED
    BY Zenon, <2>1, <2>2, <2>3 DEF IInv, TypeInv, Connect, bounds
<1>2. WantedIsKept' /\ PeerKnows' /\ Loops' /\ WaitsIdle' /\ OpenConnection'
  BY AttemptFresh, EmptyTable, SessionAssumption
  DEF IInv, WantedIsKept, Wish, PeerKnows, Known, Loops, Sending, Changed, WaitsIdle, OpenConnection, Connect, fields, bounds
<1>3. ConnectionOwned' /\ TickerCurrent'
  BY AttemptFresh, EmptyTable, SessionAssumption
  DEF IInv, ConnectionOwned, OpenConnection, TickerCurrent, WaitsIdle, Connect, fields, bounds
<1>4. NotStuckUp'
  BY AttemptFresh, EmptyTable, SessionAssumption DEF IInv, TypeInv, NotStuckUp, WaitsIdle, Connect, fields, bounds
<1>5. QED
  BY <1>1, <1>2, <1>3, <1>4 DEF IInv

(* A failed attempt changes no more than the backoff and the consumers.    *)
LEMMA ConnectFailsInv ==
    ASSUME IInv, NEW consuming \in BOOLEAN, ConnectFails(consuming)
    PROVE  IInv'
<1>1. TypeInv'
  BY AttemptFresh, DurationType, SessionAssumption DEF IInv, TypeInv, ConnectFails, Fail, fields, bounds
<1>2. WantedIsKept' /\ PeerKnows' /\ Loops' /\ WaitsIdle' /\ OpenConnection'
  BY AttemptFresh, DurationType, SessionAssumption
  DEF IInv, WantedIsKept, Wish, PeerKnows, Known, Loops, Sending, Changed, WaitsIdle, OpenConnection, ConnectFails, Fail, fields, bounds
<1>3. ConnectionOwned' /\ TickerCurrent'
  BY AttemptFresh, DurationType, SessionAssumption
  DEF IInv, ConnectionOwned, OpenConnection, TickerCurrent, WaitsIdle, ConnectFails, Fail, fields, bounds
<1>4. NotStuckUp'
  BY AttemptFresh, DurationType, SessionAssumption DEF IInv, TypeInv, NotStuckUp, WaitsIdle, ConnectFails, Fail, fields, bounds
<1>5. QED
  BY <1>1, <1>2, <1>3, <1>4 DEF IInv

(* The sleep of run changes nothing.                                       *)
LEMMA BackoffOverInv ==
    ASSUME IInv, BackoffOver
    PROVE  IInv'
<1>1. TypeInv'
  BY SessionAssumption DEF IInv, TypeInv, BackoffOver, fields, bounds
<1>2. WantedIsKept' /\ PeerKnows' /\ Loops' /\ WaitsIdle' /\ OpenConnection'
  BY SessionAssumption
  DEF IInv, WantedIsKept, Wish, PeerKnows, Known, Loops, Sending, Changed, WaitsIdle, OpenConnection, BackoffOver, fields, bounds
<1>3. ConnectionOwned' /\ TickerCurrent'
  BY SessionAssumption
  DEF IInv, ConnectionOwned, OpenConnection, TickerCurrent, WaitsIdle, BackoffOver, fields, bounds
<1>4. NotStuckUp'
  BY SessionAssumption DEF IInv, TypeInv, NotStuckUp, WaitsIdle, BackoffOver, fields, bounds
<1>5. QED
  BY <1>1, <1>2, <1>3, <1>4 DEF IInv

(* The gauge goes up, possibly after the connection is gone.               *)
LEMMA SessionUpInv ==
    ASSUME IInv, SessionUp
    PROVE  IInv'
<1>1. TypeInv'
  <2>1. nextDelay' \in 0..BackoffMax
    BY SessionAssumption DEF SessionUp
  <2>2. gauges' \in [up : BOOLEAN, prefixes : Nat, pending : Nat]
    BY Zenon DEF IInv, TypeInv, SessionUp
  <2>3. QED
    BY <2>1, <2>2 DEF IInv, TypeInv, SessionUp, bounds
<1>2. WantedIsKept' /\ PeerKnows' /\ Loops' /\ WaitsIdle' /\ OpenConnection'
  BY SessionAssumption
  DEF IInv, WantedIsKept, Wish, PeerKnows, Known, Loops, Sending, Changed, WaitsIdle, OpenConnection, SessionUp, fields, bounds
<1>3. ConnectionOwned' /\ TickerCurrent'
  BY SessionAssumption
  DEF IInv, ConnectionOwned, OpenConnection, TickerCurrent, WaitsIdle, SessionUp, fields, bounds
<1>4. NotStuckUp'
  BY SessionAssumption DEF IInv, TypeInv, NotStuckUp, WaitsIdle, SessionUp, fields, bounds
<1>5. QED
  BY <1>1, <1>2, <1>3, <1>4 DEF IInv

(* The gauge goes down for good.                                           *)
LEMMA SessionDownInv ==
    ASSUME IInv, SessionDown
    PROVE  IInv'
<1>1. TypeInv'
  BY Zenon, SessionAssumption DEF IInv, TypeInv, SessionDown, fields, bounds
<1>2. WantedIsKept' /\ PeerKnows' /\ Loops' /\ WaitsIdle' /\ OpenConnection'
  BY SessionAssumption
  DEF IInv, WantedIsKept, Wish, PeerKnows, Known, Loops, Sending, Changed, WaitsIdle, OpenConnection, SessionDown, fields, bounds
<1>3. ConnectionOwned' /\ TickerCurrent'
  BY SessionAssumption
  DEF IInv, ConnectionOwned, OpenConnection, TickerCurrent, WaitsIdle, SessionDown, fields, bounds
<1>4. NotStuckUp'
  BY SessionAssumption DEF IInv, TypeInv, NotStuckUp, WaitsIdle, SessionDown, fields, bounds
<1>5. QED
  BY <1>1, <1>2, <1>3, <1>4 DEF IInv

(* sendUpdates finds that the connection is gone.                          *)
LEMMA SendUpdatesDownInv ==
    ASSUME IInv, SendUpdatesDown
    PROVE  IInv'
<1>1. TypeInv'
  BY SessionAssumption DEF IInv, TypeInv, SendUpdatesDown, fields, bounds
<1>2. WantedIsKept' /\ PeerKnows' /\ Loops' /\ WaitsIdle' /\ OpenConnection'
  BY SessionAssumption
  DEF IInv, WantedIsKept, Wish, PeerKnows, Known, Loops, Sending, Changed, WaitsIdle, OpenConnection, SendUpdatesDown, fields, bounds
<1>3. ConnectionOwned' /\ TickerCurrent'
  BY SessionAssumption
  DEF IInv, ConnectionOwned, OpenConnection, TickerCurrent, WaitsIdle, SendUpdatesDown, fields, bounds
<1>4. NotStuckUp'
  BY SessionAssumption DEF IInv, TypeInv, NotStuckUp, WaitsIdle, SendUpdatesDown, fields, bounds
<1>5. QED
  BY <1>1, <1>2, <1>3, <1>4 DEF IInv

(* The token is gone, but the goroutine knows.                             *)
LEMMA TakeTokenInv ==
    ASSUME IInv, TakeToken
    PROVE  IInv'
<1>1. TypeInv'
  BY Zenon, SessionAssumption DEF IInv, TypeInv, TakeToken, fields, bounds
<1>2. WantedIsKept' /\ PeerKnows' /\ Loops' /\ WaitsIdle' /\ OpenConnection'
  BY SessionAssumption
  DEF IInv, WantedIsKept, Wish, PeerKnows, Known, Loops, Sending, Changed, WaitsIdle, OpenConnection, TakeToken, fields, bounds
<1>3. ConnectionOwned' /\ TickerCurrent'
  BY SessionAssumption
  DEF IInv, ConnectionOwned, OpenConnection, TickerCurrent, WaitsIdle, TakeToken, fields, bounds
<1>4. NotStuckUp'
  BY SessionAssumption DEF IInv, TypeInv, NotStuckUp, WaitsIdle, TakeToken, fields, bounds
<1>5. QED
  BY <1>1, <1>2, <1>3, <1>4 DEF IInv

(* The ticker is what it should be.                                        *)
LEMMA ResetTickerInv ==
    ASSUME IInv, ResetTicker
    PROVE  IInv'
<1>1. TypeInv'
  BY SessionAssumption DEF IInv, TypeInv, ResetTicker, fields, bounds
<1>2. WantedIsKept' /\ PeerKnows' /\ Loops' /\ WaitsIdle' /\ OpenConnection'
  BY SessionAssumption
  DEF IInv, WantedIsKept, Wish, PeerKnows, Known, Loops, Sending, Changed, WaitsIdle, OpenConnection, ResetTicker, fields, bounds
<1>3. ConnectionOwned' /\ TickerCurrent'
  BY SessionAssumption
  DEF IInv, ConnectionOwned, OpenConnection, TickerCurrent, WaitsIdle, ResetTicker, fields, bounds
<1>4. NotStuckUp'
  BY SessionAssumption DEF IInv, TypeInv, NotStuckUp, WaitsIdle, ResetTicker, fields, bounds
<1>5. QED
  BY <1>1, <1>2, <1>3, <1>4 DEF IInv

(* A goroutine less.                                                       *)
LEMMA KeepaliveEndsInv ==
    ASSUME IInv, KeepaliveEnds
    PROVE  IInv'
<1>1. TypeInv'
  BY SessionAssumption DEF IInv, TypeInv, KeepaliveEnds, fields, bounds
<1>2. WantedIsKept' /\ PeerKnows' /\ Loops' /\ WaitsIdle' /\ OpenConnection'
  BY SessionAssumption
  DEF IInv, WantedIsKept, Wish, PeerKnows, Known, Loops, Sending, Changed, WaitsIdle, OpenConnection, KeepaliveEnds, fields, bounds
<1>3. ConnectionOwned' /\ TickerCurrent'
  BY SessionAssumption
  DEF IInv, ConnectionOwned, OpenConnection, TickerCurrent, WaitsIdle, KeepaliveEnds, fields, bounds
<1>4. NotStuckUp'
  BY SessionAssumption DEF IInv, TypeInv, NotStuckUp, WaitsIdle, KeepaliveEnds, fields, bounds
<1>5. QED
  BY <1>1, <1>2, <1>3, <1>4 DEF IInv

(* A broken connection has an ignorant peer.                               *)
LEMMA BreakInv ==
    ASSUME IInv, Break
    PROVE  IInv'
<1>1. TypeInv'
  BY EmptyTable, SessionAssumption DEF IInv, TypeInv, Break, Fail, locals, fields, bounds
<1>2. WantedIsKept' /\ PeerKnows' /\ Loops' /\ WaitsIdle' /\ OpenConnection'
  BY EmptyTable, SessionAssumption
  DEF IInv, WantedIsKept, Wish, PeerKnows, Known, Loops, Sending, Changed, WaitsIdle, OpenConnection, Break, Fail, locals, fields, bounds
<1>3. ConnectionOwned' /\ TickerCurrent'
  BY EmptyTable, SessionAssumption
  DEF IInv, ConnectionOwned, OpenConnection, TickerCurrent, WaitsIdle, Break, Fail, locals, fields, bounds
<1>4. NotStuckUp'
  BY EmptyTable, SessionAssumption DEF IInv, TypeInv, NotStuckUp, WaitsIdle, Break, Fail, locals, fields, bounds
<1>5. QED
  BY <1>1, <1>2, <1>3, <1>4 DEF IInv

(* Nothing happens.                                                        *)
LEMMA StutterInv ==
    ASSUME IInv, UNCHANGED vars
    PROVE  IInv'
<1>1. TypeInv'
  BY SessionAssumption DEF IInv, TypeInv, vars
<1>2. WantedIsKept' /\ PeerKnows' /\ Loops' /\ WaitsIdle' /\ OpenConnection'
  BY SessionAssumption
  DEF IInv, WantedIsKept, Wish, PeerKnows, Known, Loops, Sending, Changed, WaitsIdle, OpenConnection, vars
<1>3. ConnectionOwned' /\ TickerCurrent'
  BY SessionAssumption
  DEF IInv, ConnectionOwned, OpenConnection, TickerCurrent, WaitsIdle, vars
<1>4. NotStuckUp'
  BY SessionAssumption DEF IInv, TypeInv, NotStuckUp, WaitsIdle, vars
<1>5. QED
  BY <1>1, <1>2, <1>3, <1>4 DEF IInv

(* abort, by whoever it is called, keeps the invariant: what was wanted is *)
(* now what the next connection starts with, and nobody waits.             *)
LEMMA AbortInv ==
    ASSUME IInv, abort,
           \/ ~Sending /\ Broadcast /\ UNCHANGED todo
           \/ run' = "down" /\ conn # None /\ todo' = {},
           consumers' \subseteq consumers,
           closed' \in BOOLEAN,
           UNCHANGED <<keepalive, ticker, sets, failures>>
    PROVE  IInv'
<1>1. TypeInv'
  <2>1. gauges' \in [up : BOOLEAN, prefixes : Nat, pending : Nat]
    <3>1. new # None => Size(new) \in Nat
      BY SizeNat DEF IInv, TypeInv
    <3>2. (gauges.up /\ conn = None) \in BOOLEAN
      OBVIOUS
    <3>3. QED
      BY <3>1, <3>2 DEF IInv, TypeInv, abort
  <2>2. advertised' \in Table /\ learnt' \in Table /\ new' \in Table \cup {None}
    BY EmptyTable DEF IInv, TypeInv, abort
  <2>3. run' \in {"connect", "backoff", "established", "send", "sendAll", "wait",
                   "woken", "sendNew", "down", "done"}
    BY DEF IInv, TypeInv, Broadcast
  <2>4. todo' \subseteq Prefix
    BY DEF IInv, TypeInv
  <2>5. QED
    BY Zenon, <2>1, <2>2, <2>3, <2>4 DEF IInv, TypeInv, abort
<1>2. WantedIsKept' /\ PeerKnows' /\ Loops' /\ WaitsIdle' /\ OpenConnection'
  BY SessionAssumption
  DEF IInv, TypeInv, WantedIsKept, Wish, PeerKnows, Known, Loops, Sending, Changed, WaitsIdle, OpenConnection, abort,
      Broadcast
<1>3. ConnectionOwned' /\ TickerCurrent'
  BY DEF IInv, ConnectionOwned, TickerCurrent, abort
<1>4. NotStuckUp'
  <2>1. SUFFICES ASSUME gauges'.up PROVE run' \in {"send", "down"}
    BY DEF NotStuckUp
  <2>2. gauges.up /\ conn = None
    BY Zenon, <2>1 DEF abort
  <2>3. QED
    BY <2>2 DEF IInv, NotStuckUp, Broadcast
<1>5. QED
  BY <1>1, <1>2, <1>3, <1>4 DEF IInv

(* A failing write of an update aborts the connection.                     *)
LEMMA SendFailsInv == ASSUME IInv, SendFails PROVE IInv'
  BY AbortInv DEF SendFails, bounds, IInv, TypeInv, Loops

(* So does a failing keepalive.                                            *)
LEMMA KeepaliveFailsInv == ASSUME IInv, KeepaliveFails PROVE IInv'
  BY AbortInv DEF KeepaliveFails, bounds, IInv, TypeInv

(* Close aborts it for good.                                               *)
LEMMA CloseInv == ASSUME IInv, Close PROVE IInv'
  BY AbortInv DEF Close, bounds

(* A consumer that ends aborts the connection if it is still its own.      *)
LEMMA ConsumerEndsInv ==
    ASSUME IInv, NEW c \in Conn, ConsumerEnds(c)
    PROVE  IInv'
<1>1. CASE c = conn
  BY <1>1, AbortInv DEF ConsumerEnds, bounds, IInv, TypeInv
<1>2. CASE c # conn
  <2>1. UNCHANGED <<run, todo, keepalive, fields, broken, ticker, gauges, created, learnt,
                    wanted, bounds>>
    BY <1>2 DEF ConsumerEnds
  <2>2. consumers' = consumers \ {c}
    BY DEF ConsumerEnds
  <2>3. TypeInv'
    BY <2>1, <2>2 DEF IInv, TypeInv, fields, bounds
  <2>4. WantedIsKept' /\ PeerKnows' /\ Loops' /\ WaitsIdle' /\ OpenConnection'
    BY <2>1 DEF IInv, WantedIsKept, Wish, PeerKnows, Known, Loops, Sending, Changed, WaitsIdle, OpenConnection, fields
  <2>5. ConnectionOwned' /\ TickerCurrent' /\ NotStuckUp'
    BY <1>2, <2>1, <2>2 DEF IInv, ConnectionOwned, TickerCurrent, NotStuckUp, fields
  <2>6. QED
    BY <2>3, <2>4, <2>5 DEF IInv
<1>3. QED
  BY <1>1, <1>2

(* The first loop starts with an ignorant peer.                            *)
LEMMA SendAllInv ==
    ASSUME IInv, SendAll
    PROVE  IInv'
<1>1. Wish \in Table
  BY WishTable DEF IInv
<1>2. TypeInv'
  BY <1>1 DEF IInv, TypeInv, SendAll, Begin, bounds
<1>3. WantedIsKept' /\ Loops' /\ WaitsIdle' /\ OpenConnection'
  BY <1>1, SessionAssumption
  DEF IInv, WantedIsKept, Wish, Loops, Sending, WaitsIdle, OpenConnection, SendAll, Begin
<1>4. PeerKnows'
  <2>1. learnt' = Empty
    BY DEF IInv, PeerKnows, Known, SendAll
  <2>2. [p \in Prefix |-> IF p \in todo' THEN None ELSE advertised'[p]] = Empty
    BY DEF SendAll, Begin, Empty
  <2>3. QED
    BY <2>1, <2>2 DEF PeerKnows, Known, SendAll, Begin
<1>5. ConnectionOwned' /\ TickerCurrent' /\ NotStuckUp'
  BY DEF IInv, ConnectionOwned, TickerCurrent, NotStuckUp, SendAll, Begin
<1>6. QED
  BY <1>2, <1>3, <1>4, <1>5 DEF IInv

(* The second loop starts with a peer that has the advertised routes.      *)
LEMMA SendNewInv ==
    ASSUME IInv, SendNew
    PROVE  IInv'
<1>1. TypeInv'
  BY DEF IInv, TypeInv, SendNew, Begin, Changed, bounds
<1>2. WantedIsKept' /\ Loops' /\ WaitsIdle' /\ OpenConnection'
  BY DEF IInv, WantedIsKept, Wish, Loops, Sending, Changed, WaitsIdle, OpenConnection,
         SendNew, Begin
<1>3. PeerKnows'
  <2>1. [p \in Prefix |-> IF p \in Changed \/ new[p] = None THEN advertised[p] ELSE new[p]]
            = advertised
    <3>1. advertised = [p \in Prefix |-> advertised[p]]
      BY DEF IInv, TypeInv, Table
    <3>2. QED
      BY <3>1 DEF Changed
  <2>2. CASE broken
    BY <2>2 DEF IInv, PeerKnows, Known, SendNew, Begin
  <2>3. CASE ~broken
    <3>1. learnt = advertised
      BY <2>3 DEF IInv, PeerKnows, Known, SendNew
    <3>2. QED
      BY <2>1, <2>3, <3>1 DEF PeerKnows, Known, SendNew, Begin
  <2>4. QED
    BY <2>2, <2>3
<1>4. ConnectionOwned' /\ TickerCurrent' /\ NotStuckUp'
  BY DEF IInv, ConnectionOwned, TickerCurrent, NotStuckUp, SendNew, Begin
<1>5. QED
  BY <1>1, <1>2, <1>3, <1>4 DEF IInv

(* A turn of a loop tells the peer the wanted route for one prefix, if the *)
(* peer can be reached.                                                    *)
LEMMA SendUpdateLearnt ==
    ASSUME IInv, NEW p \in Prefix, SendUpdate(p), ~broken
    PROVE  /\ learnt' = [learnt EXCEPT ![p] = wanted[p]]
           /\ wanted[p] # None
<1>1. Wish = wanted /\ learnt \in Table
  BY DEF IInv, WantedIsKept, TypeInv
<1>2. learnt' = [learnt EXCEPT ![p] = wanted[p]]
  BY <1>1 DEF SendUpdate, Receive, Table
<1>3. wanted[p] # None
  BY <1>1 DEF IInv, Loops, SendUpdate, Sending, Wish, Changed
<1>4. QED
  BY <1>2, <1>3

(* A turn of a loop keeps the invariant.                                   *)
LEMMA SendUpdateInv ==
    ASSUME IInv, NEW p \in Prefix, SendUpdate(p)
    PROVE  IInv'
<1>1. learnt' \in Table
  <2>1. Wish \in Table /\ learnt \in Table
    BY WishTable DEF IInv, TypeInv
  <2>2. QED
    BY <2>1 DEF SendUpdate, Receive, Table
<1>2. TypeInv'
  BY <1>1 DEF IInv, TypeInv, SendUpdate, fields, bounds
<1>3. WantedIsKept' /\ Loops' /\ WaitsIdle' /\ OpenConnection'
  BY DEF IInv, WantedIsKept, Wish, Loops, Sending, Changed, WaitsIdle, OpenConnection,
         SendUpdate, fields
<1>4. PeerKnows'
  <2>1. CASE broken
    BY <2>1 DEF IInv, PeerKnows, Known, SendUpdate, Receive, fields
  <2>2. CASE ~broken /\ run = "sendAll"
    <3>1. new = None /\ conn # None
      BY <2>2 DEF IInv, Loops, Sending
    <3>2. learnt = [q \in Prefix |-> IF q \in todo THEN None ELSE advertised[q]]
      BY <2>2, <3>1 DEF IInv, PeerKnows, Known
    <3>3. learnt' = [q \in Prefix |-> IF q \in todo \ {p} THEN None ELSE advertised[q]]
      BY <2>2, <3>1, <3>2 DEF SendUpdate, Receive, Wish
    <3>4. QED
      BY <2>2, <3>1, <3>3 DEF PeerKnows, Known, SendUpdate, fields
  <2>3. CASE ~broken /\ run = "sendNew"
    <3>1. new # None /\ conn # None /\ new[p] # None
      BY <2>3 DEF IInv, Loops, Sending, Changed, SendUpdate
    <3>2. learnt = [q \in Prefix |-> IF q \in todo \/ new[q] = None THEN advertised[q] ELSE new[q]]
      BY <2>3, <3>1 DEF IInv, PeerKnows, Known
    <3>3. learnt' = [q \in Prefix |-> IF q \in todo \ {p} \/ new[q] = None
                                     THEN advertised[q] ELSE new[q]]
      BY <2>3, <3>1, <3>2 DEF SendUpdate, Receive, Wish
    <3>4. QED
      BY <2>3, <3>1, <3>3 DEF PeerKnows, Known, SendUpdate, fields
  <2>4. QED
    BY <2>1, <2>2, <2>3 DEF SendUpdate, Sending
<1>5. ConnectionOwned' /\ TickerCurrent' /\ NotStuckUp'
  BY DEF IInv, ConnectionOwned, TickerCurrent, NotStuckUp, SendUpdate, fields
<1>6. QED
  BY <1>2, <1>3, <1>4, <1>5 DEF IInv

(* After a loop, and the withdrawals, the peer (if it can be reached) has  *)
(* what is wished.                                                         *)
LEMMA SentLearnt ==
    ASSUME IInv, AllSent \/ NewSent
    PROVE  learnt' = IF broken THEN Empty ELSE Wish
<1>1. conn # None /\ todo = {}
  BY DEF IInv, Loops, AllSent, NewSent, Sent
<1>2. CASE broken
  BY <1>2 DEF IInv, PeerKnows, Known, AllSent, NewSent, Receive
<1>3. CASE ~broken /\ AllSent
  <2>1. new = None /\ learnt = [p \in Prefix |-> advertised[p]]
    BY <1>1, <1>3 DEF IInv, Loops, PeerKnows, Known, AllSent
  <2>2. QED
    BY <1>3, <2>1 DEF IInv, TypeInv, Table, Wish, AllSent
<1>4. CASE ~broken /\ NewSent
  <2>1. new # None
    BY <1>4 DEF IInv, Loops, NewSent
  <2>2. learnt = [p \in Prefix |-> IF new[p] = None THEN advertised[p] ELSE new[p]]
    BY <1>1, <1>4 DEF IInv, PeerKnows, Known, NewSent
  <2>3. learnt' = [p \in Prefix |-> new[p]]
    BY <1>4, <2>2 DEF NewSent, Receive, Withdrawn
  <2>4. QED
    BY <1>4, <2>1, <2>3 DEF IInv, TypeInv, Table, Wish
<1>5. QED
  BY <1>2, <1>3, <1>4

(* The end of a loop keeps the invariant.                                  *)
LEMMA SentInv ==
    ASSUME IInv, AllSent \/ NewSent
    PROVE  IInv'
<1>1. Wish \in Table /\ Size(Wish) \in Nat
  BY SizeNat, WishTable DEF IInv
<1>2. Sent /\ conn # None /\ run' = "wait" /\ todo' = {}
  BY DEF IInv, Loops, AllSent, NewSent, Sent
<1>3. advertised' = Wish /\ new' = None
  BY DEF IInv, Loops, AllSent, NewSent, Wish
<1>4. TypeInv'
  <2>1. gauges' \in [up : BOOLEAN, prefixes : Nat, pending : Nat]
    BY Zenon, <1>1, <1>2 DEF IInv, TypeInv, Sent
  <2>2. learnt' \in Table
    BY <1>1, EmptyTable, SentLearnt
  <2>3. QED
    BY <1>1, <1>2, <1>3, <2>1, <2>2 DEF IInv, TypeInv, Sent, bounds
<1>5. WantedIsKept' /\ Loops' /\ WaitsIdle' /\ OpenConnection'
  BY <1>2, <1>3 DEF IInv, WantedIsKept, Wish, Loops, Sending, WaitsIdle, OpenConnection, Sent
<1>6. PeerKnows'
  BY <1>2, <1>3, SentLearnt DEF PeerKnows, Known, Sent
<1>7. ConnectionOwned' /\ TickerCurrent' /\ NotStuckUp'
  BY <1>2 DEF IInv, ConnectionOwned, TickerCurrent, NotStuckUp, Sent
<1>8. QED
  BY <1>4, <1>5, <1>6, <1>7 DEF IInv

(* Every step keeps the invariant.                                         *)
LEMMA NextInv == IInv /\ [Next]_vars => IInv'
<1> SUFFICES ASSUME IInv, [Next]_vars PROVE IInv'
  OBVIOUS
<1>1. CASE NewReturns
  BY <1>1, NewReturnsInv
<1>2. CASE Run
  <2>1. CASE ConnectClosed \/ SendUpdatesEnds
    BY <2>1, RunEndsInv DEF ConnectClosed, SendUpdatesEnds
  <2>2. CASE \E h \in PeerHoldTimes : Connect(h)
    BY <2>2, ConnectInv
  <2>3. CASE \E consuming \in BOOLEAN : ConnectFails(consuming)
    BY <2>3, ConnectFailsInv
  <2>4. CASE BackoffOver \/ SessionUp \/ SessionDown \/ SendUpdatesDown
    BY <2>4, BackoffOverInv, SessionUpInv, SessionDownInv, SendUpdatesDownInv
  <2>5. CASE SendAll \/ SendNew
    BY <2>5, SendAllInv, SendNewInv
  <2>6. CASE \E p \in Prefix : SendUpdate(p)
    BY <2>6, SendUpdateInv
  <2>7. CASE AllSent \/ NewSent \/ SendFails
    BY <2>7, SentInv, SendFailsInv
  <2>8. QED
    BY <1>2, <2>1, <2>2, <2>3, <2>4, <2>5, <2>6, <2>7 DEF Run
<1>3. CASE SendKeepalives
  BY <1>3, TakeTokenInv, ResetTickerInv, KeepaliveEndsInv, KeepaliveFailsInv
  DEF SendKeepalives
<1>4. CASE \E c \in Conn : ConsumerEnds(c)
  BY <1>4, ConsumerEndsInv
<1>5. CASE Break
  BY <1>5, BreakInv
<1>6. CASE \E t \in Table : Set(t)
  BY <1>6, SetInv
<1>7. CASE Close
  BY <1>7, CloseInv
<1>8. CASE UNCHANGED vars
  BY <1>8, StutterInv
<1>9. QED
  BY <1>1, <1>2, <1>3, <1>4, <1>5, <1>6, <1>7, <1>8 DEF Next

(* The invariant holds in every reachable state of the session.            *)
THEOREM Invariance == Spec => []IInv
  BY InitInv, NextInv, PTL DEF Spec

(* All fields of the session keep their types; in particular the backoff   *)
(* stays within backoffMax and the ticker within the configured hold time. *)
THEOREM SessionTypeCorrect == Spec => []TypeInv
<1>1. IInv => TypeInv
  BY DEF IInv
<1>2. QED
  BY <1>1, Invariance, PTL

(* No failure, reconnection or overlapping Set loses what the caller set   *)
(* last.                                                                   *)
THEOREM NeverLosesWanted == Spec => []WantedIsKept
<1>1. IInv => WantedIsKept
  BY DEF IInv
<1>2. QED
  BY <1>1, Invariance, PTL

(* run sleeps on the condition variable only when the peer has exactly the *)
(* wanted routes, or cannot be reached: there is no lost wake-up.          *)
THEOREM AlwaysWaitsInSync == Spec => []WaitsInSync
<1>1. IInv => WaitsInSync
  BY DEF IInv, WaitsInSync, WaitsIdle, PeerKnows, Known, WantedIsKept, Wish
<1>2. QED
  BY <1>1, Invariance, PTL

(* connect never overwrites a connection in use, and each has a consumer.  *)
THEOREM AlwaysOwned == Spec => []ConnectionOwned
<1>1. IInv => ConnectionOwned
  BY DEF IInv
<1>2. QED
  BY <1>1, Invariance, PTL

(* Tokens dropped on the full channel newHoldTime never leave the          *)
(* keepalive ticker with an old period.                                    *)
THEOREM TickerAlwaysCurrent == Spec => []TickerCurrent
<1>1. IInv => TickerCurrent
  BY DEF IInv
<1>2. QED
  BY <1>1, Invariance, PTL

(* The gauge is not left up without a connection.                          *)
THEOREM NeverStuckUp == Spec => []NotStuckUp
<1>1. IInv => NotStuckUp
  BY DEF IInv
<1>2. QED
  BY <1>1, Invariance, PTL

(* A step that takes a connection away takes a broken one, or is Close.    *)
LEMMA DownStep ==
    ASSUME IInv, [Next]_vars, conn # None, conn' # conn
    PROVE  closed' \/ broken
<1>1. CASE Run
  <2>1. run \in {"established", "send", "sendAll", "wait", "woken", "sendNew"}
    BY DEF IInv, ConnectionOwned
  <2>2. ~ConnectClosed /\ ~BackoffOver /\ ~SessionDown /\ ~SessionUp
    BY <2>1 DEF ConnectClosed, BackoffOver, SessionDown, SessionUp
  <2>3. /\ \A h \in PeerHoldTimes : ~Connect(h)
        /\ \A consuming \in BOOLEAN : ~ConnectFails(consuming)
    BY <2>1 DEF Connect, ConnectFails
  <2>4. /\ ~SendUpdatesEnds /\ ~SendUpdatesDown
        /\ ~SendAll /\ ~SendNew /\ ~AllSent /\ ~NewSent
        /\ \A p \in Prefix : ~SendUpdate(p)
    BY DEF SendUpdatesEnds, RunEnds, SendUpdatesDown, SendAll, SendNew, Begin,
           SendUpdate, AllSent, NewSent, Sent, fields
  <2>5. QED
    BY <1>1, <2>2, <2>3, <2>4 DEF Run, SendFails
<1>2. CASE SendKeepalives
  BY <1>2 DEF SendKeepalives, TakeToken, ResetTicker, KeepaliveEnds, KeepaliveFails,
              fields
<1>3. CASE \E c \in Conn : ConsumerEnds(c)
  BY <1>3 DEF ConsumerEnds, fields
<1>4. CASE NewReturns \/ Break \/ UNCHANGED vars
  BY <1>4 DEF NewReturns, Break, vars, fields
<1>5. CASE Close \/ \E t \in Table : Set(t)
  BY <1>5 DEF Close, Set
<1>6. QED
  BY <1>1, <1>2, <1>3, <1>4, <1>5 DEF Next

(* A connection that works is given up only by Close.                      *)
THEOREM NeverSpuriouslyDown == Spec => NoSpuriousDown
<1>1. IInv /\ [Next]_vars => [conn # None /\ conn' # conn => closed' \/ broken]_vars
  BY DownStep
<1>2. QED
  BY <1>1, Invariance, PTL DEF Spec, NoSpuriousDown

(* Without a connection, abort finds an ignorant peer and leaves one.      *)
LEMMA AbortEnds ==
    ASSUME IInv, abort, conn' = conn
    PROVE  learnt' = learnt
  BY DEF IInv, PeerKnows, Known, abort

(* So does connect.                                                        *)
LEMMA ConnectAnew ==
    ASSUME IInv, NEW h \in PeerHoldTimes, Connect(h)
    PROVE  learnt' = learnt
  BY DEF IInv, PeerKnows, Known, Connect

(* A step that changes what the peer has learnt on a connection that lasts *)
(* sends one wanted route, or takes the last unwanted ones away.           *)
LEMMA LearntStep ==
    ASSUME IInv, [Next]_vars, conn' = conn, ~broken',
           NEW p \in Prefix, learnt'[p] # learnt[p]
    PROVE  learnt'[p] = wanted[p] /\ (wanted[p] = None => learnt' = wanted)
<1>1. CASE \E q \in Prefix : SendUpdate(q)
  <2>1. PICK q \in Prefix : SendUpdate(q)
    BY <1>1
  <2>2. ~broken /\ learnt \in Table
    BY <2>1 DEF SendUpdate, IInv, TypeInv
  <2>3. learnt' = [learnt EXCEPT ![q] = wanted[q]] /\ wanted[q] # None
    BY <2>1, <2>2, SendUpdateLearnt
  <2>4. p = q
    BY <2>2, <2>3 DEF Table
  <2>5. QED
    BY <2>2, <2>3, <2>4 DEF Table
<1>2. CASE AllSent \/ NewSent
  <2>1. ~broken
    BY <1>2 DEF AllSent, NewSent, Sent
  <2>2. learnt' = wanted
    BY <1>2, <2>1, SentLearnt DEF IInv, WantedIsKept
  <2>3. QED
    BY <2>2
<1>3. CASE Run /\ ~AllSent /\ ~NewSent /\ ~\E q \in Prefix : SendUpdate(q)
  BY <1>3, AbortEnds, ConnectAnew DEF Run, ConnectClosed, ConnectFails, BackoffOver, SessionUp,
              SessionDown, SendUpdatesEnds, RunEnds, SendUpdatesDown, SendAll, SendNew,
              SendFails
<1>4. CASE SendKeepalives
  BY <1>4, AbortEnds DEF SendKeepalives, TakeToken, ResetTicker, KeepaliveEnds, KeepaliveFails
<1>5. CASE \E c \in Conn : ConsumerEnds(c)
  BY <1>5, AbortEnds DEF ConsumerEnds
<1>6. CASE NewReturns \/ Break \/ UNCHANGED vars
  BY <1>6 DEF NewReturns, Break, vars
<1>7. CASE Close \/ \E t \in Table : Set(t)
  BY <1>7, AbortEnds DEF Close, Set
<1>8. QED
  BY <1>1, <1>2, <1>3, <1>4, <1>5, <1>6, <1>7 DEF Next

(* On a connection that lasts the peer's routes change only to the wanted  *)
(* ones, message by message, and no route goes before the others are there. *)
THEOREM TellsOnlyWanted == Spec => OnlyWantedRoutes
<1>1. IInv /\ [Next]_vars
        => [conn' = conn /\ ~broken' =>
              \A p \in Prefix : learnt'[p] # learnt[p] =>
                  /\ learnt'[p] = wanted[p]
                  /\ wanted[p] = None => learnt' = wanted]_vars
  BY LearntStep
<1>2. QED
  BY <1>1, Invariance, PTL DEF Spec, OnlyWantedRoutes
=============================================================================
