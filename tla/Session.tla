------------------------------- MODULE Session -------------------------------
(***************************************************************************)
(* One BGP session of the speaker (internal/bgp): the goroutine "run" that *)
(* connects and pumps route updates, the goroutine "sendKeepalives", one   *)
(* goroutine "consumeBGP" per connection, and a caller that uses Set and   *)
(* Close.  They share the fields under one mutex; what a goroutine does    *)
(* between taking the mutex and giving it up (or waiting on the condition  *)
(* variable) is one step, except for run, which keeps the mutex while it   *)
(* sends one message after another.                                        *)
(*                                                                         *)
(* The peer is modelled by the routes it has learnt on the connection.  It *)
(* forgets them when the connection breaks or is closed.                   *)
(***************************************************************************)
EXTENDS Integers, FiniteSets

CONSTANTS
    Prefix,         \* the prefixes announced
    Path,           \* what can be said of one: next hop, preference, ...
    HoldTime,       \* Session.holdTime
    PeerHoldTimes,  \* the hold times the peer may offer
    BackoffMax,     \* backoffMax, in units of the first delay
    Conn,           \* the identities of connections
    None,           \* nil, or no entry in a map
    MaxSets,        \* bound on the calls of Set,
    MaxFailures     \* and on failed or broken connections

(* A set of advertisements, by prefix: the maps advertised and new.        *)
Table == [Prefix -> Path \cup {None}]
Empty == [p \in Prefix |-> None]
Size(t) == Cardinality({p \in Prefix : t[p] # None})

ASSUME SessionAssumption ==
    /\ IsFiniteSet(Prefix)
    /\ None \notin Path \cup Table \cup Conn
    /\ HoldTime \in Nat /\ PeerHoldTimes \subseteq Nat
    /\ BackoffMax \in Nat \ {0}
    /\ MaxSets \in Nat /\ MaxFailures \in Nat

VARIABLES
    run,            \* where the goroutine run is
    todo,           \* the prefixes that its loop in sendUpdates still sends
    keepalive,      \* where the goroutine sendKeepalives is
    consumers,      \* connections with a goroutine consumeBGP
    closed,
    conn,           \* the connection, or None
    broken,         \* the connection does not reach the peer any more
    actualHoldTime,
    newHoldTime,    \* the channel of one slot holds a token
    ticker,         \* the period of the keepalive ticker; 0: no ticker
    advertised,
    new,            \* or None
    nextDelay,      \* backoff.nextDelay
    gauges,         \* the metrics labelled with the peer
    created,        \* New has returned the session to its caller
    learnt,         \* the peer: the routes it has
    wanted,         \* the caller: the routes it set last
    sets, failures  \* calls of Set, and failures, so far

locals == <<run, todo, keepalive, consumers, created>>
fields == <<closed, conn, actualHoldTime, newHoldTime, advertised, new, nextDelay>>
bounds == <<sets, failures>>
vars == <<run, todo, keepalive, consumers, closed, conn, broken, actualHoldTime,
          newHoldTime, ticker, advertised, new, nextDelay, gauges, created,
          learnt, wanted, sets, failures>>

(* New starts the goroutines, then sets the metrics and returns.           *)
Init ==
    /\ run = "connect"
    /\ todo = {}
    /\ keepalive = "select"
    /\ consumers = {}
    /\ closed = FALSE
    /\ conn = None
    /\ broken = FALSE
    /\ actualHoldTime = 0
    /\ newHoldTime = FALSE
    /\ ticker = 0
    /\ advertised = Empty
    /\ new = None
    /\ nextDelay = 0
    /\ gauges = [up |-> FALSE, prefixes |-> 0, pending |-> 0]
    /\ created = FALSE
    /\ learnt = Empty
    /\ wanted = Empty
    /\ sets = 0
    /\ failures = 0

NewReturns ==
    /\ ~created
    /\ created' = TRUE
    /\ gauges' = [gauges EXCEPT !.up = FALSE, !.prefixes = 0]
    /\ UNCHANGED <<run, todo, keepalive, consumers, fields, broken, ticker, learnt,
                   wanted, bounds>>

(* run is sending, and holds the mutex.                                    *)
Sending == run \in {"sendAll", "sendNew"}

Fail == failures < MaxFailures /\ failures' = failures + 1

(* cond.Broadcast wakes run if it waits.                                   *)
Broadcast == run' = IF run = "wait" THEN "woken" ELSE run

(* abort: the connection is closed, and what was still to be sent becomes  *)
(* what the next connection starts with.                                   *)
abort_DropsNew ==
    /\ conn' = None
    /\ broken' = FALSE
    /\ learnt' = Empty
    /\ new' = None
    /\ gauges' = [up |-> gauges.up /\ conn = None,
                  prefixes |-> IF conn = None THEN gauges.prefixes ELSE 0,
                  pending |-> gauges.pending]
    /\ UNCHANGED <<advertised, actualHoldTime, newHoldTime, nextDelay, wanted,
                   created>>

abort ==
    /\ conn' = None
    /\ broken' = FALSE
    /\ learnt' = Empty
    /\ new' = None
    /\ advertised' = IF new = None THEN advertised ELSE new
    /\ gauges' = [up       |-> gauges.up /\ conn = None,
                  prefixes |-> IF conn = None THEN gauges.prefixes ELSE 0,
                  pending  |-> IF new = None THEN gauges.pending ELSE Size(new)]
    /\ UNCHANGED <<actualHoldTime, newHoldTime, nextDelay, wanted, created>>

-----------------------------------------------------------------------------
(***************************************************************************)
(* run.                                                                    *)
(***************************************************************************)

(* connect on a closed session: run ends and deletes the metrics.          *)
RunEnds ==
    /\ run' = "done"
    /\ gauges' = [up |-> FALSE, prefixes |-> 0, pending |-> 0]
    /\ UNCHANGED <<todo, keepalive, consumers, fields, broken, ticker, created,
                   learnt, wanted, bounds>>

ConnectClosed ==
    /\ run = "connect"
    /\ closed
    /\ RunEnds

(* A connection like no other in use.                                      *)
Attempt == CHOOSE c \in Conn \ consumers : TRUE

(* The OPEN messages agree on a hold time, a consumer is started, and the  *)
(* keepalive goroutine is told; the token is dropped if there is one.      *)
Connect_NoToken(peerHoldTime) ==
    /\ run = "connect"
    /\ ~closed
    /\ consumers # Conn
    /\ conn' = Attempt
    /\ broken' = FALSE
    /\ learnt' = Empty
    /\ consumers' = consumers \cup {Attempt}
    /\ actualHoldTime' = IF peerHoldTime < HoldTime THEN peerHoldTime ELSE HoldTime
    /\ newHoldTime' = (newHoldTime \/ actualHoldTime = 0)
    /\ run' = "established"
    /\ UNCHANGED <<todo, keepalive, closed, ticker, advertised, new, nextDelay, gauges,
                   created, wanted, bounds>>

Connect(peerHoldTime) ==
    /\ run = "connect"
    /\ ~closed
    /\ consumers # Conn
    /\ conn' = Attempt
    /\ broken' = FALSE
    /\ learnt' = Empty
    /\ consumers' = consumers \cup {Attempt}
    /\ actualHoldTime' = IF peerHoldTime < HoldTime THEN peerHoldTime ELSE HoldTime
    /\ newHoldTime' = TRUE
    /\ run' = "established"
    /\ UNCHANGED <<todo, keepalive, closed, ticker, advertised, new, nextDelay, gauges,
                   created, wanted, bounds>>

(* backoff.Duration: the delay after the one that begins now.              *)
Duration(d) ==
    IF d = 0 THEN 1 ELSE IF 2 * d > BackoffMax THEN BackoffMax ELSE 2 * d

(* connect fails.  If only the keepalive that accepts the peer's OPEN      *)
(* fails, the consumer of the connection is already running.               *)
ConnectFails(consuming) ==
    /\ run = "connect"
    /\ ~closed
    /\ consumers # Conn
    /\ Fail
    /\ consumers' = IF consuming THEN consumers \cup {Attempt} ELSE consumers
    /\ nextDelay' = Duration(nextDelay)
    /\ run' = "backoff"
    /\ UNCHANGED <<todo, keepalive, closed, conn, broken, actualHoldTime, newHoldTime,
                   ticker, advertised, new, gauges, created, learnt, wanted, sets>>

BackoffOver ==
    /\ run = "backoff"
    /\ run' = "connect"
    /\ UNCHANGED <<todo, keepalive, consumers, fields, broken, ticker, gauges, created,
                   learnt, wanted, bounds>>

(* stats.SessionUp and backoff.Reset, without the mutex.                   *)
SessionUp ==
    /\ run = "established"
    /\ run' = "send"
    /\ gauges' = [gauges EXCEPT !.up = TRUE, !.prefixes = 0]
    /\ nextDelay' = 0
    /\ UNCHANGED <<todo, keepalive, consumers, closed, conn, broken, actualHoldTime,
                   newHoldTime, ticker, advertised, new, created, learnt, wanted,
                   bounds>>

(* stats.SessionDown, without the mutex.                                   *)
SessionDown_Forgotten ==
    /\ run = "down"
    /\ run' = "connect"
    /\ UNCHANGED <<todo, keepalive, consumers, fields, broken, ticker, gauges, created,
                   learnt, wanted, bounds>>

SessionDown ==
    /\ run = "down"
    /\ run' = "connect"
    /\ gauges' = [gauges EXCEPT !.up = FALSE, !.prefixes = 0]
    /\ UNCHANGED <<todo, keepalive, consumers, fields, broken, ticker, created, learnt,
                   wanted, bounds>>

(* sendUpdates: everything is sent to begin with, and then the differences *)
(* with each Set.                                                          *)
Wish == IF new = None THEN advertised ELSE new

SendUpdatesEnds ==
    /\ run \in {"send", "woken"}
    /\ closed
    /\ RunEnds

SendUpdatesDown ==
    /\ run \in {"send", "woken"}
    /\ ~closed
    /\ conn = None
    /\ run' = "down"
    /\ UNCHANGED <<todo, keepalive, consumers, fields, broken, ticker, gauges, created,
                   learnt, wanted, bounds>>

(* The routes that change with new, and those that are to go.              *)
Changed == {p \in Prefix : new[p] # None /\ new[p] # advertised[p]}
Withdrawn == {p \in Prefix : new[p] = None /\ advertised[p] # None}

(* The peer is told the routes of table t for the prefixes in S; a broken  *)
(* connection swallows it.                                                 *)
Receive(S, t) ==
    learnt' = IF broken THEN learnt
              ELSE [p \in Prefix |-> IF p \in S THEN t[p] ELSE learnt[p]]

(* A loop over the prefixes in S begins.                                   *)
Begin(loop, S) ==
    /\ run' = loop
    /\ todo' = S
    /\ UNCHANGED <<keepalive, consumers, closed, conn, broken, actualHoldTime,
                   newHoldTime, ticker, nextDelay, gauges, created, wanted, bounds>>

SendAll ==
    /\ run = "send"
    /\ ~closed
    /\ conn # None
    /\ advertised' = Wish
    /\ new' = None
    /\ Begin("sendAll", {p \in Prefix : Wish[p] # None})
    /\ UNCHANGED learnt

(* Woken by a Set.                                                         *)
SendNew_WithdrawsFirst ==
    /\ run = "woken"
    /\ ~closed
    /\ conn # None
    /\ new # None
    /\ Begin("sendNew", Changed)
    /\ Receive(Withdrawn, new)
    /\ UNCHANGED <<advertised, new>>

SendNew ==
    /\ run = "woken"
    /\ ~closed
    /\ conn # None
    /\ new # None
    /\ Begin("sendNew", Changed)
    /\ UNCHANGED <<advertised, new, learnt>>

(* One turn of a loop.  The order is that of a Go map.                     *)
SendUpdate(p) ==
    /\ Sending
    /\ p \in todo
    /\ todo' = todo \ {p}
    /\ Receive({p}, Wish)
    /\ UNCHANGED <<run, keepalive, consumers, fields, broken, ticker, gauges,
                   created, wanted, bounds>>

(* stats.AdvertisedPrefixes.                                               *)
Sent ==
    /\ Sending
    /\ todo = {}
    /\ run' = "wait"
    /\ gauges' = [gauges EXCEPT !.prefixes = Size(Wish), !.pending = Size(Wish)]
    /\ UNCHANGED <<todo, keepalive, consumers, closed, conn, broken, actualHoldTime,
                   newHoldTime, ticker, nextDelay, created, wanted, bounds>>

AllSent ==
    /\ run = "sendAll"
    /\ Sent
    /\ UNCHANGED <<advertised, new, learnt>>

(* One message withdraws what is to go, and the maps are exchanged.        *)
NewSent ==
    /\ run = "sendNew"
    /\ Sent
    /\ Receive(Withdrawn, new)
    /\ advertised' = new
    /\ new' = None

(* A write fails: some message is still to be sent.                        *)
SendFails ==
    /\ Sending
    /\ broken
    /\ todo # {} \/ (run = "sendNew" /\ Withdrawn # {})
    /\ abort
    /\ run' = "down"
    /\ todo' = {}
    /\ UNCHANGED <<keepalive, consumers, closed, ticker, bounds>>

-----------------------------------------------------------------------------
(***************************************************************************)
(* sendKeepalives and consumeBGP.                                          *)
(***************************************************************************)

(* The token is taken first, the hold time read under the mutex later.     *)
TakeToken ==
    /\ keepalive = "select"
    /\ newHoldTime
    /\ newHoldTime' = FALSE
    /\ keepalive' = "read"
    /\ UNCHANGED <<run, todo, consumers, closed, conn, broken, actualHoldTime, ticker,
                   advertised, new, nextDelay, gauges, created, learnt, wanted,
                   bounds>>

ResetTicker ==
    /\ keepalive = "read"
    /\ ~Sending
    /\ keepalive' = "select"
    /\ ticker' = actualHoldTime
    /\ UNCHANGED <<run, todo, consumers, fields, broken, gauges, created, learnt, wanted,
                   bounds>>

(* A tick on a closed session ends the goroutine; one on a broken          *)
(* connection may find out.  Any other does nothing to the state.          *)
KeepaliveEnds ==
    /\ keepalive = "select"
    /\ ~Sending
    /\ ticker # 0
    /\ closed
    /\ keepalive' = "done"
    /\ UNCHANGED <<run, todo, consumers, fields, broken, ticker, gauges, created, learnt,
                   wanted, bounds>>

KeepaliveFails ==
    /\ keepalive = "select"
    /\ ~Sending
    /\ ticker # 0
    /\ ~closed
    /\ conn # None
    /\ broken
    /\ abort
    /\ Broadcast
    /\ UNCHANGED <<todo, keepalive, consumers, closed, ticker, bounds>>

(* The consumer of connection c ends when c is closed or broken; it takes  *)
(* the session down only if c is still the session's connection.           *)
ConsumerEnds_AnyConnection(c) ==
    /\ c \in consumers
    /\ ~Sending
    /\ c # conn \/ broken
    /\ consumers' = consumers \ {c}
    /\ abort
    /\ Broadcast
    /\ UNCHANGED <<todo, keepalive, closed, ticker, bounds>>

ConsumerEnds_LeavesSession(c) ==
    /\ c \in consumers
    /\ ~Sending
    /\ c # conn \/ broken
    /\ consumers' = consumers \ {c}
    /\ UNCHANGED <<run, todo, keepalive, fields, broken, ticker, gauges, created,
                   learnt, wanted, bounds>>

ConsumerEnds(c) ==
    /\ c \in consumers
    /\ ~Sending
    /\ c # conn \/ broken
    /\ consumers' = consumers \ {c}
    /\ IF c = conn
       THEN /\ abort
            /\ Broadcast
            /\ UNCHANGED <<todo, keepalive, closed, ticker, bounds>>
       ELSE UNCHANGED <<run, todo, keepalive, fields, broken, ticker, gauges, created,
                        learnt, wanted, bounds>>

(* The peer ends the connection, says something this side cannot read, or  *)
(* becomes unreachable: what it learnt from here it forgets.               *)
Break ==
    /\ conn # None
    /\ ~broken
    /\ Fail
    /\ broken' = TRUE
    /\ learnt' = Empty
    /\ UNCHANGED <<locals, fields, ticker, gauges, wanted, sets>>

-----------------------------------------------------------------------------
(***************************************************************************)
(* The caller.  Set with an advertisement that cannot be sent changes      *)
(* nothing.  Nobody uses a session after closing it.                       *)
(***************************************************************************)

Set_NoBroadcast(t) ==
    /\ created
    /\ ~closed
    /\ ~Sending
    /\ sets < MaxSets
    /\ sets' = sets + 1
    /\ new' = t
    /\ wanted' = t
    /\ gauges' = [gauges EXCEPT !.pending = Size(t)]
    /\ UNCHANGED <<locals, closed, conn, broken, actualHoldTime, newHoldTime,
                   ticker, advertised, nextDelay, learnt, failures>>

Set(t) ==
    /\ created
    /\ ~closed
    /\ ~Sending
    /\ sets < MaxSets
    /\ sets' = sets + 1
    /\ new' = t
    /\ wanted' = t
    /\ gauges' = [gauges EXCEPT !.pending = Size(t)]
    /\ Broadcast
    /\ UNCHANGED <<todo, keepalive, consumers, created, closed, conn, broken,
                   actualHoldTime, newHoldTime, ticker, advertised, nextDelay,
                   learnt, failures>>

Close_KeepsConnection ==
    /\ created
    /\ ~closed
    /\ ~Sending
    /\ closed' = TRUE
    /\ UNCHANGED <<locals, conn, broken, actualHoldTime, newHoldTime, ticker,
                   advertised, new, nextDelay, gauges, learnt, wanted, bounds>>

Close ==
    /\ created
    /\ ~closed
    /\ ~Sending
    /\ closed' = TRUE
    /\ abort
    /\ Broadcast
    /\ UNCHANGED <<todo, keepalive, consumers, ticker, bounds>>

-----------------------------------------------------------------------------
Run ==
    \/ ConnectClosed
    \/ \E h \in PeerHoldTimes : Connect(h)
    \/ \E consuming \in BOOLEAN : ConnectFails(consuming)
    \/ BackoffOver
    \/ SessionUp
    \/ SessionDown
    \/ SendUpdatesEnds
    \/ SendUpdatesDown
    \/ SendAll
    \/ SendNew
    \/ \E p \in Prefix : SendUpdate(p)
    \/ AllSent
    \/ NewSent
    \/ SendFails

SendKeepalives ==
    \/ TakeToken
    \/ ResetTicker
    \/ KeepaliveEnds
    \/ KeepaliveFails

Next ==
    \/ NewReturns
    \/ Run
    \/ SendKeepalives
    \/ \E c \in Conn : ConsumerEnds(c)
    \/ Break
    \/ \E t \in Table : Set(t)
    \/ Close

Spec == Init /\ [][Next]_vars

(* Goroutines run; a read from a connection closed on this side returns at *)
(* once.  That a connection no longer reaches the peer is found out only   *)
(* while keepalives are sent.                                              *)
Noticed == ticker # 0 /\ (KeepaliveFails \/ ConsumerEnds(conn))

Fairness ==
    /\ WF_vars(Run)
    /\ WF_vars(TakeToken \/ ResetTicker \/ KeepaliveEnds)
    /\ WF_vars(\E c \in Conn : c # conn /\ ConsumerEnds(c))
    /\ WF_vars(Noticed)

FairSpec == Spec /\ Fairness

-----------------------------------------------------------------------------
(***************************************************************************)
(* Properties.                                                             *)
(***************************************************************************)

TypeInv ==
    /\ run \in {"connect", "backoff", "established", "send", "sendAll", "wait",
               "woken", "sendNew", "down", "done"}
    /\ todo \subseteq Prefix
    /\ keepalive \in {"select", "read", "done"}
    /\ consumers \subseteq Conn
    /\ closed \in BOOLEAN
    /\ conn \in Conn \cup {None}
    /\ broken \in BOOLEAN
    /\ actualHoldTime \in 0..HoldTime
    /\ newHoldTime \in BOOLEAN
    /\ ticker \in 0..HoldTime
    /\ advertised \in Table
    /\ new \in Table \cup {None}
    /\ nextDelay \in 0..BackoffMax
    /\ gauges \in [up : BOOLEAN, prefixes : Nat, pending : Nat]
    /\ created \in BOOLEAN
    /\ learnt \in Table
    /\ wanted \in Table
    /\ sets \in 0..MaxSets
    /\ failures \in 0..MaxFailures

(* What the caller set last is what is, or is still to be, advertised: no  *)
(* failure, reconnection or overlapping Set loses it (abort, sendUpdates). *)
WantedIsKept == wanted = Wish

(* When run waits on the condition variable there is nothing to wake up    *)
(* for: no update is pending, the session has its connection, and the peer *)
(* (if it can be reached) has exactly the wanted routes, although only     *)
(* differences were sent.                                                  *)
WaitsInSync ==
    run = "wait" => /\ new = None
                    /\ conn # None
                    /\ broken \/ learnt = wanted

(* A connection of the session always has a consumer, and run never        *)
(* connects again while there is one: connect cannot lose a connection.    *)
ConnectionOwned ==
    conn # None => /\ conn \in consumers
                   /\ run \in {"established", "send", "sendAll", "wait", "woken",
                              "sendNew"}

(* A connection that works is given up only by Close; in particular the    *)
(* consumer of an earlier connection never takes a later one down.         *)
NoSpuriousDown == [][conn # None /\ conn' # conn => closed' \/ broken]_vars

(* On a connection that lasts, each route of the peer changes to the one   *)
(* that is wanted at that time, although one message follows another; and  *)
(* a route goes only when the peer has all routes that are wanted, so that *)
(* a service that moves to another prefix is never without one.            *)
OnlyWantedRoutes ==
    [][conn' = conn /\ ~broken' =>
         \A p \in Prefix : learnt'[p] # learnt[p] =>
             /\ learnt'[p] = wanted[p]
             /\ wanted[p] = None => learnt' = wanted]_vars

(* The keepalive ticker has the period of the last OPEN exchange, unless   *)
(* the goroutine is about to set it: tokens dropped on a full channel lose *)
(* nothing.                                                                *)
TickerCurrent == keepalive = "select" /\ ~newHoldTime => ticker = actualHoldTime

(* The gauge does not stay up without a connection, whatever the order of  *)
(* stats.SessionUp (which is called without the mutex) and an abort.       *)
NotStuckUp == gauges.up /\ conn = None => run \in {"send", "down"}

(* The gauge says 1 for a session that is up and has sent its routes:      *)
(* "BGP session state (1 is up, 0 is down)".                               *)
GaugeSaysUp == run = "wait" => gauges.up

(* As long as the session stays open and sends keepalives, the peer ends   *)
(* up with the wanted routes.                                              *)
Learns == <>[](~closed /\ ticker # 0) => <>[](learnt = wanted)

(* After Close, run returns, the consumers end, and the peer forgets.      *)
CloseEnds == closed ~> (run = "done" /\ consumers = {} /\ learnt = Empty)

(* After Close, the goroutine sendKeepalives returns as well.              *)
KeepalivesEnd == closed ~> keepalive = "done"
=============================================================================
