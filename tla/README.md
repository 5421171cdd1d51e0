# MetalLB in TLA+

MetalLB gives services of type `LoadBalancer` an IP address and makes the
network send traffic for it to the cluster. This directory models the parts of
it whose correctness depends on order, concurrency and failures, checks them
with TLC on small instances, and proves the most important results with TLAPS
for all instances.

## 1. The system

| part | source | state | what changes it | talks to |
|---|---|---|---|---|
| allocator | `internal/allocator/allocator.go` | pools, allocations, and five indexes over them | `SetPools`, `Assign`, `Unassign`, `AllocateFromPool`, `Allocate` | called by the controller |
| k8salloc | `internal/allocator/k8salloc` | none | pure conversions | called by the controller |
| controller | `controller/` | the allocator, the configuration in force, `synced` | `SetBalancer`, `SetConfig`, `MarkSynced` | writes service status through the Kubernetes client |
| Kubernetes client | `internal/k8s` | informer caches, a rate-limited work queue, the `config_stale` gauge | watch events, `Run`, `sync` | API server; calls controller or speaker |
| speaker | `speaker/main.go` | configuration, what is announced by which protocol | `SetBalancer`, `SetConfig`, `SetNode` | BGP controller, layer 2 controller |
| BGP controller | `speaker/bgp_controller.go` | peers with their sessions, advertisements per service | `SetConfig`, `SetNode`, `SetBalancer`, `DeleteBalancer` | BGP sessions |
| VPP layer 2 controller | `speaker/vpp_l2_controller.go` | addresses per service, reference counts, interfaces | `SetBalancer`, `DeleteBalancer`, `SetNode`, a periodic renewal | etcd, read by the VPP agent |
| BGP session | `internal/bgp` | connection, advertised and pending routes, hold time, backoff | four kinds of goroutines | the peer router |
| BGP messages | `internal/bgp/messages.go` | none | encoding and decoding | used by the BGP session |
| layer 2 election | `speaker/layer2_controller.go` | none | `usableNodes`, `ShouldAnnounce` | called by the VPP controller |
| layer 2 announcer | `internal/layer2` | ARP and NDP responders, announced addresses | interface scan, `SetBalancer`, `DeleteBalancer`, requests | neighbours on the node's networks; not started by this speaker (the VPP controller replaces it) |
| configuration | `internal/config` | none | pure: `Parse` | called by the Kubernetes client |

The behaviours that are hard to test: the controller sees services, the
ConfigMap and its own writes through caches that lag and in an order it does
not choose; it restarts with an empty allocator while the addresses it gave
away stay published; status updates fail before or after they are applied; a
configuration is refused half-way; four kinds of goroutines share a BGP session
whose connection breaks at any point; metrics are written outside the mutex;
the speaker hears of services, endpoints, its node and the configuration in any
order, with two protocol handlers of which either may fail, and leaves a key in
etcd behind when it dies; the speakers of several nodes elect one of them, each
from its own copy of the endpoints; the layer 2 announcer's scan works on a list
of interfaces that may be out of date; and lengths, masks and numbers have edges
in the parser and in the messages.
`PROJECT.json` lists each such hazard with its line and the properties aimed at
it.

## 2. Modules

| module | models | kind |
|---|---|---|
| `Allocator` | the allocator's struct as a record, its methods as operators on it | operators |
| `AllocatorSpec` | an allocator whose caller calls the methods in any order | state machine |
| `AddressBook` | what the allocator promises, without its indexes | abstract specification |
| `Controller` | controller process, API server, informers, work queue, crashes; uses `Allocator` | state machine |
| `Session` | one BGP session with its goroutines, and the peer | state machine |
| `Endpoints` | endpoint health and the layer 2 election | operators |
| `BgpController` | the BGP handler's struct and methods | operators |
| `VppL2` | the VPP handler's struct and methods, and its key in etcd | operators |
| `SpeakerController` | the speaker's controller: its struct and methods, which call those of the two handlers | operators |
| `Speaker` | the speaker on one node, its work queue, crashes, lease; uses `SpeakerController` | state machine |
| `Election` | the speakers of several nodes, each with a `SpeakerController` of its own | composition |
| `Announcer` | the layer 2 announcer, its scan, spams and responders, and the node's interfaces | state machine |
| `Config` | the configuration parser, and the cutting of ranges into prefixes | operators |
| `Messages` | the BGP messages, with the lengths in them | operators |
| `Peering` | a file parsed, a session opened, routes announced and withdrawn; uses `Config` and `Messages` | state machine |
| `AllocatorProofs` | the allocator's methods keep its invariant; safety, and refinement of `AddressBook` | proofs |
| `ControllerProofs` | the controller's invariant, its parts, the steps, and the theorems | proofs |
| `SpeakerLemmas`, `SpeakerProofs` | what the methods of the two protocol handlers and of the speaker's controller do; the speaker's steps, and the theorems | proofs |
| `ElectionProofs` | the election, from the lemmas of `SpeakerLemmas` | proofs |
| `PeeringProofs` | the parser and the messages, with what they need of powers of two, sequences and sums | proofs |
| `SessionProofs`, `AnnouncerProofs` | the session; the announcer | proofs |
| `MCAllocator`, `MCController`, `MCSession`, `MCSpeaker`, `MCElection`, `MCAnnouncer`, `MCPeering` | small instances for TLC | instances |

`Allocator` is written as operators from record to record because the
controller's handlers call several methods in a row: `Controller` composes the
same operators, so what is proved of them holds in the controller as well.

### Allocator

`ips.allocated`, `sharingKeyForIP`, `portsInUse`, `servicesOnIP`,
`poolIPsInUse` and `poolServices` are the Go maps of the same name, with `None`
or 0 for a missing entry; `panicked` records the panic of `Unassign`. A pool is
the sequence of its addresses in the order of the cursor, so that
`AllocateFromPool` finds the same first address as the code; the set of "buggy"
addresses (ending in 0 or 255) is a constant. `Allocate` returns the set of
addresses it may choose, one for each pool the random map order may put first.
`SetPools` states the outcome of its loop at once; `SetPoolsLoop` is the loop as
it is written, and `RearrangeInAnyOrder` says that the two agree for every order
of the services. The loop takes entries out of the map it ranges over and puts
them back, so a service may come up a second time; `Visits` allows for that.

Assumed of the caller: the ports of a service are not empty (the API server
enforces it) and pools do not overlap (`config.Parse` enforces it).

### Controller

One step is one handler run by the single worker (`SetBalancer`, `SetConfig`,
`MarkSynced`, split by early return), one edit by a user, one delivery by an
informer, one expired delay, a start, or a crash. A handler reads its object
from the cache and makes at most one write at its end, so it can be one step:
another process that acts meanwhile acts before it, with the cache behind, or
after it. `UpdateStatus` succeeds, conflicts (the cached version is not the
last one), or fails with the update applied or not. `client.Update` is not
modelled: `convergeBalancer` never changes annotations or specification. The
text of a requested address is a record of what it parses to and whether it is
in canonical form, because the code compares texts.

### Session

One step is what a goroutine does between taking the mutex and releasing it (or
waiting on the condition variable); the calls that update gauges outside the
mutex are steps of their own. The peer is the table of routes it has learnt on
the current connection. A connection may break at any time and unnoticed;
writes to a broken connection may or may not fail. `sendUpdates` sends one
message after another with the mutex held: each message is a step, and the
connection may break, or a write fail, between any two. The branch of `sendUpdates`
for a wake-up with neither a new table nor a lost connection is left out: it is
unreachable (every `Broadcast` follows one of the two, and the loop around
`Wait` tests both). Nobody calls `Set` after `Close`, as in the BGP controller.

### Speaker

The handlers are operators from their struct to the set of results (struct,
success or error), several where the code ranges over a Go map or a request may
fail. `SpeakerController` composes them as `SetBalancer`, `SetConfig` and
`SetNode` do, early returns and half-done changes included; `Speaker` says when
these are called, and with what. The speaker writes nothing to the
API server, so one copy of the cluster is enough, and one set of keys stands for
the queue and the delayed keys. A BGP session is the routes it was last `Set`
to, a set of advertisements (`Session` models the rest); a prefix is its first address and its number of
host bits, so aggregation and the conflicts it causes are real. In etcd there
is the key of this node, and the number of renewals missed; a request succeeds,
or fails, carried out or not. `left` is the only variable that is not in the
code: the services whose announcement failed after the VPP handler had recorded
them (`main.go:213` returns without an entry in `announced`), until a later one
succeeds or the process ends. `newBGP` never fails in this code, so the error
count of `syncPeers` is left out.

### Election

Several speakers have nothing in common but the objects in the API server.
`Election` keeps every version the endpoints have had; each speaker's informers
hold one of them and move on one at a time, whenever they like. What a speaker
does with a version is `setBalancer` of `SpeakerController`, the same operator
that `Speaker` uses, for its node `n`, with the VPP handler and its key in etcd,
and with `left` for each node. The candidates are those of `usableNodes` as it is
coded: one endpoint that is not ready makes its whole node unusable, where the
comment (`layer2_controller.go:38-39`) says "all nodes that have at least one
fully ready endpoint on them". The properties are about agreement on a candidate.
Services and configuration are fixed: `Speaker` looks at their changes.

### Announcer

The worker, the scan, one spam for each address taken on and one goroutine for
each responder meet under the mutex of `Announce`; what is done while it is held
is one step. The scan has two: it lists the interfaces before it takes the mutex
(`List`), and `updateInterfaces` then has their flags as they were, but their
addresses as they are, and opens sockets on what is there now. It may return at
any interface, with the responders before it made and none closed
(`updateInterfacesFails`). A responder decides to answer (`GotRequest`) under the
mutex and writes after it (`Reply`). `missed` is the only thing that is not in
the code: what a responder's group counts lack, because it was made after an
address was taken on or failed to join. Leaving a group is taken to work, and an
interface does not become enslaved, NOARP or go down in the middle of a scan. The five seconds of a spam are a
number of rounds.

### Config, Messages and Peering

`Config` takes a file after YAML has been decoded (`IsFile`); a text that does
not parse is `Bad`, an error is `None`. Addresses are the last `2^Bits` of each
family, numbered from 0, for any `Bits` up to 31; lengths are the real ones (32 and 128 bits), and an IPv4 prefix may be written as one of
IPv6. `Summarize` is the vendored `ipaddr.Summarize`, which the parser hands
ranges to. `Messages` keeps the fields that depend on something and every length
that is written into a message, cut to its width, beside what was written.
`Peering` puts them together: a file is loaded or refused, a session is tried
with any router that tells its AS number (`Honest`), an address of a pool is announced with each of the pool's
advertisements, and routes are withdrawn. It says nothing of time or order,
which are `Session`'s.

## 3. Runs

`tlc -config X.cfg M` from this directory; the names are those of
`PROJECT.json`.

| run | instance | checks |
|---|---|---|
| `allocator` | 3 services, 3 addresses, 2 ports, 2 sharing and 2 backend keys, 3 pool maps | indexes exact, sharing safe, counts right, no panic, `SetPools` independent of order, refinement of `AddressBook` |
| `controller` | 2 services, 2 addresses, 4 kinds of specification, 4 edits, 1 crash, 1 failing request, under fairness | configuration and allocator agree, gauge honest, published addresses are the allocated ones, requests honoured, no overlap when idle; the controller runs out of work; every service is served |
| `controller_restart` | 2 services, 3 edits, 1 crash | **violated**: an address is published twice after a restart |
| `controller_stale` | 2 services, 6 edits | **violated**: an address is published twice, without a crash |
| `session` | 2 prefixes, 2 paths, 2 calls of `Set`, 3 failures, hold times 0 and 90 against 9, under fairness | nothing set is lost, no lost wake-up, no spurious disconnect, ticker and gauge; the peer learns the routes; `Close` ends the session |
| `session_gauge` | 1 prefix | **violated**: the gauge says down while the session is up |
| `session_close` | 1 prefix, no `Set`, under fairness | **violated**: a goroutine outlives `Close` |
| `speaker` | 2 services on 4 addresses, 2 pools, 3 configurations, 2 peers, 2 node versions, 3 edits, 1 crash, 1 failing request, under fairness | services with the right handler, sessions told and none left over, no conflicting routes, interfaces read; the key in etcd ends up with the wanted addresses; both but for what failed announcements leave behind |
| `speaker_shared` | 2 services on one layer 2 address, 1 edit | **violated**: the second service goes dark while reported as announced |
| `election` | 2 nodes, 2 services, 2 edits of endpoints, 1 crash, 1 failing request, under fairness | nodes that have caught up agree on the announcer; in the end exactly one node answers; both but for what failed announcements leave behind |
| `announcer` | 2 services that may share, 1 IPv4 and 2 IPv6 addresses of one group, 2 interfaces, 3 calls, 1 change of interfaces, 1 failing system call, under fairness | group counts never drift; an address given up is no longer announced in the end; responders follow the interfaces; addresses are made known |
| `peering` | pools over 512 addresses of each family, prefixes and ranges at their edges, 2- and 4-byte AS numbers, OPENs packed in different ways, 0 to 64 communities, withdrawals of 1, 814, 815, 13102 and 13103 routes | overlapping pools refused and no others, pools as written, aggregates inside their pool, OPENs read back, sessions with the right routers only, messages well formed |

Why the bounds are enough. In the allocator three services are the least for
which one can leave an address that two others still share, and the three pool
maps rename, split, merge, restrict and reorder the pools. In the controller
two services suffice for a conflict about an address; four edits allow a
configuration, two services, and one change or deletion at any point, with a
crash and a lost answer anywhere in between. In the session three failures
allow a connection to break while the consumer of an earlier one still runs and
the next attempt fails; more connections than can fail are available, so the
supply never limits the run. In the speaker three edits allow a change of
protocol together with a change of the service and of its endpoints or of the
node; the configurations swap the protocol of a pool, shrink it, change the
aggregation, and list one peer twice; two services are the least that can
conflict on an aggregated prefix. In the election two edits let one speaker be
two versions behind the other, with a crash in between. In the announcer two
IPv6 addresses of one group and two interfaces are the least for which a group
is shared and a scan can return half-way; one change of interfaces falls before,
during or after a scan, of which there are any number; `MaxFailures` below
`Rounds` is what `MadeKnown` needs, as five writes in a row do not all fail.
`Peering` has no counters: its instance is a set of files, routers and addresses
chosen at the edges (the last address, 63 communities and one more, 65535 and
65536, a whole pool as one aggregate, the most routes that always fit into a
message and one more, the most whose length fits into its field and one more). `MaxEdits`, `MaxCrashes`, `MaxFailures`,
`MaxSets`, `MaxCalls`, `MaxChanges` and `MaxAnswering` are the only bounds on
behaviours. Deadlock is not checked in the
controller, the session, the speaker and the election: with the budget spent they
may have nothing to do. Nor is it in `peering`, where a refused file ends
everything.

The passing speaker runs leave out inputs with which the code is known not to
keep these properties; each was tried with TLC, and the hazards in
`PROJECT.json` describe them: two services on one layer 2 address (`speaker_shared` is that
case), a service that moves between two layer 2 addresses
(`vpp_l2_controller.go:116` ignores it), an advertisement that `Session.Set`
refuses (`bgp_controller.go:222`: IPv6, more than 63 communities), a pool that
lists one aggregation length with two paths, a node whose address changes while
the agent cannot be reached, and two services whose names differ only in the
place of the slash.

Requests to announce do fail in `speaker` and `election` (`AnnounceMayFail`). If
the service is then deleted, or loses the election, before the request is
repeated, nothing withdraws it, and the renewal goes on writing its address:
two nodes may go on answering for it, against "all traffic for a service IP goes
to one node" (`website/content/concepts/layer2.md:21`). `AnnouncedAsWanted`,
`ArpFollows`, `Agree` and `OneAnswers` except exactly the services in `left`, and
each is violated without that exception.

The properties of `peering` leave out, each by a condition of its own that their
comments name, what the code gets wrong; TLC finds each property violated when
its condition is removed: an IPv4 prefix written as `::ffff:a.b.c.d/n` overlaps
one written as IPv4 unnoticed (`RefusesOverlap`; the comment at
`config.go:120-121` says otherwise); a hold time of 65536 s or more is cut to 16
bits in the OPEN (`OpenReadBack`); the next hop of an IPv6 session has 16 bytes
after a length of 4 (`WellFormed`); an OPEN of less than 37 bytes is refused,
though 29 can be enough (`Negotiates`); over IPv6 without an IPv4 `router-id`,
`getRouterID` gives up unless the interface's first address is IPv4, where its
comment says "Pick the first ipv4 address on the same interface" (`Negotiates`).
A `router-id` that is not IPv4 is dropped by `New` (`To4`), as if none were
given. A withdrawal of more than 814 routes can be longer than BGP's 4096 bytes,
and one of 65536 bytes or more has a length that wraps: the code puts any number
into one message. `WellFormed` says that no other message is too long, and that
all lengths are right as long as they can be. One more is in the model, and no
property is about it: an AS path of 4 bytes per number is sent to routers that
did not offer capability 65.

Fairness. The controller's worker loops for ever and a handler always returns;
informers and delayed keys are served by goroutines that nothing blocks;
Kubernetes restarts the process. The session's goroutines are scheduled, a read
from a connection closed on this side returns at once, and a dead connection is
noticed by TCP only while keepalives are being written. The speaker's worker
comes to every key, its handlers succeed in the end (failing requests are
bounded), and the renewal of the lease is a loop of its own. In the election
the same holds for every node. The announcer's scan and spams are loops of
goroutines of their own, which nothing but the mutex blocks. Users, neighbours, crashes and
failures are never owed.

## 4. What is proved

All proofs are for arbitrary constants, under the assumptions named in the
modules (`None` is not a member of the data sets, the sets of services and of IPv6
addresses are finite, pools do not overlap, hold times and bounds are naturals,
files and OPENs have the fields that YAML and the wire format give them). TLC
evaluates every one of them in the instance it checks.

* **Allocator.** `Coherent` is inductive: the type, the three indexes, agreement
  of sharers, the recorded pool, exact counts, and no panic. None of the safety
  properties is inductive alone. That releasing a service finds its own ports
  needs that `Assign` saw every port in use, hence exact `portsInUse` and a
  sharing key on every address in use; that the key is there needs that the last
  port leaves with the last service. `AllocatorProofs` shows that each method
  keeps `Coherent`, and concludes `TypeCorrect`, `NeverPanics`,
  `AlwaysIndexed`, `AlwaysDecidesByHoldings`, `AlwaysSharingSafe`, `AlwaysInConfiguredPool` and
  `AlwaysCountsRight`.
* **The loop of `SetPools`.** `AlwaysRearrangeInAnyOrder`: the loop ends where
  `SetPools` says, in whatever order it visits the services. In the middle of the
  loop some allocations are recorded under a pool that is gone, so `Coherent` does
  not hold there; `Consistent`, which is `Coherent` without the recorded pools,
  does, after every round. As pools and allocations determine the rest of a
  consistent allocator (`Determined`), it is enough to follow the allocations: after
  some rounds the services visited so far are under their new pools, and the others
  as they were (`Rounds`, by induction over the rounds). The lemma `LoopIs` behind
  the theorem is about any sequence in which every service occurs, so one may come
  up any number of times.
* **Refinement.** `AllocatorProofs` also proves `ImplementsAddressBook`: under
  `Coherent`, `Assign`'s decision from the indexes is the book's decision from
  the holdings (`RefusedIffNoFit`), so each call is a step of the book.
* **Controller.** `ControllerProofs` proves all safety properties of the run
  `controller`: `ConfigInForce`, `PublishedIsAllocated`, `RequestHonoured` and
  `QuietExclusive`, for any services, addresses and configurations and any number
  of edits, crashes and failures. The inductive invariant `IInv` adds to them that
  the allocator is `Coherent` (from the lemmas of `AllocatorProofs`, so the panic
  is unreachable here too: `ControllerAllocatorCoherent`), that a process that is
  down has no memory, and that the cache follows the API server (`CacheFollows`:
  the last change of a service that is on its way brings what the server has, and
  a service without one is cached as it is). The last is what lets a handler that
  reads the cache conclude something about the published status: a settled service
  has no change on its way, and a handler that saw an old version leaves one
  behind, by which the service is looked at again. `ControllerProofs` states what
  `convergeBalancer` decides as one lemma per outcome, and what the queue and the
  watch do as sequences.
* **Speaker.** `SpeakerProofs` proves the safety properties of the run `speaker`.
  `SpeakerLemmas` first shows what each method of the BGP and VPP handlers does,
  for all its results: `syncPeers` starts, stops and closes exactly the right
  sessions, in any order of a Go map; `SetConfig` reuses each old session at most
  once, also for peers listed several times (`MatchingInjective`); a new session
  is told what the others are (`Told`). It then does the same for the methods of
  the speaker's controller, which call those. The inductive invariant `SpeakerInv` has
  three layers, because the code keeps less when more goes wrong:
  - `Safe` holds whatever happens: types, no session beside those that the node's
    labels select (`SpeakerSessionsChosen`), nothing announced without a
    configuration, interfaces known once the node is handled
    (`SpeakerInterfacesKnown`);
  - `Following` holds if `Session.Set` refuses none of the advertisements that
    the configurations can make (`Advertisable`: IPv4 pools, at most 63
    communities): the peers are those of the configuration, all sessions are
    told the present routes, controller and BGP handler agree on what is
    advertised (`InStep`), and a settled service is where setBalancer would put
    it. From it follow `SpeakerSessionsMatch`, `SpeakerPeersTold` and
    `SpeakerBgpAsWanted`; and, if no pool lists one aggregation length with two
    paths (`OnePath`), `SpeakerNoConflict`, whose argument is that services with
    one aggregate are in one pool, as pools do not overlap and do not aggregate
    beyond themselves. Without `OnePath` two advertisements of a prefix can
    differ, but what the peers are told is still determined: `SpeakerOneTable`
    shows that the routes do not depend on the order in which `updateAds` ranges
    over the map of services, as the last entry of the one pool decides;
  - `Layer2OK` holds if also no request to announce fails and the layer 2
    addresses are steady (`SteadyLayer2`: two services never have the same, a
    service never changes its own, and names stay different with `-` for `/`):
    the VPP handler has the address of exactly the services the controller
    believes it has, each counted once. With it follows
    `SpeakerAnnouncedAsWanted`, where nothing is left behind (`NothingLeft`).

  `InterfacesRead` is left to TLC. Each of these
  hypotheses but the one on failing requests, which TLC does without by the
  exception for `left`, holds in the instance that TLC checks, and without each of
  them TLC finds the property violated (section 3 lists the cases), so they mark
  where the code's guarantee ends, not what the proof lacks.
* **Election.** `ElectionProofs` proves `Agree` (`ElectionAgrees`) for any number
  of nodes, services, edits, crashes and failing requests, under the hypotheses
  of `Layer2OK` (`ElectionAssumed`), under which nothing is left over. `Agree` speaks
  of speakers that have caught up, and is not inductive: one that is behind catches
  up by handling only the services whose endpoints changed. `ElectionInvariant`
  therefore says of every speaker, caught up or not, that it announces of the
  services it has looked at exactly those that the version it holds elects it for
  (`Voted`), that its handler is in the state `Layer2OK`, and that all versions
  have the same services and configuration (`History`). The lemmas about
  `setBalancer` and `setConfig` are those of `SpeakerLemmas`, for any node. The
  same invariant gives `ElectionUnique`, which needs nobody to have caught up: two
  speakers that both announce a service hold different versions of its endpoints.
* **Parser and messages.** `PeeringProofs` proves all six properties of the run
  `peering`, for any files, routers and addresses. The work is in lemmas about the
  operators, of three kinds.
  - Powers of two: blocks of `2^a` and `2^b` addresses, each aligned to its size,
    are nested or disjoint. From it follow that `cidrsOverlap`, which looks at
    lengths and first addresses only, decides whether two prefixes share an
    address (`ParseRefusesOverlap`), and that an aggregate not wider than a
    prefix of the pool, taken around an address of it, stays inside it
    (`RoutesInside`).
  - The loop of `Summarize`: the widest aligned block that fits exists, and the
    blocks cover the range exactly, by induction on what is left of it
    (`PoolsAsWritten`).
  - Sequences read or written piece by piece: what `readOptions` keeps over any
    number of options (`OpensReadBack`, `SessionsNegotiate`), and the sum of the
    lengths of what was written (`MessagesWellFormed`).

  The inductive invariant is `PeeringInvariant` (`PeeringKept`). Its part `Sound`
  ties the phases together: what is held after loading is what `Parse` makes of
  the file, a session is with a peer of the file, and routes exist only while it
  is up. `MessagesWellFormed` holds of withdrawals of any size: a route takes at
  most 5 bytes, so that 814 always fit.
* **Session.** `SessionProofs` proves the invariant `IInv`: the properties of the
  run plus three facts that make them inductive, what the peer's table is at each
  point of the loops that send it (`PeerKnows`), what is left of such a loop
  (`Loops`), and that an
  idle `run` has nothing pending (`WaitsIdle`).
* **Announcer.** `AnnouncerProofs` proves `GroupCounts` (`Counts`). It is not
  inductive: that giving up an address takes exactly one from the watched ones
  needs that no other service holds it and that it is counted as used
  (`HeldOnce`, `Holders`).

That allocator and session are well typed (`TypeCorrect`, `SessionTypeCorrect`), and
that `Assign` decides from its indexes as from the holdings, is proved and not
model-checked as well.

Only model-checked: all liveness, as the prover does not handle fairness.
Inductions over numbers are within its reach, by way of the well-foundedness of
`<`: `LeastNat` gets least and greatest elements from it, with which the last
advertisement of a prefix and the matching of peers are reasoned about, and
`InductiveSet` gets induction for a set of numbers, with which `PeeringProofs` and
`AllocatorProofs` reason about recursive functions.

## 5. Not modelled, and the plan

Hazards of this code that no property is about. A service that found the pools
exhausted is not retried when an address is freed (`controller/service.go:82`,
a TODO there). `SetNode` of the VPP controller writes `ethIfcs` without the mutex
under which the renewal reads it (`vpp_l2_controller.go:234`); a torn slice is
below the level of the model. The metrics of a peer are deleted when an old
session's `run` ends, although a new session to the same address may be using
them (`bgp.go:49`); `Session` has one session. The gauge `poolActive` is written
twice by `assign` and never by `Unassign` (`allocator.go:123`); the allocator's
metrics are not modelled. The backend key of a `Local` service without a
selector is that of all `Cluster` services (`k8salloc.go:29`).

Worth doing next, in this order:

1. the allocator's metrics, and the metrics of two sessions to one address;
2. an election while services and configuration change as well.

Left out for good: system calls on sockets (`dialMD5`, raw ARP frames), YAML
decoding, logging, command lines, the test router, manifests, build scripts, and
the website with the browser scripts of its third-party theme, which are not
part of the load balancer.
