----------------------------- MODULE Controller ------------------------------
(***************************************************************************)
(* The controller process (controller/, internal/k8s): an allocator driven *)
(* by a work queue of keys, fed from informer caches that lag behind the   *)
(* API server, writing the address of each service back into its status.   *)
(* The process may crash at any time and starts again with an empty        *)
(* allocator; what it handed out survives only in the API server.          *)
(*                                                                         *)
(* One worker takes the keys off the queue one by one and handles each to  *)
(* the end, so a handler is one step.  A handler reads its object from the *)
(* cache and ends with at most one write to the API server: another        *)
(* process acting while it runs is the same as acting just before it, with *)
(* the cache behind, or just after it.                                     *)
(***************************************************************************)
EXTENDS Allocator

CONSTANTS
    Specs,          \* the service specifications users submit
    NoBackend,      \* "", the text of an empty selector
    Invalid,        \* a ConfigMap that config.Parse refuses
    MaxEdits,       \* bound on the edits of users,
    MaxCrashes,     \* on the crashes of the controller,
    MaxFailures     \* and on the requests to the API server that fail

(* The text of an address: what net.ParseIP makes of it (None when it does *)
(* not parse), and whether it is what IP.String prints.                    *)
Text == [ip : IP \cup {None}, canonical : BOOLEAN]
String(ip) == [ip |-> ip, canonical |-> TRUE]

(* What of a service the controller looks at: the type, the requested      *)
(* address and pool, the sharing annotation, the external traffic policy   *)
(* (Local or Cluster), the text of the selector, and the ports.            *)
ServiceSpec ==
    [LoadBalancer   : BOOLEAN,
     LoadBalancerIP : Text \cup {None},
     pool           : PoolName \cup {None},
     sharing        : SharingKey,
     Local          : BOOLEAN,
     selector       : BackendKey,
     ports          : (SUBSET Port) \ {{}}]

(* The status is the text of the one ingress address, or None.             *)
Service == [spec : ServiceSpec, status : Text \cup {None}]

ASSUME SpecsAssumption ==
    /\ Specs \subseteq ServiceSpec
    /\ NoBackend \in BackendKey
    /\ None \notin Text \cup Service \cup Pools
    /\ Invalid # None /\ Invalid \notin Pools

(* The kinds of keys in the work queue.                                    *)
svcKey(s) == <<"service", s>>
cmKey == <<"configmap", None>>
syncedKey == <<"synced", None>>
QueueKey == {svcKey(s) : s \in Svc} \cup {cmKey, syncedKey}

VARIABLES
    services,   \* the API server: each service, or None,
    configMap,  \* and the ConfigMap: pools, Invalid or None
    watch,      \* changes of services not yet seen by the informer
    cmChanged,  \* a change of the ConfigMap not yet seen by its informer
    svcIndexer, \* the informer's copy of the services
    cmIndexer,  \* the informer's copy of the ConfigMap
    queue,      \* the work queue
    delayed,    \* keys to be added to it when their delay is over
    up,         \* the process is running
    ips,        \* controller.ips
    config,     \* controller.config: its pools, or None
    synced,     \* controller.synced
    configStale,\* the gauge
    budget      \* edits, crashes and failures so far

apiVars == <<services, configMap>>
informerVars == <<watch, cmChanged, svcIndexer, cmIndexer>>
queueVars == <<queue, delayed>>
processVars == <<up, ips, config, synced, configStale>>
vars == <<services, configMap, watch, cmChanged, svcIndexer, cmIndexer, queue,
          delayed, up, ips, config, synced, configStale, budget>>

Elements(seq) == {seq[i] : i \in DOMAIN seq}

(* workqueue.Add: a key that is already waiting is not added twice.        *)
Add(q, k) == IF k \in Elements(q) THEN q ELSE Append(q, k)

(* workqueue.AddRateLimited: the key is added to the queue later.          *)
AddRateLimited(ks) == delayed' = delayed \cup ks

Init ==
    /\ services = [s \in Svc |-> None]
    /\ configMap = None
    /\ watch = <<>>
    /\ cmChanged = FALSE
    /\ svcIndexer = [s \in Svc |-> None]
    /\ cmIndexer = None
    /\ queue = <<>>
    /\ delayed = {}
    /\ up = FALSE
    /\ ips = New
    /\ config = None
    /\ synced = FALSE
    /\ configStale = FALSE
    /\ budget = [edits |-> 0, crashes |-> 0, failures |-> 0]

-----------------------------------------------------------------------------
(***************************************************************************)
(* Users and the API server.                                               *)
(***************************************************************************)

(* The API server stores object o under s, and tells the watcher.          *)
Store(s, o) ==
    /\ services' = [services EXCEPT ![s] = o]
    /\ watch' = IF up THEN Append(watch, [svc |-> s, object |-> o]) ELSE watch

Edit ==
    /\ budget.edits < MaxEdits
    /\ budget' = [budget EXCEPT !.edits = @ + 1]
    /\ UNCHANGED <<cmIndexer, svcIndexer, queueVars, processVars>>

CreateService(s, spec) ==
    /\ Edit
    /\ services[s] = None
    /\ Store(s, [spec |-> spec, status |-> None])
    /\ UNCHANGED <<configMap, cmChanged>>

(* An edit of the specification leaves the status alone.                   *)
EditService(s, spec) ==
    /\ Edit
    /\ services[s] # None
    /\ services[s].spec # spec
    /\ Store(s, [services[s] EXCEPT !.spec = spec])
    /\ UNCHANGED <<configMap, cmChanged>>

DeleteService(s) ==
    /\ Edit
    /\ services[s] # None
    /\ Store(s, None)
    /\ UNCHANGED <<configMap, cmChanged>>

(* Writing the ConfigMap, or deleting it (c = None).                       *)
EditConfig(c) ==
    /\ Edit
    /\ configMap # c
    /\ configMap' = c
    /\ cmChanged' = up
    /\ UNCHANGED <<services, watch>>

-----------------------------------------------------------------------------
(***************************************************************************)
(* The informers, the queue and the life of the process.                   *)
(***************************************************************************)

(* The watch delivers the oldest change: the informer stores it, then its  *)
(* handler adds the key.                                                   *)
DeliverService ==
    /\ up
    /\ watch # <<>>
    /\ svcIndexer' = [svcIndexer EXCEPT ![Head(watch).svc] = Head(watch).object]
    /\ queue' = Add(queue, svcKey(Head(watch).svc))
    /\ watch' = Tail(watch)
    /\ UNCHANGED <<apiVars, cmChanged, cmIndexer, delayed, processVars, budget>>

(* There is one ConfigMap, and only its last version matters to a handler. *)
DeliverConfig ==
    /\ up
    /\ cmChanged
    /\ cmChanged' = FALSE
    /\ cmIndexer' = configMap
    /\ queue' = Add(queue, cmKey)
    /\ UNCHANGED <<apiVars, watch, svcIndexer, delayed, processVars, budget>>

(* The delay of a key is over.                                             *)
DelayOver(k) ==
    /\ up
    /\ k \in delayed
    /\ delayed' = delayed \ {k}
    /\ queue' = Add(queue, k)
    /\ UNCHANGED <<apiVars, informerVars, processVars, budget>>

(* Run: the informers list what there is, in any order, and when all have  *)
(* their lists the "synced" key follows.                                   *)
Listed == {svcKey(s) : s \in {t \in Svc : services[t] # None}}
          \cup {k \in {cmKey} : configMap # None}

Orders(S) == {f \in [1..Cardinality(S) -> S] : Elements(f) = S}

Start ==
    /\ ~up
    /\ up' = TRUE
    /\ svcIndexer' = services
    /\ cmIndexer' = configMap
    /\ \E keys \in Orders(Listed) : queue' = Append(keys, syncedKey)
    /\ UNCHANGED <<apiVars, watch, cmChanged, delayed, ips, config, synced,
                   configStale, budget>>

(* The process dies, and all its memory with it.                           *)
Crash ==
    /\ up
    /\ budget.crashes < MaxCrashes
    /\ budget' = [budget EXCEPT !.crashes = @ + 1]
    /\ up' = FALSE
    /\ watch' = <<>>
    /\ cmChanged' = FALSE
    /\ svcIndexer' = [s \in Svc |-> None]
    /\ cmIndexer' = None
    /\ queue' = <<>>
    /\ delayed' = {}
    /\ ips' = New
    /\ config' = None
    /\ synced' = FALSE
    /\ configStale' = FALSE
    /\ UNCHANGED apiVars

-----------------------------------------------------------------------------
(***************************************************************************)
(* The controller's handlers.                                              *)
(***************************************************************************)

(* k8salloc: the ports and the keys of a service.                          *)
RequestOf(spec) ==
    [ports |-> spec.ports,
     key   |-> [sharing |-> spec.sharing,
                backend |-> IF spec.Local THEN spec.selector ELSE NoBackend]]

(* What there is after a decision: the allocator, and the service's        *)
(* address if it has one.                                                  *)
clearServiceState(a, s) == [ips |-> Unassign(a, s), lbIP |-> None]

(* The address in the status is taken over if the allocator agrees.        *)
KeepCurrent(a, s, svc) ==
    LET ip == IF svc.status = None THEN None ELSE svc.status.ip
        req == RequestOf(svc.spec)
    IN IF ip = None \/ Refused(a, s, ip, req)
       THEN clearServiceState(a, s)
       ELSE [ips |-> Assign(a, s, ip, req), lbIP |-> ip]

(* An address other than the one the user asks for is given up.  The test  *)
(* compares texts.                                                         *)
HonourRequest_Ignored(x, s, spec) == x

HonourRequest(x, s, spec) ==
    IF spec.LoadBalancerIP # None /\ spec.LoadBalancerIP # String(x.lbIP)
    THEN clearServiceState(x.ips, s)
    ELSE x

(* The addresses allocateIP may return.                                    *)
allocateIP(a, s, spec) ==
    LET req == RequestOf(spec)
    IN IF spec.LoadBalancerIP # None
       THEN {i \in {spec.LoadBalancerIP.ip} \ {None} : ~Refused(a, s, i, req)}
       ELSE IF spec.pool # None
       THEN AllocateFromPool(a, s, spec.pool, req)
       ELSE Allocate(a, s, req)

(* Nothing is allocated before all services have been seen: come back.     *)
NotSynced_GivesUp(a) == [ips |-> a, status |-> None, done |-> TRUE]

NotSynced(a) == [ips |-> a, status |-> None, done |-> FALSE]

(* The last test of convergeBalancer: the address has a pool that the      *)
(* configuration knows.                                                    *)
Outcome(a, s, ip) ==
    IF ip # None /\ poolFor(a.pools, ip) \in DOMAIN config
    THEN [ips |-> a, status |-> String(ip), done |-> TRUE]
    ELSE [ips |-> Unassign(a, s), status |-> None, done |-> TRUE]

(* The possible outcomes of convergeBalancer: the allocator, the status to *)
(* publish, and whether the key is done with.                              *)
convergeBalancer(s, svc) ==
    LET x == HonourRequest(KeepCurrent(ips, s, svc), s, svc.spec)
        found == allocateIP(x.ips, s, svc.spec)
    IN IF ~svc.spec.LoadBalancer
       THEN {[ips |-> Unassign(ips, s), status |-> None, done |-> TRUE]}
       ELSE IF x.lbIP # None THEN {Outcome(x.ips, s, x.lbIP)}
       ELSE IF ~synced THEN {NotSynced(x.ips)}
       ELSE IF found = {} THEN {[ips |-> x.ips, status |-> None, done |-> TRUE]}
       ELSE {Outcome(Assign(x.ips, s, i, RequestOf(svc.spec)), s, i) : i \in found}

(* The API server accepts an update of the version it has; a version that  *)
(* has changed since is one whose change is still on its way here.         *)
Current(s) == services[s] # None /\ \A e \in Elements(watch) : e.svc # s

(* UpdateStatus succeeds, or fails on a version that is no longer current. *)
UpdateStatus(s, status) ==
    /\ IF Current(s)
       THEN /\ Store(s, [services[s] EXCEPT !.status = status])
            /\ UNCHANGED delayed
       ELSE /\ AddRateLimited({svcKey(s)})
            /\ UNCHANGED <<services, watch>>
    /\ UNCHANGED budget

(* UpdateStatus fails for want of an answer, the update applied or not.    *)
UpdateStatusFails(s, status) ==
    /\ budget.failures < MaxFailures
    /\ budget' = [budget EXCEPT !.failures = @ + 1]
    /\ \/ Current(s) /\ Store(s, [services[s] EXCEPT !.status = status])
       \/ UNCHANGED <<services, watch>>
    /\ AddRateLimited({svcKey(s)})

(* The worker takes key k off the queue.                                   *)
Get(k) ==
    /\ up
    /\ ~ips.panicked
    /\ queue # <<>>
    /\ Head(queue) = k
    /\ queue' = Tail(queue)

(* SetBalancer, for a service that is gone.                                *)
SetBalancerDeleted(s) ==
    /\ Get(svcKey(s))
    /\ svcIndexer[s] = None
    /\ ips' = Unassign(ips, s)
    /\ UNCHANGED <<apiVars, informerVars, delayed, up, config, synced,
                   configStale, budget>>

(* SetBalancer, before there is a configuration: the key is dropped.       *)
SetBalancerUnconfigured_Retries(s) ==
    /\ Get(svcKey(s))
    /\ svcIndexer[s] # None
    /\ config = None
    /\ AddRateLimited({svcKey(s)})
    /\ UNCHANGED <<apiVars, informerVars, processVars, budget>>

SetBalancerUnconfigured(s) ==
    /\ Get(svcKey(s))
    /\ svcIndexer[s] # None
    /\ config = None
    /\ UNCHANGED <<apiVars, informerVars, delayed, processVars, budget>>

(* SetBalancer: converge, and publish the status if it differs.            *)
SetBalancer(s) ==
    /\ Get(svcKey(s))
    /\ svcIndexer[s] # None
    /\ config # None
    /\ \E r \in convergeBalancer(s, svcIndexer[s]) :
        /\ ips' = r.ips
        /\ \/ /\ ~r.done
              /\ AddRateLimited({svcKey(s)})
              /\ UNCHANGED <<services, watch, budget>>
           \/ /\ r.done /\ r.status = svcIndexer[s].status
              /\ UNCHANGED <<services, watch, delayed, budget>>
           \/ /\ r.done /\ r.status # svcIndexer[s].status
              /\ UpdateStatus(s, r.status) \/ UpdateStatusFails(s, r.status)
    /\ UNCHANGED <<configMap, cmChanged, svcIndexer, cmIndexer, up, config,
                   synced, configStale>>

(* SetConfig without a ConfigMap: the key is tried again and again.        *)
SetConfigMissing ==
    /\ Get(cmKey)
    /\ cmIndexer = None
    /\ configStale' = TRUE
    /\ AddRateLimited({cmKey})
    /\ UNCHANGED <<apiVars, informerVars, up, ips, config, synced, budget>>

(* A configuration that does not parse, or that SetPools refuses because a *)
(* service would lose its address: the old one stays, marked stale.        *)
SetConfigRefused_KeepsNew ==
    /\ Get(cmKey)
    /\ cmIndexer \in Pools /\ PoolsRefused(ips, cmIndexer)
    /\ configStale' = TRUE
    /\ config' = cmIndexer
    /\ UNCHANGED <<apiVars, informerVars, delayed, up, ips, synced, budget>>

SetConfigRefused ==
    /\ Get(cmKey)
    /\ \/ cmIndexer = Invalid
       \/ cmIndexer \in Pools /\ PoolsRefused(ips, cmIndexer)
    /\ configStale' = TRUE
    /\ UNCHANGED <<apiVars, informerVars, delayed, up, ips, config, synced, budget>>

(* A configuration is accepted, and every service is looked at again.      *)
SetConfig_ForgetsServices ==
    /\ Get(cmKey)
    /\ cmIndexer \in Pools
    /\ ~PoolsRefused(ips, cmIndexer)
    /\ ips' = SetPools(ips, cmIndexer)
    /\ config' = cmIndexer
    /\ configStale' = FALSE
    /\ UNCHANGED <<apiVars, informerVars, delayed, up, synced, budget>>

SetConfig ==
    /\ Get(cmKey)
    /\ cmIndexer \in Pools
    /\ ~PoolsRefused(ips, cmIndexer)
    /\ ips' = SetPools(ips, cmIndexer)
    /\ config' = cmIndexer
    /\ configStale' = FALSE
    /\ AddRateLimited({svcKey(s) : s \in {t \in Svc : svcIndexer[t] # None}})
    /\ UNCHANGED <<apiVars, informerVars, up, synced, budget>>

MarkSynced ==
    /\ Get(syncedKey)
    /\ synced' = TRUE
    /\ UNCHANGED <<apiVars, informerVars, delayed, up, ips, config, configStale,
                   budget>>

-----------------------------------------------------------------------------
Worker ==
    \/ \E s \in Svc : \/ SetBalancerDeleted(s)
                      \/ SetBalancerUnconfigured(s)
                      \/ SetBalancer(s)
    \/ SetConfigMissing
    \/ SetConfigRefused
    \/ SetConfig
    \/ MarkSynced

Users ==
    \/ \E s \in Svc, spec \in Specs : \/ CreateService(s, spec)
                                      \/ EditService(s, spec)
    \/ \E s \in Svc : DeleteService(s)
    \/ \E c \in Pools \cup {Invalid, None} : EditConfig(c)

Next ==
    \/ Users
    \/ DeliverService
    \/ DeliverConfig
    \/ \E k \in QueueKey : DelayOver(k)
    \/ Start
    \/ Crash
    \/ Worker

Spec == Init /\ [][Next]_vars

(* The worker loops for ever, informers and timers are goroutines that are *)
(* never blocked, and Kubernetes restarts the process.  Users, crashes and *)
(* failing requests are not owed.  The code gives each key's timer a life  *)
(* of its own; that some timer goes off is all that is needed.  A step     *)
(* that takes a key off the queue is a step of the worker, or the end of   *)
(* the process.                                                            *)
Fairness ==
    /\ WF_vars(Start)
    /\ WF_queue(up' = TRUE /\ \E k \in QueueKey : Get(k))
    /\ WF_vars(DeliverService \/ DeliverConfig)
    /\ WF_vars(\E k \in QueueKey : DelayOver(k))

FairSpec == Spec /\ Fairness

-----------------------------------------------------------------------------
(***************************************************************************)
(* Properties.                                                             *)
(***************************************************************************)

(* A key the controller still has to handle.                               *)
Pending(k) == k \in delayed \cup Elements(queue)

(* Nothing about service s is on its way to the controller.                *)
Settled(s) == ~Pending(svcKey(s)) /\ \A e \in Elements(watch) : e.svc # s

(* Nothing is left to do.                                                  *)
Quiet == up /\ watch = <<>> /\ ~cmChanged /\ queue = <<>> /\ delayed = {}

(* The configuration the handlers consult and the pools of the allocator   *)
(* never part, whichever configurations are refused on the way: the two    *)
(* branches convergeBalancer logs as bugs are dead.  And the gauge is      *)
(* honest about them: unless the ConfigMap is about to be looked at, it    *)
(* says "stale" exactly when the configuration in force is not the         *)
(* ConfigMap's.                                                            *)
ConfigInForce ==
    /\ ips.pools = IF config = None THEN NoPools ELSE config
    /\ up /\ ~Pending(cmKey) => (configStale <=> config # cmIndexer)

(* The address of a service as published and as recorded by the allocator  *)
(* agree once the service has settled, whatever happened before: lost      *)
(* answers, stale caches, conflicting updates, restarts.  In particular    *)
(* nothing is held for services that are gone or no longer of type         *)
(* LoadBalancer.                                                           *)
PublishedIsAllocated ==
    up /\ config # None =>
        \A s \in Svc : Settled(s) =>
            IF services[s] = None \/ ~services[s].spec.LoadBalancer
            THEN ips.allocated[s] = None
            ELSE services[s].status =
                   IF ips.allocated[s] = None THEN None
                   ELSE String(ips.allocated[s].ip)

(* A settled service that asks for an address has that one or none, and    *)
(* what it holds is held for the ports and keys of its present             *)
(* specification.                                                          *)
RequestHonoured ==
    up /\ config # None =>
        \A s \in Svc : Settled(s) /\ ips.allocated[s] # None =>
            LET spec == services[s].spec
                al == ips.allocated[s]
            IN /\ [ports |-> al.ports, key |-> al.key] = RequestOf(spec)
               /\ spec.LoadBalancerIP # None => spec.LoadBalancerIP.ip = al.ip

(* Two specifications that the allocator puts on one address.              *)
MayShare(x, y) ==
    LET rx == RequestOf(x)
        ry == RequestOf(y)
    IN sharingOK(rx.key, ry.key) /\ rx.ports \cap ry.ports = {}

SameAddress(s, t) ==
    /\ s # t
    /\ services[s] # None /\ services[t] # None
    /\ services[s].status # None
    /\ services[s].status = services[t].status

(* No two services have the same address published unless they agree to    *)
(* share it: "By default, Services do not share IP addresses."             *)
PublishedExclusive ==
    \A s, t \in Svc :
        SameAddress(s, t) => MayShare(services[s].spec, services[t].spec)

(* Whatever overlap there was, when the controller has nothing left to do  *)
(* (and has a configuration) it has been resolved.                         *)
QuietExclusive == Quiet /\ config # None => PublishedExclusive

(* When users leave the cluster alone, with a ConfigMap in it, the         *)
(* controller runs out of work: no two services take an address from each  *)
(* other for ever, no retry repeats itself for ever.                       *)
Converges == <>[](configMap # None) => <>[]Quiet

(* A service that stays and asks for no address in particular, in a        *)
(* cluster whose ConfigMap stays good and has an address for each service, *)
(* ends up with one and keeps it.  (The fix the release notes report: "a   *)
(* startup race condition where MetalLB might never allocate an IP for     *)
(* some services".)                                                        *)
Roomy(pools) ==
    /\ \A n \in DOMAIN pools : pools[n].AutoAssign
    /\ Cardinality(UNION {Addrs(pools[n]) : n \in DOMAIN pools}) >= Cardinality(Svc)

Undemanding(spec) ==
    spec.LoadBalancer /\ spec.LoadBalancerIP = None /\ spec.pool = None

Served ==
    \A s \in Svc :
        <>[](/\ configMap \in {pools \in Pools : Roomy(pools)}
             /\ services[s] # None
             /\ Undemanding(services[s].spec))
            => <>[](services[s] # None /\ services[s].status # None)
=============================================================================
