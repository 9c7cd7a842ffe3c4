# A verification of the BFE ingress controller

This directory models the controller under `src/internal` in TLA+, checks the
models with TLC and proves theorems about them with TLAPS.

## The system

The controller watches Ingress, Service, Endpoints and Secret objects of a
Kubernetes cluster, keeps a configuration for the BFE proxy in memory, and every
three seconds writes it to disk and asks BFE to load it.

| Component | State | Operations |
|---|---|---|
| route rule cache (`configs/routeRuleCache.go`) | `ruleMap`: host, path -> list of rules; `ingress2Rule`: the rules of each Ingress | `put` (with overwriting), `delete`, `get` (splits and sorts) |
| server data (`configs/serverDataConfig.go`) | the cache; host table, route table, cluster configuration | `UpdateIngress`, `DeleteIngress`, `Reload` |
| clusters (`configs/clusterConfig.go`) | `clusterTableConf`, `gslbConf`; indexes `ingress2Cluster`, `service2Cluster` | `UpdateIngress`, `DeleteIngress`, `UpdateService`, `DeleteService`, `Reload` |
| TLS (`configs/TLSConfig.go`) | `ingress2secret`, `certs`, `serverCertConf`; files on disk | `UpdateIngress`, `DeleteIngress`, `UpdateSecret`, `DeleteSecret`, `Reload` |
| `ConfigBuilder` (`configBuilder.go`) | the three above behind one mutex | the same operations, with roll-back over the three; `reload` on a timer |
| reconcilers (`controllers/ingress`) | none of their own; a work queue each, in controller-runtime | read an object and what it refers to, update the builder, withdraw what it refused, write the status annotation |
| start-up (`controllers/start.go`, `cmd`) | the BFE child process | start everything; end when BFE ends |
| annotations, names, options, filters | none | parsing, naming, predicates |

**Interaction.** The Ingress, Service and Secret reconcilers run concurrently,
one worker each. They read from the informer cache without the mutex and then call
the builder, which is atomic. The reload timer takes the same mutex. A refusal
travels back as an error: the reconciler withdraws the Ingress under a second
lock, writes the status and returns the error, upon which controller-runtime
queues the name again. The Service and Secret reconcilers drop errors. A panic
of a reconciler ends the process.

**What is hard.** Several Ingresses compete for a host, path and condition, and the
winner depends on creation times, on the order of synchronisation and on what was
overwritten before. Indexes must lead to whatever a deletion has to remove
although overwriting, lost ports and edits leave them out of step with the tables.
Updates fail half-way, within a component and between components. Events about
different kinds of objects meet in any order. Reloads fail between two files. A
crash rebuilds everything from a list in an arbitrary order. PROJECT.json lists
each of these hazards at its line, with the properties aimed at it.

What makes each component correct: *cache* - everything installed is found again,
one rule per slot, only accepted Ingresses, no elder displaced; *server data* -
the generated files are always valid, name the same clusters, and route whatever
is cached; *clusters* - indexes lead to every cluster, weights only for
sub-clusters that exist, addresses follow the Services except where an older copy
overtakes an event; *TLS* - certificates live exactly as long as an Ingress uses
them and follow their Secrets with the same exception, no key stays on disk but by a
failed removal or a restart, a difference to what BFE serves is never overlooked;
*builder* - an Ingress is configured in all components or in none; *reload* - BFE gets whole components in order, and everything
that the builder holds arrives unless BFE refuses it; *Ingress reconciler* - no Ingress
is lost sight of, and each user is told in the end what became of theirs.

## The modules

| Module | Contents |
|---|---|
| `ServerDataConfig` | route rule cache and server data, with the Ingress reconciler around them |
| `CacheWalk` | the same, with the cache update taken apart into the calls of `put`; implements `ServerDataConfig` |
| `SlotOwnership` | what the rule cache promises to Ingresses that compete for slots; `ServerDataConfig` implements it |
| `RouteOrder` | the sort of `get` and the conditions of the advanced rules, over the states of `ServerDataConfig` |
| `ClusterConfig` | clusters, with the Ingress and Service reconcilers, panics and restarts |
| `TLSConfig` | certificates and their files, with the Ingress and Secret reconcilers, the reload and restarts |
| `ConfigBuilder` | instances of these three, the roll-back, all three reconcilers with reads outside the mutex |
| `Reload` | the timer, the files and versions of the three components, BFE over HTTP, crashes |
| `Publication` | what the reload promises, without files, versions and requests; `Reload` implements it |
| `IngressReconciler` | informer, the three API versions with their conversions, panics, status annotation |
| `...Proofs` | theorems about the module they are named after |
| `MC...` | the instances for TLC |

In the component modules, a Go method is an operator from a configuration record
to a configuration record (with an error where the method returns one), and an
action is a whole reconciliation: `SyncAbsent` is a `Reconcile` that finds no
object, `SyncAccepted` one whose update returns nil, `SyncRefused` one whose update
fails, including the `DeleteIngress` and the requeue that follow. The two components
that copy data out of other objects have the reading, which is done before the
mutex, as steps of their own: `ReadIngress` takes the name and reads the object with
what it refers to, `ReadService` and `ReadSecret` let one of these be read later than
the others, and `SyncAccepted` and `SyncRefused` apply what `working` holds. In
`TLSConfig` the withdrawal is a step of its own as well (`Withdraw`, the second lock), for a
refused update may have installed certificates that it takes away. `ConfigBuilder`
has all of this over the three components: `ReadIngress` (before the mutex),
`ApplyAccepted` or `ApplyRefused` (first lock), `Withdraw` (second lock), and lets the
other reconcilers step in between. `CacheWalk` takes the update of the cache apart: `Begin`, then
`Insert`, `Overwrite` or `Yield` for each path, then `Publish` or `GiveUp`. `Reload` takes the round of the timer apart: `Tick`
(the mutex), then `Check`, `Dump` and the answer of BFE for each component, each of
which may be where the process ends. `IngressReconciler` takes the reconciler apart
at its other end: `Deliver` (the cache follows the API server), `Apply`, and then
what `setStatus` does. Operators named `Bug...` are mutants, used only to see
that a property notices the bug.

**Abstractions.**
- Hosts, paths, conditions, addresses and certificates are abstract values. A
  location is `[host, path, prefix]`: the code appends `*` to a path that is not
  exact, and `checkPath` refuses paths that contain one, so the two agree. An
  empty host becomes `AnyHost`. Sets of illegal values stand for what `checkHost`,
  `checkPath`, `GetRouteExpression` and the condition parser of BFE refuse. Only
  `RouteOrder` gives hosts and paths texts, sequences of symbols, because length,
  a leading `*.` and what a pattern matches decide there.
- `ruleMap` is the set of its rules. The lists per host and path only matter through
  their first rule, and the scan of `put` meets at most one rule in a slot
  (`OneRulePerSlot`, which is proved).
- `ServerDataConfig` gives `updateCache` in closed form: the paths before the first refused
  one are processed, and of those the ones inserted are the first of the object in their
  slot, if the slot was empty or held by a younger rule. `CacheWalk` has the loop, with
  `put` meeting any rule of the slot, and is proved to implement the closed form. There
  users wait while an update walks; their steps do not touch the cache, and the
  race between reading an object and applying it is in `ConfigBuilder`.
- A cluster name is the tuple of what it is formatted from. Go maps are total
  functions with `Nil` for a missing key. Weights are numbers; ports and targets
  are reduced to what `getTargetPort` can find.
- A Service without Endpoints counts as missing, because all reconcilers treat
  the two alike.
- Two history variables are read by no step and serve the properties only. `overtaken` has
  what was written from a copy that differed from the object when it was applied, with no
  event left to tell: clusters with a Service of theirs in `ClusterConfig`, Secrets in
  `TLSConfig`. `left` has the Secrets whose files stayed on disk without a certificate in
  memory: a removal failed, or a process ended.
- The Service and Secret reconcilers read and update in one step. What changes between
  their reading and the update is queued again by that change, so the older data is
  replaced; the Ingress reconciler has no such event, as it is not its own object that
  changed.
- The certificate file and the key file of a Secret are one entry of `files`: removed
  together, or kept together where the removal fails. BFE does not start from a
  `server_cert_conf.data` that names files which are gone (`Restart` in `TLSConfig`); where
  that is the case on the old disk, the new process gets the configuration of the image.
- The verdict of BFE's `ClusterTableConfCheck` on the whole table is left open.
- Reads come from the informer's cache and fail for missing objects only.
- Versions are nanosecond time stamps: `Reload` takes them from a clock that never
  gives the same one twice, and a version stands for the content it was given to.
  `TLSConfig` keeps contents, and of the versions whether they differ (`changed`).
- A write that fails in `Reload` leaves the file as it was or `Torn`, and the files
  after it unwritten.
- In `IngressReconciler` the errors that `ReconcileV1Ingress` finds are given, and change
  without an event for the Ingress: the other modules are about how they come about.
  One of several errors is reported, any one, because the Services of a balance
  annotation are walked in the order of a Go map.
- Objects of another class are modelled in `ConfigBuilder` (`SkipForeign`) and
  `IngressReconciler` (`Skip`); in the component modules all objects belong to the
  controller.

## The runs

| Run | Instance | Shows |
|---|---|---|
| `server_data` | 2 Ingresses, 8 manifests, 2 seconds | in all orders of creation, edit, deletion and synchronisation, with every reason for a refusal: indexes, slots, files, the order of the advanced rules, and `SlotOwnership` implemented: who gets a slot and who may displace whom |
| `cache_walk` | 2 Ingresses, 4 manifests, fair | the loop over `put` implements the single step; `LoserTakesOver`, `DeletedForgotten` |
| `cluster_config` | 2 Ingresses, 2 Services (one also the default backend), 2 ports; at most 2 names due, more after a restart | indexes, weights, ownership, addresses, with Services that change after they were read, lost ports, refusals, panics and restarts |
| `tls_config` | 2 Ingresses, 2 Secrets, failing reloads and removals, restarts; at most 2 names due, more after a restart | certificates, key files and what BFE serves, with Secrets that change after they were read |
| `config_builder` | 2 Ingresses, 1 Service, 1 Secret, 2 seconds | roll-back, withdrawal, restart; at most two reconciliations due at a time |
| `reload` | 2 changes after the first configuration, 1 crash, BFE refuses one of them | nothing overlooked, BFE called on whole files only, `Publication` implemented; routes arrive, everything arrives that BFE takes, the mutex is released |
| `ingress_reconciler` | 2 Ingresses, 7 manifests, 2 errors, 3 changes, each of the three APIs | no Ingress lost sight of, none kept; every user told in the end |
| `conflict_reported`, `refused_not_routed` | 2 Ingresses, 2 manifests | statements of the documentation that do not hold |
| `wildcard_served` | 2 Ingresses, advanced rules only | the same, for a test |
| `cluster_crash`, `cluster_weights` | 1 Ingress, 2 Services | the same, for clusters |

**Bounds and why they are enough.** In `server_data` conflicts are between an Ingress and
the holder of a slot, so two Ingresses in two seconds give each order, equality included;
what a third one could add (a trace that overwriting leaves in the loser's index) is
covered by the theorems, which hold for any number. Two slots let an object be refused
after its first path was put in, and the advanced manifests overlap in host, path and
condition. In `cache_walk` each end of the walk is met: no rules, an error at the second path, a
table that cannot be generated, and all of a slot's holders, elder, younger and of the same
second. In `cluster_config` two Services are needed for a split, and one of them is the
default backend since that is the exception in the code; the two manifests share a Service
in different ports, so an edit leaves an old cluster behind. `SteadyDefault` lets the
default backend come at any time, complete, and stay: it lacks no port, because nothing
asks it for one, and what a Service does when it changes or goes the other one shows.
`FewPending` counts queued names and the one in work, and allows two: an Ingress whose
data was read and the event that overtakes it. After a restart any number may be queued.
`tls_config` has the same bound. `FewContents` gives one Secret two good contents, for
an old copy to differ from a new one, and the other a good one and a bad one, for an update that stops
half-way; both come at any time and stay, as a Secret that is gone only makes the
reconciler refuse what a bad one makes it refuse, and its event is dropped. `FewEdits` has no Ingress
edited while one is worked on: such an edit only queues a name, and may as well come right after.
The theorems about the two modules need none of these bounds. In `config_builder` the constraint `FewPending` bounds how many reconciliations are
due: a race needs two. It cuts most restarts that find three objects or more; what they do
is covered by the theorems `AcceptedIsComplete` and `WholeOrNothing`. `AllOrNothing` and
`RoutesHaveClusters` speak of the cache of rules; the route table that was generated from it
can lag behind it, see `refused_not_routed`. `PairsWanted` leaves out pairs of Ingresses that cannot interact
differently: both created in a second that is not the last, or both without a path. In
`reload` a lost answer matters when a change follows it, and an old file when a process
has restarted beside it: two changes and one crash let each meet the other, at every point
of a round. `MaxChanges` in `ingress_reconciler` counts what users and environment do: an
object that appears, an error that comes, and one thing more during the report of it. The
reconcilers, the cache and the process are not bounded. `MaxTime` bounds the clock that
stamps objects.

`RouteOrder` has no steps of its own; its two invariants are checked on the states of
`server_data`, and its alphabet is as large as a wildcard host needs to match one host with
and one without the dot.

**Fairness.**
- `cache_walk` assumes that the worker finishes what it has begun (weak fairness of
  `Advance(i)`) and that the queue is first in, first out (strong fairness of `Take(i)`: every
  return of another name may take the worker first). A name whose reconciliation failed
  is queued again with a growing but bounded delay.
- `reload` assumes that the goroutine of the timer runs (weak fairness of `Tick`, `Check`
  and the dump), that BFE answers each request (of `Answer`: nothing in the code bounds
  the wait, `http.Get` has no timeout there), and that a write or a load that is tried
  again and again succeeds in the end (strong fairness of `Dump` and `Loaded`; the load is
  only possible when BFE does not refuse the content). `RoutesArrive` and `LockReleased` need no
  more; `AllArrives` says of the refused content that it is not what the builder settles
  on, since then it does keep the certificates from BFE.
- `ingress_reconciler` assumes that watches deliver (weak fairness of `Deliver`), that the
  queue is first in, first out (strong fairness of `Take(i)`: every return of another name may
  take the worker first), that a patch tried again and again succeeds (strong fairness of
  `Tell`), that the informer resyncs (controller-runtime: every ten hours), and that the
  process is restarted. Without the resync `ToldInTheEnd` would not hold: a patch that fails
  after a success is only logged, and IngressClasses are not watched.

Nothing is assumed of users or of the clock.

**An assumption to know of.** Some objects take the process down whenever they are
synchronised (`Poison`): a rule with a host only (its `HTTP` is nil) under netv1 and
extv1beta1, a backend that is a resource under netv1, a path without type under the older
APIs, and under these also an object without any annotation as soon as its status is due.
The new process meets them again. The repository promises nothing about such objects, so
this is no finding; `ToldInTheEnd` is stated for the case that they are gone in the end.

**What the violations say.**
1. *Conflict not reported.* An Ingress that is overwritten by an elder one, synchronised
   later, keeps the status "success" and is not served. When the elder leaves, nothing
   synchronises the loser until the informer's resync, and a younger Ingress may take the
   slot. The run has no two Ingresses of the same second (`NoTwins`): of two such the one
   that is synchronised later is told "success" at once.
2. *Wildcard host.* With a route annotation the condition of a rule for `*.foo.com` is built
   from the regular expression `^[^.]+foo\.com`, in which the dot after the first label is
   missing: `bar.foo.com` does not meet it, `barfoo.com` does.
3. *Refused but routed.* After an edit that is refused, the route table is not generated
   again. The clusters of the Ingress are withdrawn, its routes stay.
4. *Crash.* `UpdateService` removes a Service that lost a port from the table but not
   from `service2Cluster`, and an edit of the balance annotation can do the same to a
   Service that leaves a split; deletion of the Ingress then misses that entry, and the next
   event of the Service writes to a nil map. `StaysUp`, below, says that nothing else
   leads there.
5. *Weights lost.* Any event of a Service resets the split of its clusters.

## The proofs

All theorems hold for any values of the constants that satisfy the assumption named in
the module; TLC evaluates these assumptions in the runs.

`ServerDataConfigProofs`: `TypeOK`; `RulesIndexed`, `OneRulePerSlot`; `OnlyAcceptedInCache`;
`AlwaysPublishable`, `FilesAgree`, `CachedRulesRouted`; two action properties that no run checks by
themselves, `SeniorityRespected` (who may take a rule away) and `AcceptedSlots` (what an
accepted object finds); and `AllocationRefined`, `Spec => SlotsAllocated`. The inductive invariant `IInv` adds what they need.
`RulesIndexed` alone does not survive a deletion unless rules and index are typed, and
`OneRulePerSlot` is needed to know that overwriting replaces one rule. For the files,
"the files agree" is not inductive, because a refused update changes the cache and not
the files: `FilesFrom` says that some set of rules, a superset of the cache, generated
both files. `UpdateCacheSlots` needs the first of several paths in a slot, obtained from
the well-foundedness of the natural numbers. The refinement maps a rule to its slot, its
Ingress and its age. A `SyncAccepted` is a `Grant` (or an `Ignore`, for an object without
rules); a `SyncRefused` or `SyncAbsent` is a `Withdraw`, in which the younger rules that were
overwritten before the failing path are gone as well: `Withdraw` says that they do not
come back.

`CacheWalkProofs`: `WalkImplements`, the walk is the single step of `ServerDataConfig`, so that
every theorem about that module holds of the loop (`WalkAllocates` draws one such conclusion).
The invariant `WalkInv` says what the draft is after n paths: the cleared cache, less the
rules of the slots that the first n paths claim, with the rules of these claims.
`PutWalks` goes through the ways `put` can end. It needs that a slot has one rule during the
walk too, so that it does not matter which one `put` meets; that a path without a claim
always meets a rule of its own age, one of the object or of a twin; and that `put`'s
removal of the overwritten rule from the index of the new rule's Ingress never finds it
there (`WalkedIndex`).

`RouteOrderProofs`: the comparison of `get` is a strict weak order for any hosts and
paths, so the result of the sort is determined up to ties; and `DocumentedOrder` for any
hosts of more than one character, from the types of the rules in `ServerDataConfig`. The
case that takes thought is two prefixes that match the same path: the strict prefix is
the shorter one. `TiesLocal` proves `TiesAreLocal`, again for hosts of more than one character: rules that the sort leaves in any order belong to one
location. Two texts of one length that match the same path, or the same host, are equal;
beyond that it needs what `RouteOrderAssumption` says, that different hosts and paths have
different texts, and it leaves two different wildcard hosts of equal length out: their
conditions are anchored at the left only, so one request can meet both.

`ClusterConfigProofs`: `TypeOK`, `ServicesIndexed`, `WeightsBacked`, `ClustersOwned`,
`DefaultGoesLast` and `AddressesCurrent`, with or without a default backend. Each method
gets a lemma saying that it keeps `ConfInv` of one configuration record and what it does
to `ingress2Cluster`; the machine then adds `AcceptedOnly`, that only an Ingress marked
successful lists clusters. Besides the properties themselves the invariant needs
`OwnNames`, that an Ingress lists clusters of its own name only: without it a deletion
could take the clusters of another Ingress. `DefaultOwned` must say, too, that there is a
default cluster only if a default backend is configured, because the code removes it only
then. That an update builds complete clusters rests on `ReadyGiven`: the Services that
`getIngressBackends` was content with are the copies that the update reads, however old.
`AddressesCurrent` speaks of a controller with nothing due; its invariant `Fresh` says of every
state that a sub-cluster has the addresses of its Service unless it is `Stale`, that is an
event of the Service is queued or the copy was overtaken, and of an update that stopped at
a lost port that the Service then has no sub-cluster at all (here `ServicesIndexed` is
needed). An update (`UpdateIngressFresh`) may be given any copies: those that differ from
the Services, with no event queued, are what `overtaken` gains.
`StaysUp` is about the violation `cluster_crash`: where no Service loses a port that a
backend uses (`PortsKept`) and no edit of an Ingress varies the Services of a split
(`SplitsKept`), no Service event panics. Under these two conditions the index leads to
exactly the sub-clusters of the table (`Exact`), which a deletion then clears. They are
conditions on what users do, not claims about them; with either one dropped TLC
finds the panic.

`TLSConfigProofs`: all six properties of the run. The invariant ties index and
certificates together (what has a certificate is used, what an accepted Ingress uses has
one, but for the Ingress between its refusal and its withdrawal, `Withdrawn`), says that a
certificate differs from its Secret only while an event of the Secret is due or the copy
it was taken from was overtaken (`Fresh`), that a file without a certificate was left by a
removal or a restart, and that files and BFE differ from memory only while `changed`.
`UpdateSound` and `DeletionSound` say this of the two operations, `ConfiguredHolds` of the
step that a synchronisation takes with their result; `CertsCurrent` needs that what the
reconciler has read is compared with the Secret at the moment it is applied, since the
other reconciler may have handled the event in between.

`ReloadProofs`: the four invariants, and `Refinement`, `Spec => DeliversInOrder`. The
invariant is `RecordedServed`: a version that is recorded and current is on disk and in use.
It survives a change only because no recorded version lies ahead of the clock
(`FromClock`), and a restart because nothing is recorded then. `EarlierCurrent` says that in
a round the components whose turn is over are up to date; it holds since the mutex keeps
reconcilers out of the round, and it is what allows a `Loaded` to be a `Deliver`.

`IngressReconcilerProofs`: `TypeOK`, `NeverLost` and `GoneForgotten`. The invariant says for
each name that is neither queued nor in work that what the informer last said of it has
been acted on (`Settled`), and of the worker that its copy is the informer's unless its name
is queued again (`WorkSound`).

`ConfigBuilderProofs`: `TypeOK`, `AllOrNothing`, `RoutesHaveClusters`, `AcceptedComplete`. Here the
three components are instances, and theorems of their modules cannot be cited about
instances; what the argument needs is therefore stated again, and is less: where the
rules, clusters and certificates of one Ingress are found (`ServerInv`, `ClusterInv`,
`TlsInv`, which also type the three), and what an operation on another one leaves alone (`Kept`). `ConfInv` adds that
each rule forwards to a cluster that its Ingress lists. `UpdateIngressInv` goes through the
four ways in which the builder's `UpdateIngress` can end. The machine then needs `UpToDate`:
the reconciler works on the current object or has a further event to come, and a process
that is down left no status. Between the two locks of a refusal `ConfInv` holds although
the Ingress is half withdrawn; this is why no rule dangles there.

**Model-checked only.** The liveness properties: `LoserTakesOver`, `DeletedForgotten`,
`RoutesArrive`, `AllArrives`, `LockReleased` and `ToldInTheEnd`; liveness under fairness is out of
the prover's reach. Every invariant and every other action property of a passing run
is proved.

## Not modelled

- *Options and flags, the namespace filter*: read once or applied to each event by itself.
  Those that matter are constants (`DefaultBackend`), or decide which objects the models
  contain.
- *`ConfigBuilder.DeleteService` and `DeleteSecret`*: no reconciler calls them. The
  `DeleteService` of the clusters is modelled where `UpdateService` calls it.
- *The field-by-field copies of the older reconcilers*: what `convert` does with each form of
  a rule is modelled, the copying of names and numbers is not.
- *BFE itself*: what it does with a basic rule (its rule tree), its check of the cluster
  table, and its exit, which ends the controller like a crash.
- *Parsing of annotations and flags, logging, events*: nobody reads the events that the
  reconcilers record.
- *The order of ties after a restart*: `TiesLocal` shows that only rules of one location
  tie (or of two wildcard hosts), and the order in which a list presents them to the new process is not modelled.
- *Older versions of an object that the informer skips*: `Deliver` hands over the latest.
- *Addresses and certificates while a copy of them is overtaken*: `ClusterConfig` and `TLSConfig`
  have the race, in which the older copy stays until the next event of the object, and
  their properties say that nothing else goes out of date. Nothing in the repository
  promises that the race does not happen, so no violation is listed.
- *The total of the weights of a cluster*, which BFE demands to be above 0: `DeleteService` can
  leave a cluster with Services of weight 0 only, and BFE then refuses the cluster
  configuration. `Reload` knows a refusal only as the premise of what arrives.
- *A removed certificate that BFE is told of when it starts*: see the abstractions; the models
  have no process that fails to start again and again.
- *Statements about ENABLED and liveness* are not proved, see above.
- The e2e tests, charts, and documentation, except where they state what the code does.
