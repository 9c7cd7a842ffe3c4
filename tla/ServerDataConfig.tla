-------------------------- MODULE ServerDataConfig --------------------------
(***************************************************************************)
(* The route rules of the BFE ingress controller: the rule cache of        *)
(* configs/routeRuleCache.go, and the server data configuration that       *)
(* configs/serverDataConfig.go derives from it (the route table and the    *)
(* cluster configuration that BFE loads together).                         *)
(*                                                                         *)
(* The component is a Go struct behind the mutex of the ConfigBuilder, so  *)
(* each of its methods is an operator from a configuration record to a     *)
(* configuration record, and a step of the machine below is one whole      *)
(* synchronisation of an Ingress: the object is read, the configuration    *)
(* updated, and withdrawn again when the update was refused.               *)
(***************************************************************************)
EXTENDS Integers, Sequences, FiniteSets

CONSTANTS
    Ingress,             \* namespaced names of Ingress objects
    Host,                \* values of rule.host, NoHost (the empty string) included
    NoHost,              \* rule.host left empty
    AnyHost,             \* the host "*" that the controller writes for NoHost
    IllegalHost,         \* the hosts that checkHost refuses
    Path,                \* values of path.path
    IllegalPath,         \* the paths that checkPath refuses
    UnparsablePath,      \* paths that break the syntax of a condition (a quote)
    Condition,           \* route conditions an Ingress can carry in annotations
    Basic,               \* no route condition at all: annotations.PriorityBasic
    IllegalCondition,    \* conditions GetRouteExpression refuses
    Backend,             \* service and port an HTTP path forwards to
    DefaultBackend,      \* TRUE iff the --default-backend option is set
    DefaultCluster,      \* util.DefaultClusterName()
    AdvancedMode,        \* route_rule_conf.AdvancedMode: "see the advanced rules"
    Manifest,            \* what users write: [paths, cond] of an Ingress object
    NoObject,            \* the API server holds no such object
    MaxTime              \* bound on the clock that stamps new objects

-----------------------------------------------------------------------------
(* Data *)

PathType == {"Exact", "Prefix", "ImplementationSpecific"}

HttpPath == [host: Host, path: Path, type: PathType, backend: Backend]

\* Where a rule applies once addRule has normalised host and path.
Location == [host: (Host \ {NoHost}) \cup {AnyHost}, path: Path, prefix: BOOLEAN]

\* A cluster is named after the Ingress and the backend it serves.
Cluster == Ingress \X Backend

Time == 0 .. MaxTime

Rule == [ingress: Ingress, location: Location, cond: Condition,
         cluster: Cluster, created: Time]

ASSUME ServerDataAssumption ==
    /\ NoHost \in Host
    /\ Basic \in Condition \ IllegalCondition
    /\ DefaultBackend \in BOOLEAN
    /\ DefaultCluster \notin Cluster
    /\ AdvancedMode \notin Cluster \cup {DefaultCluster}
    /\ \A m \in Manifest : /\ m.cond \in Condition
                           /\ m.paths \in Seq(HttpPath)
    /\ MaxTime \in Nat
    /\ NoObject \notin [created: Time, cond: Condition, paths: Seq(HttpPath)]

-----------------------------------------------------------------------------
(* The rule cache.  ruleMap is the set of installed rules; ingress2Rule is *)
(* the index through which the rules of an Ingress are found again.        *)

NewRouteRuleCache ==
    [ruleMap |-> {}, ingress2Rule |-> [i \in Ingress |-> {}]]

ContainsIngress(cache, i) == cache.ingress2Rule[i] # {}

\* Deletion follows the index: it visits the locations of the indexed rules
\* and drops there whatever carries the name of the Ingress.
DeleteHttpRulesByIngress(cache, i) ==
    [ruleMap |-> {r \in cache.ruleMap :
                    ~ /\ r.ingress = i
                      /\ \E d \in cache.ingress2Rule[i] : d.location = r.location},
     ingress2Rule |-> [cache.ingress2Rule EXCEPT ![i] = {}]]

CheckHost(h) == h \notin IllegalHost
CheckPath(p) == p \notin IllegalPath

\* Mutant of RuleOf: an empty host is not normalised.
BugKeepsEmptyHost(i, obj, k) ==
    LET p == obj.paths[k]
    IN  [ingress  |-> i,
         location |-> [host |-> p.host, path |-> p.path, prefix |-> p.type # "Exact"],
         cond     |-> obj.cond,
         cluster  |-> <<i, p.backend>>,
         created  |-> obj.created]

\* The rule that addRule builds for the k-th path of an object.
RuleOf(i, obj, k) ==
    LET p == obj.paths[k]
    IN  [ingress  |-> i,
         location |-> [host   |-> IF p.host = NoHost THEN AnyHost ELSE p.host,
                       path   |-> p.path,
                       prefix |-> p.type # "Exact"],
         cond     |-> obj.cond,
         cluster  |-> <<i, p.backend>>,
         created  |-> obj.created]

SameSlot(r, q) == r.location = q.location /\ r.cond = q.cond

Rivals(ruleMap, r) == {q \in ruleMap : SameSlot(q, r)}

\* Mutant of Refused: put lets a younger rule pass in silence.
BugNoConflict(rules, i, obj, k) ==
    \/ ~CheckHost(obj.paths[k].host)
    \/ ~CheckPath(obj.paths[k].path)

\* put refuses a rule when a rule of an elder Ingress is in its slot.
Refused(ruleMap, i, obj, k) ==
    \/ ~CheckHost(obj.paths[k].host)
    \/ ~CheckPath(obj.paths[k].path)
    \/ \E q \in Rivals(ruleMap, RuleOf(i, obj, k)) : q.created < obj.created

\* updateCache walks the paths in order and stops at the first refused one.  The
\* definitions up to UpdateCache give the result of the walk; CacheWalk has its steps.
Processed(ruleMap, i, obj) ==
    {k \in DOMAIN obj.paths : \A j \in 1 .. k : ~Refused(ruleMap, i, obj, j)}

\* A processed path is inserted when its slot is empty or held by a younger
\* rule; a rule created in the same second (an earlier path of the same
\* object, too) keeps its slot, and put reports no error.
Claims(ruleMap, i, obj) ==
    {k \in Processed(ruleMap, i, obj) :
        /\ \A q \in Rivals(ruleMap, RuleOf(i, obj, k)) : obj.created < q.created
        /\ \A j \in 1 .. k - 1 : ~SameSlot(RuleOf(i, obj, j), RuleOf(i, obj, k))}

Inserted(ruleMap, i, obj) == {RuleOf(i, obj, k) : k \in Claims(ruleMap, i, obj)}

\* Rules of younger Ingresses that make way.  They leave ruleMap, but put
\* looks for them under the new rule's Ingress, so their own index keeps them.
Overwritten(ruleMap, i, obj) ==
    {q \in ruleMap : \E r \in Inserted(ruleMap, i, obj) : SameSlot(q, r)}

\* Mutant of UpdateCache: overwriting forgets the index entry of the new rule.
BugOverwriteUnindexed(cache, i, obj) ==
    LET new == Inserted(cache.ruleMap, i, obj)
    IN  [ruleMap |-> (cache.ruleMap \ Overwritten(cache.ruleMap, i, obj)) \cup new,
         ingress2Rule |-> [cache.ingress2Rule EXCEPT
            ![i] = @ \cup {r \in new : Rivals(cache.ruleMap, r) = {}}]]

\* Mutant of UpdateCache: an elder rule is appended beside the one it replaces.
BugAppendsOnOverwrite(cache, i, obj) ==
    LET new == Inserted(cache.ruleMap, i, obj)
    IN  [ruleMap |-> cache.ruleMap \cup new,
         ingress2Rule |-> [cache.ingress2Rule EXCEPT ![i] = @ \cup new]]

UpdateCache(cache, i, obj) ==
    LET new == Inserted(cache.ruleMap, i, obj)
    IN  [ruleMap |-> (cache.ruleMap \ Overwritten(cache.ruleMap, i, obj)) \cup new,
         ingress2Rule |-> [cache.ingress2Rule EXCEPT ![i] = @ \cup new]]

CacheError(cache, i, obj) ==
    \E k \in DOMAIN obj.paths : Refused(cache.ruleMap, i, obj, k)

-----------------------------------------------------------------------------
(* The files derived from the cache. *)

\* A rule alone at its location and without a condition is a basic rule; any
\* other is an advanced rule behind a basic rule that says AdvancedMode.
Lone(ruleMap, r) ==
    r.cond = Basic /\ \A q \in ruleMap : q.location = r.location => q = r

AdvancedRules(ruleMap) == {r \in ruleMap : ~Lone(ruleMap, r)}

BasicRules(ruleMap) == ruleMap \ AdvancedRules(ruleMap)

RouteTable(ruleMap) ==
    [basic |-> {[location |-> r.location, cluster |-> r.cluster] :
                    r \in BasicRules(ruleMap)}
          \cup {[location |-> r.location, cluster |-> AdvancedMode] :
                    r \in AdvancedRules(ruleMap)},
     advanced |-> {[location |-> r.location, cond |-> r.cond, cluster |-> r.cluster] :
                    r \in AdvancedRules(ruleMap)},
     default |-> DefaultBackend /\ ruleMap # {}]

\* buildCondition fails on an illegal annotation; route_rule_conf.Convert, of
\* the BFE library, on a condition it cannot parse.
Publishable(ruleMap) ==
    \A r \in AdvancedRules(ruleMap) :
        /\ r.cond \notin IllegalCondition
        /\ r.location.path \notin UnparsablePath

ClusterConf(ruleMap) ==
    {r.cluster : r \in ruleMap}
        \cup (IF DefaultBackend /\ ruleMap # {} THEN {DefaultCluster} ELSE {})

-----------------------------------------------------------------------------
(* Operations of ServerDataConfig. *)

NewServerDataConfig ==
    [cache          |-> NewRouteRuleCache,
     routeTableFile |-> RouteTable({}),
     bfeClusterConf |-> {}]

\* updateRouteTable leaves the old file in place when the new one is bad; the
\* callers regenerate bfeClusterConf from the cache.
UpdateRouteTable(conf) ==
    IF Publishable(conf.cache.ruleMap)
    THEN [conf EXCEPT !.routeTableFile = RouteTable(conf.cache.ruleMap)]
    ELSE conf

UpdateBfeClusterConf(conf) ==
    [conf EXCEPT !.bfeClusterConf = ClusterConf(conf.cache.ruleMap)]

\* Mutant of WithoutIngress: only the index is cleared.
BugClearsIndexOnly(conf, i) ==
    [conf EXCEPT !.cache.ingress2Rule = [@ EXCEPT ![i] = {}]]

WithoutIngress(conf, i) ==
    [conf EXCEPT !.cache = DeleteHttpRulesByIngress(@, i)]

\* The cache as UpdateIngress leaves it before it looks at the route table.
Updated(conf, i, obj) ==
    [conf EXCEPT !.cache = UpdateCache(DeleteHttpRulesByIngress(@, i), i, obj)]

\* Mutant of UpdateFails: an unusable route table is not taken for an error.
BugIgnoresTableError(conf, i, obj) ==
    CacheError(DeleteHttpRulesByIngress(conf.cache, i), i, obj)

UpdateFails(conf, i, obj) ==
    \/ CacheError(DeleteHttpRulesByIngress(conf.cache, i), i, obj)
    \/ ~Publishable(Updated(conf, i, obj).cache.ruleMap)

\* Mutant of UpdateIngress: the route table is left to the next update.
BugTableNotRebuilt(conf, i, obj) ==
    IF obj.paths = <<>>
    THEN [conf |-> conf, err |-> FALSE]
    ELSE IF UpdateFails(conf, i, obj)
    THEN [conf |-> WithoutIngress(Updated(conf, i, obj), i), err |-> TRUE]
    ELSE [conf |-> UpdateBfeClusterConf(Updated(conf, i, obj)), err |-> FALSE]

\* An object without rules is left alone, whatever it had before.  A refused
\* object loses its cached rules, but the derived files are not regenerated.
UpdateIngress(conf, i, obj) ==
    IF obj.paths = <<>>
    THEN [conf |-> conf, err |-> FALSE]
    ELSE IF UpdateFails(conf, i, obj)
    THEN [conf |-> WithoutIngress(Updated(conf, i, obj), i), err |-> TRUE]
    ELSE [conf |-> UpdateBfeClusterConf(UpdateRouteTable(Updated(conf, i, obj))),
          err  |-> FALSE]

\* Mutant of DeleteIngress: the cluster configuration is not regenerated.
BugKeepsClusterConf(conf, i) ==
    IF ~ContainsIngress(conf.cache, i)
    THEN conf
    ELSE UpdateRouteTable(WithoutIngress(conf, i))

DeleteIngress(conf, i) ==
    IF ~ContainsIngress(conf.cache, i)
    THEN conf
    ELSE UpdateBfeClusterConf(UpdateRouteTable(WithoutIngress(conf, i)))

-----------------------------------------------------------------------------
(* The machine: users edit Ingress objects while the reconciler follows.   *)

VARIABLES
    object,          \* what the API server holds under each name
    clock,           \* the second in which an object created now is stamped
    queue,           \* work queue of the Ingress reconciler
    status,          \* outcome of the last synchronisation of each Ingress
    serverDataConf   \* the ServerDataConfig

vars == <<object, clock, queue, status, serverDataConf>>

Init ==
    /\ object = [i \in Ingress |-> NoObject]
    /\ clock = 0
    /\ queue = {}
    /\ status = [i \in Ingress |-> "none"]
    /\ serverDataConf = NewServerDataConfig

Tick ==
    /\ clock < MaxTime
    /\ clock' = clock + 1
    /\ UNCHANGED <<object, queue, status, serverDataConf>>

\* Every change of an object is an event that queues its name.
Store(i, obj) ==
    /\ object' = [object EXCEPT ![i] = obj]
    /\ queue' = queue \cup {i}
    /\ UNCHANGED <<clock, status, serverDataConf>>

CreateIngress(i) ==
    /\ object[i] = NoObject
    /\ \E m \in Manifest :
          Store(i, [created |-> clock, cond |-> m.cond, paths |-> m.paths])

EditIngress(i) ==
    /\ object[i] # NoObject
    /\ \E m \in Manifest :
          Store(i, [object[i] EXCEPT !.cond = m.cond, !.paths = m.paths])

RemoveIngress(i) ==
    /\ object[i] # NoObject
    /\ Store(i, NoObject)

\* Reconcile of an object that is gone.
SyncAbsent(i) ==
    /\ i \in queue
    /\ object[i] = NoObject
    /\ serverDataConf' = DeleteIngress(serverDataConf, i)
    /\ queue' = queue \ {i}
    /\ status' = [status EXCEPT ![i] = "none"]
    /\ UNCHANGED <<object, clock>>

\* Reconcile of an object that the configuration takes.
SyncAccepted(i) ==
    /\ i \in queue
    /\ object[i] # NoObject
    /\ queue' = queue \ {i}
    /\ status' = [status EXCEPT ![i] = "success"]
    /\ UNCHANGED <<object, clock>>
    /\ LET u == UpdateIngress(serverDataConf, i, object[i])
       IN  /\ ~u.err
           /\ serverDataConf' = u.conf

\* Reconcile of an object that it refuses: the reconciler withdraws the Ingress
\* and returns the error, so the name goes back to the queue.
SyncRefused(i) ==
    /\ i \in queue
    /\ object[i] # NoObject
    /\ status' = [status EXCEPT ![i] = "error"]
    /\ UNCHANGED <<object, clock, queue>>
    /\ LET u == UpdateIngress(serverDataConf, i, object[i])
       IN  /\ u.err
           /\ serverDataConf' = DeleteIngress(u.conf, i)

Sync(i) == SyncAbsent(i) \/ SyncAccepted(i) \/ SyncRefused(i)

Next ==
    \/ Tick
    \/ \E i \in Ingress :
          \/ CreateIngress(i)
          \/ EditIngress(i)
          \/ RemoveIngress(i)
          \/ Sync(i)

Spec == Init /\ [][Next]_vars

-----------------------------------------------------------------------------
(* Properties *)

ruleMap == serverDataConf.cache.ruleMap
ingress2Rule == serverDataConf.cache.ingress2Rule

IngressObject == [created: Time, cond: Condition, paths: Seq(HttpPath)]

RouteTableFile ==
    [basic: SUBSET [location: Location, cluster: Cluster \cup {AdvancedMode}],
     advanced: SUBSET [location: Location, cond: Condition, cluster: Cluster],
     default: BOOLEAN]

Cache == [ruleMap: SUBSET Rule, ingress2Rule: [Ingress -> SUBSET Rule]]

Configuration ==
    [cache: Cache, routeTableFile: RouteTableFile,
     bfeClusterConf: SUBSET (Cluster \cup {DefaultCluster})]

\* The state of the reconciler and of the two structures has its shape.
TypeOK ==
    /\ object \in [Ingress -> IngressObject \cup {NoObject}]
    /\ clock \in Time
    /\ queue \subseteq Ingress
    /\ status \in [Ingress -> {"none", "success", "error"}]
    /\ serverDataConf \in Configuration

\* Every installed rule can be found through the index of its own Ingress,
\* although overwriting leaves stale entries behind: a deletion that follows
\* the index (HttpRouteRuleCache.delete) misses no rule.
RulesIndexed == \A r \in ruleMap : r \in ingress2Rule[r.ingress]

\* Two rules never compete for one host, path and condition, whichever way the
\* list of a host and path was built up by put, overwriting and deletion.
OneRulePerSlot == \A r, q \in ruleMap : SameSlot(r, q) => r = q

\* The cache serves accepted Ingresses only: one that was refused half-way
\* through its paths, or deleted, leaves no rule behind.
OnlyAcceptedInCache == \A r \in ruleMap : status[r.ingress] = "success"

\* The cache can always be turned into a route table, so the error that
\* DeleteIngress drops never occurs, and the bad rules of one Ingress never
\* block the updates of the others.
AlwaysPublishable == Publishable(ruleMap)

TableClusters(t) ==
    ({b.cluster : b \in t.basic} \ {AdvancedMode})
        \cup {a.cluster : a \in t.advanced}
        \cup (IF t.default THEN {DefaultCluster} ELSE {})

\* The two files BFE loads together name the same clusters, also when an
\* update failed between the cache and the files.
FilesAgree ==
    TableClusters(serverDataConf.routeTableFile) = serverDataConf.bfeClusterConf

\* The files may lag behind the cache, but only with routes too many: each
\* cached rule has a route.
CachedRulesRouted ==
    LET t == serverDataConf.routeTableFile
    IN  \A r \in ruleMap :
          \/ [location |-> r.location, cluster |-> r.cluster] \in t.basic
          \/ /\ [location |-> r.location, cluster |-> AdvancedMode] \in t.basic
             /\ [location |-> r.location, cond |-> r.cond, cluster |-> r.cluster]
                    \in t.advanced

SlotOf(r) == <<r.location, r.cond>>

\* The slots an object asks the cache for.
Asked(i, obj) ==
    IF obj = NoObject THEN {} ELSE {SlotOf(RuleOf(i, obj, k)) : k \in DOMAIN obj.paths}

Created(obj) == obj.created

\* A rule, as the others see it.
Holding(r) == [slot |-> SlotOf(r), owner |-> r.ingress, since |-> r.created]

Held(rules) == {Holding(r) : r \in rules}

Slots == INSTANCE SlotOwnership WITH
            Claimant <- Ingress,
            Since <- Created,
            wish <- object,
            held <- Held(ruleMap),
            granted <- {i \in Ingress : status[i] = "success"}

\* An Ingress gets every slot it asks for, unless a twin holds it, or is left with
\* none: the walk through the paths, with its overwriting and its roll-back after a
\* failure, amounts to one decision about all of them.
SlotsAllocated == Slots!Spec

\* Nothing but an elder rule stands in the way of a waiting object: its hosts,
\* paths and condition are fine, and so are the conditions beside its own.
Unopposed(i) ==
    /\ object[i] # NoObject
    /\ object[i].cond \notin IllegalCondition
    /\ \A k \in DOMAIN object[i].paths :
          /\ ~Refused(ruleMap, i, object[i], k)
          /\ object[i].paths[k].path \notin UnparsablePath

\* A refused Ingress is retried: once its rivals are gone it is served, without
\* any further event about it.
LoserTakesOver ==
    \A i \in Ingress :
        (status[i] = "error" /\ Unopposed(i))
            ~> (status[i] = "success" \/ ~Unopposed(i))

\* A deleted Ingress disappears from the cache.
DeletedForgotten ==
    \A i \in Ingress :
        object[i] = NoObject
            ~> (object[i] # NoObject \/ \A r \in ruleMap : r.ingress # i)

-----------------------------------------------------------------------------
(* What the documentation says and the code does not do. *)

Claimed(i) == {RuleOf(i, object[i], k) : k \in DOMAIN object[i].paths}

Settled(i) == i \notin queue /\ object[i] # NoObject /\ status[i] = "success"

Compete(i, j) ==
    i # j /\ \E r \in Claimed(i), q \in Claimed(j) : SameSlot(r, q)

\* docs: of two Ingresses in conflict, the invalid one gets an error message.  An
\* Ingress whose rule is overwritten by an elder one is not synchronised again, and
\* put answers a rule created in the same second with nil: both keep "success".
ConflictReported ==
    \A i, j \in Ingress : Settled(i) /\ Settled(j) => ~Compete(i, j)

\* docs: an Ingress with the status error is ignored.  The route table that was
\* generated while the Ingress was valid stays.
RefusedNotRouted ==
    \A i \in Ingress : status[i] = "error" =>
        \A c \in TableClusters(serverDataConf.routeTableFile) \ {DefaultCluster} :
            c[1] # i

=============================================================================
