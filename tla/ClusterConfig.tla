--------------------------- MODULE ClusterConfig ---------------------------
(***************************************************************************)
(* The clusters of the BFE ingress controller, configs/clusterConfig.go:   *)
(* which backends a cluster has (clusterTableConf), how its traffic is     *)
(* split (gslbConf), and the two indexes by which Ingress and Service      *)
(* events find the clusters they concern.                                  *)
(*                                                                         *)
(* As in ServerDataConfig a method is an operator on a configuration       *)
(* record.  The machine interleaves the Ingress and the Service            *)
(* reconcilers with changes of the objects.  The Ingress reconciler reads  *)
(* the Services before it takes the mutex of the ConfigBuilder: a Service  *)
(* event that is handled in between is undone by the older addresses.  A   *)
(* panic of a reconciler stops the process, and its restart lists every    *)
(* object again.                                                           *)
(***************************************************************************)
EXTENDS Integers, Sequences, FiniteSets

CONSTANTS
    Ingress, Service, Port, Addr,
    Weight,              \* weights a balance annotation can give a Service
    AnyPort,             \* port 0, in the name of the default cluster: the first
    DefaultBackend,      \* the --default-backend Service, or Nil
    DefaultCluster,      \* util.DefaultClusterName()
    Manifest,            \* what users write: [backends, balance]
    ServiceState,        \* states of a Service and its Endpoints: [ports, addrs]
    Verdict,             \* answers of ClusterTableConfCheck to reckon with
    NoObject,            \* the API server holds no such object
    Nil                  \* a key that is not in a map

-----------------------------------------------------------------------------
(* Data *)

Backend == Service \X Port
Cluster == Ingress \X Backend
AllCluster == Cluster \cup {DefaultCluster}

\* Sub-cluster weights of one cluster, and the backends of its sub-clusters.
\* Both are Go maps from Service names: Nil where there is no entry.
Weights == [Service -> {Nil} \cup Weight]
SubClusters == [Service -> {Nil} \cup SUBSET Addr]

\* How a backend port is found in a Service: not at all; with a name or a
\* number to look for in the Endpoints; or unnamed and with a targetPort that
\* is a name, which getTargetPort gives up on.
PortState == {"absent", "resolved", "unresolved"}

IngressObject == [backends: SUBSET Backend, balance: [Service -> {Nil} \cup Weights]]

\* subset tells whether the Endpoints have a subset with ports; its addresses are
\* those of the ready pods.  A Service without Endpoints counts as missing: the
\* reconcilers treat the two alike.
ServiceObject ==
    [ports: [Port \cup {AnyPort} -> PortState], subset: BOOLEAN, addrs: Seq(Addr)]

\* What the Ingress reconciler has read of an object and of its Services.
Reading ==
    [ingress: Ingress, obj: Manifest, services: [Service -> {NoObject} \cup ServiceState]]

defaultWeight == 10

ASSUME ClusterAssumption ==
    /\ AnyPort \notin Port
    /\ DefaultCluster \notin Cluster
    /\ DefaultBackend \in {Nil} \cup Service
    /\ defaultWeight \in Weight /\ Weight \subseteq Nat
    /\ Nil \notin Service \cup Weight
    /\ \A m \in (SUBSET Addr) \cup Weights \cup SubClusters : m # Nil
    /\ Manifest \subseteq IngressObject
    /\ ServiceState \subseteq {svc \in ServiceObject : svc.addrs # <<>> => svc.subset}
    /\ Verdict \subseteq BOOLEAN
    /\ NoObject \notin Manifest \cup ServiceState
    /\ Nil \notin Reading

Keys(map) == {s \in Service : map[s] # Nil}

-----------------------------------------------------------------------------
(* What one cluster looks like. *)

\* The port a cluster name ends in.
ParsePort(c) == IF c = DefaultCluster THEN AnyPort ELSE c[2][2]

HasTarget(svc, port) == svc.ports[port] = "resolved"

Addresses(svc) == {svc.addrs[k] : k \in DOMAIN svc.addrs}

\* Without a target port only the first address is taken.
NewSubClusterBackend(svc, target) ==
    IF target THEN Addresses(svc)
    ELSE IF svc.addrs = <<>> THEN {} ELSE {svc.addrs[1]}

\* The weights of a backend: those of the balance annotation, or all for itself.
NewGslbClusterConf(s, balance) ==
    IF balance[s] # Nil THEN balance[s]
    ELSE [x \in Service |-> IF x = s THEN defaultWeight ELSE Nil]

NoBalance == [s \in Service |-> Nil]

NewClusterBackend(b, balance, services) ==
    [s \in Service |->
        IF NewGslbClusterConf(b[1], balance)[s] = Nil THEN Nil
        ELSE NewSubClusterBackend(services[s], HasTarget(services[s], b[2]))]

-----------------------------------------------------------------------------
(* Operations of ClusterConfig. *)

NewClusterConfig ==
    [ingress2Cluster  |-> [i \in Ingress |-> {}],
     service2Cluster  |-> [s \in Service |-> {}],
     gslbConf         |-> [c \in AllCluster |-> Nil],
     clusterTableConf |-> [c \in AllCluster |-> Nil]]

DelDefaultBackend(conf) ==
    [ingress2Cluster |-> conf.ingress2Cluster,
     service2Cluster |->
        [conf.service2Cluster EXCEPT ![DefaultBackend] = @ \ {DefaultCluster}],
     gslbConf |-> [conf.gslbConf EXCEPT ![DefaultCluster] = Nil],
     clusterTableConf |-> [conf.clusterTableConf EXCEPT ![DefaultCluster] = Nil]]

\* Mutant of WithoutClusters: the indexes are cleared, the table is not.
BugKeepsTable(conf, i) ==
    [conf EXCEPT !.ingress2Cluster = [@ EXCEPT ![i] = {}],
                 !.service2Cluster = [s \in Service |-> @[s] \ conf.ingress2Cluster[i]]]

\* A cluster goes with its entries in service2Cluster, but only those of the
\* Services that clusterTableConf still lists for it.
WithoutClusters(conf, i) ==
    LET mine == conf.ingress2Cluster[i]
        table == conf.clusterTableConf
    IN  [ingress2Cluster |-> [conf.ingress2Cluster EXCEPT ![i] = {}],
         service2Cluster |->
            [s \in Service |->
                {c \in conf.service2Cluster[s] :
                    ~ (c \in mine /\ table[c] # Nil /\ table[c][s] # Nil)}],
         gslbConf |-> [c \in AllCluster |-> IF c \in mine THEN Nil ELSE conf.gslbConf[c]],
         clusterTableConf |-> [c \in AllCluster |-> IF c \in mine THEN Nil ELSE table[c]]]

\* Mutant of DeleteIngress: the default cluster is forgotten.
BugKeepsDefault(conf, i) ==
    IF conf.ingress2Cluster[i] = {} THEN conf ELSE WithoutClusters(conf, i)

\* The default cluster goes with the last Ingress.
DeleteIngress(conf, i) ==
    LET rest == WithoutClusters(conf, i)
    IN  IF conf.ingress2Cluster[i] = {} THEN conf
        ELSE IF DefaultBackend # Nil /\ \A j \in Ingress : rest.ingress2Cluster[j] = {}
        THEN DelDefaultBackend(rest)
        ELSE rest

\* Mutant of WithClusters: service2Cluster gets the backend of each cluster, not
\* the Services its balance annotation names.
BugIndexesBackend(conf, i, obj, services) ==
    LET mine == {i} \X obj.backends
    IN  [ingress2Cluster |-> [conf.ingress2Cluster EXCEPT ![i] = @ \cup mine],
         service2Cluster |->
            [s \in Service |-> conf.service2Cluster[s] \cup {c \in mine : c[2][1] = s}],
         gslbConf |->
            [c \in AllCluster |->
                IF c \in mine THEN NewGslbClusterConf(c[2][1], obj.balance)
                ELSE conf.gslbConf[c]],
         clusterTableConf |->
            [c \in AllCluster |->
                IF c \in mine THEN NewClusterBackend(c[2], obj.balance, services)
                ELSE conf.clusterTableConf[c]]]

\* The clusters of an object are created or overwritten; clusters it had before
\* an edit, and their entries in service2Cluster, stay.
WithClusters(conf, i, obj, services) ==
    LET mine == {i} \X obj.backends
        gslb(c) == NewGslbClusterConf(c[2][1], obj.balance)
    IN  [ingress2Cluster |-> [conf.ingress2Cluster EXCEPT ![i] = @ \cup mine],
         service2Cluster |->
            [s \in Service |->
                conf.service2Cluster[s] \cup {c \in mine : gslb(c)[s] # Nil}],
         gslbConf |->
            [c \in AllCluster |-> IF c \in mine THEN gslb(c) ELSE conf.gslbConf[c]],
         clusterTableConf |->
            [c \in AllCluster |->
                IF c \in mine THEN NewClusterBackend(c[2], obj.balance, services)
                ELSE conf.clusterTableConf[c]]]

\* addDefautBackend: created once, with the first address of the Service.
DefaultFound(services) ==
    /\ DefaultBackend # Nil
    /\ services[DefaultBackend] # NoObject
    /\ services[DefaultBackend].subset
    /\ services[DefaultBackend].addrs # <<>>

AddDefaultBackend(conf, services) ==
    IF ~DefaultFound(services) \/ conf.clusterTableConf[DefaultCluster] # Nil
    THEN conf
    ELSE [ingress2Cluster |-> conf.ingress2Cluster,
          service2Cluster |->
            [conf.service2Cluster EXCEPT ![DefaultBackend] = @ \cup {DefaultCluster}],
          gslbConf |->
            [conf.gslbConf EXCEPT ![DefaultCluster] =
                NewGslbClusterConf(DefaultBackend, NoBalance)],
          clusterTableConf |->
            [conf.clusterTableConf EXCEPT ![DefaultCluster] =
                [s \in Service |->
                    IF s = DefaultBackend
                    THEN NewSubClusterBackend(services[s], FALSE) ELSE Nil]]]

\* Mutant of UpdateIngress: the default cluster is listed as one of the Ingress.
BugOwnsDefault(conf, i, obj, services, valid) ==
    LET new == AddDefaultBackend(WithClusters(conf, i, obj, services), services)
    IN  IF obj.backends = {} THEN [conf |-> conf, err |-> FALSE]
        ELSE IF ~valid THEN [conf |-> DeleteIngress(new, i), err |-> TRUE]
        ELSE [conf |-> [new EXCEPT !.ingress2Cluster =
                            [@ EXCEPT ![i] = @ \cup {DefaultCluster}]],
              err |-> FALSE]

\* valid is the verdict of cluster_table_conf.ClusterTableConfCheck, of the BFE
\* library, on the whole table; the machine leaves it open.
UpdateIngress(conf, i, obj, services, valid) ==
    LET new == AddDefaultBackend(WithClusters(conf, i, obj, services), services)
    IN  IF obj.backends = {} THEN [conf |-> conf, err |-> FALSE]
        ELSE IF ~valid THEN [conf |-> DeleteIngress(new, i), err |-> TRUE]
        ELSE [conf |-> new, err |-> FALSE]

\* UpdateService on the clusters in cs.  It forgets the balance annotation: all
\* traffic of the cluster goes to the Service.
RefreshService(conf, s, svc, cs) ==
    [ingress2Cluster |-> conf.ingress2Cluster,
     service2Cluster |-> conf.service2Cluster,
     gslbConf |->
        [c \in AllCluster |->
            IF c \in cs THEN NewGslbClusterConf(s, NoBalance) ELSE conf.gslbConf[c]],
     clusterTableConf |->
        [c \in AllCluster |->
            IF c \in cs
            THEN [conf.clusterTableConf[c] EXCEPT ![s] =
                    NewSubClusterBackend(svc, HasTarget(svc, ParsePort(c)))]
            ELSE conf.clusterTableConf[c]]]

Without(map, s) ==
    IF map = Nil THEN Nil ELSE [map EXCEPT ![s] = Nil]

\* Mutant of DeleteService: the sub-cluster keeps its share of the traffic.
BugKeepsWeight(conf, s) ==
    LET cs == conf.service2Cluster[s]
    IN  [conf EXCEPT !.clusterTableConf =
            [c \in AllCluster |-> IF c \in cs THEN Without(@[c], s) ELSE @[c]]]

\* The Service leaves its clusters, and a cluster without any weight leaves
\* gslbConf; service2Cluster still names the clusters.
DeleteService(conf, s) ==
    LET cs == conf.service2Cluster[s]
        gslb(c) == Without(conf.gslbConf[c], s)
    IN  [ingress2Cluster |-> conf.ingress2Cluster,
         service2Cluster |-> conf.service2Cluster,
         gslbConf |->
            [c \in AllCluster |->
                IF c \notin cs THEN conf.gslbConf[c]
                ELSE IF gslb(c) = Nil \/ Keys(gslb(c)) = {} THEN Nil
                ELSE gslb(c)],
         clusterTableConf |->
            [c \in AllCluster |->
                IF c \in cs THEN Without(conf.clusterTableConf[c], s)
                ELSE conf.clusterTableConf[c]]]

\* The clusters of a Service in which it lacks the port of the cluster.
Lacking(conf, s, svc) ==
    IF s = DefaultBackend THEN {}
    ELSE {c \in conf.service2Cluster[s] : ~HasTarget(svc, ParsePort(c))}

\* The clusters that service2Cluster names and clusterTableConf does not have.
Dangling(conf, s) ==
    {c \in conf.service2Cluster[s] : conf.clusterTableConf[c] = Nil}

\* Mutant of UpdateServiceResults: a Service without the port changes nothing.
BugIgnoresLostPort(conf, s, svc) ==
    LET cs == conf.service2Cluster[s]
    IN  IF Lacking(conf, s, svc) # {} THEN {conf}
        ELSE IF Dangling(conf, s) # {} THEN {}
        ELSE {RefreshService(conf, s, svc, cs)}

\* UpdateService walks the clusters in the order of a Go map.  It ends at the
\* first cluster without the port, after any set of the others was refreshed;
\* a cluster that clusterTableConf does not have is a write to a nil map.
UpdateServiceResults(conf, s, svc) ==
    LET cs == conf.service2Cluster[s]
        good == cs \ (Lacking(conf, s, svc) \cup Dangling(conf, s))
    IN  IF Lacking(conf, s, svc) # {}
        THEN {DeleteService(RefreshService(conf, s, svc, done), s) : done \in SUBSET good}
        ELSE IF Dangling(conf, s) # {} THEN {}
        ELSE {RefreshService(conf, s, svc, cs)}

UpdateServicePanics(conf, s, svc) ==
    Dangling(conf, s) \ Lacking(conf, s, svc) # {}

-----------------------------------------------------------------------------
(* The machine. *)

VARIABLES
    object,        \* Ingress objects of the API server
    service,       \* Services of the API server that have Endpoints
    queue,         \* work queue of the Ingress reconciler
    serviceQueue,  \* work queue of the Service reconciler
    working,       \* what the Ingress reconciler has read and not applied, or Nil
    status,        \* outcome of the last synchronisation of each Ingress
    running,       \* FALSE while the process is down after a panic
    clusterConf,   \* the ClusterConfig
    overtaken      \* history, read by no step: clusters and Services of theirs
                   \* that were written from a copy older than the last event

vars == <<object, service, queue, serviceQueue, working, status, running, clusterConf,
          overtaken>>

Init ==
    /\ object = [i \in Ingress |-> NoObject]
    /\ service = [s \in Service |-> NoObject]
    /\ queue = {}
    /\ serviceQueue = {}
    /\ working = Nil
    /\ status = [i \in Ingress |-> "none"]
    /\ running = TRUE
    /\ clusterConf = NewClusterConfig
    /\ overtaken = {}

\* An event without a change is a resync of the informer.
ChangeIngress(i) ==
    /\ \E obj \in Manifest \cup {NoObject} :
          object' = [object EXCEPT ![i] = obj]
    /\ queue' = queue \cup {i}
    /\ UNCHANGED <<service, serviceQueue, working, status, running, clusterConf, overtaken>>

ChangeService(s) ==
    /\ \E svc \in ServiceState \cup {NoObject} :
          service' = [service EXCEPT ![s] = svc]
    /\ serviceQueue' = serviceQueue \cup {s}
    /\ UNCHANGED <<object, queue, working, status, running, clusterConf, overtaken>>

\* The Services among which a backend of the object splits its traffic.
Targets(obj, b) == Keys(NewGslbClusterConf(b[1], obj.balance))

Needed(obj) ==
    ({DefaultBackend} \cap Service) \cup UNION {Targets(obj, b) : b \in obj.backends}

\* getIngressBackends: each Service the object needs is there, with the port of
\* the backend and a subset in its Endpoints; none of its pods need be ready.
Ready(obj, services) ==
    \A b \in obj.backends :
        \A s \in Targets(obj, b) :
            /\ services[s] # NoObject
            /\ services[s].ports[b[2]] # "absent"
            /\ services[s].subset

\* The one worker of the reconciler takes a name and reads the object and the
\* Services it needs, without the mutex.
ReadIngress(i) ==
    /\ running
    /\ working = Nil
    /\ i \in queue
    /\ object[i] # NoObject
    /\ queue' = queue \ {i}
    /\ working' =
         [ingress  |-> i,
          obj      |-> object[i],
          services |-> [s \in Service |-> IF s \in Needed(object[i]) THEN service[s]
                                          ELSE NoObject]]
    /\ UNCHANGED <<object, service, serviceQueue, status, running, clusterConf, overtaken>>

\* The Services are read one by one: each is as it was at a moment of its own.
ReadService(s) ==
    /\ working # Nil
    /\ s \in Needed(working.obj)
    /\ working' = [working EXCEPT !.services = [@ EXCEPT ![s] = service[s]]]
    /\ UNCHANGED <<object, service, queue, serviceQueue, status, running, clusterConf,
                   overtaken>>

\* What the history keeps when the clusters of an Ingress go.
OvertakenBut(i) == {p \in overtaken : p[1] \notin {i} \X Backend}

\* What it says of clusters written now, from the copies in services: those of
\* Services that changed since, with no event left that could tell.
Behind(i, obj, services) ==
    {p \in ({i} \X obj.backends) \X Service :
        /\ p[2] \in Targets(obj, p[1][2])
        /\ services[p[2]] # service[p[2]]
        /\ p[2] \notin serviceQueue}

SyncAbsent(i) ==
    /\ running
    /\ working = Nil
    /\ i \in queue
    /\ object[i] = NoObject
    /\ clusterConf' = DeleteIngress(clusterConf, i)
    /\ queue' = queue \ {i}
    /\ status' = [status EXCEPT ![i] = "none"]
    /\ overtaken' = OvertakenBut(i)
    /\ UNCHANGED <<object, service, serviceQueue, working, running>>

\* What was read is applied under the mutex.
SyncAccepted ==
    /\ working # Nil
    /\ TRUE \in Verdict
    /\ LET i == working.ingress
           obj == working.obj
       IN  /\ Ready(obj, working.services)
           /\ clusterConf' = UpdateIngress(clusterConf, i, obj, working.services, TRUE).conf
           /\ status' = [status EXCEPT ![i] = "success"]
           /\ overtaken' = {p \in overtaken : p[1] \notin {i} \X obj.backends}
                                \cup Behind(i, obj, working.services)
    /\ working' = Nil
    /\ UNCHANGED <<object, service, queue, serviceQueue, running>>

\* A missing Service or a bad table: the Ingress is withdrawn and queued again.
\* The withdrawal has a lock of its own; after a bad table it finds nothing left.
SyncRefused ==
    /\ working # Nil
    /\ LET i == working.ingress
           obj == working.obj
           u == UpdateIngress(clusterConf, i, obj, working.services, FALSE)
       IN  /\ \/ /\ ~Ready(obj, working.services)
                 /\ clusterConf' = DeleteIngress(clusterConf, i)
              \/ /\ Ready(obj, working.services)
                 /\ FALSE \in Verdict
                 /\ u.err
                 /\ clusterConf' = DeleteIngress(u.conf, i)
           /\ queue' = queue \cup {i}
           /\ status' = [status EXCEPT ![i] = "error"]
           /\ overtaken' = OvertakenBut(i)
    /\ working' = Nil
    /\ UNCHANGED <<object, service, serviceQueue, running>>

\* An event of a Service that is gone is dropped; the error of UpdateService is
\* dropped, too.  A Service that changes between its own reading and the update
\* is queued again by that change.
SyncService(s) ==
    /\ running
    /\ s \in serviceQueue
    /\ clusterConf' \in IF service[s] = NoObject THEN {clusterConf}
                        ELSE UpdateServiceResults(clusterConf, s, service[s])
    /\ serviceQueue' = serviceQueue \ {s}
    /\ overtaken' = {p \in overtaken : p[2] # s}
    /\ UNCHANGED <<object, service, queue, working, status, running>>

\* The reconciler panics, and takes the process down with it.
PanicService(s) ==
    /\ running
    /\ s \in serviceQueue
    /\ service[s] # NoObject
    /\ UpdateServicePanics(clusterConf, s, service[s])
    /\ running' = FALSE
    /\ working' = Nil
    /\ UNCHANGED <<object, service, queue, serviceQueue, status, clusterConf, overtaken>>

\* The new process starts from nothing and lists every object.
Restart ==
    /\ ~running
    /\ running' = TRUE
    /\ clusterConf' = NewClusterConfig
    /\ queue' = {i \in Ingress : object[i] # NoObject}
    /\ serviceQueue' = {s \in Service : service[s] # NoObject}
    /\ status' = [i \in Ingress |-> "none"]
    /\ overtaken' = {}
    /\ UNCHANGED <<object, service, working>>

Next ==
    \/ Restart
    \/ SyncAccepted \/ SyncRefused
    \/ \E i \in Ingress : ChangeIngress(i) \/ ReadIngress(i) \/ SyncAbsent(i)
    \/ \E s \in Service : \/ ChangeService(s) \/ ReadService(s)
                          \/ SyncService(s) \/ PanicService(s)

Spec == Init /\ [][Next]_vars

-----------------------------------------------------------------------------
(* Properties *)

ingress2Cluster == clusterConf.ingress2Cluster
service2Cluster == clusterConf.service2Cluster
gslb == clusterConf.gslbConf
table == clusterConf.clusterTableConf

Configuration ==
    [ingress2Cluster: [Ingress -> SUBSET Cluster],
     service2Cluster: [Service -> SUBSET AllCluster],
     gslbConf: [AllCluster -> {Nil} \cup Weights],
     clusterTableConf: [AllCluster -> {Nil} \cup SubClusters]]

\* The state of the two reconcilers and of the four maps has its shape.
TypeOK ==
    /\ object \in [Ingress -> {NoObject} \cup Manifest]
    /\ service \in [Service -> {NoObject} \cup ServiceState]
    /\ queue \subseteq Ingress
    /\ serviceQueue \subseteq Service
    /\ working \in {Nil} \cup Reading
    /\ status \in [Ingress -> {"none", "success", "error"}]
    /\ running \in BOOLEAN
    /\ clusterConf \in Configuration
    /\ overtaken \subseteq Cluster \X Service

\* An event of a Service reaches each cluster with a sub-cluster for it, through
\* overwriting, port changes and deletions.
ServicesIndexed ==
    \A c \in AllCluster : table[c] # Nil =>
        \A s \in Keys(table[c]) : c \in service2Cluster[s]

\* BFE never splits traffic over a sub-cluster that clusterTableConf lacks.
WeightsBacked ==
    \A c \in AllCluster : gslb[c] # Nil =>
        table[c] # Nil /\ Keys(gslb[c]) \subseteq Keys(table[c])

\* The clusters in the table are those the index lists for an Ingress that was
\* accepted: a deletion misses none, a refused update leaves none.
ClustersOwned ==
    \A c \in Cluster :
        /\ table[c] # Nil <=> c \in ingress2Cluster[c[1]]
        /\ table[c] # Nil => status[c[1]] = "success"

\* The default cluster is there only while some Ingress is, and goes with the
\* last one in whatever way that one leaves.
DefaultGoesLast ==
    table[DefaultCluster] # Nil => \E i \in Ingress : ingress2Cluster[i] # {}

\* Once nothing is queued or in progress, the sub-clusters of the Ingresses have the
\* addresses of their Services.  The one way to miss an event is to handle it while
\* the Ingress reconciler holds an older copy of the Service; then the next event
\* of the Service makes up for it.
AddressesCurrent ==
    running /\ queue = {} /\ serviceQueue = {} /\ working = Nil =>
        \A c \in Cluster : table[c] # Nil =>
            \A s \in Keys(table[c]) : service[s] # NoObject /\ <<c, s>> \notin overtaken =>
                table[c][s] = NewSubClusterBackend(service[s],
                                                   HasTarget(service[s], ParsePort(c)))

-----------------------------------------------------------------------------
(* What the code and its documentation say and the code does not do. *)

\* UpdateService: "find cluster by service, do nothing if not found".  The index
\* can name a cluster that is gone, and the write to it stops the process.
ProcessStaysUp == running


=============================================================================
