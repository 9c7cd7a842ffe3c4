---------------------------- MODULE ConfigBuilder ----------------------------
(***************************************************************************)
(* The whole controller up to the files: bfeConfig/configBuilder.go joins  *)
(* the route rules, the clusters and the certificates behind one mutex,    *)
(* and rolls the first ones back when a later one refuses an Ingress; the  *)
(* reconcilers of controllers/ingress feed it.                             *)
(*                                                                         *)
(* The Ingress reconciler reads the objects before it takes the mutex, and *)
(* withdraws a refused Ingress under a second lock: its steps interleave   *)
(* with those of the Service and Secret reconcilers, with changes of the   *)
(* objects, and with a crash of the process.                               *)
(***************************************************************************)
EXTENDS Integers, Sequences, FiniteSets

CONSTANTS
    Ingress, Service, Secret, Port, Addr, Weight, AnyPort,
    Host, NoHost, AnyHost, IllegalHost, Path, IllegalPath, UnparsablePath,
    Condition, Basic, IllegalCondition,
    Content, BadContent,
    DefaultBackend,      \* the --default-backend Service, or Nil
    DefaultCluster,      \* util.DefaultClusterName()
    AdvancedMode,        \* route_rule_conf.AdvancedMode
    Manifest,            \* what users write: [ours, paths, cond, balance, tls]
    ServiceState,        \* states of a Service and its Endpoints
    Verdict,             \* answers of ClusterTableConfCheck to reckon with
    NoObject,            \* the API server holds no such object
    Nil,                 \* a key that is not in a map, or nothing in progress
    MaxTime              \* bound on the clock that stamps new objects

VARIABLES
    object,          \* Ingress objects of the API server
    service,         \* Services of the API server that have Endpoints
    secret,          \* Secrets of the API server
    clock,           \* the second in which an object created now is stamped
    queue,           \* work queue of the Ingress reconciler
    serviceQueue,    \* work queue of the Service reconciler
    secretQueue,     \* work queue of the Secret reconciler
    working,         \* what the Ingress reconciler read and does with it, or Nil
    status,          \* outcome of the last synchronisation of each Ingress
    running,         \* FALSE while the process is down after a panic
    conf             \* the ConfigBuilder: [server, cluster, tls]

vars == <<object, service, secret, clock, queue, serviceQueue, secretQueue,
          working, status, running, conf>>

\* The three components.  Their own machines are not used here, so what stands
\* for the variables that only those have is immaterial.
Server == INSTANCE ServerDataConfig WITH
    Backend <- Service \X Port, DefaultBackend <- DefaultBackend # Nil,
    serverDataConf <- conf.server

Cluster == INSTANCE ClusterConfig WITH clusterConf <- conf.cluster, overtaken <- {}

Tls == INSTANCE TLSConfig WITH
    tlsConf <- conf.tls, certConf <- {}, files <- Nil, served <- Nil, overtaken <- {},
    left <- {}

-----------------------------------------------------------------------------
(* Data *)

\* The API server stamps an object with the second of its creation.
Stamped(m, time) ==
    [created |-> time, ours |-> m.ours, paths |-> m.paths, cond |-> m.cond,
     balance |-> m.balance, tls |-> m.tls]

Objects == {Stamped(m, time) : m \in Manifest, time \in 0 .. MaxTime}

\* What the API server holds of each Service and Secret, or a reconciler read.
Services == [Service -> ServiceState \cup {NoObject}]
Secrets == [Secret -> Content \cup {NoObject}]

\* What the Ingress reconciler keeps while it works on a name.
Note ==
    [stage: {"update"}, ingress: Ingress, obj: Objects, services: Services,
     secrets: Secrets]
        \cup [stage: {"withdraw"}, ingress: Ingress]

\* The values that stand for absent ones are no values, and what users write is
\* well-formed as the API server demands it.
ASSUME ConfigBuilderAssumption ==
    /\ MaxTime \in Nat
    /\ DefaultBackend \in {Nil} \cup Service
    /\ DefaultCluster \notin Cluster!Cluster
    /\ Nil \notin Content \cup Cluster!SubClusters \cup Note
    /\ Cluster!defaultWeight \in Weight
    /\ \A m \in Manifest :
          /\ m.paths \in Seq(Server!HttpPath)
          /\ m.cond \in Condition
          /\ m.balance \in [Service -> {Nil} \cup Cluster!Weights]
          /\ m.tls \in Seq(Secret)
    /\ ServiceState \subseteq Cluster!ServiceObject
    /\ Verdict \subseteq BOOLEAN

-----------------------------------------------------------------------------
(* Operations of the ConfigBuilder, each under its mutex.                  *)

NewConfigBuilder ==
    [server  |-> Server!NewServerDataConfig,
     cluster |-> Cluster!NewClusterConfig,
     tls     |-> Tls!NewTLSConfig]

\* What clusterConf reads in an object.
Backends(obj) ==
    [backends |-> {obj.paths[k].backend : k \in DOMAIN obj.paths},
     balance  |-> obj.balance]

\* Mutant of UpdateIngress: every component is updated, none is rolled back.
BugNoRollback(c, i, obj, services, secrets, valid) ==
    LET server  == Server!UpdateIngress(c.server, i, obj)
        cluster == Cluster!UpdateIngress(c.cluster, i, Backends(obj), services, valid)
        tls     == Tls!UpdateIngress(c.tls, i, obj.tls, secrets)
    IN  [conf |-> [server |-> server.conf, cluster |-> cluster.conf, tls |-> tls.conf],
         err  |-> server.err \/ cluster.err \/ tls.err]

\* Mutant of UpdateIngress: the errors of the components are dropped.
BugDropsErrors(c, i, obj, services, secrets, valid) ==
    [conf |-> BugNoRollback(c, i, obj, services, secrets, valid).conf, err |-> FALSE]

\* Each component that refuses the Ingress has the ones before it withdrawn; the
\* certificates of an Ingress refused last are left to DeleteIngress.
UpdateIngress(c, i, obj, services, secrets, valid) ==
    LET server  == Server!UpdateIngress(c.server, i, obj)
        cluster == Cluster!UpdateIngress(c.cluster, i, Backends(obj), services, valid)
        tls     == Tls!UpdateIngress(c.tls, i, obj.tls, secrets)
    IN  IF server.err
        THEN [conf |-> [c EXCEPT !.server = server.conf], err |-> TRUE]
        ELSE IF cluster.err
        THEN [conf |-> [server  |-> Server!DeleteIngress(server.conf, i),
                        cluster |-> cluster.conf,
                        tls     |-> c.tls],
              err  |-> TRUE]
        ELSE IF tls.err
        THEN [conf |-> [server  |-> Server!DeleteIngress(server.conf, i),
                        cluster |-> Cluster!DeleteIngress(cluster.conf, i),
                        tls     |-> tls.conf],
              err  |-> TRUE]
        ELSE [conf |-> [server |-> server.conf, cluster |-> cluster.conf,
                        tls |-> tls.conf],
              err  |-> FALSE]

\* Mutant of DeleteIngress: the certificates are forgotten.
BugKeepsCerts(c, i) ==
    [c EXCEPT !.server = Server!DeleteIngress(@, i),
              !.cluster = Cluster!DeleteIngress(@, i)]

DeleteIngress(c, i) ==
    [server  |-> Server!DeleteIngress(c.server, i),
     cluster |-> Cluster!DeleteIngress(c.cluster, i),
     tls     |-> Tls!DeleteIngress(c.tls, i)]

-----------------------------------------------------------------------------
(* The machine: users and the API server. *)

Init ==
    /\ object = [i \in Ingress |-> NoObject]
    /\ service = [s \in Service |-> NoObject]
    /\ secret = [s \in Secret |-> NoObject]
    /\ clock = 0
    /\ queue = {}
    /\ serviceQueue = {}
    /\ secretQueue = {}
    /\ working = Nil
    /\ status = [i \in Ingress |-> "none"]
    /\ running = TRUE
    /\ conf = NewConfigBuilder

controller == <<working, status, running, conf>>

Tick ==
    /\ clock < MaxTime
    /\ clock' = clock + 1
    /\ UNCHANGED <<object, service, secret, queue, serviceQueue, secretQueue, controller>>

\* An Ingress is created, edited or deleted; an event without a change is a resync
\* of the informer.
ChangeIngress(i) ==
    /\ \E obj \in IF object[i] = NoObject
                  THEN {Stamped(m, clock) : m \in Manifest}
                  ELSE {Stamped(m, object[i].created) : m \in Manifest} \cup {NoObject} :
          object' = [object EXCEPT ![i] = obj]
    /\ queue' = IF running THEN queue \cup {i} ELSE {}
    /\ UNCHANGED <<service, secret, clock, serviceQueue, secretQueue, controller>>

ChangeService(s) ==
    /\ \E svc \in ServiceState \cup {NoObject} :
          service' = [service EXCEPT ![s] = svc]
    /\ serviceQueue' = IF running THEN serviceQueue \cup {s} ELSE {}
    /\ UNCHANGED <<object, secret, clock, queue, secretQueue, controller>>

ChangeSecret(s) ==
    /\ \E content \in Content \cup {NoObject} :
          secret' = [secret EXCEPT ![s] = content]
    /\ secretQueue' = IF running THEN secretQueue \cup {s} ELSE {}
    /\ UNCHANGED <<object, service, clock, queue, serviceQueue, controller>>

-----------------------------------------------------------------------------
(* The machine: the Ingress reconciler, a single worker. *)

\* Taking a name from the queue.
Take(i) ==
    /\ running
    /\ working = Nil
    /\ i \in queue
    /\ queue' = queue \ {i}
    /\ UNCHANGED <<object, service, secret, clock, serviceQueue, secretQueue, running>>

SyncAbsent(i) ==
    /\ Take(i)
    /\ object[i] = NoObject
    /\ conf' = DeleteIngress(conf, i)
    /\ status' = [status EXCEPT ![i] = "none"]
    /\ UNCHANGED working

\* IngressClassFilter: an object of another class is not looked at, whatever the
\* controller made of it before.
SkipForeign(i) ==
    /\ Take(i)
    /\ object[i] # NoObject
    /\ ~object[i].ours
    /\ UNCHANGED <<working, status, conf>>

\* The Services an object needs: those of its backends, or the ones its balance
\* annotation puts in their place.
Needed(obj, b) == Cluster!Keys(Cluster!NewGslbClusterConf(b[1], obj.balance))

ServicesOf(obj) ==
    UNION {Needed(obj, obj.paths[k].backend) : k \in DOMAIN obj.paths}
        \cup ({DefaultBackend} \ {Nil})

\* The object, its Services and its Secrets are read, without the mutex.
ReadIngress(i) ==
    /\ Take(i)
    /\ object[i] # NoObject
    /\ object[i].ours
    /\ working' = [stage    |-> "update",
                   ingress  |-> i,
                   obj      |-> object[i],
                   services |-> [s \in Service |-> IF s \in ServicesOf(object[i])
                                                   THEN service[s] ELSE NoObject],
                   secrets  |-> [s \in Secret |-> IF s \in Tls!Listed(object[i].tls)
                                                  THEN secret[s] ELSE NoObject]]
    /\ UNCHANGED <<status, conf>>

apis == <<object, service, secret, clock, serviceQueue, secretQueue>>

\* getIngressBackends and getIngressSecret: what the object needs was there.
Ready(w) ==
    /\ \A k \in DOMAIN w.obj.paths :
          LET b == w.obj.paths[k].backend
          IN  \A s \in Needed(w.obj, b) :
                 /\ w.services[s] # NoObject
                 /\ w.services[s].ports[b[2]] # "absent"
                 /\ w.services[s].subset
    /\ \A s \in Tls!Listed(w.obj.tls) : w.secrets[s] # NoObject

ApplyAccepted(valid) ==
    /\ working # Nil
    /\ working.stage = "update"
    /\ Ready(working)
    /\ LET u == UpdateIngress(conf, working.ingress, working.obj, working.services,
                              working.secrets, valid)
       IN  /\ ~u.err
           /\ conf' = u.conf
    /\ working' = Nil
    /\ status' = [status EXCEPT ![working.ingress] = "success"]
    /\ UNCHANGED <<apis, queue, running>>

ApplyRefused(valid) ==
    /\ working # Nil
    /\ working.stage = "update"
    /\ Ready(working)
    /\ LET u == UpdateIngress(conf, working.ingress, working.obj, working.services,
                              working.secrets, valid)
       IN  /\ u.err
           /\ conf' = u.conf
    /\ working' = [stage |-> "withdraw", ingress |-> working.ingress]
    /\ UNCHANGED <<apis, queue, status, running>>

\* An Ingress that is refused, or that lacks something, is withdrawn, and its name
\* goes back to the queue.
Withdraw ==
    /\ working # Nil
    /\ working.stage = "update" => ~Ready(working)
    /\ conf' = DeleteIngress(conf, working.ingress)
    /\ working' = Nil
    /\ status' = [status EXCEPT ![working.ingress] = "error"]
    /\ queue' = queue \cup {working.ingress}
    /\ UNCHANGED <<apis, running>>

-----------------------------------------------------------------------------
(* The machine: the other reconcilers, and the process. *)

SyncService(s) ==
    /\ running
    /\ s \in serviceQueue
    /\ serviceQueue' = serviceQueue \ {s}
    /\ conf' \in IF service[s] = NoObject THEN {conf}
                 ELSE {[conf EXCEPT !.cluster = c] :
                          c \in Cluster!UpdateServiceResults(conf.cluster, s, service[s])}
    /\ UNCHANGED <<object, service, secret, clock, queue, secretQueue, working, status,
                   running>>

\* Mutant of SyncSecret: whatever the Secret holds is taken for a certificate.
BugTakesAnyCert(s) ==
    /\ running
    /\ s \in secretQueue
    /\ secretQueue' = secretQueue \ {s}
    /\ conf' = IF secret[s] = NoObject THEN conf
               ELSE [conf EXCEPT !.tls.certs = [@ EXCEPT ![s] = secret[s]]]
    /\ UNCHANGED <<object, service, secret, clock, queue, serviceQueue, working, status,
                   running>>

SyncSecret(s) ==
    /\ running
    /\ s \in secretQueue
    /\ secretQueue' = secretQueue \ {s}
    /\ conf' = IF secret[s] = NoObject THEN conf
               ELSE [conf EXCEPT !.tls = Tls!UpdateSecret(@, s, secret[s]).conf]
    /\ UNCHANGED <<object, service, secret, clock, queue, serviceQueue, working, status,
                   running>>

\* The process goes down, and what it held in memory with it.
PanicService(s) ==
    /\ running
    /\ s \in serviceQueue
    /\ service[s] # NoObject
    /\ Cluster!UpdateServicePanics(conf.cluster, s, service[s])
    /\ running' = FALSE
    /\ working' = Nil
    /\ conf' = NewConfigBuilder
    /\ queue' = {}
    /\ serviceQueue' = {}
    /\ secretQueue' = {}
    /\ status' = [i \in Ingress |-> "none"]
    /\ UNCHANGED <<object, service, secret, clock>>

\* The new process lists every object.
Restart ==
    /\ ~running
    /\ running' = TRUE
    /\ queue' = {i \in Ingress : object[i] # NoObject}
    /\ serviceQueue' = {s \in Service : service[s] # NoObject}
    /\ secretQueue' = {s \in Secret : secret[s] # NoObject}
    /\ UNCHANGED <<object, service, secret, clock, working, status, conf>>

Next ==
    \/ Tick
    \/ Restart
    \/ \E i \in Ingress : \/ ChangeIngress(i)
                          \/ SyncAbsent(i) \/ SkipForeign(i) \/ ReadIngress(i)
    \/ \E valid \in Verdict : ApplyAccepted(valid) \/ ApplyRefused(valid)
    \/ Withdraw
    \/ \E s \in Service : ChangeService(s) \/ SyncService(s) \/ PanicService(s)
    \/ \E s \in Secret : ChangeSecret(s) \/ SyncSecret(s)

Spec == Init /\ [][Next]_vars

-----------------------------------------------------------------------------
(* Properties *)

\* The three configurations and the reconciler's notes have their shape.
TypeOK ==
    /\ object \in [Ingress -> Objects \cup {NoObject}]
    /\ service \in Services
    /\ secret \in Secrets
    /\ clock \in 0 .. MaxTime
    /\ queue \subseteq Ingress
    /\ serviceQueue \subseteq Service
    /\ secretQueue \subseteq Secret
    /\ working \in Note \cup {Nil}
    /\ status \in [Ingress -> {"none", "success", "error"}]
    /\ running \in BOOLEAN
    /\ conf.server \in Server!Configuration
    /\ conf.cluster \in Cluster!Configuration
    /\ conf.tls \in Tls!Configuration

InProgress(i) == working # Nil /\ working.ingress = i

Rules(i) == {r \in conf.server.cache.ruleMap : r.ingress = i}

\* An Ingress is configured in all three components or in none of them: whichever
\* component refuses it, and whatever happens before it is withdrawn, a refused or
\* deleted Ingress leaves no rule, no cluster and no certificate behind.
AllOrNothing ==
    \A i \in Ingress : status[i] # "success" /\ ~InProgress(i) =>
        /\ Rules(i) = {}
        /\ conf.cluster.ingress2Cluster[i] = {}
        /\ conf.tls.ingress2secret[i] = {}

\* The route rules never forward to a cluster that clusterTableConf lacks, also
\* between the refusal of an Ingress and its withdrawal, and while Services lose
\* their ports.
RoutesHaveClusters ==
    \A r \in conf.server.cache.ruleMap : conf.cluster.clusterTableConf[r.cluster] # Nil

\* An Ingress that was accepted, and has not been changed since, has everything
\* it asks for: a cluster per path and a certificate per Secret.
AcceptedComplete ==
    \A i \in Ingress :
        /\ running /\ i \notin queue /\ ~InProgress(i)
        /\ object[i] # NoObject /\ object[i].ours /\ status[i] = "success"
        => /\ {i} \X Backends(object[i]).backends \subseteq conf.cluster.ingress2Cluster[i]
           /\ Tls!Listed(object[i].tls) \subseteq Tls!Named(conf.tls)

=============================================================================
