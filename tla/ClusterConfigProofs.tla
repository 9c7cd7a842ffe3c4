------------------------ MODULE ClusterConfigProofs ------------------------
(***************************************************************************)
(* Proofs about ClusterConfig, for any Ingresses, Services and objects.    *)
(*                                                                         *)
(* As for ServerDataConfig the argument is about one configuration record: *)
(* each method of ClusterConfig preserves ConfInv, and the machine adds    *)
(* that only accepted Ingresses have clusters.                             *)
(***************************************************************************)
EXTENDS ClusterConfig, TLAPS

Indexed(conf) ==
    \A c \in AllCluster, s \in Service :
        conf.clusterTableConf[c] # Nil /\ conf.clusterTableConf[c][s] # Nil
            => c \in conf.service2Cluster[s]

Backed(conf) ==
    \A c \in AllCluster : conf.gslbConf[c] # Nil =>
        /\ conf.clusterTableConf[c] # Nil
        /\ \A s \in Service : conf.gslbConf[c][s] # Nil => conf.clusterTableConf[c][s] # Nil

\* An Ingress has clusters of its own name only: deletion by the index cannot
\* reach those of another one.
OwnNames(conf) == \A i \in Ingress : \A c \in conf.ingress2Cluster[i] : c[1] = i

Owned(conf) ==
    \A c \in Cluster : conf.clusterTableConf[c] # Nil <=> c \in conf.ingress2Cluster[c[1]]

DefaultOwned(conf) ==
    conf.clusterTableConf[DefaultCluster] # Nil =>
        /\ DefaultBackend # Nil
        /\ \E i \in Ingress : conf.ingress2Cluster[i] # {}

ConfInv(conf) ==
    /\ conf \in Configuration
    /\ Indexed(conf)
    /\ Backed(conf)
    /\ OwnNames(conf)
    /\ Owned(conf)
    /\ DefaultOwned(conf)

AcceptedOnly == \A i \in Ingress : ingress2Cluster[i] # {} => status[i] = "success"

IInv == TypeOK /\ ConfInv(clusterConf) /\ AcceptedOnly

-----------------------------------------------------------------------------
(* Lemmas about the data. *)

\* newSubClusterBackend lists addresses of the Endpoints.
LEMMA SubClusterType ==
    ASSUME NEW svc \in ServiceState, NEW t \in BOOLEAN
    PROVE  NewSubClusterBackend(svc, t) \in SUBSET Addr
<1>1. svc.addrs \in Seq(Addr)
  BY ClusterAssumption DEF ServiceObject
<1>2. Addresses(svc) \subseteq Addr
  BY <1>1 DEF Addresses
<1>3. svc.addrs # <<>> => svc.addrs[1] \in Addr
  BY <1>1
<1> QED
  BY <1>2, <1>3 DEF NewSubClusterBackend

\* newGslbClusterConf yields weights, never nothing.
LEMMA GslbType ==
    ASSUME NEW s \in Service, NEW balance \in [Service -> {Nil} \cup Weights]
    PROVE  /\ NewGslbClusterConf(s, balance) \in Weights
           /\ NewGslbClusterConf(s, balance) # Nil
<1>1. NewGslbClusterConf(s, balance) \in Weights
  BY ClusterAssumption DEF NewGslbClusterConf, Weights
<1> QED
  BY <1>1, ClusterAssumption

\* Without a balance annotation all weight goes to the Service itself.
LEMMA GslbAlone ==
    ASSUME NEW s \in Service
    PROVE  /\ NewGslbClusterConf(s, NoBalance) \in Weights
           /\ NewGslbClusterConf(s, NoBalance) # Nil
           /\ \A x \in Service : NewGslbClusterConf(s, NoBalance)[x] # Nil <=> x = s
<1>1. NoBalance \in [Service -> {Nil} \cup Weights]
  BY DEF NoBalance
<1>2. NewGslbClusterConf(s, NoBalance)
          = [x \in Service |-> IF x = s THEN defaultWeight ELSE Nil]
  BY DEF NewGslbClusterConf, NoBalance
<1>3. defaultWeight # Nil
  BY ClusterAssumption
<1> QED
  BY <1>1, <1>2, <1>3, GslbType

\* The services an update was given suffice for the clusters of the object.
Given(obj, services) ==
    \A b \in obj.backends : \A s \in Service :
        NewGslbClusterConf(b[1], obj.balance)[s] # Nil => services[s] \in ServiceState

\* A cluster has a sub-cluster exactly for the Services with a weight.
LEMMA ClusterBackendType ==
    ASSUME NEW obj \in Manifest, NEW services, Given(obj, services), NEW b \in obj.backends
    PROVE  LET n == NewClusterBackend(b, obj.balance, services)
           IN  /\ n \in SubClusters
               /\ n # Nil
               /\ \A s \in Service :
                     n[s] # Nil <=> NewGslbClusterConf(b[1], obj.balance)[s] # Nil
<1> DEFINE n == NewClusterBackend(b, obj.balance, services)
           g == NewGslbClusterConf(b[1], obj.balance)
<1>1. ASSUME NEW s \in Service, g[s] # Nil
      PROVE  n[s] \in SUBSET Addr /\ n[s] # Nil
  <2>1. services[s] \in ServiceState
    BY <1>1 DEF Given
  <2>2. HasTarget(services[s], b[2]) \in BOOLEAN
    BY DEF HasTarget
  <2>3. n[s] = NewSubClusterBackend(services[s], HasTarget(services[s], b[2]))
    BY <1>1 DEF NewClusterBackend
  <2>4. n[s] \in SUBSET Addr
    BY <2>1, <2>2, <2>3, SubClusterType
  <2> QED
    BY <2>4, ClusterAssumption
<1>2. ASSUME NEW s \in Service, g[s] = Nil
      PROVE  n[s] = Nil
  BY <1>2 DEF NewClusterBackend
<1>3. n = [s \in Service |-> n[s]]
  BY DEF NewClusterBackend
<1>4. n \in SubClusters
  <2>1. \A s \in Service : n[s] \in {Nil} \cup SUBSET Addr
    BY <1>1, <1>2
  <2> HIDE DEF n
  <2> QED
    BY <1>3, <2>1 DEF SubClusters
<1>5. n # Nil
  BY <1>4, ClusterAssumption
<1> QED
  BY <1>1, <1>2, <1>4, <1>5

-----------------------------------------------------------------------------
(* Lemmas about the operations. *)

\* The empty configuration.
LEMMA NewConf == ConfInv(NewClusterConfig)
<1>1. NewClusterConfig \in Configuration
  BY DEF NewClusterConfig, Configuration
<1>2. \A c \in AllCluster : /\ NewClusterConfig.clusterTableConf[c] = Nil
                            /\ NewClusterConfig.gslbConf[c] = Nil
  BY DEF NewClusterConfig
<1>3. \A i \in Ingress : NewClusterConfig.ingress2Cluster[i] = {}
  BY DEF NewClusterConfig
<1>4. DefaultCluster \in AllCluster /\ Cluster \subseteq AllCluster
  BY DEF AllCluster
<1>5. \A c \in Cluster : c[1] \in Ingress
  BY DEF Cluster
<1> QED
  BY <1>1, <1>2, <1>3, <1>4, <1>5
     DEF ConfInv, Indexed, Backed, OwnNames, Owned, DefaultOwned

\* The clusters of an Ingress go, and nothing else.
LEMMA WithoutClustersInv ==
    ASSUME NEW conf, ConfInv(conf), NEW i \in Ingress
    PROVE  LET r == WithoutClusters(conf, i)
           IN  /\ r \in Configuration
               /\ Indexed(r) /\ Backed(r) /\ OwnNames(r) /\ Owned(r)
               /\ r.ingress2Cluster = [conf.ingress2Cluster EXCEPT ![i] = {}]
               /\ r.clusterTableConf[DefaultCluster] = conf.clusterTableConf[DefaultCluster]
<1> DEFINE r == WithoutClusters(conf, i)
           mine == conf.ingress2Cluster[i]
           tbl == conf.clusterTableConf
<1>1. /\ conf \in Configuration /\ Indexed(conf) /\ Backed(conf)
      /\ OwnNames(conf) /\ Owned(conf)
  BY DEF ConfInv
<1>2. /\ conf.ingress2Cluster \in [Ingress -> SUBSET Cluster]
      /\ conf.service2Cluster \in [Service -> SUBSET AllCluster]
      /\ conf.gslbConf \in [AllCluster -> {Nil} \cup Weights]
      /\ tbl \in [AllCluster -> {Nil} \cup SubClusters]
  BY <1>1 DEF Configuration
<1>3. mine \subseteq Cluster /\ DefaultCluster \notin mine /\ Cluster \subseteq AllCluster
      /\ DefaultCluster \in AllCluster
  BY <1>2, ClusterAssumption DEF AllCluster
<1>4. /\ r.ingress2Cluster = [conf.ingress2Cluster EXCEPT ![i] = {}]
      /\ r.service2Cluster =
            [s \in Service |->
                {c \in conf.service2Cluster[s] :
                    ~ (c \in mine /\ tbl[c] # Nil /\ tbl[c][s] # Nil)}]
      /\ r.gslbConf = [c \in AllCluster |-> IF c \in mine THEN Nil ELSE conf.gslbConf[c]]
      /\ r.clusterTableConf = [c \in AllCluster |-> IF c \in mine THEN Nil ELSE tbl[c]]
  BY DEF WithoutClusters
<1>5. r \in Configuration
  <2>1. r.service2Cluster \in [Service -> SUBSET AllCluster]
    BY <1>2, <1>4
  <2>2. /\ r.ingress2Cluster \in [Ingress -> SUBSET Cluster]
        /\ r.gslbConf \in [AllCluster -> {Nil} \cup Weights]
        /\ r.clusterTableConf \in [AllCluster -> {Nil} \cup SubClusters]
    BY <1>2, <1>4
  <2>3. r = [ingress2Cluster |-> r.ingress2Cluster, service2Cluster |-> r.service2Cluster,
             gslbConf |-> r.gslbConf, clusterTableConf |-> r.clusterTableConf]
    BY DEF WithoutClusters
  <2> HIDE DEF r
  <2> QED
    BY <2>1, <2>2, <2>3 DEF Configuration
<1> HIDE DEF r, mine, tbl
<1>6. Indexed(r)
  BY <1>1, <1>2, <1>3, <1>4 DEF Indexed, tbl
<1>7. Backed(r)
  BY <1>1, <1>2, <1>3, <1>4 DEF Backed, tbl
<1>8. OwnNames(r)
  BY <1>1, <1>2, <1>4 DEF OwnNames
<1>9. Owned(r)
  <2> SUFFICES ASSUME NEW c \in Cluster
               PROVE  r.clusterTableConf[c] # Nil <=> c \in r.ingress2Cluster[c[1]]
    BY DEF Owned
  <2>1. c[1] \in Ingress /\ c \in AllCluster
    BY <1>3 DEF Cluster
  <2>2. tbl[c] # Nil <=> c \in conf.ingress2Cluster[c[1]]
    BY <1>1 DEF Owned, tbl
  <2>3. CASE c[1] = i
    <3>1. tbl[c] # Nil <=> c \in mine
      BY <2>2, <2>3 DEF mine
    <3>2. r.ingress2Cluster[c[1]] = {}
      BY <1>2, <1>4, <2>3
    <3> QED
      BY <1>4, <2>1, <3>1, <3>2
  <2>4. CASE c[1] # i
    <3>1. c \notin mine
      BY <1>1, <2>4 DEF OwnNames, mine
    <3>2. r.ingress2Cluster[c[1]] = conf.ingress2Cluster[c[1]]
      BY <1>2, <1>4, <2>1, <2>4
    <3> QED
      BY <1>4, <2>1, <2>2, <3>1, <3>2
  <2> QED
    BY <2>3, <2>4
<1>10. r.clusterTableConf[DefaultCluster] = tbl[DefaultCluster]
  BY <1>3, <1>4
<1> QED
  BY <1>4, <1>5, <1>6, <1>7, <1>8, <1>9, <1>10 DEF r, tbl

\* ClusterConfig.DeleteIngress leaves nothing of its Ingress, and the default
\* cluster only if another Ingress remains.
LEMMA DeleteIngressInv ==
    ASSUME NEW conf, ConfInv(conf), NEW i \in Ingress
    PROVE  LET d == DeleteIngress(conf, i)
           IN  /\ ConfInv(d)
               /\ d.ingress2Cluster = [conf.ingress2Cluster EXCEPT ![i] = {}]
<1> DEFINE rest == WithoutClusters(conf, i)
<1>1. /\ rest \in Configuration
      /\ Indexed(rest) /\ Backed(rest) /\ OwnNames(rest) /\ Owned(rest)
      /\ rest.ingress2Cluster = [conf.ingress2Cluster EXCEPT ![i] = {}]
      /\ rest.clusterTableConf[DefaultCluster] = conf.clusterTableConf[DefaultCluster]
  BY WithoutClustersInv
<1>2. conf.ingress2Cluster \in [Ingress -> SUBSET Cluster]
  BY DEF ConfInv, Configuration
<1>3. CASE conf.ingress2Cluster[i] = {}
  <2>1. DeleteIngress(conf, i) = conf
    BY <1>3 DEF DeleteIngress
  <2>2. conf.ingress2Cluster = [conf.ingress2Cluster EXCEPT ![i] = {}]
    BY <1>2, <1>3
  <2> QED
    BY <2>1, <2>2
<1> HIDE DEF rest
<1>4. CASE /\ conf.ingress2Cluster[i] # {}
           /\ DefaultBackend # Nil /\ \A j \in Ingress : rest.ingress2Cluster[j] = {}
  <2> DEFINE d == DelDefaultBackend(rest)
  <2>1. DeleteIngress(conf, i) = d
    BY <1>4 DEF DeleteIngress, rest
  <2>2. /\ rest.ingress2Cluster \in [Ingress -> SUBSET Cluster]
        /\ rest.service2Cluster \in [Service -> SUBSET AllCluster]
        /\ rest.gslbConf \in [AllCluster -> {Nil} \cup Weights]
        /\ rest.clusterTableConf \in [AllCluster -> {Nil} \cup SubClusters]
    BY <1>1 DEF Configuration
  <2>3. /\ d.ingress2Cluster = rest.ingress2Cluster
        /\ d.service2Cluster =
              [s \in Service |-> IF s = DefaultBackend
                                 THEN rest.service2Cluster[s] \ {DefaultCluster}
                                 ELSE rest.service2Cluster[s]]
        /\ d.gslbConf = [rest.gslbConf EXCEPT ![DefaultCluster] = Nil]
        /\ d.clusterTableConf = [rest.clusterTableConf EXCEPT ![DefaultCluster] = Nil]
    BY <1>1 DEF DelDefaultBackend, Configuration
  <2>4. d \in Configuration
    <3>1. d = [ingress2Cluster |-> d.ingress2Cluster, service2Cluster |-> d.service2Cluster,
               gslbConf |-> d.gslbConf, clusterTableConf |-> d.clusterTableConf]
      BY DEF DelDefaultBackend
    <3> HIDE DEF d
    <3>2. d.service2Cluster \in [Service -> SUBSET AllCluster]
      BY <2>2, <2>3
    <3>3. d.ingress2Cluster \in [Ingress -> SUBSET Cluster]
      BY <2>2, <2>3
    <3>4. d.gslbConf \in [AllCluster -> {Nil} \cup Weights]
      BY <2>2, <2>3
    <3>5. d.clusterTableConf \in [AllCluster -> {Nil} \cup SubClusters]
      BY <2>2, <2>3
    <3> QED
      BY <3>1, <3>2, <3>3, <3>4, <3>5 DEF Configuration
  <2> HIDE DEF d
  <2>5. DefaultCluster \in AllCluster /\ Cluster \subseteq AllCluster
    BY DEF AllCluster
  <2>6. Indexed(d) /\ Backed(d)
    BY <1>1, <2>2, <2>3, <2>5 DEF Indexed, Backed
  <2>7. OwnNames(d)
    BY <1>1, <2>3 DEF OwnNames
  <2>8. Owned(d)
    BY <1>1, <2>2, <2>3, <2>5, ClusterAssumption DEF Owned
  <2>9. DefaultOwned(d)
    BY <2>2, <2>3, <2>5 DEF DefaultOwned
  <2> QED
    BY <1>1, <2>1, <2>3, <2>4, <2>6, <2>7, <2>8, <2>9 DEF ConfInv
<1>5. CASE /\ conf.ingress2Cluster[i] # {}
           /\ ~(DefaultBackend # Nil /\ \A j \in Ingress : rest.ingress2Cluster[j] = {})
  <2>1. DeleteIngress(conf, i) = rest
    BY <1>5 DEF DeleteIngress, rest
  <2>2. DefaultOwned(rest)
    BY <1>1, <1>5 DEF DefaultOwned, ConfInv
  <2> QED
    BY <1>1, <2>1, <2>2 DEF ConfInv
<1> QED
  BY <1>3, <1>4, <1>5

\* Creating the clusters of an object with its Services at hand: each new
\* cluster is complete, indexed and the Ingress's own.
LEMMA WithClustersInv ==
    ASSUME NEW conf, ConfInv(conf), NEW i \in Ingress, NEW obj \in Manifest,
           NEW services, Given(obj, services)
    PROVE  LET w == WithClusters(conf, i, obj, services)
           IN  /\ ConfInv(w)
               /\ \A j \in Ingress \ {i} : w.ingress2Cluster[j] = conf.ingress2Cluster[j]
               /\ obj.backends # {} => w.ingress2Cluster[i] # {}
<1> DEFINE w == WithClusters(conf, i, obj, services)
           mine == {i} \X obj.backends
           gl(c) == NewGslbClusterConf(c[2][1], obj.balance)
           new(c) == NewClusterBackend(c[2], obj.balance, services)
<1>1. /\ Indexed(conf) /\ Backed(conf) /\ OwnNames(conf) /\ Owned(conf)
      /\ DefaultOwned(conf)
  BY DEF ConfInv
<1>2. /\ conf.ingress2Cluster \in [Ingress -> SUBSET Cluster]
      /\ conf.service2Cluster \in [Service -> SUBSET AllCluster]
      /\ conf.gslbConf \in [AllCluster -> {Nil} \cup Weights]
      /\ conf.clusterTableConf \in [AllCluster -> {Nil} \cup SubClusters]
  BY DEF ConfInv, Configuration
<1>3. /\ obj.backends \subseteq Backend
      /\ obj.balance \in [Service -> {Nil} \cup Weights]
  BY ClusterAssumption DEF IngressObject
<1>4. /\ mine \subseteq Cluster /\ Cluster \subseteq AllCluster
      /\ DefaultCluster \in AllCluster /\ DefaultCluster \notin mine
      /\ \A c \in mine : c[1] = i /\ c[2] \in obj.backends /\ c[2][1] \in Service
  BY <1>3, ClusterAssumption DEF Cluster, AllCluster, Backend
<1>5. \A c \in mine : gl(c) \in Weights /\ gl(c) # Nil
  BY <1>3, <1>4, GslbType
<1>6. \A c \in mine : /\ new(c) \in SubClusters /\ new(c) # Nil
                      /\ \A s \in Service : new(c)[s] # Nil <=> gl(c)[s] # Nil
  BY <1>4, ClusterBackendType
<1>7. /\ w.ingress2Cluster = [conf.ingress2Cluster EXCEPT ![i] = @ \cup mine]
      /\ w.service2Cluster =
            [s \in Service |-> conf.service2Cluster[s] \cup {c \in mine : gl(c)[s] # Nil}]
      /\ w.gslbConf = [c \in AllCluster |-> IF c \in mine THEN gl(c) ELSE conf.gslbConf[c]]
      /\ w.clusterTableConf =
            [c \in AllCluster |-> IF c \in mine THEN new(c) ELSE conf.clusterTableConf[c]]
      /\ w = [ingress2Cluster |-> w.ingress2Cluster, service2Cluster |-> w.service2Cluster,
              gslbConf |-> w.gslbConf, clusterTableConf |-> w.clusterTableConf]
  BY DEF WithClusters
<1>8. \A b \in obj.backends : <<i, b>> \in mine
  OBVIOUS
<1> HIDE DEF w, mine, gl, new
<1>9. w \in Configuration
  <2>1. w.ingress2Cluster \in [Ingress -> SUBSET Cluster]
    BY <1>2, <1>4, <1>7
  <2>2. w.service2Cluster \in [Service -> SUBSET AllCluster]
    BY <1>2, <1>4, <1>7
  <2>3. w.gslbConf \in [AllCluster -> {Nil} \cup Weights]
    BY <1>2, <1>5, <1>7
  <2>4. w.clusterTableConf \in [AllCluster -> {Nil} \cup SubClusters]
    BY <1>2, <1>6, <1>7
  <2> QED
    BY <1>7, <2>1, <2>2, <2>3, <2>4 DEF Configuration
<1>10. Indexed(w)
  BY <1>1, <1>2, <1>6, <1>7 DEF Indexed
<1>11. Backed(w)
  BY <1>1, <1>2, <1>6, <1>7 DEF Backed
<1>12. OwnNames(w)
  BY <1>1, <1>2, <1>4, <1>7 DEF OwnNames
<1>13. Owned(w)
  <2> SUFFICES ASSUME NEW c \in Cluster
               PROVE  w.clusterTableConf[c] # Nil <=> c \in w.ingress2Cluster[c[1]]
    BY DEF Owned
  <2>1. c[1] \in Ingress /\ c \in AllCluster
    BY <1>4 DEF Cluster
  <2>2. CASE c \in mine
    BY <1>2, <1>4, <1>6, <1>7, <2>1, <2>2
  <2>3. CASE c \notin mine
    BY <1>1, <1>2, <1>7, <2>1, <2>3 DEF Owned
  <2> QED
    BY <2>2, <2>3
<1>14. DefaultOwned(w)
  BY <1>1, <1>2, <1>4, <1>7 DEF DefaultOwned
<1> QED
  <2>1. ConfInv(w)
    BY <1>9, <1>10, <1>11, <1>12, <1>13, <1>14 DEF ConfInv
  <2>2. \A j \in Ingress \ {i} : w.ingress2Cluster[j] = conf.ingress2Cluster[j]
    BY <1>2, <1>7
  <2>3. w.ingress2Cluster[i] = conf.ingress2Cluster[i] \cup mine
    BY <1>2, <1>7
  <2>4. obj.backends # {} => w.ingress2Cluster[i] # {}
    BY <1>8, <2>3
  <2> QED
    BY <2>1, <2>2, <2>4 DEF w

\* addDefautBackend after some Ingress got a cluster.
LEMMA AddDefaultBackendInv ==
    ASSUME NEW conf, ConfInv(conf), \E i \in Ingress : conf.ingress2Cluster[i] # {},
           NEW services, DefaultFound(services) => services[DefaultBackend] \in ServiceState
    PROVE  LET a == AddDefaultBackend(conf, services)
           IN  ConfInv(a) /\ a.ingress2Cluster = conf.ingress2Cluster
<1> DEFINE a == AddDefaultBackend(conf, services)
           n == [s \in Service |-> IF s = DefaultBackend
                                   THEN NewSubClusterBackend(services[s], FALSE) ELSE Nil]
           g == NewGslbClusterConf(DefaultBackend, NoBalance)
<1>1. CASE ~DefaultFound(services) \/ conf.clusterTableConf[DefaultCluster] # Nil
  BY <1>1 DEF AddDefaultBackend
<1>2. CASE DefaultFound(services) /\ conf.clusterTableConf[DefaultCluster] = Nil
  <2>1. /\ Indexed(conf) /\ Backed(conf) /\ OwnNames(conf) /\ Owned(conf)
    BY DEF ConfInv
  <2>2. /\ conf.ingress2Cluster \in [Ingress -> SUBSET Cluster]
        /\ conf.service2Cluster \in [Service -> SUBSET AllCluster]
        /\ conf.gslbConf \in [AllCluster -> {Nil} \cup Weights]
        /\ conf.clusterTableConf \in [AllCluster -> {Nil} \cup SubClusters]
    BY DEF ConfInv, Configuration
  <2>3. DefaultBackend \in Service /\ DefaultBackend # Nil
    BY <1>2, ClusterAssumption DEF DefaultFound
  <2>4. /\ n[DefaultBackend] \in SUBSET Addr /\ n[DefaultBackend] # Nil
    <3>1. NewSubClusterBackend(services[DefaultBackend], FALSE) \in SUBSET Addr
      BY <1>2, SubClusterType
    <3> QED
      BY <2>3, <3>1, ClusterAssumption
  <2>5. n \in SubClusters /\ n # Nil
    <3>1. \A s \in Service : n[s] \in {Nil} \cup SUBSET Addr
      BY <2>4
    <3>2. n = [s \in Service |-> n[s]]
      OBVIOUS
    <3> HIDE DEF n
    <3>3. n \in SubClusters
      BY <3>1, <3>2 DEF SubClusters
    <3> QED
      BY <3>3, ClusterAssumption
  <2>6. \A s \in Service : n[s] # Nil <=> s = DefaultBackend
    BY <2>4
  <2>7. g \in Weights /\ g # Nil /\ \A s \in Service : g[s] # Nil <=> s = DefaultBackend
    BY <2>3, GslbAlone
  <2>8. /\ a.ingress2Cluster = conf.ingress2Cluster
        /\ a.service2Cluster =
              [conf.service2Cluster EXCEPT ![DefaultBackend] = @ \cup {DefaultCluster}]
        /\ a.gslbConf = [conf.gslbConf EXCEPT ![DefaultCluster] = g]
        /\ a.clusterTableConf = [conf.clusterTableConf EXCEPT ![DefaultCluster] = n]
        /\ a = [ingress2Cluster |-> a.ingress2Cluster, service2Cluster |-> a.service2Cluster,
                gslbConf |-> a.gslbConf, clusterTableConf |-> a.clusterTableConf]
    BY <1>2 DEF AddDefaultBackend
  <2>9. DefaultCluster \in AllCluster /\ DefaultCluster \notin Cluster
        /\ Cluster \subseteq AllCluster
    BY ClusterAssumption DEF AllCluster
  <2> HIDE DEF a, n, g
  <2>10. a \in Configuration
    <3>1. a.service2Cluster \in [Service -> SUBSET AllCluster]
      <4>1. conf.service2Cluster[DefaultBackend] \cup {DefaultCluster} \in SUBSET AllCluster
        BY <2>2, <2>3, <2>9
      <4> QED
        BY <2>2, <2>8, <4>1
    <3>2. a.gslbConf \in [AllCluster -> {Nil} \cup Weights]
      BY <2>2, <2>7, <2>8
    <3>3. a.clusterTableConf \in [AllCluster -> {Nil} \cup SubClusters]
      BY <2>2, <2>5, <2>8
    <3> QED
      BY <2>2, <2>8, <3>1, <3>2, <3>3 DEF Configuration
  <2>11. Indexed(a)
    BY <2>1, <2>2, <2>3, <2>6, <2>8, <2>9 DEF Indexed
  <2>12. Backed(a)
    BY <2>1, <2>2, <2>5, <2>6, <2>7, <2>8, <2>9 DEF Backed
  <2>13. OwnNames(a)
    BY <2>1, <2>8 DEF OwnNames
  <2>14. Owned(a)
    BY <2>1, <2>2, <2>8, <2>9 DEF Owned
  <2>15. DefaultOwned(a)
    BY <2>3, <2>8 DEF DefaultOwned
  <2> QED
    BY <2>8, <2>10, <2>11, <2>12, <2>13, <2>14, <2>15 DEF ConfInv, a
<1> QED
  BY <1>1, <1>2

\* UpdateService rewrites sub-clusters of clusters that the index and the table
\* have; it may stop after any of them.
LEMMA RefreshServiceInv ==
    ASSUME NEW conf, ConfInv(conf), NEW s \in Service, NEW svc \in ServiceState,
           NEW cs \in SUBSET conf.service2Cluster[s],
           \A c \in cs : conf.clusterTableConf[c] # Nil
    PROVE  LET r == RefreshService(conf, s, svc, cs)
           IN  /\ ConfInv(r)
               /\ r.ingress2Cluster = conf.ingress2Cluster
               /\ r.service2Cluster = conf.service2Cluster
<1> DEFINE r == RefreshService(conf, s, svc, cs)
           alone == NewGslbClusterConf(s, NoBalance)
           addrs(c) == NewSubClusterBackend(svc, HasTarget(svc, ParsePort(c)))
           tbl == conf.clusterTableConf
<1>1. /\ Indexed(conf) /\ Backed(conf) /\ OwnNames(conf) /\ Owned(conf)
      /\ DefaultOwned(conf)
  BY DEF ConfInv
<1>2. /\ conf.ingress2Cluster \in [Ingress -> SUBSET Cluster]
      /\ conf.service2Cluster \in [Service -> SUBSET AllCluster]
      /\ conf.gslbConf \in [AllCluster -> {Nil} \cup Weights]
      /\ tbl \in [AllCluster -> {Nil} \cup SubClusters]
  BY DEF ConfInv, Configuration
<1>3. /\ alone \in Weights /\ alone # Nil
      /\ \A x \in Service : alone[x] # Nil <=> x = s
  BY GslbAlone
<1>4. \A c : addrs(c) \in SUBSET Addr /\ addrs(c) # Nil
  <2> SUFFICES ASSUME NEW c PROVE addrs(c) \in SUBSET Addr /\ addrs(c) # Nil
    OBVIOUS
  <2>1. HasTarget(svc, ParsePort(c)) \in BOOLEAN
    BY DEF HasTarget
  <2>2. addrs(c) \in SUBSET Addr
    BY <2>1, SubClusterType
  <2> QED
    BY <2>2, ClusterAssumption
<1>5. /\ r.ingress2Cluster = conf.ingress2Cluster
      /\ r.service2Cluster = conf.service2Cluster
      /\ r.gslbConf = [c \in AllCluster |-> IF c \in cs THEN alone ELSE conf.gslbConf[c]]
      /\ r.clusterTableConf =
            [c \in AllCluster |->
                IF c \in cs THEN [tbl[c] EXCEPT ![s] = addrs(c)] ELSE tbl[c]]
      /\ r = [ingress2Cluster |-> r.ingress2Cluster, service2Cluster |-> r.service2Cluster,
              gslbConf |-> r.gslbConf, clusterTableConf |-> r.clusterTableConf]
  BY DEF RefreshService
<1>6. \A c \in cs : c \in AllCluster /\ tbl[c] \in SubClusters /\ tbl[c] # Nil
  BY <1>2
<1> HIDE DEF r, alone, addrs, tbl
<1>7. ASSUME NEW c \in cs
      PROVE  /\ r.clusterTableConf[c] \in SubClusters
             /\ r.clusterTableConf[c] # Nil
             /\ r.clusterTableConf[c][s] # Nil
             /\ \A x \in Service \ {s} : r.clusterTableConf[c][x] = tbl[c][x]
  <2>1. r.clusterTableConf[c] = [tbl[c] EXCEPT ![s] = addrs(c)]
    BY <1>5, <1>6
  <2>2. tbl[c] \in [Service -> {Nil} \cup SUBSET Addr]
    BY <1>6 DEF SubClusters
  <2>3. r.clusterTableConf[c] \in SubClusters
    BY <1>4, <2>1, <2>2 DEF SubClusters
  <2>4. r.clusterTableConf[c] # Nil
    BY <2>3, ClusterAssumption
  <2> QED
    BY <1>4, <2>1, <2>2, <2>3, <2>4
<1>8. \A c \in AllCluster \ cs : r.clusterTableConf[c] = tbl[c]
  BY <1>5
<1>9. r \in Configuration
  <2>1. r.gslbConf \in [AllCluster -> {Nil} \cup Weights]
    BY <1>2, <1>3, <1>5
  <2>2. r.clusterTableConf \in [AllCluster -> {Nil} \cup SubClusters]
    <3>1. \A c \in AllCluster : r.clusterTableConf[c] \in {Nil} \cup SubClusters
      BY <1>2, <1>7, <1>8
    <3>2. r.clusterTableConf = [c \in AllCluster |-> r.clusterTableConf[c]]
      BY <1>5
    <3> QED
      BY <3>1, <3>2
  <2> QED
    BY <1>2, <1>5, <2>1, <2>2 DEF Configuration
<1>10. Indexed(r)
  BY <1>1, <1>5, <1>6, <1>7, <1>8 DEF Indexed, tbl
<1>11. Backed(r)
  <2> SUFFICES ASSUME NEW c \in AllCluster, r.gslbConf[c] # Nil
               PROVE  /\ r.clusterTableConf[c] # Nil
                      /\ \A x \in Service :
                            r.gslbConf[c][x] # Nil => r.clusterTableConf[c][x] # Nil
    BY DEF Backed
  <2>1. CASE c \in cs
    <3>1. r.gslbConf[c] = alone
      BY <1>5, <2>1
    <3> QED
      BY <1>3, <1>7, <2>1, <3>1
  <2>2. CASE c \notin cs
    <3>1. r.gslbConf[c] = conf.gslbConf[c]
      BY <1>5, <2>2
    <3> QED
      BY <1>1, <1>8, <2>2, <3>1 DEF Backed, tbl
  <2> QED
    BY <2>1, <2>2
<1>12. OwnNames(r)
  BY <1>1, <1>5 DEF OwnNames
<1>13. Owned(r)
  <2>1. Cluster \subseteq AllCluster
    BY DEF AllCluster
  <2> QED
    BY <1>1, <1>5, <1>6, <1>7, <1>8, <2>1 DEF Owned, tbl
<1>14. DefaultOwned(r)
  <2>1. DefaultCluster \in AllCluster
    BY DEF AllCluster
  <2> QED
    BY <1>1, <1>5, <1>6, <1>8, <2>1 DEF DefaultOwned, tbl
<1> QED
  BY <1>5, <1>9, <1>10, <1>11, <1>12, <1>13, <1>14 DEF ConfInv, r

\* DeleteService takes the Service out of its clusters and their weights alike.
LEMMA DeleteServiceInv ==
    ASSUME NEW conf, ConfInv(conf), NEW s \in Service
    PROVE  LET d == DeleteService(conf, s)
           IN  ConfInv(d) /\ d.ingress2Cluster = conf.ingress2Cluster
<1> DEFINE d == DeleteService(conf, s)
           cs == conf.service2Cluster[s]
           tbl == conf.clusterTableConf
           less(c) == Without(conf.gslbConf[c], s)
<1>1. /\ Indexed(conf) /\ Backed(conf) /\ OwnNames(conf) /\ Owned(conf)
      /\ DefaultOwned(conf)
  BY DEF ConfInv
<1>2. /\ conf.ingress2Cluster \in [Ingress -> SUBSET Cluster]
      /\ conf.service2Cluster \in [Service -> SUBSET AllCluster]
      /\ conf.gslbConf \in [AllCluster -> {Nil} \cup Weights]
      /\ tbl \in [AllCluster -> {Nil} \cup SubClusters]
  BY DEF ConfInv, Configuration
<1>3. /\ d.ingress2Cluster = conf.ingress2Cluster
      /\ d.service2Cluster = conf.service2Cluster
      /\ d.gslbConf =
            [c \in AllCluster |->
                IF c \notin cs THEN conf.gslbConf[c]
                ELSE IF less(c) = Nil \/ Keys(less(c)) = {} THEN Nil
                ELSE less(c)]
      /\ d.clusterTableConf =
            [c \in AllCluster |-> IF c \in cs THEN Without(tbl[c], s) ELSE tbl[c]]
      /\ d = [ingress2Cluster |-> d.ingress2Cluster, service2Cluster |-> d.service2Cluster,
              gslbConf |-> d.gslbConf, clusterTableConf |-> d.clusterTableConf]
  BY DEF DeleteService
<1>4. cs \subseteq AllCluster
  BY <1>2
<1> HIDE DEF d, cs, tbl, less
<1>5. ASSUME NEW c \in AllCluster
      PROVE  /\ d.clusterTableConf[c] \in {Nil} \cup SubClusters
             /\ d.clusterTableConf[c] = Nil <=> tbl[c] = Nil
             /\ \A x \in Service : tbl[c] # Nil /\ d.clusterTableConf[c][x] # Nil
                    => tbl[c][x] # Nil
             /\ \A x \in Service : (c \in cs => x # s) /\ tbl[c] # Nil
                    => d.clusterTableConf[c][x] = tbl[c][x]
  <2>1. CASE c \notin cs
    BY <1>2, <1>3, <2>1
  <2>2. CASE c \in cs
    <3>1. d.clusterTableConf[c] = Without(tbl[c], s)
      BY <1>3, <2>2
    <3>2. CASE tbl[c] = Nil
      BY <3>1, <3>2 DEF Without
    <3>3. CASE tbl[c] # Nil
      <4>1. tbl[c] \in [Service -> {Nil} \cup SUBSET Addr]
        BY <1>2, <3>3 DEF SubClusters
      <4>2. d.clusterTableConf[c] = [tbl[c] EXCEPT ![s] = Nil]
        BY <3>1, <3>3 DEF Without
      <4>3. d.clusterTableConf[c] \in SubClusters
        BY <4>1, <4>2 DEF SubClusters
      <4>4. d.clusterTableConf[c] # Nil
        BY <4>3, ClusterAssumption
      <4>5. /\ d.clusterTableConf[c][s] = Nil
            /\ \A x \in Service \ {s} : d.clusterTableConf[c][x] = tbl[c][x]
        BY <4>1, <4>2
      <4> QED
        BY <2>2, <3>3, <4>3, <4>4, <4>5
    <3> QED
      BY <3>2, <3>3
  <2> QED
    BY <2>1, <2>2
<1>6. ASSUME NEW c \in AllCluster
      PROVE  /\ d.gslbConf[c] \in {Nil} \cup Weights
             /\ d.gslbConf[c] # Nil =>
                    /\ conf.gslbConf[c] # Nil
                    /\ \A x \in Service : d.gslbConf[c][x] # Nil
                          => conf.gslbConf[c][x] # Nil /\ (c \in cs => x # s)
  <2>1. CASE c \notin cs
    BY <1>2, <1>3, <2>1
  <2>2. CASE c \in cs
    <3> DEFINE g == conf.gslbConf[c]
    <3>1. d.gslbConf[c] = Nil \/ d.gslbConf[c] = Without(g, s)
      BY <1>3, <2>2 DEF less
    <3>2. CASE g = Nil
      BY <3>1, <3>2 DEF Without
    <3>3. CASE g # Nil
      <4>1. g \in [Service -> {Nil} \cup Weight]
        BY <1>2, <3>3 DEF Weights
      <4> HIDE DEF g
      <4>2. Without(g, s) = [g EXCEPT ![s] = Nil]
        BY <3>3 DEF Without
      <4>3. Without(g, s) \in Weights
        BY <4>1, <4>2 DEF Weights
      <4>4. /\ Without(g, s)[s] = Nil
            /\ \A x \in Service \ {s} : Without(g, s)[x] = g[x]
        BY <4>1, <4>2
      <4> QED
        BY <2>2, <3>1, <3>3, <4>3, <4>4 DEF g
    <3> QED
      BY <3>2, <3>3
  <2> QED
    BY <2>1, <2>2
<1>7. d \in Configuration
  <2>1. d.gslbConf \in [AllCluster -> {Nil} \cup Weights]
    <3>1. d.gslbConf = [c \in AllCluster |-> d.gslbConf[c]]
      BY <1>3
    <3> QED
      BY <1>6, <3>1
  <2>2. d.clusterTableConf \in [AllCluster -> {Nil} \cup SubClusters]
    <3>1. d.clusterTableConf = [c \in AllCluster |-> d.clusterTableConf[c]]
      BY <1>3
    <3> QED
      BY <1>5, <3>1
  <2> QED
    BY <1>2, <1>3, <2>1, <2>2 DEF Configuration
<1>8. Indexed(d)
  BY <1>1, <1>3, <1>5 DEF Indexed, tbl
<1>9. Backed(d)
  BY <1>1, <1>5, <1>6 DEF Backed, tbl
<1>10. OwnNames(d)
  BY <1>1, <1>3 DEF OwnNames
<1>11. Owned(d)
  BY <1>1, <1>3, <1>5 DEF Owned, tbl, AllCluster
<1>12. DefaultOwned(d)
  BY <1>1, <1>3, <1>5 DEF DefaultOwned, tbl, AllCluster
<1> QED
  BY <1>3, <1>7, <1>8, <1>9, <1>10, <1>11, <1>12 DEF ConfInv, d

\* Whatever UpdateService does before it stops or panics, the configuration stays
\* consistent, and no cluster comes or goes.
LEMMA UpdateServiceInv ==
    ASSUME NEW conf, ConfInv(conf), NEW s \in Service, NEW svc \in ServiceState,
           NEW u \in UpdateServiceResults(conf, s, svc)
    PROVE  ConfInv(u) /\ u.ingress2Cluster = conf.ingress2Cluster
<1> DEFINE cs == conf.service2Cluster[s]
           good == cs \ (Lacking(conf, s, svc) \cup Dangling(conf, s))
<1>1. \A c \in cs \ Dangling(conf, s) : conf.clusterTableConf[c] # Nil
  BY DEF Dangling
<1>2. CASE Lacking(conf, s, svc) # {}
  <2>1. PICK done \in SUBSET good : u = DeleteService(RefreshService(conf, s, svc, done), s)
    BY <1>2 DEF UpdateServiceResults
  <2>2. done \in SUBSET cs /\ \A c \in done : conf.clusterTableConf[c] # Nil
    BY <1>1, <2>1
  <2> DEFINE r == RefreshService(conf, s, svc, done)
  <2>3. ConfInv(r) /\ r.ingress2Cluster = conf.ingress2Cluster
    BY <2>2, RefreshServiceInv
  <2> HIDE DEF r
  <2>4. ConfInv(DeleteService(r, s))
        /\ DeleteService(r, s).ingress2Cluster = r.ingress2Cluster
    BY <2>3, DeleteServiceInv
  <2> QED
    BY <2>1, <2>3, <2>4 DEF r
<1>3. CASE Lacking(conf, s, svc) = {}
  <2>1. Dangling(conf, s) = {} /\ u = RefreshService(conf, s, svc, cs)
    BY <1>3 DEF UpdateServiceResults
  <2> QED
    BY <1>1, <2>1, RefreshServiceInv
<1> QED
  BY <1>2, <1>3

\* ClusterConfig.UpdateIngress: accepted, its Ingress may have clusters; refused,
\* it has none.  Those of the others stay.
LEMMA UpdateIngressInv ==
    ASSUME NEW conf, ConfInv(conf), NEW i \in Ingress, NEW obj \in Manifest,
           NEW services, Given(obj, services), NEW valid \in BOOLEAN,
           DefaultFound(services) => services[DefaultBackend] \in ServiceState
    PROVE  LET u == UpdateIngress(conf, i, obj, services, valid)
           IN  /\ ConfInv(u.conf)
               /\ \A j \in Ingress \ {i} :
                     u.conf.ingress2Cluster[j] = conf.ingress2Cluster[j]
               /\ u.err => u.conf.ingress2Cluster[i] = {}
<1> DEFINE u == UpdateIngress(conf, i, obj, services, valid)
           w == WithClusters(conf, i, obj, services)
           new == AddDefaultBackend(w, services)
<1>1. CASE obj.backends = {}
  BY <1>1 DEF UpdateIngress
<1>2. CASE obj.backends # {}
  <2>1. /\ ConfInv(w)
        /\ \A j \in Ingress \ {i} : w.ingress2Cluster[j] = conf.ingress2Cluster[j]
        /\ w.ingress2Cluster[i] # {}
    BY <1>2, WithClustersInv
  <2> HIDE DEF w
  <2>2. ConfInv(new) /\ new.ingress2Cluster = w.ingress2Cluster
    BY <2>1, AddDefaultBackendInv
  <2> HIDE DEF new
  <2>3. CASE valid
    <3>1. u = [conf |-> new, err |-> FALSE]
      BY <1>2, <2>3 DEF UpdateIngress, new, w
    <3> QED
      BY <2>1, <2>2, <3>1
  <2>4. CASE ~valid
    <3>1. u = [conf |-> DeleteIngress(new, i), err |-> TRUE]
      BY <1>2, <2>4 DEF UpdateIngress, new, w
    <3>2. /\ ConfInv(DeleteIngress(new, i))
          /\ DeleteIngress(new, i).ingress2Cluster = [new.ingress2Cluster EXCEPT ![i] = {}]
      BY <2>2, DeleteIngressInv
    <3>3. new.ingress2Cluster \in [Ingress -> SUBSET Cluster]
      BY <2>2 DEF ConfInv, Configuration
    <3> QED
      BY <2>1, <2>2, <3>1, <3>2, <3>3
  <2> QED
    BY <2>3, <2>4
<1> QED
  BY <1>1, <1>2

-----------------------------------------------------------------------------
(* The machine. *)

\* The process starts with nothing.
LEMMA IInvInitial == Init => IInv
<1> SUFFICES ASSUME Init PROVE IInv
  OBVIOUS
<1>1. ConfInv(clusterConf)
  BY NewConf DEF Init
<1>2. TypeOK
  BY <1>1 DEF Init, TypeOK, ConfInv
<1>3. AcceptedOnly
  BY DEF Init, AcceptedOnly, ingress2Cluster, NewClusterConfig
<1> QED
  BY <1>1, <1>2, <1>3 DEF IInv

\* What getIngressBackends checked is what the update reads.
LEMMA ReadyGiven ==
    ASSUME NEW obj \in Manifest,
           NEW services \in [Service -> {NoObject} \cup ServiceState],
           Ready(obj, services)
    PROVE  Given(obj, services)
<1> SUFFICES ASSUME NEW b \in obj.backends, NEW s \in Service,
                    NewGslbClusterConf(b[1], obj.balance)[s] # Nil
             PROVE  services[s] \in ServiceState
  BY DEF Given
<1>1. services[s] # NoObject
  BY DEF Ready, Targets, Keys
<1> QED
  BY <1>1

\* The default backend that is found is an object of the API server.
LEMMA DefaultGiven ==
    ASSUME NEW services \in [Service -> {NoObject} \cup ServiceState],
           DefaultFound(services)
    PROVE  services[DefaultBackend] \in ServiceState
<1>1. DefaultBackend \in Service
  BY ClusterAssumption DEF DefaultFound
<1> QED
  BY <1>1 DEF DefaultFound

\* What the reconciler works on was an object and its Services.
LEMMA WorkingType ==
    ASSUME TypeOK, working # Nil
    PROVE  /\ working.ingress \in Ingress /\ working.obj \in Manifest
           /\ working.services \in [Service -> {NoObject} \cup ServiceState]
           /\ {working.ingress} \X working.obj.backends \subseteq Cluster
<1>1. /\ working.ingress \in Ingress /\ working.obj \in Manifest
      /\ working.services \in [Service -> {NoObject} \cup ServiceState]
  BY DEF TypeOK, Reading
<1>2. working.obj.backends \subseteq Backend
  BY <1>1, ClusterAssumption DEF IngressObject
<1> QED
  BY <1>1, <1>2 DEF Cluster

\* What was read complete is fit for an update.
LEMMA WorkingUpdate ==
    ASSUME IInv, working # Nil, Ready(working.obj, working.services), NEW valid \in BOOLEAN
    PROVE  LET u == UpdateIngress(clusterConf, working.ingress, working.obj,
                                  working.services, valid)
           IN  /\ ConfInv(u.conf)
               /\ \A j \in Ingress \ {working.ingress} :
                     u.conf.ingress2Cluster[j] = clusterConf.ingress2Cluster[j]
<1>1. /\ working.ingress \in Ingress /\ working.obj \in Manifest
      /\ working.services \in [Service -> {NoObject} \cup ServiceState]
  BY WorkingType DEF IInv
<1>2. Given(working.obj, working.services)
  BY <1>1, ReadyGiven
<1>3. DefaultFound(working.services) => working.services[DefaultBackend] \in ServiceState
  BY <1>1, DefaultGiven
<1>4. ASSUME NEW i, i = working.ingress, NEW obj, obj = working.obj,
             NEW services, services = working.services
      PROVE  LET u == UpdateIngress(clusterConf, i, obj, services, valid)
             IN  /\ ConfInv(u.conf)
                 /\ \A j \in Ingress \ {i} :
                       u.conf.ingress2Cluster[j] = clusterConf.ingress2Cluster[j]
  <2>1. /\ i \in Ingress /\ obj \in Manifest /\ Given(obj, services)
        /\ DefaultFound(services) => services[DefaultBackend] \in ServiceState
    BY <1>1, <1>2, <1>3, <1>4
  <2> QED
    BY <2>1, UpdateIngressInv DEF IInv
<1> QED
  BY <1>4

\* Deletion of the clusters of i keeps the others', whatever i's status becomes.
LEMMA DeletedAccepted ==
    ASSUME IInv, NEW i \in Ingress, NEW st,
           clusterConf' = DeleteIngress(clusterConf, i),
           status' = [status EXCEPT ![i] = st]
    PROVE  ConfInv(clusterConf)' /\ AcceptedOnly'
<1>1. /\ ConfInv(DeleteIngress(clusterConf, i))
      /\ DeleteIngress(clusterConf, i).ingress2Cluster
            = [clusterConf.ingress2Cluster EXCEPT ![i] = {}]
  BY DeleteIngressInv DEF IInv
<1>2. clusterConf.ingress2Cluster \in [Ingress -> SUBSET Cluster]
      /\ DOMAIN status = Ingress
  BY DEF IInv, TypeOK, Configuration
<1>3. clusterConf'.ingress2Cluster = [clusterConf.ingress2Cluster EXCEPT ![i] = {}]
  BY <1>1
<1> QED
  BY <1>1, <1>2, <1>3 DEF IInv, AcceptedOnly, ingress2Cluster

\* Every step of the machine preserves the invariant.
LEMMA IInvInductive == IInv /\ [Next]_vars => IInv'
<1> SUFFICES ASSUME IInv, [Next]_vars PROVE IInv'
  OBVIOUS
<1>1. TypeOK /\ ConfInv(clusterConf) /\ AcceptedOnly
  BY DEF IInv
<1>2. clusterConf.ingress2Cluster \in [Ingress -> SUBSET Cluster]
      /\ status \in [Ingress -> {"none", "success", "error"}]
  BY <1>1 DEF TypeOK, Configuration
<1>3. ASSUME Restart PROVE IInv'
  <2>1. ConfInv(clusterConf)'
    BY <1>3, NewConf DEF Restart
  <2>2. TypeOK'
    BY <1>1, <1>3, <2>1 DEF Restart, TypeOK, ConfInv
  <2>3. AcceptedOnly'
    BY <1>3 DEF Restart, AcceptedOnly, ingress2Cluster, NewClusterConfig
  <2> QED
    BY <2>1, <2>2, <2>3 DEF IInv
<1>4. ASSUME NEW i \in Ingress, ChangeIngress(i) PROVE IInv'
  <2>1. TypeOK'
    BY <1>1, <1>4 DEF ChangeIngress, TypeOK
  <2> QED
    BY <1>1, <1>4, <2>1 DEF IInv, ChangeIngress, AcceptedOnly, ingress2Cluster
<1>5. ASSUME NEW i \in Ingress, SyncAbsent(i) PROVE IInv'
  <2>1. ConfInv(clusterConf)' /\ AcceptedOnly'
    BY <1>5, DeletedAccepted DEF SyncAbsent
  <2>2. TypeOK'
    BY <1>1, <1>5, <2>1 DEF SyncAbsent, TypeOK, ConfInv, OvertakenBut
  <2> QED
    BY <2>1, <2>2 DEF IInv
<1>6. ASSUME SyncAccepted PROVE IInv'
  <2> DEFINE i == working.ingress
             u == UpdateIngress(clusterConf, i, working.obj, working.services, TRUE)
  <2>1. /\ i \in Ingress /\ working.obj \in Manifest
        /\ working.services \in [Service -> {NoObject} \cup ServiceState]
        /\ {i} \X working.obj.backends \subseteq Cluster
    BY <1>1, <1>6, WorkingType DEF SyncAccepted
  <2>2. /\ ConfInv(u.conf)
        /\ \A j \in Ingress \ {i} :
              u.conf.ingress2Cluster[j] = clusterConf.ingress2Cluster[j]
    BY <1>6, WorkingUpdate DEF SyncAccepted
  <2>3. clusterConf' = u.conf /\ status' = [status EXCEPT ![i] = "success"]
    BY <1>6 DEF SyncAccepted
  <2>4. overtaken' \subseteq Cluster \X Service
    BY <1>1, <1>6, <2>1 DEF SyncAccepted, Behind, TypeOK
  <2> HIDE DEF u
  <2>5. ConfInv(clusterConf)' /\ AcceptedOnly'
    BY <1>1, <1>2, <2>1, <2>2, <2>3 DEF AcceptedOnly, ingress2Cluster
  <2>6. TypeOK'
    BY <1>1, <1>6, <2>1, <2>3, <2>4, <2>5 DEF SyncAccepted, TypeOK, ConfInv
  <2> QED
    BY <2>5, <2>6 DEF IInv
<1>7. ASSUME SyncRefused PROVE IInv'
  <2> DEFINE i == working.ingress
             u == UpdateIngress(clusterConf, i, working.obj, working.services, FALSE)
  <2>1. /\ i \in Ingress /\ working.obj \in Manifest
        /\ working.services \in [Service -> {NoObject} \cup ServiceState]
        /\ status' = [status EXCEPT ![i] = "error"]
    BY <1>1, <1>7, WorkingType DEF SyncRefused
  <2>2. ConfInv(clusterConf)' /\ AcceptedOnly'
    <3>1. CASE clusterConf' = DeleteIngress(clusterConf, i)
      BY <2>1, <3>1, DeletedAccepted
    <3>2. CASE /\ Ready(working.obj, working.services)
               /\ clusterConf' = DeleteIngress(u.conf, i)
      <4> DEFINE c == u.conf
      <4>1. /\ ConfInv(c)
            /\ \A j \in Ingress \ {i} :
                  c.ingress2Cluster[j] = clusterConf.ingress2Cluster[j]
        BY <1>7, <3>2, WorkingUpdate DEF SyncRefused
      <4>2. clusterConf' = DeleteIngress(c, i)
        BY <3>2
      <4> HIDE DEF c
      <4>3. /\ ConfInv(DeleteIngress(c, i))
            /\ DeleteIngress(c, i).ingress2Cluster = [c.ingress2Cluster EXCEPT ![i] = {}]
        BY <2>1, <4>1, DeleteIngressInv
      <4>4. c.ingress2Cluster \in [Ingress -> SUBSET Cluster]
        BY <4>1 DEF ConfInv, Configuration
      <4>5. \A j \in Ingress : clusterConf'.ingress2Cluster[j]
                = IF j = i THEN {} ELSE clusterConf.ingress2Cluster[j]
        BY <2>1, <4>1, <4>2, <4>3, <4>4
      <4> QED
        BY <1>1, <1>2, <2>1, <4>2, <4>3, <4>5 DEF AcceptedOnly, ingress2Cluster
    <3> QED
      BY <1>7, <3>1, <3>2 DEF SyncRefused
  <2>3. TypeOK'
    BY <1>1, <1>7, <2>1, <2>2 DEF SyncRefused, TypeOK, ConfInv, OvertakenBut
  <2> QED
    BY <2>2, <2>3 DEF IInv
<1>8. ASSUME NEW s \in Service, ChangeService(s) PROVE IInv'
  <2>1. TypeOK'
    BY <1>1, <1>8 DEF ChangeService, TypeOK
  <2> QED
    BY <1>1, <1>8, <2>1 DEF IInv, ChangeService, AcceptedOnly, ingress2Cluster
<1>9. ASSUME NEW s \in Service, SyncService(s) PROVE IInv'
  <2>1. ConfInv(clusterConf') /\ clusterConf'.ingress2Cluster = clusterConf.ingress2Cluster
    <3>1. CASE service[s] = NoObject
      BY <1>1, <1>9, <3>1 DEF SyncService
    <3>2. CASE service[s] # NoObject
      <4>1. service[s] \in ServiceState
        BY <1>1, <3>2 DEF TypeOK
      <4>2. clusterConf' \in UpdateServiceResults(clusterConf, s, service[s])
        BY <1>9, <3>2 DEF SyncService
      <4> QED
        BY <1>1, <4>1, <4>2, UpdateServiceInv
    <3> QED
      BY <3>1, <3>2
  <2>2. TypeOK'
    BY <1>1, <1>9, <2>1 DEF SyncService, TypeOK, ConfInv
  <2>3. AcceptedOnly'
    BY <1>1, <1>9, <2>1 DEF SyncService, AcceptedOnly, ingress2Cluster
  <2> QED
    BY <2>1, <2>2, <2>3 DEF IInv
<1>10. ASSUME NEW s \in Service, PanicService(s) PROVE IInv'
  <2>1. TypeOK'
    BY <1>1, <1>10 DEF PanicService, TypeOK
  <2> QED
    BY <1>1, <1>10, <2>1 DEF IInv, PanicService, AcceptedOnly, ingress2Cluster
<1>11. ASSUME NEW i \in Ingress, ReadIngress(i) PROVE IInv'
  <2>1. working' \in Reading
    BY <1>1, <1>11 DEF ReadIngress, TypeOK, Reading
  <2>2. TypeOK'
    BY <1>1, <1>11, <2>1 DEF ReadIngress, TypeOK
  <2> QED
    BY <1>1, <1>11, <2>2 DEF IInv, ReadIngress, AcceptedOnly, ingress2Cluster
<1>12. ASSUME NEW s \in Service, ReadService(s) PROVE IInv'
  <2>1. working \in Reading /\ service[s] \in {NoObject} \cup ServiceState
    BY <1>1, <1>12 DEF ReadService, TypeOK
  <2>2. working' = [working EXCEPT !.services = [@ EXCEPT ![s] = service[s]]]
    BY <1>12 DEF ReadService
  <2>3. working' \in Reading
    BY <2>1, <2>2 DEF Reading
  <2>4. TypeOK'
    BY <1>1, <1>12, <2>3 DEF ReadService, TypeOK
  <2> QED
    BY <1>1, <1>12, <2>4 DEF IInv, ReadService, AcceptedOnly, ingress2Cluster
<1>13. ASSUME UNCHANGED vars PROVE IInv'
  <2>1. TypeOK'
    BY <1>1, <1>13 DEF vars, TypeOK
  <2> QED
    BY <1>1, <1>13, <2>1 DEF vars, IInv, AcceptedOnly, ingress2Cluster
<1> QED
  BY <1>3, <1>4, <1>5, <1>6, <1>7, <1>8, <1>9, <1>10, <1>11, <1>12, <1>13 DEF Next

\* The invariant holds of every reachable state.
LEMMA Invariance == Spec => []IInv
BY IInvInitial, IInvInductive, PTL DEF Spec

\* Type correctness of the reconcilers and of the four maps of ClusterConfig.
THEOREM Typing == Spec => []TypeOK
<1>1. IInv => TypeOK
  BY DEF IInv
<1> QED
  BY <1>1, Invariance, PTL

\* service2Cluster leads from each Service to every cluster that has it.
THEOREM IndexComplete == Spec => []ServicesIndexed
<1>1. IInv => ServicesIndexed
  BY DEF IInv, ConfInv, Indexed, ServicesIndexed, Keys, table, service2Cluster
<1> QED
  BY <1>1, Invariance, PTL

\* gslbConf never names a sub-cluster that clusterTableConf does not have.
THEOREM SplitBacked == Spec => []WeightsBacked
<1>1. IInv => WeightsBacked
  BY DEF IInv, ConfInv, Backed, WeightsBacked, Keys, table, gslb
<1> QED
  BY <1>1, Invariance, PTL

\* clusterTableConf has the clusters of the accepted Ingresses that
\* ingress2Cluster lists, and no others.
THEOREM Ownership == Spec => []ClustersOwned
<1>1. IInv => ClustersOwned
  <2> SUFFICES ASSUME IInv, NEW c \in Cluster
               PROVE  /\ table[c] # Nil <=> c \in ingress2Cluster[c[1]]
                      /\ table[c] # Nil => status[c[1]] = "success"
    BY DEF ClustersOwned
  <2>1. c[1] \in Ingress
    BY DEF Cluster
  <2>2. table[c] # Nil <=> c \in ingress2Cluster[c[1]]
    BY DEF IInv, ConfInv, Owned, table, ingress2Cluster
  <2> QED
    BY <2>1, <2>2 DEF IInv, AcceptedOnly
<1> QED
  BY <1>1, Invariance, PTL

\* The default cluster never outlives the last Ingress that has clusters.
THEOREM DefaultLast == Spec => []DefaultGoesLast
<1>1. IInv => DefaultGoesLast
  BY DEF IInv, ConfInv, DefaultOwned, DefaultGoesLast, table, ingress2Cluster
<1> QED
  BY <1>1, Invariance, PTL

-----------------------------------------------------------------------------
(* Addresses.  AddressesCurrent speaks of states with empty queues; at every   *)
(* other time a sub-cluster has the addresses of its Service unless an event   *)
(* of that Service is still queued or was overtaken.                           *)

Of(s) == Cluster \X {s}

Stale == overtaken \cup (Cluster \X serviceQueue)

Fresh(conf, services, stale) ==
    \A c \in Cluster, s \in Service :
        /\ <<c, s>> \notin stale
        /\ conf.clusterTableConf[c] # Nil
        /\ conf.clusterTableConf[c][s] # Nil
        /\ services[s] # NoObject
        => conf.clusterTableConf[c][s]
              = NewSubClusterBackend(services[s], HasTarget(services[s], ParsePort(c)))

\* The name of a cluster ends in the port of its backend, and no Ingress can have
\* the default cluster's.
LEMMA ClusterNames ==
    ASSUME NEW c \in Cluster
    PROVE  c \in AllCluster /\ c # DefaultCluster /\ ParsePort(c) = c[2][2]
<1>1. c # DefaultCluster
  BY ClusterAssumption
<1> QED
  BY <1>1 DEF AllCluster, ParsePort

\* A configuration that only lost clusters has no address that it did not have before.
LEMMA FewerFresh ==
    ASSUME NEW conf, NEW d, NEW services, NEW stale, Fresh(conf, services, stale),
           \A c \in Cluster : \/ d.clusterTableConf[c] = Nil
                              \/ d.clusterTableConf[c] = conf.clusterTableConf[c]
    PROVE  Fresh(d, services, stale)
BY DEF Fresh

\* DeleteIngress removes clusters and changes none.
LEMMA DeleteIngressFresh ==
    ASSUME NEW conf, NEW services, NEW stale, Fresh(conf, services, stale), NEW i \in Ingress
    PROVE  Fresh(DeleteIngress(conf, i), services, stale)
<1> DEFINE w == WithoutClusters(conf, i)
<1>1. \A c \in Cluster : \/ w.clusterTableConf[c] = Nil
                         \/ w.clusterTableConf[c] = conf.clusterTableConf[c]
  BY DEF WithoutClusters, AllCluster
<1>2. \A c \in Cluster : DelDefaultBackend(w).clusterTableConf[c] = w.clusterTableConf[c]
  <2>1. DelDefaultBackend(w).clusterTableConf
            = [w.clusterTableConf EXCEPT ![DefaultCluster] = Nil]
    BY DEF DelDefaultBackend
  <2>2. w.clusterTableConf = [c \in AllCluster |-> w.clusterTableConf[c]]
    BY DEF WithoutClusters
  <2> HIDE DEF w
  <2> QED
    BY <2>1, <2>2, ClusterNames
<1>3. DeleteIngress(conf, i) \in {conf, w, DelDefaultBackend(w)}
  BY DEF DeleteIngress
<1> HIDE DEF w
<1> QED
  BY <1>1, <1>2, <1>3, FewerFresh

\* It removes every cluster of the Ingress, and with them what was stale of it.
LEMMA DeleteIngressGone ==
    ASSUME NEW conf, ConfInv(conf), NEW services, NEW stale, NEW i \in Ingress,
           Fresh(conf, services, stale \cup (({i} \X Backend) \X Service))
    PROVE  Fresh(DeleteIngress(conf, i), services, stale)
<1> DEFINE d == DeleteIngress(conf, i)
<1>1. Fresh(d, services, stale \cup (({i} \X Backend) \X Service))
  BY DeleteIngressFresh
<1>2. /\ ConfInv(d)
      /\ d.ingress2Cluster = [conf.ingress2Cluster EXCEPT ![i] = {}]
  BY DeleteIngressInv
<1>3. conf.ingress2Cluster \in [Ingress -> SUBSET Cluster]
  BY DEF ConfInv, Configuration
<1> HIDE DEF d
<1>4. \A c \in {i} \X Backend : c \in Cluster /\ d.clusterTableConf[c] = Nil
  BY <1>2, <1>3 DEF ConfInv, Owned, Cluster
<1>5. Fresh(d, services, stale)
  BY <1>1, <1>4 DEF Fresh
<1> QED
  BY <1>5 DEF d

\* UpdateIngress builds its clusters from the copies it was given: where those are
\* the Services of now, the clusters are fresh.
LEMMA UpdateIngressFresh ==
    ASSUME NEW conf, conf \in Configuration, NEW services, NEW stale, NEW rest,
           Fresh(conf, services, stale),
           NEW i \in Ingress, NEW obj \in Manifest, NEW copies, NEW valid \in BOOLEAN,
           \A c \in Cluster \ ({i} \X obj.backends), s \in Service :
               <<c, s>> \in stale => <<c, s>> \in rest,
           \A c \in {i} \X obj.backends, s \in Service :
               s \in Targets(obj, c[2]) /\ copies[s] # services[s] => <<c, s>> \in rest
    PROVE  Fresh(UpdateIngress(conf, i, obj, copies, valid).conf, services, rest)
<1> DEFINE w == WithClusters(conf, i, obj, copies)
           new == AddDefaultBackend(w, copies)
           mine == {i} \X obj.backends
<1>1. w.clusterTableConf = [c \in AllCluster |->
                IF c \in mine THEN NewClusterBackend(c[2], obj.balance, copies)
                ELSE conf.clusterTableConf[c]]
  BY DEF WithClusters
<1>2. Fresh(w, services, rest)
  <2> SUFFICES ASSUME NEW c \in Cluster, NEW s \in Service, <<c, s>> \notin rest,
                      w.clusterTableConf[c] # Nil, w.clusterTableConf[c][s] # Nil,
                      services[s] # NoObject
               PROVE  w.clusterTableConf[c][s]
                        = NewSubClusterBackend(services[s],
                                               HasTarget(services[s], ParsePort(c)))
    BY DEF Fresh
  <2>1. CASE c \notin mine
    BY <1>1, <2>1, ClusterNames DEF Fresh
  <2>2. CASE c \in mine
    <3>1. w.clusterTableConf[c] = NewClusterBackend(c[2], obj.balance, copies)
      BY <1>1, <2>2, ClusterNames
    <3> HIDE DEF w
    <3>2. /\ s \in Targets(obj, c[2])
          /\ w.clusterTableConf[c][s]
                = NewSubClusterBackend(copies[s], HasTarget(copies[s], c[2][2]))
      BY <3>1 DEF NewClusterBackend, Targets, Keys
    <3>3. copies[s] = services[s]
      BY <2>2, <3>2
    <3> QED
      BY <3>2, <3>3, ClusterNames
  <2> QED
    BY <2>1, <2>2
<1>3. \A c \in Cluster : new.clusterTableConf[c] = w.clusterTableConf[c]
  <2>1. w.clusterTableConf = [c \in AllCluster |-> w.clusterTableConf[c]]
    BY <1>1
  <2> HIDE DEF w
  <2>2. CASE new = w
    BY <2>2
  <2>3. CASE new # w
    <3>1. new.clusterTableConf = [w.clusterTableConf EXCEPT ![DefaultCluster] =
                [s \in Service |-> IF s = DefaultBackend
                                   THEN NewSubClusterBackend(copies[s], FALSE) ELSE Nil]]
      BY <2>3 DEF AddDefaultBackend
    <3> HIDE DEF new
    <3> QED
      BY <2>1, <3>1, ClusterNames
  <2> QED
    BY <2>2, <2>3
<1>4. Fresh(new, services, rest)
  <2> HIDE DEF w, new
  <2> QED
    BY <1>2, <1>3, FewerFresh
<1>5. Fresh(DeleteIngress(new, i), services, rest)
  <2> HIDE DEF w, new
  <2> QED
    BY <1>4, DeleteIngressFresh
<1>6. CASE obj.backends = {}
  <2>1. UpdateIngress(conf, i, obj, copies, valid).conf = conf
    BY <1>6 DEF UpdateIngress
  <2> QED
    BY <1>6, <2>1 DEF Fresh
<1>7. CASE obj.backends # {}
  <2>1. UpdateIngress(conf, i, obj, copies, valid).conf \in {new, DeleteIngress(new, i)}
    BY <1>7 DEF UpdateIngress
  <2> HIDE DEF new
  <2> QED
    BY <1>4, <1>5, <2>1
<1> QED
  BY <1>6, <1>7

\* UpdateService on some clusters of a Service brings those up to date.
LEMMA RefreshServiceFresh ==
    ASSUME NEW conf, ConfInv(conf), NEW services, NEW stale, Fresh(conf, services, stale),
           NEW s \in Service, NEW cs \in SUBSET conf.service2Cluster[s],
           \A c \in cs : conf.clusterTableConf[c] # Nil
    PROVE  LET r == RefreshService(conf, s, services[s], cs)
           IN  /\ Fresh(r, services, stale \cup Of(s))
               /\ cs = conf.service2Cluster[s] => Fresh(r, services, stale \ Of(s))
<1> DEFINE r == RefreshService(conf, s, services[s], cs)
           tbl == conf.clusterTableConf
<1>1. tbl \in [AllCluster -> {Nil} \cup SubClusters]
  BY DEF ConfInv, Configuration
<1>2. r.clusterTableConf = [c \in AllCluster |->
            IF c \in cs
            THEN [tbl[c] EXCEPT ![s] =
                    NewSubClusterBackend(services[s], HasTarget(services[s], ParsePort(c)))]
            ELSE tbl[c]]
  BY DEF RefreshService
<1> HIDE DEF r
<1>3. ASSUME NEW c \in Cluster, c \in cs
      PROVE  /\ r.clusterTableConf[c][s]
                  = NewSubClusterBackend(services[s], HasTarget(services[s], ParsePort(c)))
             /\ tbl[c] # Nil
             /\ \A x \in Service \ {s} : r.clusterTableConf[c][x] = tbl[c][x]
  <2>1. c \in AllCluster /\ tbl[c] # Nil
    BY <1>3, ClusterNames
  <2>2. tbl[c] \in [Service -> {Nil} \cup SUBSET Addr]
    BY <1>1, <2>1 DEF SubClusters
  <2>3. r.clusterTableConf[c] = [tbl[c] EXCEPT ![s] =
                    NewSubClusterBackend(services[s], HasTarget(services[s], ParsePort(c)))]
    BY <1>2, <1>3, <2>1
  <2> HIDE DEF tbl
  <2> QED
    BY <2>1, <2>2, <2>3
<1>4. \A c \in Cluster : c \notin cs => r.clusterTableConf[c] = tbl[c]
  BY <1>2, ClusterNames
<1>5. Fresh(r, services, stale \cup Of(s))
  BY <1>3, <1>4 DEF Fresh, Of, tbl
<1>6. ASSUME cs = conf.service2Cluster[s] PROVE Fresh(r, services, stale \ Of(s))
  <2>1. \A c \in Cluster : tbl[c] # Nil /\ tbl[c][s] # Nil => c \in cs
    BY <1>6, ClusterNames DEF ConfInv, Indexed
  <2> QED
    BY <1>3, <1>4, <2>1 DEF Fresh, Of, tbl
<1> QED
  BY <1>5, <1>6 DEF r

\* DeleteService leaves no sub-cluster of the Service.
LEMMA DeleteServiceFresh ==
    ASSUME NEW conf, ConfInv(conf), NEW services, NEW stale, NEW s \in Service,
           Fresh(conf, services, stale \cup Of(s))
    PROVE  Fresh(DeleteService(conf, s), services, stale \ Of(s))
<1> DEFINE d == DeleteService(conf, s)
           tbl == conf.clusterTableConf
           cs == conf.service2Cluster[s]
<1>1. tbl \in [AllCluster -> {Nil} \cup SubClusters]
  BY DEF ConfInv, Configuration
<1>2. d.clusterTableConf
        = [c \in AllCluster |-> IF c \in cs THEN Without(tbl[c], s) ELSE tbl[c]]
  BY DEF DeleteService
<1> HIDE DEF d
<1>3. ASSUME NEW c \in Cluster, d.clusterTableConf[c] # Nil
      PROVE  /\ tbl[c] # Nil
             /\ d.clusterTableConf[c][s] = Nil
             /\ \A x \in Service \ {s} : d.clusterTableConf[c][x] = tbl[c][x]
  <2>1. c \in AllCluster
    BY ClusterNames
  <2>2. tbl[c] # Nil
    BY <1>2, <1>3, <2>1 DEF Without
  <2>3. tbl[c] \in [Service -> {Nil} \cup SUBSET Addr]
    BY <1>1, <2>1, <2>2 DEF SubClusters
  <2>4. CASE c \in cs
    <3>1. d.clusterTableConf[c] = [tbl[c] EXCEPT ![s] = Nil]
      BY <1>2, <2>1, <2>2, <2>4 DEF Without
    <3> HIDE DEF tbl
    <3> QED
      BY <2>2, <2>3, <3>1
  <2>5. CASE c \notin cs
    <3>1. tbl[c][s] = Nil
      BY <2>1, <2>2, <2>5 DEF ConfInv, Indexed
    <3>2. d.clusterTableConf[c] = tbl[c]
      BY <1>2, <2>1, <2>5
    <3> QED
      BY <2>2, <3>1, <3>2
  <2> QED
    BY <2>4, <2>5
<1>4. Fresh(d, services, stale \ Of(s))
  BY <1>3 DEF Fresh, Of, tbl
<1> QED
  BY <1>4 DEF d

\* After UpdateService, however it ends, nothing of the Service is stale any more.
LEMMA UpdateServiceFresh ==
    ASSUME NEW conf, ConfInv(conf), NEW services, NEW stale, Fresh(conf, services, stale),
           NEW s \in Service, services[s] \in ServiceState,
           NEW u \in UpdateServiceResults(conf, s, services[s])
    PROVE  Fresh(u, services, stale \ Of(s))
<1> DEFINE cs == conf.service2Cluster[s]
           good == cs \ (Lacking(conf, s, services[s]) \cup Dangling(conf, s))
<1>1. \A c \in cs \ Dangling(conf, s) : conf.clusterTableConf[c] # Nil
  BY DEF Dangling
<1>2. CASE Lacking(conf, s, services[s]) # {}
  <2>1. PICK done \in SUBSET good :
            u = DeleteService(RefreshService(conf, s, services[s], done), s)
    BY <1>2 DEF UpdateServiceResults
  <2> DEFINE r == RefreshService(conf, s, services[s], done)
  <2>2. done \in SUBSET cs /\ \A c \in done : conf.clusterTableConf[c] # Nil
    BY <1>1, <2>1
  <2>3. ConfInv(r) /\ Fresh(r, services, stale \cup Of(s))
    BY <2>2, RefreshServiceInv, RefreshServiceFresh
  <2> HIDE DEF r
  <2>4. Fresh(DeleteService(r, s), services, stale \ Of(s))
    BY <2>3, DeleteServiceFresh
  <2> QED
    BY <2>1, <2>4 DEF r
<1>3. CASE Lacking(conf, s, services[s]) = {}
  <2>1. Dangling(conf, s) = {} /\ u = RefreshService(conf, s, services[s], cs)
    BY <1>3 DEF UpdateServiceResults
  <2> QED
    BY <1>1, <2>1, RefreshServiceFresh
<1> QED
  BY <1>2, <1>3

\* Every step keeps the sub-clusters fresh, but for the Services that are queued or
\* were overtaken.
LEMMA FreshInductive ==
    IInv /\ Fresh(clusterConf, service, Stale) /\ [Next]_vars
        => Fresh(clusterConf, service, Stale)'
<1> SUFFICES ASSUME IInv, Fresh(clusterConf, service, Stale), [Next]_vars
             PROVE  Fresh(clusterConf', service', Stale')
  BY DEF Fresh
<1>1. TypeOK /\ ConfInv(clusterConf) /\ clusterConf \in Configuration
  BY DEF IInv, ConfInv
<1>2. CASE Restart
  <2>1. \A c \in Cluster : clusterConf'.clusterTableConf[c] = Nil
    BY <1>2, ClusterNames DEF Restart, NewClusterConfig
  <2> QED
    BY <2>1 DEF Fresh
<1>3. ASSUME \/ \E i \in Ingress : ChangeIngress(i) \/ ReadIngress(i)
             \/ \E s \in Service : ReadService(s) \/ PanicService(s)
             \/ UNCHANGED vars
      PROVE  Fresh(clusterConf', service', Stale')
  <2>1. UNCHANGED <<clusterConf, service, serviceQueue, overtaken>>
    BY <1>3 DEF ChangeIngress, ReadIngress, ReadService, PanicService, vars
  <2> QED
    BY <2>1 DEF Stale
<1>4. ASSUME NEW i \in Ingress, OvertakenBut(i) = overtaken', serviceQueue' = serviceQueue
      PROVE  Stale \subseteq Stale' \cup (({i} \X Backend) \X Service)
  BY <1>1, <1>4 DEF OvertakenBut, Stale, TypeOK
<1>5. ASSUME NEW c, ConfInv(c), NEW i \in Ingress, NEW services,
             Fresh(c, services, Stale \cup (({i} \X Backend) \X Service)),
             OvertakenBut(i) = overtaken', serviceQueue' = serviceQueue
      PROVE  Fresh(DeleteIngress(c, i), services, Stale')
  <2>1. Fresh(c, services, Stale' \cup (({i} \X Backend) \X Service))
    BY <1>4, <1>5 DEF Fresh
  <2> QED
    BY <1>5, <2>1, DeleteIngressGone
<1>6. \A x : Fresh(clusterConf, service, Stale \cup x)
  BY DEF Fresh
<1>7. ASSUME NEW i \in Ingress, SyncAbsent(i) PROVE Fresh(clusterConf', service', Stale')
  BY <1>1, <1>5, <1>6, <1>7 DEF SyncAbsent
<1>8. CASE SyncAccepted
  <2> DEFINE i == working.ingress
             obj == working.obj
             mine == {i} \X obj.backends
  <2>1. i \in Ingress /\ obj \in Manifest /\ mine \subseteq Cluster
    BY <1>1, <1>8, WorkingType DEF SyncAccepted
  <2>2. /\ clusterConf' = UpdateIngress(clusterConf, i, obj, working.services, TRUE).conf
        /\ overtaken' = {p \in overtaken : p[1] \notin mine}
                            \cup Behind(i, obj, working.services)
        /\ service' = service /\ serviceQueue' = serviceQueue
    BY <1>8 DEF SyncAccepted
  <2>3. \A c \in Cluster \ mine, s \in Service : <<c, s>> \in Stale => <<c, s>> \in Stale'
    BY <2>2 DEF Stale
  <2>4. \A c \in mine, s \in Service :
            s \in Targets(obj, c[2]) /\ working.services[s] # service[s]
                => <<c, s>> \in Stale'
    BY <2>1, <2>2 DEF Stale, Behind
  <2> HIDE DEF i, obj
  <2>5. Fresh(UpdateIngress(clusterConf, i, obj, working.services, TRUE).conf,
              service, Stale')
    BY <1>1, <2>1, <2>3, <2>4, UpdateIngressFresh
  <2> QED
    BY <2>2, <2>5
<1>9. CASE SyncRefused
  <2> DEFINE i == working.ingress
             obj == working.obj
             mine == {i} \X obj.backends
             c == UpdateIngress(clusterConf, i, obj, working.services, FALSE).conf
  <2>1. /\ i \in Ingress /\ obj \in Manifest /\ mine \subseteq {i} \X Backend
        /\ overtaken' = OvertakenBut(i)
        /\ service' = service /\ serviceQueue' = serviceQueue
    BY <1>1, <1>9, WorkingType DEF SyncRefused, Cluster
  <2>2. CASE clusterConf' = DeleteIngress(clusterConf, i)
    BY <1>1, <1>5, <1>6, <2>1, <2>2
  <2>3. CASE clusterConf' = DeleteIngress(c, i) /\ Ready(obj, working.services)
    <3>1. ConfInv(c)
      BY <1>9, <2>3, WorkingUpdate DEF SyncRefused
    <3>2. Fresh(c, service, Stale \cup (({i} \X Backend) \X Service))
      <4> HIDE DEF i, obj
      <4> QED
        BY <1>1, <2>1, UpdateIngressFresh
    <3> HIDE DEF c
    <3>3. Fresh(DeleteIngress(c, i), service, Stale')
      BY <1>5, <2>1, <3>1, <3>2
    <3> QED
      BY <2>1, <2>3, <3>3
  <2> QED
    BY <1>9, <2>2, <2>3 DEF SyncRefused
<1>10. ASSUME NEW s \in Service, ChangeService(s) PROVE Fresh(clusterConf', service', Stale')
  <2>1. \A x \in Service \ {s} : service'[x] = service[x]
    BY <1>1, <1>10 DEF ChangeService, TypeOK
  <2>2. clusterConf' = clusterConf /\ Stale' = Stale \cup Of(s)
    BY <1>10 DEF ChangeService, Stale, Of
  <2> QED
    BY <2>1, <2>2 DEF Fresh, Of
<1>11. ASSUME NEW s \in Service, SyncService(s) PROVE Fresh(clusterConf', service', Stale')
  <2>1. /\ service' = service /\ serviceQueue' = serviceQueue \ {s}
        /\ overtaken' = {p \in overtaken : p[2] # s}
    BY <1>11 DEF SyncService
  <2>2. Stale \ Of(s) \subseteq Stale'
    BY <1>1, <2>1 DEF Stale, Of, TypeOK
  <2>3. CASE service[s] = NoObject
    <3>1. clusterConf' = clusterConf
      BY <1>11, <2>3 DEF SyncService
    <3> QED
      BY <2>1, <2>2, <2>3, <3>1 DEF Fresh, Of
  <2>4. CASE service[s] # NoObject
    <3>1. service[s] \in ServiceState
      BY <1>1, <2>4 DEF TypeOK
    <3>2. clusterConf' \in UpdateServiceResults(clusterConf, s, service[s])
      BY <1>11, <2>4 DEF SyncService
    <3>3. Fresh(clusterConf', service, Stale \ Of(s))
      BY <1>1, <3>1, <3>2, UpdateServiceFresh
    <3> QED
      BY <2>1, <2>2, <3>3 DEF Fresh
  <2> QED
    BY <2>3, <2>4
<1> QED
  BY <1>2, <1>3, <1>7, <1>8, <1>9, <1>10, <1>11 DEF Next

\* Once all events are handled, every sub-cluster of an Ingress has the addresses of
\* its Service.  The exception is an update from a copy older than a Service event
\* that was handled before the update, until the next event of that Service: no
\* other order of Ingress and Service events, no refusal and no panic leads to it.
THEOREM AddressesFollow == Spec => []AddressesCurrent
<1>1. Init => Fresh(clusterConf, service, Stale)
  BY ClusterNames DEF Init, Fresh, NewClusterConfig
<1>2. Fresh(clusterConf, service, Stale) => AddressesCurrent
  BY DEF Fresh, Stale, AddressesCurrent, Keys, table
<1> QED
  BY <1>1, <1>2, Invariance, FreshInductive, PTL DEF Spec

-----------------------------------------------------------------------------
(* The panic of UpdateService.  ProcessStaysUp is false of the code, and what  *)
(* it takes to make it true are the two habits below; a run has a crash with   *)
(* either of them broken.                                                      *)

\* No Service ever lacks a port that some Ingress may name.
PortsKept == \A svc \in ServiceState : \A p \in Port : HasTarget(svc, p)

\* No edit of a balance annotation changes the Services that traffic is split over.
SplitsKept ==
    \A m, n \in Manifest : \A b, s \in Service :
        NewGslbClusterConf(b, m.balance)[s] # Nil
            <=> NewGslbClusterConf(b, n.balance)[s] # Nil

\* What service2Cluster names is there, sub-cluster and all: the converse of
\* Indexed, which the two habits keep.  Only the --default-backend Service is
\* indexed for the default cluster.
Exact(conf) ==
    \A s \in Service : \A c \in conf.service2Cluster[s] :
        /\ conf.clusterTableConf[c] # Nil
        /\ conf.clusterTableConf[c][s] # Nil
        /\ c = DefaultCluster => s = DefaultBackend
        /\ c # DefaultCluster =>
              \A m \in Manifest : NewGslbClusterConf(c[2][1], m.balance)[s] # Nil

\* The index is exact before the first Ingress.
LEMMA NewExact == Exact(NewClusterConfig)
BY DEF Exact, NewClusterConfig

\* DeleteIngress finds every entry of the clusters it removes.
LEMMA DeleteIngressExact ==
    ASSUME NEW conf, ConfInv(conf), Exact(conf), NEW i \in Ingress
    PROVE  Exact(DeleteIngress(conf, i))
<1> DEFINE w == WithoutClusters(conf, i)
           d == DelDefaultBackend(w)
           mine == conf.ingress2Cluster[i]
<1>1. /\ conf.service2Cluster \in [Service -> SUBSET AllCluster]
      /\ conf.ingress2Cluster \in [Ingress -> SUBSET Cluster]
  BY DEF ConfInv, Configuration
<1>2. /\ w.service2Cluster =
            [s \in Service |->
                {c \in conf.service2Cluster[s] :
                    ~ (c \in mine /\ conf.clusterTableConf[c] # Nil
                                  /\ conf.clusterTableConf[c][s] # Nil)}]
      /\ w.clusterTableConf =
            [c \in AllCluster |-> IF c \in mine THEN Nil ELSE conf.clusterTableConf[c]]
  BY DEF WithoutClusters
<1> HIDE DEF w, mine
<1>3. \A s \in Service : \A c \in w.service2Cluster[s] :
          /\ c \in conf.service2Cluster[s] /\ c \in AllCluster
          /\ w.clusterTableConf[c] = conf.clusterTableConf[c]
  BY <1>1, <1>2 DEF Exact
<1>4. Exact(w)
  BY <1>3 DEF Exact
<1>5. CASE DeleteIngress(conf, i) = d
  <2>1. /\ d.service2Cluster
              = [w.service2Cluster EXCEPT ![DefaultBackend] = @ \ {DefaultCluster}]
        /\ d.clusterTableConf = [w.clusterTableConf EXCEPT ![DefaultCluster] = Nil]
    BY DEF DelDefaultBackend
  <2>2. DOMAIN w.service2Cluster = Service /\ DOMAIN w.clusterTableConf = AllCluster
    BY <1>2
  <2> HIDE DEF d
  <2>3. ASSUME NEW s \in Service, NEW c \in d.service2Cluster[s]
        PROVE  /\ c \in w.service2Cluster[s]
               /\ d.clusterTableConf[c] = w.clusterTableConf[c]
    <3>1. c \in w.service2Cluster[s] /\ (s = DefaultBackend => c # DefaultCluster)
      BY <2>1, <2>2, <2>3
    <3>2. c # DefaultCluster
      BY <1>4, <3>1 DEF Exact
    <3>3. c \in AllCluster
      BY <1>3, <3>1
    <3> QED
      BY <2>1, <2>2, <3>1, <3>2, <3>3
  <2> QED
    BY <1>4, <1>5, <2>3 DEF Exact
<1>6. DeleteIngress(conf, i) \in {conf, w, d}
  BY DEF DeleteIngress, w
<1> QED
  BY <1>4, <1>5, <1>6

\* UpdateIngress overwrites a cluster with the Services it had, so no entry of the
\* index is left behind.
LEMMA UpdateIngressExact ==
    ASSUME SplitsKept, NEW conf, ConfInv(conf), Exact(conf), NEW i \in Ingress,
           NEW obj \in Manifest, NEW services, Given(obj, services),
           DefaultFound(services) => services[DefaultBackend] \in ServiceState
    PROVE  \/ obj.backends = {}
           \/ Exact(AddDefaultBackend(WithClusters(conf, i, obj, services), services))
<1> DEFINE w == WithClusters(conf, i, obj, services)
           a == AddDefaultBackend(w, services)
           mine == {i} \X obj.backends
           gl(c) == NewGslbClusterConf(c[2][1], obj.balance)
           nw(c) == NewClusterBackend(c[2], obj.balance, services)
<1>1. /\ conf.service2Cluster \in [Service -> SUBSET AllCluster]
      /\ conf.clusterTableConf \in [AllCluster -> {Nil} \cup SubClusters]
  BY DEF ConfInv, Configuration
<1>2. /\ obj.backends \subseteq Backend
      /\ mine \subseteq Cluster /\ mine \subseteq AllCluster /\ DefaultCluster \notin mine
      /\ \A c \in mine : c[2] \in obj.backends /\ c[2][1] \in Service
  BY ClusterAssumption DEF IngressObject, Cluster, AllCluster, Backend
<1>3. \A c \in mine : nw(c) # Nil /\ \A s \in Service : nw(c)[s] # Nil <=> gl(c)[s] # Nil
  BY <1>2, ClusterBackendType
<1>4. /\ w.service2Cluster =
            [s \in Service |-> conf.service2Cluster[s] \cup {c \in mine : gl(c)[s] # Nil}]
      /\ w.clusterTableConf =
            [c \in AllCluster |-> IF c \in mine THEN nw(c) ELSE conf.clusterTableConf[c]]
  BY DEF WithClusters
<1> HIDE DEF w, mine, nw
<1>5. ASSUME NEW s \in Service, NEW c \in w.service2Cluster[s]
      PROVE  /\ c \in AllCluster
             /\ w.clusterTableConf[c] # Nil /\ w.clusterTableConf[c][s] # Nil
             /\ c = DefaultCluster => s = DefaultBackend
             /\ c # DefaultCluster =>
                  \A m \in Manifest : NewGslbClusterConf(c[2][1], m.balance)[s] # Nil
  <2>1. CASE c \in mine
    <3>1. gl(c)[s] # Nil
      <4>1. CASE c \in conf.service2Cluster[s]
        BY <1>2, <2>1, <4>1 DEF Exact
      <4> QED
        BY <1>4, <1>5, <4>1
    <3>2. \A m \in Manifest : NewGslbClusterConf(c[2][1], m.balance)[s] # Nil
      BY <1>2, <2>1, <3>1 DEF SplitsKept
    <3> QED
      BY <1>2, <1>3, <1>4, <2>1, <3>1, <3>2
  <2>2. CASE c \notin mine
    <3>1. c \in conf.service2Cluster[s] /\ c \in AllCluster
      BY <1>1, <1>4, <1>5, <2>2
    <3> QED
      BY <1>4, <2>2, <3>1 DEF Exact
  <2> QED
    BY <2>1, <2>2
<1>6. Exact(w)
  BY <1>5 DEF Exact
<1>7. CASE DefaultFound(services) /\ w.clusterTableConf[DefaultCluster] = Nil
  <2> DEFINE n == [s \in Service |-> IF s = DefaultBackend
                                     THEN NewSubClusterBackend(services[s], FALSE) ELSE Nil]
  <2>1. DefaultBackend \in Service
    BY <1>7, ClusterAssumption DEF DefaultFound
  <2>2. n \in SubClusters /\ n # Nil /\ n[DefaultBackend] # Nil
    <3>1. NewSubClusterBackend(services[DefaultBackend], FALSE) \in SUBSET Addr
      BY <1>7, SubClusterType
    <3>2. n \in SubClusters
      BY <3>1 DEF SubClusters
    <3> QED
      BY <2>1, <3>1, <3>2, ClusterAssumption
  <2>3. /\ a.service2Cluster
              = [w.service2Cluster EXCEPT ![DefaultBackend] = @ \cup {DefaultCluster}]
        /\ a.clusterTableConf = [w.clusterTableConf EXCEPT ![DefaultCluster] = n]
    BY <1>7 DEF AddDefaultBackend
  <2>4. DOMAIN w.service2Cluster = Service /\ DOMAIN w.clusterTableConf = AllCluster
    BY <1>4
  <2> HIDE DEF a, n
  <2>5. ASSUME NEW s \in Service, NEW c \in a.service2Cluster[s]
        PROVE  \/ c = DefaultCluster /\ s = DefaultBackend /\ a.clusterTableConf[c] = n
               \/ /\ c \in w.service2Cluster[s] /\ c # DefaultCluster
                  /\ a.clusterTableConf[c] = w.clusterTableConf[c]
    <3>1. \/ c \in w.service2Cluster[s]
          \/ c = DefaultCluster /\ s = DefaultBackend
      BY <2>3, <2>4, <2>5
    <3>2. DefaultCluster \in AllCluster
      BY DEF AllCluster
    <3>3. a.clusterTableConf[DefaultCluster] = n
      BY <2>3, <2>4, <3>2
    <3>4. c \in w.service2Cluster[s] => c # DefaultCluster /\ c \in AllCluster
      BY <1>5, <1>7
    <3>5. \A x \in AllCluster \ {DefaultCluster} :
              a.clusterTableConf[x] = w.clusterTableConf[x]
      BY <2>3, <2>4
    <3> QED
      BY <3>1, <3>3, <3>4, <3>5
  <2>6. Exact(a)
    BY <1>6, <2>2, <2>5 DEF Exact
  <2> QED
    BY <2>6 DEF a, w
<1>8. CASE ~(DefaultFound(services) /\ w.clusterTableConf[DefaultCluster] = Nil)
  <2>1. a = w
    BY <1>8 DEF AddDefaultBackend
  <2> QED
    BY <1>6, <2>1 DEF a, w
<1> QED
  BY <1>7, <1>8

\* Without a port lost, UpdateService refreshes the clusters of the Service and leaves
\* the index alone.
LEMMA UpdateServiceExact ==
    ASSUME PortsKept, NEW conf, ConfInv(conf), Exact(conf), NEW s \in Service,
           NEW svc \in ServiceState
    PROVE  /\ ~UpdateServicePanics(conf, s, svc)
           /\ \A u \in UpdateServiceResults(conf, s, svc) : Exact(u)
<1>1. /\ conf.service2Cluster \in [Service -> SUBSET AllCluster]
      /\ conf.clusterTableConf \in [AllCluster -> {Nil} \cup SubClusters]
  BY DEF ConfInv, Configuration
<1>2. Dangling(conf, s) = {}
  BY DEF Dangling, Exact
<1>3. Lacking(conf, s, svc) = {}
  <2> SUFFICES ASSUME s # DefaultBackend, NEW c \in conf.service2Cluster[s]
               PROVE  HasTarget(svc, ParsePort(c))
    BY DEF Lacking
  <2>1. c # DefaultCluster
    BY DEF Exact
  <2>2. c \in Cluster
    BY <1>1, <2>1 DEF AllCluster
  <2>3. ParsePort(c) = c[2][2] /\ c[2][2] \in Port
    BY <2>1, <2>2 DEF ParsePort, Cluster, Backend
  <2> QED
    BY <2>3 DEF PortsKept
<1>4. ASSUME NEW u, u = RefreshService(conf, s, svc, conf.service2Cluster[s])
      PROVE  Exact(u)
  <2> DEFINE back(c) == NewSubClusterBackend(svc, HasTarget(svc, ParsePort(c)))
  <2>1. /\ u.service2Cluster = conf.service2Cluster
        /\ u.clusterTableConf =
              [c \in AllCluster |->
                  IF c \in conf.service2Cluster[s]
                  THEN [conf.clusterTableConf[c] EXCEPT ![s] = back(c)]
                  ELSE conf.clusterTableConf[c]]
    BY <1>4 DEF RefreshService
  <2>2. \A c : back(c) \in SUBSET Addr /\ back(c) # Nil
    BY SubClusterType, ClusterAssumption DEF HasTarget
  <2> HIDE DEF back
  <2>3. ASSUME NEW x \in Service, NEW c \in conf.service2Cluster[x]
        PROVE  u.clusterTableConf[c] # Nil /\ u.clusterTableConf[c][x] # Nil
    <3>1. /\ c \in AllCluster
          /\ conf.clusterTableConf[c] \in SubClusters /\ conf.clusterTableConf[c][x] # Nil
      BY <1>1 DEF Exact
    <3>2. ASSUME NEW v \in SUBSET Addr, v # Nil
          PROVE  /\ [conf.clusterTableConf[c] EXCEPT ![s] = v] \in SubClusters
                 /\ [conf.clusterTableConf[c] EXCEPT ![s] = v][x] # Nil
      BY <3>1, <3>2 DEF SubClusters
    <3>3. \A n \in SubClusters : n # Nil
      BY ClusterAssumption
    <3> QED
      BY <2>1, <2>2, <3>1, <3>2, <3>3
  <2> QED
    BY <2>1, <2>3 DEF Exact
<1> QED
  BY <1>2, <1>3, <1>4 DEF UpdateServicePanics, UpdateServiceResults

\* Every step of the machine keeps the index exact and the process up.
LEMMA StaysUpInductive ==
    ASSUME PortsKept, SplitsKept
    PROVE  IInv /\ Exact(clusterConf) /\ running /\ [Next]_vars
              => Exact(clusterConf)' /\ running'
<1> SUFFICES ASSUME IInv, Exact(clusterConf), running, [Next]_vars
             PROVE  Exact(clusterConf') /\ running'
  BY DEF Exact
<1>1. TypeOK /\ ConfInv(clusterConf)
  BY DEF IInv
<1>2. ASSUME NEW i \in Ingress, NEW obj \in Manifest, NEW services, Given(obj, services),
             DefaultFound(services) => services[DefaultBackend] \in ServiceState,
             NEW valid \in BOOLEAN
      PROVE  LET u == UpdateIngress(clusterConf, i, obj, services, valid)
             IN  ConfInv(u.conf) /\ Exact(u.conf)
  <2> DEFINE new == AddDefaultBackend(WithClusters(clusterConf, i, obj, services), services)
             u == UpdateIngress(clusterConf, i, obj, services, valid)
  <2>1. ConfInv(u.conf)
    BY <1>1, <1>2, UpdateIngressInv
  <2>2. obj.backends = {} \/ Exact(new)
    BY <1>1, <1>2, UpdateIngressExact
  <2>3. CASE obj.backends = {}
    BY <1>1, <2>3 DEF UpdateIngress
  <2>4. CASE obj.backends # {} /\ valid
    BY <2>1, <2>2, <2>4 DEF UpdateIngress
  <2>5. CASE obj.backends # {} /\ ~valid
    <3>1. u = [conf |-> DeleteIngress(new, i), err |-> TRUE]
      BY <2>5 DEF UpdateIngress
    <3>2. ConfInv(new)
      <4>1. LET v == UpdateIngress(clusterConf, i, obj, services, TRUE) IN ConfInv(v.conf)
        BY <1>1, <1>2, UpdateIngressInv
      <4> QED
        BY <2>5, <4>1 DEF UpdateIngress
    <3> HIDE DEF new
    <3> QED
      BY <2>1, <2>2, <2>5, <3>1, <3>2, DeleteIngressExact
  <2> QED
    BY <2>3, <2>4, <2>5
<1>3. ASSUME working # Nil, Ready(working.obj, working.services), NEW valid \in BOOLEAN
      PROVE  LET u == UpdateIngress(clusterConf, working.ingress, working.obj,
                                    working.services, valid)
             IN  ConfInv(u.conf) /\ Exact(u.conf)
  <2>1. /\ working.ingress \in Ingress /\ working.obj \in Manifest
        /\ working.services \in [Service -> {NoObject} \cup ServiceState]
    BY <1>1, <1>3, WorkingType
  <2>2. /\ Given(working.obj, working.services)
        /\ DefaultFound(working.services) => working.services[DefaultBackend] \in ServiceState
    BY <1>3, <2>1, ReadyGiven, DefaultGiven
  <2> QED
    BY <1>2, <2>1, <2>2
<1>4. CASE Restart
  BY <1>4 DEF Restart
<1>5. ASSUME NEW i \in Ingress, ChangeIngress(i) PROVE Exact(clusterConf') /\ running'
  BY <1>5 DEF ChangeIngress
<1>6. ASSUME NEW i \in Ingress, SyncAbsent(i) PROVE Exact(clusterConf') /\ running'
  BY <1>1, <1>6, DeleteIngressExact DEF SyncAbsent
<1>7. ASSUME SyncAccepted PROVE Exact(clusterConf') /\ running'
  BY <1>3, <1>7 DEF SyncAccepted
<1>8. ASSUME SyncRefused PROVE Exact(clusterConf') /\ running'
  <2> DEFINE i == working.ingress
             c == UpdateIngress(clusterConf, i, working.obj, working.services, FALSE).conf
  <2>1. i \in Ingress
    BY <1>1, <1>8, WorkingType DEF SyncRefused
  <2>2. CASE clusterConf' = DeleteIngress(clusterConf, i)
    BY <1>1, <1>8, <2>1, <2>2, DeleteIngressExact DEF SyncRefused
  <2>3. CASE /\ Ready(working.obj, working.services)
             /\ clusterConf' = DeleteIngress(c, i)
    <3>1. ConfInv(c) /\ Exact(c)
      BY <1>3, <1>8, <2>3 DEF SyncRefused
    <3>2. clusterConf' = DeleteIngress(c, i)
      BY <2>3
    <3> HIDE DEF c
    <3> QED
      BY <1>8, <2>1, <3>1, <3>2, DeleteIngressExact DEF SyncRefused
  <2> QED
    BY <1>8, <2>2, <2>3 DEF SyncRefused
<1>9. ASSUME NEW s \in Service, ChangeService(s) PROVE Exact(clusterConf') /\ running'
  BY <1>9 DEF ChangeService
<1>10. ASSUME NEW s \in Service, SyncService(s) PROVE Exact(clusterConf') /\ running'
  <2>1. CASE service[s] = NoObject
    BY <1>10, <2>1 DEF SyncService
  <2>2. CASE service[s] # NoObject
    <3>1. service[s] \in ServiceState
      BY <1>1, <2>2 DEF TypeOK
    <3>2. clusterConf' \in UpdateServiceResults(clusterConf, s, service[s]) /\ running'
      BY <1>10, <2>2 DEF SyncService
    <3> QED
      BY <1>1, <3>1, <3>2, UpdateServiceExact
  <2> QED
    BY <2>1, <2>2
<1>11. ASSUME NEW s \in Service, PanicService(s) PROVE FALSE
  <2>1. service[s] \in ServiceState
    BY <1>1, <1>11 DEF PanicService, TypeOK
  <2> QED
    BY <1>1, <1>11, <2>1, UpdateServiceExact DEF PanicService
<1>12. ASSUME NEW i \in Ingress, ReadIngress(i) PROVE Exact(clusterConf') /\ running'
  BY <1>12 DEF ReadIngress
<1>13. ASSUME NEW s \in Service, ReadService(s) PROVE Exact(clusterConf') /\ running'
  BY <1>13 DEF ReadService
<1>14. CASE UNCHANGED vars
  BY <1>14 DEF vars
<1> QED
  BY <1>4, <1>5, <1>6, <1>7, <1>8, <1>9, <1>10, <1>11, <1>12, <1>13, <1>14 DEF Next

\* UpdateService panics only after a Service lost a port or an edit of a balance
\* annotation dropped a Service: where neither happens, nothing takes the process
\* down, in whatever order Ingresses and Services come and go.
THEOREM StaysUp ==
    ASSUME PortsKept, SplitsKept
    PROVE  Spec => []ProcessStaysUp
<1>1. Init => Exact(clusterConf) /\ running
  BY NewExact DEF Init
<1>2. IInv /\ Exact(clusterConf) /\ running /\ [Next]_vars
          => (Exact(clusterConf) /\ running)'
  BY StaysUpInductive
<1>3. Exact(clusterConf) /\ running => ProcessStaysUp
  BY DEF ProcessStaysUp
<1> QED
  BY <1>1, <1>2, <1>3, Invariance, PTL DEF Spec

=============================================================================
