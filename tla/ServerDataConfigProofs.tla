----------------------- MODULE ServerDataConfigProofs -----------------------
(***************************************************************************)
(* Proofs about ServerDataConfig, for any Ingresses, objects and clock.    *)
(*                                                                         *)
(* The argument is about one configuration record: ConfInv holds of the    *)
(* new configuration, DeleteIngress and UpdateIngress preserve it, and the *)
(* machine does nothing else to serverDataConf.                            *)
(***************************************************************************)
EXTENDS ServerDataConfig, WellFoundedInduction, TLAPS

\* Deleting by the index is complete only if the index is.
Indexed(cache) == \A r \in cache.ruleMap : r \in cache.ingress2Rule[r.ingress]

OnePerSlot(m) == \A r, q \in m : SameSlot(r, q) => r = q

\* The files were generated from some set of rules that has every cached rule:
\* the set of the last time a route table was built.
FilesFrom(conf) ==
    \E m \in SUBSET Rule : /\ conf.cache.ruleMap \subseteq m
                           /\ conf.routeTableFile = RouteTable(m)
                           /\ conf.bfeClusterConf = ClusterConf(m)

ConfInv(conf) ==
    /\ conf \in Configuration
    /\ Indexed(conf.cache)
    /\ OnePerSlot(conf.cache.ruleMap)
    /\ Publishable(conf.cache.ruleMap)
    /\ FilesFrom(conf)

IInv == TypeOK /\ ConfInv(serverDataConf) /\ OnlyAcceptedInCache

Others(m, i) == {r \in m : r.ingress # i}

-----------------------------------------------------------------------------
(* Lemmas about the cache. *)

\* addRule builds a well-formed rule, filed under the Ingress it is for.
LEMMA RuleOfType ==
    ASSUME NEW i \in Ingress, NEW obj \in IngressObject, NEW k \in DOMAIN obj.paths
    PROVE  /\ RuleOf(i, obj, k) \in Rule
           /\ RuleOf(i, obj, k).ingress = i
           /\ RuleOf(i, obj, k).created = obj.created
<1>1. obj.paths[k] \in HttpPath
  BY DEF IngressObject
<1>2. obj.paths[k].host \in Host /\ obj.paths[k].path \in Path
      /\ obj.paths[k].type \in PathType /\ obj.paths[k].backend \in Backend
  BY <1>1 DEF HttpPath
<1>3. obj.cond \in Condition /\ obj.created \in Time
  BY DEF IngressObject
<1> QED
  BY <1>2, <1>3 DEF RuleOf, Rule, Location, Cluster

\* HttpRouteRuleCache.delete removes exactly the rules of its Ingress.
LEMMA DeleteRules ==
    ASSUME NEW cache \in Cache, NEW i \in Ingress, Indexed(cache)
    PROVE  LET d == DeleteHttpRulesByIngress(cache, i)
           IN  /\ d \in Cache
               /\ d.ruleMap = Others(cache.ruleMap, i)
               /\ Indexed(d)
<1> DEFINE d == DeleteHttpRulesByIngress(cache, i)
<1>1. d \in Cache
  BY DEF DeleteHttpRulesByIngress, Cache
<1>2. d.ruleMap = Others(cache.ruleMap, i)
  BY DEF DeleteHttpRulesByIngress, Cache, Others, Indexed, Rule
<1>3. Indexed(d)
  BY <1>2 DEF DeleteHttpRulesByIngress, Cache, Others, Indexed, Rule
<1> QED
  BY <1>1, <1>2, <1>3

\* updateCache adds rules of its own Ingress only, and keeps the index complete.
LEMMA UpdateCacheIndexed ==
    ASSUME NEW cache \in Cache, NEW i \in Ingress, NEW obj \in IngressObject,
           Indexed(cache)
    PROVE  LET u == UpdateCache(cache, i, obj)
           IN  /\ u \in Cache
               /\ Indexed(u)
               /\ Others(u.ruleMap, i) \subseteq cache.ruleMap
<1> DEFINE u == UpdateCache(cache, i, obj)
           new == Inserted(cache.ruleMap, i, obj)
<1>1. new \subseteq Rule /\ \A r \in new : r.ingress = i
  BY RuleOfType DEF Inserted, Claims, Processed
<1>2. /\ u.ruleMap = (cache.ruleMap \ Overwritten(cache.ruleMap, i, obj)) \cup new
      /\ u.ingress2Rule = [cache.ingress2Rule EXCEPT ![i] = @ \cup new]
      /\ u = [ruleMap |-> u.ruleMap, ingress2Rule |-> u.ingress2Rule]
  BY DEF UpdateCache
<1>3. u \in Cache
  BY <1>1, <1>2 DEF Cache
<1>4. Indexed(u)
  BY <1>1, <1>2 DEF Indexed, Cache, Rule
<1>5. Others(u.ruleMap, i) \subseteq cache.ruleMap
  BY <1>1, <1>2 DEF Others
<1> QED
  BY <1>3, <1>4, <1>5

\* Overwriting and the check for earlier paths keep one rule per slot.
LEMMA UpdateCacheOnePerSlot ==
    ASSUME NEW cache \in Cache, NEW i \in Ingress, NEW obj \in IngressObject,
           OnePerSlot(cache.ruleMap)
    PROVE  OnePerSlot(UpdateCache(cache, i, obj).ruleMap)
<1> DEFINE m == cache.ruleMap
           new == Inserted(m, i, obj)
           old == m \ Overwritten(m, i, obj)
<1>1. UpdateCache(cache, i, obj).ruleMap = old \cup new
  BY DEF UpdateCache
<1>2. ASSUME NEW r \in old, NEW q \in new
      PROVE  ~SameSlot(r, q)
  BY DEF Overwritten
<1>3. ASSUME NEW r \in new, NEW q \in new, SameSlot(r, q)
      PROVE  r = q
  <2>1. PICK k \in Claims(m, i, obj) : r = RuleOf(i, obj, k)
    BY DEF Inserted
  <2>2. PICK l \in Claims(m, i, obj) : q = RuleOf(i, obj, l)
    BY DEF Inserted
  <2>3. k \in DOMAIN obj.paths /\ l \in DOMAIN obj.paths
    BY DEF Claims, Processed
  <2>4. k \in Nat \ {0} /\ l \in Nat \ {0}
    BY <2>3 DEF IngressObject
  <2>5. ~(k < l)
    <3>1. k < l => k \in 1 .. l - 1
      BY <2>4
    <3> QED
      BY <3>1, <2>1, <2>2, <1>3 DEF Claims
  <2>6. ~(l < k)
    <3>1. l < k => l \in 1 .. k - 1
      BY <2>4
    <3>2. SameSlot(q, r)
      BY <1>3 DEF SameSlot
    <3> QED
      BY <3>1, <3>2, <2>1, <2>2 DEF Claims
  <2> QED
    BY <2>1, <2>2, <2>4, <2>5, <2>6
<1>4. ASSUME NEW r \in old, NEW q \in old, SameSlot(r, q)
      PROVE  r = q
  BY <1>4 DEF OnePerSlot
<1> QED
  BY <1>1, <1>2, <1>3, <1>4 DEF OnePerSlot, SameSlot

\* What updateCache takes out belongs to younger Ingresses and is in the way of
\* a path of the object.
LEMMA UpdateCacheSeniority ==
    ASSUME NEW cache \in Cache, NEW i \in Ingress, NEW obj \in IngressObject,
           NEW r \in cache.ruleMap \ UpdateCache(cache, i, obj).ruleMap
    PROVE  /\ obj.created < r.created
           /\ \E k \in DOMAIN obj.paths : SameSlot(RuleOf(i, obj, k), r)
<1>1. r \in Overwritten(cache.ruleMap, i, obj)
  BY DEF UpdateCache
<1>2. PICK k \in Claims(cache.ruleMap, i, obj) : SameSlot(r, RuleOf(i, obj, k))
  BY <1>1 DEF Overwritten, Inserted
<1>3. r \in Rivals(cache.ruleMap, RuleOf(i, obj, k))
  BY <1>2 DEF Rivals
<1> QED
  BY <1>2, <1>3 DEF Claims, Processed, SameSlot

-----------------------------------------------------------------------------
(* Lemmas about the files. *)

\* A table built from well-formed rules is well-formed.
LEMMA FilesType ==
    ASSUME NEW m \in SUBSET Rule
    PROVE  /\ RouteTable(m) \in RouteTableFile
           /\ ClusterConf(m) \in SUBSET (Cluster \cup {DefaultCluster})
<1>1. AdvancedRules(m) \subseteq m /\ BasicRules(m) \subseteq m
  BY DEF AdvancedRules, BasicRules
<1>2. {[location |-> r.location, cluster |-> r.cluster] : r \in BasicRules(m)}
        \subseteq [location: Location, cluster: Cluster \cup {AdvancedMode}]
  BY <1>1 DEF Rule
<1>3. {[location |-> r.location, cluster |-> AdvancedMode] : r \in AdvancedRules(m)}
        \subseteq [location: Location, cluster: Cluster \cup {AdvancedMode}]
  BY <1>1 DEF Rule
<1>4. {[location |-> r.location, cond |-> r.cond, cluster |-> r.cluster] :
            r \in AdvancedRules(m)}
        \subseteq [location: Location, cond: Condition, cluster: Cluster]
  BY <1>1 DEF Rule
<1>5. (DefaultBackend /\ m # {}) \in BOOLEAN
  OBVIOUS
<1>6. RouteTable(m) \in RouteTableFile
  BY <1>2, <1>3, <1>4, <1>5 DEF RouteTable, RouteTableFile
<1>7. {r.cluster : r \in m} \subseteq Cluster
  BY DEF Rule
<1> QED
  BY <1>6, <1>7 DEF ClusterConf

\* Taking rules away never makes a route table unusable: a rule that was basic
\* stays basic.  This is why DeleteIngress may drop the error.
LEMMA PublishableSubset ==
    ASSUME NEW m, NEW n \in SUBSET m, Publishable(m)
    PROVE  Publishable(n)
<1>1. AdvancedRules(n) \subseteq AdvancedRules(m)
  BY DEF AdvancedRules, Lone
<1> QED
  BY <1>1 DEF Publishable

\* The route table and the cluster configuration of one set of rules name the
\* same clusters.
LEMMA SameClusters ==
    ASSUME NEW m \in SUBSET Rule
    PROVE  TableClusters(RouteTable(m)) = ClusterConf(m)
<1> DEFINE t == RouteTable(m)
           basic == {[location |-> r.location, cluster |-> r.cluster] :
                        r \in BasicRules(m)}
           fake == {[location |-> r.location, cluster |-> AdvancedMode] :
                        r \in AdvancedRules(m)}
           advanced == {[location |-> r.location, cond |-> r.cond,
                         cluster |-> r.cluster] : r \in AdvancedRules(m)}
<1>1. t.basic = basic \cup fake /\ t.advanced = advanced
      /\ t.default = (DefaultBackend /\ m # {})
  BY DEF RouteTable
<1>2. AdvancedRules(m) \subseteq m /\ BasicRules(m) = m \ AdvancedRules(m)
  BY DEF AdvancedRules, BasicRules
<1>3. \A r \in m : r.cluster \in Cluster /\ r.cluster # AdvancedMode
  BY ServerDataAssumption DEF Rule
<1>4. {b.cluster : b \in basic} = {r.cluster : r \in BasicRules(m)}
  <2>1. ASSUME NEW x \in {b.cluster : b \in basic}
        PROVE  x \in {r.cluster : r \in BasicRules(m)}
    OBVIOUS
  <2>2. ASSUME NEW r \in BasicRules(m)
        PROVE  r.cluster \in {b.cluster : b \in basic}
    <3>1. [location |-> r.location, cluster |-> r.cluster] \in basic
      OBVIOUS
    <3> QED
      BY <3>1
  <2> QED
    BY <2>1, <2>2
<1>5. {b.cluster : b \in fake} \subseteq {AdvancedMode}
  OBVIOUS
<1>6. {a.cluster : a \in advanced} = {r.cluster : r \in AdvancedRules(m)}
  <2>1. ASSUME NEW x \in {a.cluster : a \in advanced}
        PROVE  x \in {r.cluster : r \in AdvancedRules(m)}
    OBVIOUS
  <2>2. ASSUME NEW r \in AdvancedRules(m)
        PROVE  r.cluster \in {a.cluster : a \in advanced}
    <3>1. [location |-> r.location, cond |-> r.cond, cluster |-> r.cluster]
            \in advanced
      OBVIOUS
    <3> QED
      BY <3>1
  <2> QED
    BY <2>1, <2>2
<1>7. {b.cluster : b \in basic \cup fake}
        = {b.cluster : b \in basic} \cup {b.cluster : b \in fake}
  OBVIOUS
<1>8. {b.cluster : b \in t.basic} \ {AdvancedMode} = {r.cluster : r \in BasicRules(m)}
  BY <1>1, <1>2, <1>3, <1>4, <1>5, <1>7
<1>9. {r.cluster : r \in m}
        = {r.cluster : r \in BasicRules(m)} \cup {r.cluster : r \in AdvancedRules(m)}
  BY <1>2
<1> QED
  BY <1>1, <1>6, <1>8, <1>9 DEF TableClusters, ClusterConf

\* Regenerating both files brings them up to the cache.
LEMMA Regenerated ==
    ASSUME NEW conf \in Configuration, Publishable(conf.cache.ruleMap)
    PROVE  LET c == UpdateBfeClusterConf(UpdateRouteTable(conf))
           IN  /\ c \in Configuration
               /\ c.cache = conf.cache
               /\ c.routeTableFile = RouteTable(c.cache.ruleMap)
               /\ FilesFrom(c)
<1> DEFINE c == UpdateBfeClusterConf(UpdateRouteTable(conf))
           m == conf.cache.ruleMap
<1>1. m \in SUBSET Rule
  BY DEF Configuration, Cache
<1>2. c = [conf EXCEPT !.routeTableFile = RouteTable(m), !.bfeClusterConf = ClusterConf(m)]
  BY DEF UpdateBfeClusterConf, UpdateRouteTable, Configuration
<1>3. c \in Configuration
  BY <1>1, <1>2, FilesType DEF Configuration
<1>4. c.cache = conf.cache /\ c.routeTableFile = RouteTable(m)
      /\ c.bfeClusterConf = ClusterConf(m)
  BY <1>2 DEF Configuration
<1> QED
  BY <1>1, <1>3, <1>4 DEF FilesFrom

-----------------------------------------------------------------------------
(* The operations preserve ConfInv. *)

LEMMA NewConf == ConfInv(NewServerDataConfig)
<1> DEFINE c == NewServerDataConfig
<1>1. c.cache.ruleMap = {} /\ c.cache \in Cache
  BY DEF NewServerDataConfig, NewRouteRuleCache, Cache
<1>2. c.routeTableFile = RouteTable({}) /\ c.bfeClusterConf = ClusterConf({})
  BY DEF NewServerDataConfig, ClusterConf
<1>3. c \in Configuration
  BY <1>1, <1>2, FilesType DEF NewServerDataConfig, Configuration
<1>4. Publishable({})
  BY DEF Publishable, AdvancedRules
<1>5. FilesFrom(c)
  BY <1>1, <1>2 DEF FilesFrom
<1> QED
  BY <1>1, <1>3, <1>4, <1>5 DEF ConfInv, Indexed, OnePerSlot

\* Dropping the rules of an Ingress from the cache, the files as they are.
LEMMA WithoutIngressInv ==
    ASSUME NEW conf, NEW i \in Ingress, conf \in Configuration,
           Indexed(conf.cache)
    PROVE  LET c == WithoutIngress(conf, i)
           IN  /\ c \in Configuration
               /\ Indexed(c.cache)
               /\ c.cache.ruleMap = Others(conf.cache.ruleMap, i)
               /\ c.routeTableFile = conf.routeTableFile
               /\ c.bfeClusterConf = conf.bfeClusterConf
<1>1. conf.cache \in Cache
  BY DEF Configuration
<1>2. /\ WithoutIngress(conf, i).cache = DeleteHttpRulesByIngress(conf.cache, i)
      /\ WithoutIngress(conf, i).routeTableFile = conf.routeTableFile
      /\ WithoutIngress(conf, i).bfeClusterConf = conf.bfeClusterConf
  BY DEF WithoutIngress, Configuration
<1>3. WithoutIngress(conf, i) \in Configuration
  BY <1>1, DeleteRules DEF WithoutIngress, Configuration
<1> QED
  BY <1>1, <1>2, <1>3, DeleteRules

\* After DeleteIngress no rule of the Ingress is left, and no other is gone.
LEMMA DeleteIngressInv ==
    ASSUME NEW conf, NEW i \in Ingress, ConfInv(conf)
    PROVE  /\ ConfInv(DeleteIngress(conf, i))
           /\ DeleteIngress(conf, i).cache.ruleMap = Others(conf.cache.ruleMap, i)
<1> DEFINE c == WithoutIngress(conf, i)
<1>1. conf \in Configuration /\ conf.cache \in Cache
  BY DEF ConfInv, Configuration
<1>2. CASE ~ContainsIngress(conf.cache, i)
  <2>1. Others(conf.cache.ruleMap, i) = conf.cache.ruleMap
    BY <1>1, <1>2 DEF ContainsIngress, ConfInv, Indexed, Others
  <2> QED
    BY <1>2, <2>1 DEF DeleteIngress
<1>3. CASE ContainsIngress(conf.cache, i)
  <2>1. /\ c \in Configuration
        /\ Indexed(c.cache)
        /\ c.cache.ruleMap = Others(conf.cache.ruleMap, i)
    BY <1>1, WithoutIngressInv DEF ConfInv
  <2>2. c.cache.ruleMap \subseteq conf.cache.ruleMap
    BY <2>1 DEF Others
  <2>3. Publishable(c.cache.ruleMap) /\ OnePerSlot(c.cache.ruleMap)
    BY <2>2, PublishableSubset DEF ConfInv, OnePerSlot
  <2>4. DeleteIngress(conf, i) = UpdateBfeClusterConf(UpdateRouteTable(c))
    BY <1>3 DEF DeleteIngress
  <2> QED
    BY <2>1, <2>3, <2>4, Regenerated DEF ConfInv
<1> QED
  BY <1>2, <1>3

\* UpdateIngress, when the object is taken or left alone and when it is refused:
\* no rule of another Ingress comes in, and one that goes is younger than the
\* object and in the way of one of its paths.
LEMMA UpdateIngressInv ==
    ASSUME NEW conf, NEW i \in Ingress, NEW obj \in IngressObject, ConfInv(conf)
    PROVE  LET u == UpdateIngress(conf, i, obj)
               gone == conf.cache.ruleMap \ u.conf.cache.ruleMap
           IN  /\ ConfInv(u.conf)
               /\ Others(u.conf.cache.ruleMap, i) \subseteq conf.cache.ruleMap
               /\ \A r \in gone :
                    \/ r.ingress = i
                    \/ /\ obj.created < r.created
                       /\ \E k \in DOMAIN obj.paths : SameSlot(RuleOf(i, obj, k), r)
<1> DEFINE u == UpdateIngress(conf, i, obj)
           new == Updated(conf, i, obj)
           old == DeleteHttpRulesByIngress(conf.cache, i)
<1>1. /\ conf \in Configuration /\ conf.cache \in Cache
      /\ Indexed(conf.cache) /\ OnePerSlot(conf.cache.ruleMap)
      /\ Publishable(conf.cache.ruleMap) /\ FilesFrom(conf)
  BY DEF ConfInv, Configuration
<1>2. /\ old \in Cache
      /\ old.ruleMap = Others(conf.cache.ruleMap, i)
      /\ Indexed(old)
  BY <1>1, DeleteRules
<1>3. OnePerSlot(old.ruleMap)
  BY <1>1, <1>2 DEF OnePerSlot, Others
<1>4. /\ new.cache = UpdateCache(old, i, obj)
      /\ new.routeTableFile = conf.routeTableFile
      /\ new.bfeClusterConf = conf.bfeClusterConf
      /\ new = [conf EXCEPT !.cache = UpdateCache(old, i, obj)]
  BY <1>1 DEF Updated, Configuration
<1>5. /\ new.cache \in Cache
      /\ Indexed(new.cache)
      /\ OnePerSlot(new.cache.ruleMap)
      /\ Others(new.cache.ruleMap, i) \subseteq old.ruleMap
  BY <1>2, <1>3, <1>4, UpdateCacheIndexed, UpdateCacheOnePerSlot
<1>6. new \in Configuration
  BY <1>1, <1>4, <1>5 DEF Configuration
<1>7. \A r \in conf.cache.ruleMap \ new.cache.ruleMap :
        \/ r.ingress = i
        \/ /\ obj.created < r.created
           /\ \E k \in DOMAIN obj.paths : SameSlot(RuleOf(i, obj, k), r)
  <2>1. SUFFICES ASSUME NEW r \in old.ruleMap \ new.cache.ruleMap
                 PROVE  /\ obj.created < r.created
                        /\ \E k \in DOMAIN obj.paths : SameSlot(RuleOf(i, obj, k), r)
    BY <1>2 DEF Others
  <2> QED
    BY <1>2, <1>4, UpdateCacheSeniority
<1>8. CASE obj.paths = <<>>
  <2>1. u.conf = conf
    BY <1>8 DEF UpdateIngress
  <2> QED
    BY <2>1 DEF Others
<1>9. CASE obj.paths # <<>> /\ UpdateFails(conf, i, obj)
  <2>1. u.conf = WithoutIngress(new, i)
    BY <1>9 DEF UpdateIngress
  <2>2. /\ u.conf \in Configuration
        /\ Indexed(u.conf.cache)
        /\ u.conf.cache.ruleMap = Others(new.cache.ruleMap, i)
        /\ u.conf.routeTableFile = conf.routeTableFile
        /\ u.conf.bfeClusterConf = conf.bfeClusterConf
    <3> HIDE DEF new
    <3>1. LET c == WithoutIngress(new, i)
          IN  /\ c \in Configuration
              /\ Indexed(c.cache)
              /\ c.cache.ruleMap = Others(new.cache.ruleMap, i)
              /\ c.routeTableFile = new.routeTableFile
              /\ c.bfeClusterConf = new.bfeClusterConf
      BY <1>5, <1>6, WithoutIngressInv
    <3> QED
      BY <1>4, <2>1, <3>1
  <2>3. /\ u.conf.cache.ruleMap \subseteq conf.cache.ruleMap
        /\ u.conf.cache.ruleMap \subseteq new.cache.ruleMap
    BY <1>2, <1>5, <2>2 DEF Others
  <2>4. OnePerSlot(u.conf.cache.ruleMap)
    BY <1>5, <2>3 DEF OnePerSlot
  <2>5. Publishable(u.conf.cache.ruleMap)
    BY <1>1, <2>3, PublishableSubset
  <2>6. FilesFrom(u.conf)
    BY <1>1, <2>2, <2>3 DEF FilesFrom
  <2>7. \A r \in new.cache.ruleMap \ u.conf.cache.ruleMap : r.ingress = i
    BY <2>2 DEF Others
  <2> QED
    BY <1>7, <2>2, <2>3, <2>4, <2>5, <2>6, <2>7 DEF ConfInv, Others
<1>10. CASE obj.paths # <<>> /\ ~UpdateFails(conf, i, obj)
  <2>1. u.conf = UpdateBfeClusterConf(UpdateRouteTable(new))
    BY <1>10 DEF UpdateIngress
  <2>2. Publishable(new.cache.ruleMap)
    BY <1>10 DEF UpdateFails
  <2>3. /\ u.conf \in Configuration
        /\ u.conf.cache = new.cache
        /\ FilesFrom(u.conf)
    BY <1>6, <2>1, <2>2, Regenerated
  <2>4. Others(u.conf.cache.ruleMap, i) \subseteq conf.cache.ruleMap
    BY <1>2, <1>5, <2>3 DEF Others
  <2> QED
    BY <1>5, <1>7, <2>2, <2>3, <2>4 DEF ConfInv
<1> QED
  BY <1>8, <1>9, <1>10

-----------------------------------------------------------------------------
(* The machine. *)

\* Edited objects stay well-formed.
LEMMA StoreType ==
    ASSUME TypeOK, NEW i \in Ingress, NEW obj \in IngressObject \cup {NoObject},
           Store(i, obj)
    PROVE  TypeOK'
  BY DEF TypeOK, Store

\* Every step keeps the invariant.
LEMMA IInvInductive == IInv /\ [Next]_vars => IInv'
<1> SUFFICES ASSUME IInv, [Next]_vars PROVE IInv'
  OBVIOUS
<1>1. ASSUME UNCHANGED <<serverDataConf, status>>, TypeOK'
      PROVE  IInv'
  BY <1>1 DEF IInv, ConfInv, OnlyAcceptedInCache, ruleMap
<1>2. CASE Tick
  <2>1. TypeOK'
    BY <1>2, ServerDataAssumption DEF IInv, TypeOK, Tick, Time
  <2> QED
    BY <1>1, <1>2, <2>1 DEF Tick
<1>3. ASSUME NEW i \in Ingress, CreateIngress(i) PROVE IInv'
  <2>1. PICK m \in Manifest :
           Store(i, [created |-> clock, cond |-> m.cond, paths |-> m.paths])
    BY <1>3 DEF CreateIngress
  <2>2. [created |-> clock, cond |-> m.cond, paths |-> m.paths] \in IngressObject
    BY ServerDataAssumption DEF IInv, TypeOK, IngressObject
  <2> QED
    BY <1>1, <2>1, <2>2, StoreType DEF IInv, Store
<1>4. ASSUME NEW i \in Ingress, EditIngress(i) PROVE IInv'
  <2>1. PICK m \in Manifest :
           Store(i, [object[i] EXCEPT !.cond = m.cond, !.paths = m.paths])
    BY <1>4 DEF EditIngress
  <2>2. object[i] \in IngressObject
    BY <1>4 DEF IInv, TypeOK, EditIngress
  <2>3. [object[i] EXCEPT !.cond = m.cond, !.paths = m.paths] \in IngressObject
    BY <2>2, ServerDataAssumption DEF IngressObject
  <2> QED
    BY <1>1, <2>1, <2>3, StoreType DEF IInv, Store
<1>5. ASSUME NEW i \in Ingress, RemoveIngress(i) PROVE IInv'
  BY <1>1, <1>5, StoreType DEF IInv, RemoveIngress, Store
<1>6. ASSUME NEW i \in Ingress, SyncAbsent(i) PROVE IInv'
  <2>1. /\ ConfInv(serverDataConf')
        /\ serverDataConf'.cache.ruleMap = Others(ruleMap, i)
    BY <1>6, DeleteIngressInv DEF IInv, SyncAbsent, ruleMap
  <2>2. TypeOK'
    BY <1>6, <2>1 DEF IInv, TypeOK, SyncAbsent, ConfInv
  <2>3. OnlyAcceptedInCache'
    BY <1>6, <2>1 DEF IInv, TypeOK, SyncAbsent, OnlyAcceptedInCache, ruleMap, Others,
       ConfInv, Configuration, Cache, Rule
  <2> QED
    BY <2>1, <2>2, <2>3 DEF IInv
<1>7. ASSUME NEW i \in Ingress, SyncAccepted(i) PROVE IInv'
  <2> DEFINE u == UpdateIngress(serverDataConf, i, object[i])
  <2>1. object[i] \in IngressObject
    BY <1>7 DEF IInv, TypeOK, SyncAccepted
  <2>2. serverDataConf' = u.conf
    BY <1>7 DEF SyncAccepted
  <2>3. /\ ConfInv(serverDataConf')
        /\ Others(serverDataConf'.cache.ruleMap, i) \subseteq ruleMap
    BY <2>1, <2>2, UpdateIngressInv DEF IInv, ruleMap
  <2>4. TypeOK'
    BY <1>7, <2>3 DEF IInv, TypeOK, SyncAccepted, ConfInv
  <2>5. OnlyAcceptedInCache'
    BY <1>7, <2>3 DEF IInv, TypeOK, SyncAccepted, OnlyAcceptedInCache, ruleMap, Others,
       ConfInv, Configuration, Cache, Rule
  <2> QED
    BY <2>3, <2>4, <2>5 DEF IInv
<1>8. ASSUME NEW i \in Ingress, SyncRefused(i) PROVE IInv'
  <2> DEFINE u == UpdateIngress(serverDataConf, i, object[i])
  <2>1. object[i] \in IngressObject
    BY <1>8 DEF IInv, TypeOK, SyncRefused, UpdateIngress
  <2>2. serverDataConf' = DeleteIngress(u.conf, i)
    BY <1>8 DEF SyncRefused
  <2>3. /\ ConfInv(u.conf)
        /\ Others(u.conf.cache.ruleMap, i) \subseteq ruleMap
    BY <2>1, UpdateIngressInv DEF IInv, ruleMap
  <2>4. /\ ConfInv(serverDataConf')
        /\ serverDataConf'.cache.ruleMap = Others(u.conf.cache.ruleMap, i)
    BY <2>2, <2>3, DeleteIngressInv
  <2>5. TypeOK'
    BY <1>8, <2>4 DEF IInv, TypeOK, SyncRefused, ConfInv
  <2>6. OnlyAcceptedInCache'
    BY <1>8, <2>3, <2>4 DEF IInv, TypeOK, SyncRefused, OnlyAcceptedInCache, ruleMap,
       Others, ConfInv, Configuration, Cache, Rule
  <2> QED
    BY <2>4, <2>5, <2>6 DEF IInv
<1>9. CASE UNCHANGED vars
  BY <1>1, <1>9 DEF IInv, TypeOK, vars
<1> QED
  BY <1>2, <1>3, <1>4, <1>5, <1>6, <1>7, <1>8, <1>9 DEF Next, Sync

\* The process starts with an empty cache and the files it generates from it.
LEMMA IInvInitial == Init => IInv
<1> SUFFICES ASSUME Init PROVE IInv
  OBVIOUS
<1>1. ConfInv(serverDataConf)
  BY NewConf DEF Init
<1>2. TypeOK
  BY <1>1, ServerDataAssumption DEF Init, TypeOK, ConfInv, Time
<1>3. OnlyAcceptedInCache
  BY DEF Init, OnlyAcceptedInCache, ruleMap, NewServerDataConfig, NewRouteRuleCache
<1> QED
  BY <1>1, <1>2, <1>3 DEF IInv

\* The strengthened invariant holds throughout.
THEOREM Invariance == Spec => []IInv
  BY IInvInitial, IInvInductive, PTL DEF Spec

\* Type correctness of the reconciler's state and of the configuration.
THEOREM Typing == Spec => []TypeOK
<1>1. IInv => TypeOK
  BY DEF IInv
<1> QED
  BY <1>1, Invariance, PTL

\* The index of the cache never misses a rule, so delete is complete, and no
\* slot is ever held twice.
THEOREM CacheCorrect == Spec => [](RulesIndexed /\ OneRulePerSlot)
<1>1. IInv => RulesIndexed /\ OneRulePerSlot
  BY DEF IInv, ConfInv, RulesIndexed, OneRulePerSlot, Indexed, OnePerSlot,
     ruleMap, ingress2Rule
<1> QED
  BY <1>1, Invariance, PTL

\* Refused and deleted Ingresses leave nothing in the cache.
THEOREM AcceptedOnly == Spec => []OnlyAcceptedInCache
<1>1. IInv => OnlyAcceptedInCache
  BY DEF IInv
<1> QED
  BY <1>1, Invariance, PTL

\* The cache can always be published, both files name the same clusters, and
\* each cached rule has its route, however the last updates failed.
THEOREM FilesCorrect == Spec => [](AlwaysPublishable /\ FilesAgree /\ CachedRulesRouted)
<1>1. ASSUME IInv PROVE AlwaysPublishable /\ FilesAgree /\ CachedRulesRouted
  <2>1. AlwaysPublishable
    BY <1>1 DEF IInv, ConfInv, AlwaysPublishable, ruleMap
  <2>2. PICK m \in SUBSET Rule :
           /\ ruleMap \subseteq m
           /\ serverDataConf.routeTableFile = RouteTable(m)
           /\ serverDataConf.bfeClusterConf = ClusterConf(m)
    BY <1>1 DEF IInv, ConfInv, FilesFrom, ruleMap
  <2>3. FilesAgree
    BY <2>2, SameClusters DEF FilesAgree
  <2>4. CachedRulesRouted
    <3> DEFINE t == serverDataConf.routeTableFile
    <3>1. SUFFICES ASSUME NEW r \in ruleMap
          PROVE  \/ [location |-> r.location, cluster |-> r.cluster] \in t.basic
                 \/ /\ [location |-> r.location, cluster |-> AdvancedMode] \in t.basic
                    /\ [location |-> r.location, cond |-> r.cond,
                        cluster |-> r.cluster] \in t.advanced
      BY DEF CachedRulesRouted
    <3>2. CASE r \in AdvancedRules(m)
      <4>1. [location |-> r.location, cluster |-> AdvancedMode] \in RouteTable(m).basic
        BY <3>2 DEF RouteTable
      <4>2. [location |-> r.location, cond |-> r.cond, cluster |-> r.cluster]
              \in RouteTable(m).advanced
        BY <3>2 DEF RouteTable
      <4> QED
        BY <2>2, <4>1, <4>2
    <3>3. CASE r \in BasicRules(m)
      BY <2>2, <3>3 DEF RouteTable
    <3> QED
      BY <2>2, <3>1, <3>2, <3>3 DEF BasicRules
  <2> QED
    BY <2>1, <2>3, <2>4
<1> QED
  BY <1>1, Invariance, PTL

\* A rule only leaves the cache when its own Ingress is synchronised or when
\* an Ingress created strictly earlier asks for the same slot.
SeniorityRespected ==
    [][\A r \in ruleMap \ ruleMap' :
          \E i \in queue :
             \/ i = r.ingress
             \/ /\ object[i] # NoObject
                /\ object[i].created < r.created
                /\ \E k \in DOMAIN object[i].paths :
                      SameSlot(RuleOf(i, object[i], k), r)]_vars

\* No Ingress loses a rule to an Ingress created after it, or in the same second.
THEOREM Seniority == Spec => SeniorityRespected
<1> DEFINE Senior ==
      \A r \in ruleMap \ ruleMap' :
          \E i \in queue :
             \/ i = r.ingress
             \/ /\ object[i] # NoObject
                /\ object[i].created < r.created
                /\ \E k \in DOMAIN object[i].paths :
                      SameSlot(RuleOf(i, object[i], k), r)
<1>1. ASSUME IInv, [Next]_vars PROVE [Senior]_vars
  <2> USE <1>1
  <2>1. CASE UNCHANGED serverDataConf
    BY <2>1 DEF ruleMap
  <2>2. ASSUME NEW i \in Ingress, SyncAbsent(i) PROVE Senior
    <3>1. ruleMap' = Others(ruleMap, i) /\ i \in queue
      BY <2>2, DeleteIngressInv DEF IInv, SyncAbsent, ruleMap
    <3> QED
      BY <3>1 DEF Others
  <2>3. ASSUME NEW i \in Ingress, SyncAccepted(i) PROVE Senior
    <3>1. object[i] \in IngressObject /\ i \in queue /\ object[i] # NoObject
      BY <2>3 DEF IInv, TypeOK, SyncAccepted
    <3>2. serverDataConf' = UpdateIngress(serverDataConf, i, object[i]).conf
      BY <2>3 DEF SyncAccepted
    <3>3. \A r \in ruleMap \ ruleMap' :
            \/ r.ingress = i
            \/ /\ object[i].created < r.created
               /\ \E k \in DOMAIN object[i].paths :
                     SameSlot(RuleOf(i, object[i], k), r)
      BY <3>1, <3>2, UpdateIngressInv DEF IInv, ruleMap
    <3> QED
      BY <3>1, <3>3
  <2>4. ASSUME NEW i \in Ingress, SyncRefused(i) PROVE Senior
    <3> DEFINE c == UpdateIngress(serverDataConf, i, object[i]).conf
    <3>1. object[i] \in IngressObject /\ i \in queue /\ object[i] # NoObject
      BY <2>4 DEF IInv, TypeOK, SyncRefused
    <3>2. serverDataConf' = DeleteIngress(c, i)
      BY <2>4 DEF SyncRefused
    <3>3. /\ ConfInv(c)
          /\ \A r \in ruleMap \ c.cache.ruleMap :
            \/ r.ingress = i
            \/ /\ object[i].created < r.created
               /\ \E k \in DOMAIN object[i].paths :
                     SameSlot(RuleOf(i, object[i], k), r)
      BY <3>1, UpdateIngressInv DEF IInv, ruleMap
    <3>4. ruleMap' = Others(c.cache.ruleMap, i)
      BY <3>2, <3>3, DeleteIngressInv DEF ruleMap
    <3> QED
      BY <3>1, <3>3, <3>4 DEF Others
  <2>5. Next => UNCHANGED serverDataConf \/ \E i \in Ingress : Sync(i)
    BY DEF Next, Tick, CreateIngress, EditIngress, RemoveIngress, Store
  <2> QED
    BY <2>1, <2>2, <2>3, <2>4, <2>5 DEF Sync, vars
<1>2. Spec => [][Senior]_vars
  BY <1>1, Invariance, PTL DEF Spec
<1> QED
  BY <1>2 DEF SeniorityRespected

\* Of the paths up to k that share its slot, one is the first.
LEMMA FirstPath ==
    ASSUME NEW i \in Ingress, NEW obj \in IngressObject, NEW k \in DOMAIN obj.paths
    PROVE  \E l \in 1 .. k :
              /\ SameSlot(RuleOf(i, obj, l), RuleOf(i, obj, k))
              /\ \A j \in 1 .. l - 1 : ~SameSlot(RuleOf(i, obj, j), RuleOf(i, obj, l))
<1> DEFINE T == {l \in 1 .. k : SameSlot(RuleOf(i, obj, l), RuleOf(i, obj, k))}
<1>1. k \in Nat \ {0}
  BY DEF IngressObject
<1>2. k \in T /\ T \subseteq Nat
  BY <1>1 DEF SameSlot
<1>3. PICK l \in T : \A j \in T : ~ (<<j, l>> \in OpToRel(<, Nat))
  BY <1>2, WFMin, NatLessThanWellFounded, Zenon
<1>4. \A j \in T : ~(j < l)
  <2> SUFFICES ASSUME NEW j \in T, j < l PROVE FALSE
    OBVIOUS
  <2>1. <<j, l>> \in Nat \X Nat /\ <<j, l>>[1] < <<j, l>>[2]
    BY <1>2
  <2>2. <<j, l>> \in OpToRel(<, Nat)
    BY <2>1 DEF OpToRel
  <2> QED
    BY <1>3, <2>2
<1>5. ASSUME NEW j \in 1 .. l - 1
      PROVE  ~SameSlot(RuleOf(i, obj, j), RuleOf(i, obj, l))
  <2>1. j \in 1 .. k /\ j < l /\ l \in Nat
    BY <1>1, <1>2
  <2>2. j \notin T
    BY <1>4, <2>1
  <2> QED
    BY <2>1, <2>2 DEF SameSlot
<1> QED
  BY <1>5

\* When updateCache finds no conflict, each slot of the object holds a rule of
\* the same age: its own, or the one of a twin.
LEMMA UpdateCacheSlots ==
    ASSUME NEW cache \in Cache, NEW i \in Ingress, NEW obj \in IngressObject,
           ~CacheError(cache, i, obj), NEW k \in DOMAIN obj.paths
    PROVE  \E r \in UpdateCache(cache, i, obj).ruleMap :
              SameSlot(r, RuleOf(i, obj, k)) /\ r.created = obj.created
<1> DEFINE m == cache.ruleMap
           slot == RuleOf(i, obj, k)
<1>1. obj.created \in Int /\ \A q \in m : q.created \in Int
  BY ServerDataAssumption DEF IngressObject, Cache, Rule, Time
<1>2. PICK l \in 1 .. k :
         /\ SameSlot(RuleOf(i, obj, l), slot)
         /\ \A j \in 1 .. l - 1 : ~SameSlot(RuleOf(i, obj, j), RuleOf(i, obj, l))
  BY FirstPath
<1>3. l \in DOMAIN obj.paths /\ 1 .. l \subseteq DOMAIN obj.paths
  BY DEF IngressObject
<1>4. l \in Processed(m, i, obj)
  BY <1>3 DEF Processed, CacheError
<1>5. \A q \in Rivals(m, RuleOf(i, obj, l)) : q \in m /\ ~(q.created < obj.created)
  BY <1>3 DEF CacheError, Refused, Rivals
<1>6. CASE \A q \in Rivals(m, RuleOf(i, obj, l)) : obj.created < q.created
  <2>1. l \in Claims(m, i, obj)
    BY <1>2, <1>4, <1>6 DEF Claims
  <2>2. RuleOf(i, obj, l) \in UpdateCache(cache, i, obj).ruleMap
    BY <2>1 DEF Inserted, UpdateCache
  <2> QED
    BY <1>2, <1>3, <2>2, RuleOfType
<1>7. CASE \E q \in Rivals(m, RuleOf(i, obj, l)) : ~(obj.created < q.created)
  <2>1. PICK q \in Rivals(m, RuleOf(i, obj, l)) : q.created = obj.created
    BY <1>1, <1>5, <1>7
  <2>2. q \in m /\ SameSlot(q, slot)
    BY <1>2, <2>1 DEF Rivals, SameSlot
  <2>3. q \notin Overwritten(m, i, obj)
    <3>1. SUFFICES ASSUME NEW h \in Claims(m, i, obj), SameSlot(q, RuleOf(i, obj, h))
                   PROVE  FALSE
      BY DEF Overwritten, Inserted
    <3>2. obj.created < q.created
      BY <2>2, <3>1 DEF Claims, Rivals
    <3> QED
      BY <1>1, <2>1, <2>2, <3>2
  <2> QED
    BY <2>1, <2>2, <2>3 DEF UpdateCache
<1> QED
  BY <1>6, <1>7

\* An accepted object finds each of its slots held by itself, or by an object
\* created in the same second.
AcceptedSlots ==
    [][\A i \in queue \ queue' : status'[i] = "success" =>
          \A k \in DOMAIN object[i].paths :
             \E r \in ruleMap' :
                /\ SameSlot(r, RuleOf(i, object[i], k))
                /\ r.created = object[i].created]_vars

\* An accepted Ingress is served on each of its slots, by itself or by a twin.
THEOREM Accepted == Spec => AcceptedSlots
<1> DEFINE Served ==
      \A i \in queue \ queue' : status'[i] = "success" =>
          \A k \in DOMAIN object[i].paths :
             \E r \in ruleMap' :
                /\ SameSlot(r, RuleOf(i, object[i], k))
                /\ r.created = object[i].created
<1>1. ASSUME IInv, [Next]_vars PROVE [Served]_vars
  <2> USE <1>1
  <2>1. ASSUME NEW i \in Ingress, SyncAccepted(i) PROVE Served
    <3> DEFINE obj == object[i]
               old == DeleteHttpRulesByIngress(serverDataConf.cache, i)
    <3>1. obj \in IngressObject
      BY <2>1 DEF IInv, TypeOK, SyncAccepted
    <3>2. SUFFICES ASSUME NEW k \in DOMAIN obj.paths
                   PROVE  \E r \in ruleMap' :
                             SameSlot(r, RuleOf(i, obj, k)) /\ r.created = obj.created
      BY <2>1 DEF SyncAccepted
    <3>3. obj.paths # <<>>
      BY <3>2 DEF IngressObject
    <3>4. ~UpdateFails(serverDataConf, i, obj)
      BY <2>1, <3>3 DEF SyncAccepted, UpdateIngress
    <3>5. old \in Cache
      BY DeleteRules DEF IInv, ConfInv, Configuration
    <3>6. Updated(serverDataConf, i, obj) \in Configuration
          /\ Updated(serverDataConf, i, obj).cache = UpdateCache(old, i, obj)
      <4>1. UpdateCache(old, i, obj) \in Cache
        BY <3>1, <3>5, DeleteRules, UpdateCacheIndexed
           DEF IInv, ConfInv, Configuration
      <4> QED
        BY <4>1 DEF Updated, IInv, ConfInv, Configuration
    <3>7. ruleMap' = UpdateCache(old, i, obj).ruleMap
      <4>1. serverDataConf'
              = UpdateBfeClusterConf(UpdateRouteTable(Updated(serverDataConf, i, obj)))
        BY <2>1, <3>3, <3>4 DEF SyncAccepted, UpdateIngress
      <4> QED
        BY <3>4, <3>6, <4>1, Regenerated DEF UpdateFails, ruleMap
    <3> QED
      BY <3>1, <3>4, <3>5, <3>7, UpdateCacheSlots DEF UpdateFails
  <2>2. ASSUME NEW i \in Ingress, SyncAbsent(i) PROVE Served
    BY <2>2 DEF SyncAbsent, IInv, TypeOK
  <2>3. Next => queue \subseteq queue' \/ \E i \in Ingress : SyncAbsent(i) \/ SyncAccepted(i)
    BY DEF Next, Tick, CreateIngress, EditIngress, RemoveIngress, Store, Sync, SyncRefused
  <2> QED
    BY <2>1, <2>2, <2>3 DEF vars
<1>2. Spec => [][Served]_vars
  BY <1>1, Invariance, PTL DEF Spec
<1> QED
  BY <1>2 DEF AcceptedSlots

-----------------------------------------------------------------------------
(* The cache allocates slots. *)

\* Rules in the way of the slots W of an Ingress created at t.
Younger(m, W, t) == {r \in m : SlotOf(r) \in W /\ t < r.created}

SlotsOf(i, obj) == {SlotOf(RuleOf(i, obj, k)) : k \in DOMAIN obj.paths}

LEMMA SlotsAgree ==
    ASSUME NEW r, NEW q
    PROVE  SameSlot(r, q) <=> SlotOf(r) = SlotOf(q)
  BY DEF SameSlot, SlotOf

\* Seen from outside, taking rules by owner, slot and age takes their holdings.
LEMMA HeldKept ==
    ASSUME NEW m, NEW i, NEW W, NEW t
    PROVE  LET others == {c \in Held(m) : c.owner # i}
           IN  others \ {c \in others : c.slot \in W /\ t < c.since}
                  = Held(Others(m, i) \ Younger(Others(m, i), W, t))
<1> DEFINE others == {c \in Held(m) : c.owner # i}
           kept == others \ {c \in others : c.slot \in W /\ t < c.since}
           rules == Others(m, i) \ Younger(Others(m, i), W, t)
<1>1. ASSUME NEW c \in kept PROVE c \in Held(rules)
  <2>1. PICK r \in m : c = Holding(r)
    BY DEF Held
  <2>2. c.owner = r.ingress /\ c.slot = SlotOf(r) /\ c.since = r.created
    BY <2>1 DEF Holding
  <2>3. r \in rules
    BY <2>2 DEF Others, Younger
  <2> QED
    BY <2>1, <2>3 DEF Held
<1>2. ASSUME NEW r \in rules PROVE Holding(r) \in kept
  <2>1. /\ Holding(r).owner = r.ingress /\ Holding(r).slot = SlotOf(r)
        /\ Holding(r).since = r.created
    BY DEF Holding
  <2>2. r \in m /\ r.ingress # i /\ ~(SlotOf(r) \in W /\ t < r.created)
    BY DEF Others, Younger
  <2> QED
    BY <2>1, <2>2 DEF Held
<1> QED
  BY <1>1, <1>2 DEF Held

\* Whatever updateCache overwrites, it takes from the younger holders of the slots of
\* the paths it has put, refused half-way or not.
LEMMA OverwrittenYounger ==
    ASSUME NEW cache \in Cache, NEW i \in Ingress, NEW obj \in IngressObject
    PROVE  LET m == cache.ruleMap
               W == {SlotOf(RuleOf(i, obj, k)) : k \in Claims(m, i, obj)}
           IN  /\ W \subseteq SlotsOf(i, obj)
               /\ Overwritten(m, i, obj) = Younger(m, W, obj.created)
<1> DEFINE m == cache.ruleMap
           W == {SlotOf(RuleOf(i, obj, k)) : k \in Claims(m, i, obj)}
<1>1. W \subseteq SlotsOf(i, obj)
  BY DEF SlotsOf, Claims, Processed
<1>2. ASSUME NEW q \in Overwritten(m, i, obj)
      PROVE  q \in Younger(m, W, obj.created)
  <2>1. PICK k \in Claims(m, i, obj) : SameSlot(q, RuleOf(i, obj, k))
    BY DEF Overwritten, Inserted
  <2>2. q \in m /\ SlotOf(q) = SlotOf(RuleOf(i, obj, k))
    BY <2>1, SlotsAgree DEF Overwritten
  <2>3. obj.created < q.created
    BY <2>1, <2>2 DEF Claims, Rivals
  <2> QED
    BY <2>2, <2>3 DEF Younger
<1>3. ASSUME NEW q \in Younger(m, W, obj.created)
      PROVE  q \in Overwritten(m, i, obj)
  <2>1. PICK k \in Claims(m, i, obj) : SlotOf(q) = SlotOf(RuleOf(i, obj, k))
    BY DEF Younger
  <2> QED
    BY <2>1, SlotsAgree DEF Younger, Overwritten, Inserted
<1> QED
  BY <1>1, <1>2, <1>3

\* When no path is refused, the paths that are put are the first in their slots, and
\* of those the ones in slots that are free or held by a younger rule.
LEMMA ClaimedSlots ==
    ASSUME NEW cache \in Cache, NEW i \in Ingress, NEW obj \in IngressObject,
           OnePerSlot(cache.ruleMap), ~CacheError(cache, i, obj)
    PROVE  LET m == cache.ruleMap
               kept == m \ Younger(m, SlotsOf(i, obj), obj.created)
           IN  {SlotOf(RuleOf(i, obj, k)) : k \in Claims(m, i, obj)}
                  = {s \in SlotsOf(i, obj) : \A r \in kept : SlotOf(r) # s}
<1> DEFINE m == cache.ruleMap
           kept == m \ Younger(m, SlotsOf(i, obj), obj.created)
<1>1. ASSUME NEW k \in Claims(m, i, obj), NEW r \in kept
      PROVE  SlotOf(r) # SlotOf(RuleOf(i, obj, k))
  <2>1. SUFFICES ASSUME SlotOf(r) = SlotOf(RuleOf(i, obj, k)) PROVE FALSE
    OBVIOUS
  <2>2. r \in Rivals(m, RuleOf(i, obj, k))
    BY <2>1, SlotsAgree DEF Rivals
  <2>3. obj.created < r.created
    BY <2>2 DEF Claims
  <2>4. SlotOf(r) \in SlotsOf(i, obj)
    BY <2>1 DEF SlotsOf, Claims, Processed
  <2> QED
    BY <2>3, <2>4 DEF Younger
<1>2. ASSUME NEW k \in DOMAIN obj.paths,
             \A r \in kept : SlotOf(r) # SlotOf(RuleOf(i, obj, k))
      PROVE  \E l \in Claims(m, i, obj) :
                SlotOf(RuleOf(i, obj, l)) = SlotOf(RuleOf(i, obj, k))
  <2>1. PICK l \in 1 .. k :
           /\ SameSlot(RuleOf(i, obj, l), RuleOf(i, obj, k))
           /\ \A j \in 1 .. l - 1 : ~SameSlot(RuleOf(i, obj, j), RuleOf(i, obj, l))
    BY FirstPath
  <2>2. l \in DOMAIN obj.paths /\ 1 .. l \subseteq DOMAIN obj.paths
    BY DEF IngressObject
  <2>3. l \in Processed(m, i, obj)
    BY <2>2 DEF Processed, CacheError
  <2>4. \A q \in Rivals(m, RuleOf(i, obj, l)) : obj.created < q.created
    <3>1. SUFFICES ASSUME NEW q \in m, SameSlot(q, RuleOf(i, obj, l))
                   PROVE  obj.created < q.created
      BY DEF Rivals
    <3>2. SlotOf(q) = SlotOf(RuleOf(i, obj, k))
      BY <2>1, <3>1, SlotsAgree
    <3>3. q \in Younger(m, SlotsOf(i, obj), obj.created)
      BY <1>2, <3>2
    <3> QED
      BY <3>3 DEF Younger
  <2>5. l \in Claims(m, i, obj)
    BY <2>1, <2>3, <2>4 DEF Claims
  <2> QED
    BY <2>1, <2>5, SlotsAgree
<1>3. \A k \in Claims(m, i, obj) : k \in DOMAIN obj.paths
  BY DEF Claims, Processed
<1> QED
  BY <1>1, <1>2, <1>3 DEF SlotsOf

\* What an accepted Ingress gets, and from whom.
LEMMA Allocated ==
    ASSUME NEW cache \in Cache, NEW i \in Ingress, NEW obj \in IngressObject,
           Indexed(cache), OnePerSlot(cache.ruleMap),
           NEW old, old = DeleteHttpRulesByIngress(cache, i),
           ~CacheError(old, i, obj)
    PROVE  LET slots == SlotsOf(i, obj)
               others == {c \in Held(cache.ruleMap) : c.owner # i}
               kept == others \ {c \in others : c.slot \in slots /\ obj.created < c.since}
               free == {s \in slots : \A c \in kept : c.slot # s}
           IN  /\ \A c \in others : c.slot \in slots => ~(c.since < obj.created)
               /\ Held(UpdateCache(old, i, obj).ruleMap)
                    = kept \cup {[slot |-> s, owner |-> i, since |-> obj.created] : s \in free}
<1> DEFINE slots == SlotsOf(i, obj)
           others == {c \in Held(cache.ruleMap) : c.owner # i}
           kept == others \ {c \in others : c.slot \in slots /\ obj.created < c.since}
           free == {s \in slots : \A c \in kept : c.slot # s}
           m == old.ruleMap
           rules == m \ Younger(m, slots, obj.created)
           W == {SlotOf(RuleOf(i, obj, k)) : k \in Claims(m, i, obj)}
<1>1. old \in Cache /\ m = Others(cache.ruleMap, i)
  BY DeleteRules
<1>2. OnePerSlot(m)
  BY <1>1 DEF OnePerSlot, Others
<1>3. kept = Held(rules)
  BY <1>1, HeldKept
<1>4. W = {s \in slots : \A r \in rules : SlotOf(r) # s}
  BY <1>1, <1>2, ClaimedSlots
<1>5. free = W
  <2>1. \A r \in rules : Holding(r) \in kept /\ Holding(r).slot = SlotOf(r)
    BY <1>3 DEF Held, Holding
  <2>2. \A c \in kept : \E r \in rules : c.slot = SlotOf(r)
    BY <1>3 DEF Held, Holding
  <2> HIDE DEF kept, rules, slots, W
  <2> QED
    BY <1>4, <2>1, <2>2
<1>6. Overwritten(m, i, obj) = Younger(m, slots, obj.created)
  <2>1. Overwritten(m, i, obj) = Younger(m, W, obj.created) /\ W \subseteq slots
    BY <1>1, OverwrittenYounger
  <2>2. ASSUME NEW r \in Younger(m, slots, obj.created)
        PROVE  SlotOf(r) \in W
    <3>1. SUFFICES ASSUME NEW q \in rules, SlotOf(q) = SlotOf(r) PROVE FALSE
      BY <1>4 DEF Younger
    <3>2. q = r
      BY <1>2, <3>1, SlotsAgree DEF OnePerSlot, Younger
    <3> QED
      BY <3>1, <3>2
  <2> HIDE DEF W, slots
  <2> QED
    BY <2>1, <2>2 DEF Younger
<1>7. Held(Inserted(m, i, obj)) = {[slot |-> s, owner |-> i, since |-> obj.created] : s \in W}
  <2>1. ASSUME NEW k \in Claims(m, i, obj)
        PROVE  Holding(RuleOf(i, obj, k))
                 = [slot |-> SlotOf(RuleOf(i, obj, k)), owner |-> i, since |-> obj.created]
    BY RuleOfType DEF Claims, Processed, Holding
  <2> QED
    BY <2>1 DEF Held, Inserted
<1>8. Held(UpdateCache(old, i, obj).ruleMap) = Held(rules) \cup Held(Inserted(m, i, obj))
  <2>1. UpdateCache(old, i, obj).ruleMap = rules \cup Inserted(m, i, obj)
    BY <1>6 DEF UpdateCache
  <2> QED
    BY <2>1 DEF Held
<1>9. ASSUME NEW c \in others, c.slot \in slots
      PROVE  ~(c.since < obj.created)
  <2>1. PICK r \in cache.ruleMap : c = Holding(r)
    BY DEF Held
  <2>2. r \in m /\ SlotOf(r) \in slots /\ c.since = r.created
    BY <1>1, <1>9, <2>1 DEF Holding, Others
  <2>3. PICK k \in DOMAIN obj.paths : SameSlot(r, RuleOf(i, obj, k))
    BY <2>2, SlotsAgree DEF SlotsOf
  <2> QED
    BY <2>2, <2>3 DEF CacheError, Refused, Rivals
<1> QED
  BY <1>3, <1>5, <1>7, <1>8, <1>9

\* What a refused Ingress leaves behind.
LEMMA Withdrawn ==
    ASSUME NEW cache \in Cache, NEW i \in Ingress, NEW obj \in IngressObject,
           Indexed(cache),
           NEW old, old = DeleteHttpRulesByIngress(cache, i)
    PROVE  LET others == {c \in Held(cache.ruleMap) : c.owner # i}
           IN  \E W \in SUBSET SlotsOf(i, obj) :
                  Held(Others(UpdateCache(old, i, obj).ruleMap, i))
                    = others \ {c \in others : c.slot \in W /\ obj.created < c.since}
<1> DEFINE others == {c \in Held(cache.ruleMap) : c.owner # i}
           m == old.ruleMap
           W == {SlotOf(RuleOf(i, obj, k)) : k \in Claims(m, i, obj)}
<1>1. old \in Cache /\ m = Others(cache.ruleMap, i)
  BY DeleteRules
<1>2. W \subseteq SlotsOf(i, obj) /\ Overwritten(m, i, obj) = Younger(m, W, obj.created)
  BY <1>1, OverwrittenYounger
<1>3. \A r \in Inserted(m, i, obj) : r.ingress = i
  BY RuleOfType DEF Inserted, Claims, Processed
<1>4. Others(UpdateCache(old, i, obj).ruleMap, i) = m \ Younger(m, W, obj.created)
  BY <1>1, <1>2, <1>3 DEF UpdateCache, Others
<1>5. others \ {c \in others : c.slot \in W /\ obj.created < c.since}
        = Held(m \ Younger(m, W, obj.created))
  <2> HIDE DEF W
  <2> QED
    BY <1>1, HeldKept
<1> QED
  BY <1>2, <1>4, <1>5

\* The three ways in which UpdateIngress ends, and the cache it leaves.
LEMMA UpdateIngressCache ==
    ASSUME NEW conf, NEW i \in Ingress, NEW obj \in IngressObject, ConfInv(conf),
           NEW old, old = DeleteHttpRulesByIngress(conf.cache, i),
           NEW u, u = UpdateIngress(conf, i, obj)
    PROVE  /\ obj.paths = <<>> => ~u.err /\ u.conf = conf
           /\ obj.paths # <<>> /\ ~u.err
                => /\ ~CacheError(old, i, obj)
                   /\ u.conf.cache = UpdateCache(old, i, obj)
           /\ u.err => u.conf.cache.ruleMap = Others(UpdateCache(old, i, obj).ruleMap, i)
<1> DEFINE new == Updated(conf, i, obj)
<1>1. conf \in Configuration /\ conf.cache \in Cache /\ Indexed(conf.cache)
  BY DEF ConfInv, Configuration
<1>2. old \in Cache /\ Indexed(old)
  BY <1>1, DeleteRules
<1>3. UpdateCache(old, i, obj) \in Cache /\ Indexed(UpdateCache(old, i, obj))
  BY <1>2, UpdateCacheIndexed
<1>4. new = [conf EXCEPT !.cache = UpdateCache(old, i, obj)]
  BY DEF Updated
<1>5. new \in Configuration /\ new.cache = UpdateCache(old, i, obj)
  BY <1>1, <1>3, <1>4 DEF Configuration
<1>6. CASE obj.paths = <<>>
  BY <1>6 DEF UpdateIngress
<1>7. CASE obj.paths # <<>> /\ UpdateFails(conf, i, obj)
  <2>1. u.err /\ u.conf = WithoutIngress(new, i)
    BY <1>7 DEF UpdateIngress
  <2> HIDE DEF new
  <2>2. WithoutIngress(new, i).cache.ruleMap = Others(new.cache.ruleMap, i)
    BY <1>3, <1>5, WithoutIngressInv
  <2> QED
    BY <1>5, <1>7, <2>1, <2>2
<1>8. CASE obj.paths # <<>> /\ ~UpdateFails(conf, i, obj)
  <2>1. ~u.err /\ u.conf = UpdateBfeClusterConf(UpdateRouteTable(new))
    BY <1>8 DEF UpdateIngress
  <2>2. ~CacheError(old, i, obj) /\ Publishable(new.cache.ruleMap)
    BY <1>8 DEF UpdateFails
  <2> HIDE DEF new
  <2>3. u.conf.cache = new.cache
    BY <1>5, <2>1, <2>2, Regenerated
  <2> QED
    BY <1>5, <2>1, <2>2, <2>3, <1>8
<1> QED
  BY <1>6, <1>7, <1>8

LEMMA SlotsAsked ==
    ASSUME NEW i, NEW obj
    PROVE  Asked(i, obj) = IF obj = NoObject THEN {} ELSE SlotsOf(i, obj)
  BY DEF Asked, SlotsOf

Granted == {i \in Ingress : status[i] = "success"}

\* The reconciler withdraws an Ingress: refused or gone, it holds nothing.
LEMMA SyncRefusedWithdraws ==
    ASSUME IInv, NEW i \in Ingress, SyncRefused(i)
    PROVE  Slots!Withdraw(i)
<1> DEFINE obj == object[i]
           old == DeleteHttpRulesByIngress(serverDataConf.cache, i)
           u == UpdateIngress(serverDataConf, i, obj)
           others == {c \in Held(ruleMap) : c.owner # i}
<1>1. obj \in IngressObject /\ obj # NoObject
  BY DEF IInv, TypeOK, SyncRefused
<1>2. ConfInv(u.conf) /\ u.conf.cache.ruleMap = Others(UpdateCache(old, i, obj).ruleMap, i)
  BY <1>1, UpdateIngressInv, UpdateIngressCache DEF IInv, SyncRefused
<1>3. ruleMap' = Others(UpdateCache(old, i, obj).ruleMap, i)
  <2>1. ruleMap' = Others(u.conf.cache.ruleMap, i)
    BY <1>2, DeleteIngressInv DEF SyncRefused, ruleMap
  <2> HIDE DEF u, old
  <2> QED
    BY <1>2, <2>1 DEF Others
<1>4. PICK W \in SUBSET SlotsOf(i, obj) :
         Held(ruleMap')
            = others \ {c \in others : c.slot \in W /\ obj.created < c.since}
  BY <1>1, <1>3, Withdrawn DEF IInv, ConfInv, Configuration, ruleMap
<1>5. W \in SUBSET Asked(i, obj)
  BY <1>1, SlotsAsked
<1>6. Granted' = Granted \ {i}
  BY DEF Granted, SyncRefused, IInv, TypeOK
<1> QED
  BY <1>4, <1>5, <1>6 DEF Slots!Withdraw, Slots!Others, Slots!Displaced, Created,
     Granted, SyncRefused

LEMMA SyncAbsentWithdraws ==
    ASSUME IInv, NEW i \in Ingress, SyncAbsent(i)
    PROVE  Slots!Withdraw(i)
<1>1. ruleMap' = Others(ruleMap, i)
  BY DeleteIngressInv DEF IInv, SyncAbsent, ruleMap
<1>2. Held(ruleMap') = {c \in Held(ruleMap) : c.owner # i}
  BY <1>1, HeldKept DEF Held, Others, Holding
<1>3. Granted' = Granted \ {i}
  BY DEF Granted, SyncAbsent, IInv, TypeOK
<1>4. Held(ruleMap') = Slots!Others(i) \ Slots!Displaced(i, {})
  BY <1>2 DEF Slots!Others, Slots!Displaced
<1> QED
  BY <1>3, <1>4 DEF Slots!Withdraw, Granted, SyncAbsent

\* An object that is taken gets its slots; one without rules is left alone.
LEMMA SyncAcceptedGrants ==
    ASSUME IInv, NEW i \in Ingress, SyncAccepted(i)
    PROVE  Slots!Grant(i) \/ Slots!Ignore(i)
<1> DEFINE obj == object[i]
           old == DeleteHttpRulesByIngress(serverDataConf.cache, i)
           u == UpdateIngress(serverDataConf, i, obj)
           slots == SlotsOf(i, obj)
           others == {c \in Held(ruleMap) : c.owner # i}
           kept == others \ {c \in others : c.slot \in slots /\ obj.created < c.since}
           free == {s \in slots : \A c \in kept : c.slot # s}
<1>1. obj \in IngressObject /\ obj # NoObject /\ Asked(i, obj) = slots
  BY SlotsAsked DEF IInv, TypeOK, SyncAccepted
<1>2. Granted' = Granted \cup {i}
  BY DEF Granted, SyncAccepted, IInv, TypeOK
<1>3. CASE obj.paths = <<>>
  <2>1. ruleMap' = ruleMap
    BY <1>1, <1>3, UpdateIngressCache DEF IInv, SyncAccepted, ruleMap
  <2>2. Asked(i, obj) = {}
    BY <1>1, <1>3 DEF SlotsOf
  <2> QED
    BY <1>2, <2>1, <2>2 DEF Slots!Ignore, Held, Granted, SyncAccepted
<1>4. CASE obj.paths # <<>>
  <2>1. ~CacheError(old, i, obj) /\ ruleMap' = UpdateCache(old, i, obj).ruleMap
    BY <1>1, <1>4, UpdateIngressCache DEF IInv, SyncAccepted, ruleMap
  <2>2. /\ \A c \in others : c.slot \in slots => ~(c.since < obj.created)
        /\ Held(ruleMap')
             = kept \cup {[slot |-> s, owner |-> i, since |-> obj.created] : s \in free}
    BY <1>1, <2>1, Allocated DEF IInv, ConfInv, Configuration, ruleMap
  <2>3. slots # {}
    <3>1. obj.paths \in Seq(HttpPath)
      BY <1>1 DEF IngressObject
    <3>2. 1 \in DOMAIN obj.paths
      BY <1>4, <3>1
    <3> QED
      BY <3>2 DEF SlotsOf
  <2> QED
    BY <1>1, <1>2, <2>2, <2>3 DEF Slots!Grant, Slots!Others, Slots!Displaced, Created,
       Granted, SyncAccepted
<1> QED
  BY <1>3, <1>4

\* Users make and change wishes; an object keeps its creation time for life.
LEMMA StoreAsks ==
    ASSUME IInv, NEW i \in Ingress, CreateIngress(i) \/ EditIngress(i) \/ RemoveIngress(i)
    PROVE  Slots!Ask(i)
<1>1. UNCHANGED <<status, serverDataConf>> /\ \A j \in Ingress \ {i} : object'[j] = object[j]
  BY DEF IInv, TypeOK, CreateIngress, EditIngress, RemoveIngress, Store
<1>2. Asked(i, object[i]) # {} /\ Asked(i, object'[i]) # {}
        => object'[i].created = object[i].created
  <2>1. SUFFICES ASSUME object[i] # NoObject, object'[i] # NoObject
                 PROVE  object'[i].created = object[i].created
    BY DEF Asked
  <2>2. PICK m \in Manifest : object'[i] = [object[i] EXCEPT !.cond = m.cond, !.paths = m.paths]
    BY <2>1 DEF IInv, TypeOK, CreateIngress, EditIngress, RemoveIngress, Store
  <2>3. object[i] \in IngressObject
    BY <2>1 DEF IInv, TypeOK
  <2> QED
    BY <2>2, <2>3 DEF IngressObject
<1> QED
  BY <1>1, <1>2 DEF Slots!Ask, Created, Held, ruleMap

LEMMA StepRefines ==
    IInv /\ [Next]_vars => [Slots!Next]_<<object, Held(ruleMap), Granted>>
<1> SUFFICES ASSUME IInv, [Next]_vars
             PROVE  Slots!Next \/ UNCHANGED <<object, Held(ruleMap), Granted>>
  OBVIOUS
<1>1. CASE UNCHANGED vars \/ Tick
  BY <1>1 DEF vars, Tick, Held, Granted, ruleMap
<1>2. ASSUME NEW i \in Ingress, CreateIngress(i) \/ EditIngress(i) \/ RemoveIngress(i)
      PROVE  Slots!Next
  BY <1>2, StoreAsks DEF Slots!Next
<1>3. ASSUME NEW i \in Ingress, Sync(i)
      PROVE  Slots!Next
  BY <1>3, SyncAbsentWithdraws, SyncRefusedWithdraws, SyncAcceptedGrants DEF Sync, Slots!Next
<1> QED
  BY <1>1, <1>2, <1>3 DEF Next

LEMMA InitRefines == Init => Slots!Init
<1> SUFFICES ASSUME Init PROVE Slots!Init
  OBVIOUS
<1>1. Held(ruleMap) = {}
  BY DEF Init, ruleMap, NewServerDataConfig, NewRouteRuleCache, Held
<1>2. Granted = {}
  BY DEF Init, Granted
<1>3. \A i \in Ingress : Asked(i, object[i]) = {}
  BY DEF Init, Asked
<1> QED
  BY <1>1, <1>2, <1>3 DEF Slots!Init, Granted

\* The cache implements SlotOwnership: an Ingress gets every slot it asks for, by
\* displacing strictly younger holders, or is left with none.
THEOREM AllocationRefined == Spec => SlotsAllocated
<1>1. Spec => Slots!Init
  BY InitRefines, PTL DEF Spec
<1>2. Spec => [][Slots!Next]_<<object, Held(ruleMap), Granted>>
  BY StepRefines, Invariance, PTL DEF Spec
<1> QED
  BY <1>1, <1>2, PTL DEF SlotsAllocated, Slots!Spec, Granted

\* No two rules compete for one slot.
THEOREM SlotsExclusive == Spec => []OneRulePerSlot
  BY CacheCorrect, PTL

\* The cache can be turned into a route table at any time.
THEOREM TableAlwaysValid == Spec => []AlwaysPublishable
  BY FilesCorrect, PTL

\* No cached rule lacks its route, whatever was refused before.
THEOREM RoutesComplete == Spec => []CachedRulesRouted
  BY FilesCorrect, PTL

=============================================================================
