------------------------ MODULE ConfigBuilderProofs ------------------------
(***************************************************************************)
(* Proofs about ConfigBuilder: however the reconcilers, the changes of the *)
(* objects and crashes interleave, an Ingress is in all components or in   *)
(* none, and no rule forwards to a cluster that is not there.              *)
(*                                                                         *)
(* The components are instances here, so what the argument needs of them   *)
(* is stated again, and it is less than their own modules prove: their     *)
(* shape, where the rules, clusters and certificates of one Ingress are    *)
(* found, and what an operation on another one leaves alone.               *)
(***************************************************************************)
EXTENDS ConfigBuilder, TLAPS

-----------------------------------------------------------------------------
(* The route rules. *)

\* Every rule is found through the index of its Ingress.
ServerInv(s) ==
    /\ s \in Server!Configuration
    /\ \A r \in s.cache.ruleMap : r \in s.cache.ingress2Rule[r.ingress]

\* What a configuration of the route rules consists of.
LEMMA ServerParts ==
    ASSUME NEW s, ServerInv(s)
    PROVE  /\ s = [cache |-> s.cache, routeTableFile |-> s.routeTableFile,
                   bfeClusterConf |-> s.bfeClusterConf]
           /\ s.cache = [ruleMap |-> s.cache.ruleMap, ingress2Rule |-> s.cache.ingress2Rule]
           /\ s.cache.ruleMap \subseteq Server!Rule
           /\ s.cache.ingress2Rule \in [Ingress -> SUBSET Server!Rule]
           /\ s.routeTableFile \in Server!RouteTableFile
           /\ s.bfeClusterConf \subseteq Server!Cluster \cup {DefaultCluster}
           /\ \A r \in s.cache.ruleMap : /\ r.ingress \in Ingress
                                         /\ r \in s.cache.ingress2Rule[r.ingress]
BY DEF ServerInv, Server!Configuration, Server!Cache, Server!Rule

\* And when such a record is one.
LEMMA ServerWhole ==
    ASSUME NEW m \in SUBSET Server!Rule, NEW x \in [Ingress -> SUBSET Server!Rule],
           NEW f \in Server!RouteTableFile,
           NEW k \in SUBSET (Server!Cluster \cup {DefaultCluster}),
           \A r \in m : r \in x[r.ingress],
           NEW s, s = [cache |-> [ruleMap |-> m, ingress2Rule |-> x],
                       routeTableFile |-> f, bfeClusterConf |-> k]
    PROVE  ServerInv(s)
BY DEF ServerInv, Server!Configuration, Server!Cache

\* addRule builds a well-formed rule.
LEMMA RuleOfType ==
    ASSUME NEW i \in Ingress, NEW obj \in Objects, NEW k \in DOMAIN obj.paths
    PROVE  Server!RuleOf(i, obj, k) \in Server!Rule
<1>1. PICK m \in Manifest, t \in 0 .. MaxTime : obj = Stamped(m, t)
  BY DEF Objects
<1>2. /\ obj.paths \in Seq(Server!HttpPath) /\ obj.cond \in Condition
      /\ obj.created \in 0 .. MaxTime
  BY <1>1, ConfigBuilderAssumption DEF Stamped
<1>3. obj.paths[k] \in Server!HttpPath
  BY <1>2
<1>4. /\ obj.paths[k].host \in Host /\ obj.paths[k].path \in Path
      /\ obj.paths[k].backend \in Service \X Port
  BY <1>3 DEF Server!HttpPath
<1> QED
  BY <1>2, <1>4 DEF Server!RuleOf, Server!Rule, Server!Location, Server!Cluster, Server!Time

\* Dropping the rules of an Ingress drops all of them, and no other.
LEMMA ServerWithout ==
    ASSUME NEW s, ServerInv(s), NEW i \in Ingress
    PROVE  LET d == Server!WithoutIngress(s, i)
           IN  /\ ServerInv(d)
               /\ d.cache = Server!DeleteHttpRulesByIngress(s.cache, i)
               /\ d.cache.ruleMap = {r \in s.cache.ruleMap : r.ingress # i}
<1> DEFINE c == Server!DeleteHttpRulesByIngress(s.cache, i)
           d == Server!WithoutIngress(s, i)
<1>0. /\ s = [cache |-> s.cache, routeTableFile |-> s.routeTableFile,
              bfeClusterConf |-> s.bfeClusterConf]
      /\ s.cache = [ruleMap |-> s.cache.ruleMap, ingress2Rule |-> s.cache.ingress2Rule]
      /\ s.cache.ruleMap \subseteq Server!Rule
      /\ s.cache.ingress2Rule \in [Ingress -> SUBSET Server!Rule]
      /\ \A r \in s.cache.ruleMap : /\ r.ingress \in Ingress
                                    /\ r \in s.cache.ingress2Rule[r.ingress]
  BY ServerParts
<1>1. d = [cache |-> c, routeTableFile |-> s.routeTableFile,
           bfeClusterConf |-> s.bfeClusterConf]
  <2>1. s = [cache |-> s.cache, routeTableFile |-> s.routeTableFile,
             bfeClusterConf |-> s.bfeClusterConf]
    BY <1>0
  <2> QED
    BY <2>1 DEF Server!WithoutIngress
<1>2. c = [ruleMap |-> {r \in s.cache.ruleMap :
                          ~ /\ r.ingress = i
                            /\ \E x \in s.cache.ingress2Rule[i] : x.location = r.location},
           ingress2Rule |-> [s.cache.ingress2Rule EXCEPT ![i] = {}]]
  BY DEF Server!DeleteHttpRulesByIngress
<1>3. c.ruleMap = {r \in s.cache.ruleMap : r.ingress # i}
  BY <1>0, <1>2
<1>4. /\ c.ingress2Rule \in [Ingress -> SUBSET Server!Rule]
      /\ \A j \in Ingress \ {i} : c.ingress2Rule[j] = s.cache.ingress2Rule[j]
  BY <1>0, <1>2
<1>5. c = [ruleMap |-> c.ruleMap, ingress2Rule |-> c.ingress2Rule]
  BY <1>2
<1> HIDE DEF c, d
<1>6. d.cache = c
  BY <1>1
<1>7. ServerInv(d)
  <2>1. /\ c.ruleMap \subseteq Server!Rule
        /\ \A r \in c.ruleMap : r \in c.ingress2Rule[r.ingress]
    BY <1>3, <1>4, ServerParts
  <2>2. /\ s.routeTableFile \in Server!RouteTableFile
        /\ s.bfeClusterConf \subseteq Server!Cluster \cup {DefaultCluster}
    BY ServerParts
  <2> QED
    BY <1>1, <1>4, <1>5, <2>1, <2>2, ServerWhole
<1> QED
  BY <1>3, <1>6, <1>7 DEF c, d

\* A table built from well-formed rules is well-formed.
LEMMA FilesType ==
    ASSUME NEW m \in SUBSET Server!Rule
    PROVE  /\ Server!RouteTable(m) \in Server!RouteTableFile
           /\ Server!ClusterConf(m) \in SUBSET (Server!Cluster \cup {DefaultCluster})
<1>1. Server!AdvancedRules(m) \subseteq m /\ Server!BasicRules(m) \subseteq m
  BY DEF Server!AdvancedRules, Server!BasicRules
<1>2. {[location |-> r.location, cluster |-> r.cluster] : r \in Server!BasicRules(m)}
        \subseteq [location: Server!Location, cluster: Server!Cluster \cup {AdvancedMode}]
  BY <1>1 DEF Server!Rule
<1>3. {[location |-> r.location, cluster |-> AdvancedMode] : r \in Server!AdvancedRules(m)}
        \subseteq [location: Server!Location, cluster: Server!Cluster \cup {AdvancedMode}]
  BY <1>1 DEF Server!Rule
<1>4. {[location |-> r.location, cond |-> r.cond, cluster |-> r.cluster] :
            r \in Server!AdvancedRules(m)}
        \subseteq [location: Server!Location, cond: Condition, cluster: Server!Cluster]
  BY <1>1 DEF Server!Rule
<1>5. (DefaultBackend # Nil /\ m # {}) \in BOOLEAN
  OBVIOUS
<1>6. Server!RouteTable(m) \in Server!RouteTableFile
  BY <1>2, <1>3, <1>4, <1>5 DEF Server!RouteTable, Server!RouteTableFile
<1>7. {r.cluster : r \in m} \subseteq Server!Cluster
  BY DEF Server!Rule
<1> QED
  BY <1>6, <1>7 DEF Server!ClusterConf

\* Writing the files leaves the cache alone.
LEMMA ServerFiles ==
    ASSUME NEW s, ServerInv(s)
    PROVE  LET t == Server!UpdateBfeClusterConf(Server!UpdateRouteTable(s))
           IN  ServerInv(t) /\ t.cache = s.cache
<1> DEFINE m == s.cache.ruleMap
           x == s.cache.ingress2Rule
           f == IF Server!Publishable(m) THEN Server!RouteTable(m) ELSE s.routeTableFile
           k == Server!ClusterConf(m)
           t == Server!UpdateBfeClusterConf(Server!UpdateRouteTable(s))
<1>1. /\ s = [cache |-> s.cache, routeTableFile |-> s.routeTableFile,
              bfeClusterConf |-> s.bfeClusterConf]
      /\ s.cache = [ruleMap |-> m, ingress2Rule |-> x]
      /\ m \in SUBSET Server!Rule /\ x \in [Ingress -> SUBSET Server!Rule]
      /\ s.routeTableFile \in Server!RouteTableFile
      /\ \A r \in m : r \in x[r.ingress]
  BY ServerParts
<1>2. t = [cache |-> s.cache, routeTableFile |-> f, bfeClusterConf |-> k]
  BY <1>1 DEF Server!UpdateBfeClusterConf, Server!UpdateRouteTable
<1>3. /\ f \in Server!RouteTableFile
      /\ k \in SUBSET (Server!Cluster \cup {DefaultCluster})
  BY <1>1, FilesType
<1> HIDE DEF m, x, f, k, t
<1>4. ServerInv(t)
  BY <1>1, <1>2, <1>3, ServerWhole
<1> QED
  BY <1>2, <1>4 DEF t

\* ServerDataConfig.DeleteIngress: no rule of the Ingress is left, and all others are.
LEMMA ServerDelete ==
    ASSUME NEW s, ServerInv(s), NEW i \in Ingress
    PROVE  LET d == Server!DeleteIngress(s, i)
           IN  /\ ServerInv(d)
               /\ d.cache.ruleMap = {r \in s.cache.ruleMap : r.ingress # i}
<1>1. CASE ~Server!ContainsIngress(s.cache, i)
  <2>1. Server!DeleteIngress(s, i) = s
    BY <1>1 DEF Server!DeleteIngress
  <2>2. \A r \in s.cache.ruleMap : r.ingress # i
    BY <1>1, ServerParts DEF Server!ContainsIngress
  <2> QED
    BY <2>1, <2>2
<1>2. CASE Server!ContainsIngress(s.cache, i)
  <2> DEFINE w == Server!WithoutIngress(s, i)
  <2>1. Server!DeleteIngress(s, i)
          = Server!UpdateBfeClusterConf(Server!UpdateRouteTable(w))
    BY <1>2 DEF Server!DeleteIngress
  <2>2. ServerInv(w) /\ w.cache.ruleMap = {r \in s.cache.ruleMap : r.ingress # i}
    BY ServerWithout
  <2> HIDE DEF w
  <2> QED
    BY <2>1, <2>2, ServerFiles
<1> QED
  BY <1>1, <1>2

\* The rules after an update u of s for an object.
RulesUpdated(s, u, i, obj) ==
    \A r \in u.conf.cache.ruleMap :
        \/ r.ingress # i /\ r \in s.cache.ruleMap
        \/ /\ r.ingress = i /\ u.err = FALSE
           /\ \/ obj.paths = <<>> /\ r \in s.cache.ruleMap
              \/ \E k \in DOMAIN obj.paths : r.cluster = <<i, obj.paths[k].backend>>

\* ServerDataConfig.UpdateIngress: a refused Ingress has no rule; a rule of one that
\* was taken serves one of its backends.
LEMMA ServerUpdate ==
    ASSUME NEW s, ServerInv(s), NEW i \in Ingress, NEW obj \in Objects,
           NEW u, u = Server!UpdateIngress(s, i, obj)
    PROVE  ServerInv(u.conf) /\ RulesUpdated(s, u, i, obj)
<1> DEFINE old == Server!DeleteHttpRulesByIngress(s.cache, i)
           new == Server!UpdateCache(old, i, obj)
           n == Server!Updated(s, i, obj)
           add == Server!Inserted(old.ruleMap, i, obj)
<1>1. /\ old.ruleMap = {r \in s.cache.ruleMap : r.ingress # i}
      /\ old.ruleMap \subseteq Server!Rule
      /\ old.ingress2Rule \in [Ingress -> SUBSET Server!Rule]
      /\ \A r \in old.ruleMap : r.ingress \in Ingress /\ r \in old.ingress2Rule[r.ingress]
  <2> DEFINE d == Server!WithoutIngress(s, i)
  <2>1. /\ ServerInv(d) /\ d.cache = old
        /\ d.cache.ruleMap = {r \in s.cache.ruleMap : r.ingress # i}
    BY ServerWithout
  <2> HIDE DEF d, old
  <2> QED
    BY <2>1, ServerParts
<1>2. n = [cache |-> new, routeTableFile |-> s.routeTableFile,
           bfeClusterConf |-> s.bfeClusterConf]
  <2>1. s = [cache |-> s.cache, routeTableFile |-> s.routeTableFile,
             bfeClusterConf |-> s.bfeClusterConf]
    BY ServerParts
  <2> QED
    BY <2>1 DEF Server!Updated
<1> HIDE DEF old
<1>3. /\ new = [ruleMap |-> new.ruleMap, ingress2Rule |-> new.ingress2Rule]
      /\ new.ruleMap \subseteq old.ruleMap \cup add
      /\ new.ingress2Rule = [old.ingress2Rule EXCEPT ![i] = @ \cup add]
  BY DEF Server!UpdateCache
<1>4. \A r \in add : /\ r \in Server!Rule /\ r.ingress = i
                     /\ \E k \in DOMAIN obj.paths : r.cluster = <<i, obj.paths[k].backend>>
  <2>1. \A k \in Server!Claims(old.ruleMap, i, obj) : k \in DOMAIN obj.paths
    BY DEF Server!Claims, Server!Processed
  <2>2. \A k : /\ Server!RuleOf(i, obj, k).ingress = i
               /\ Server!RuleOf(i, obj, k).cluster = <<i, obj.paths[k].backend>>
    BY DEF Server!RuleOf
  <2> QED
    BY <2>1, <2>2, RuleOfType DEF Server!Inserted
<1> HIDE DEF add, new
<1>5. ServerInv(n)
  <2>1. /\ new.ruleMap \in SUBSET Server!Rule
        /\ new.ingress2Rule \in [Ingress -> SUBSET Server!Rule]
        /\ \A r \in new.ruleMap : r \in new.ingress2Rule[r.ingress]
    BY <1>1, <1>3, <1>4
  <2>2. /\ s.routeTableFile \in Server!RouteTableFile
        /\ s.bfeClusterConf \in SUBSET (Server!Cluster \cup {DefaultCluster})
    BY ServerParts
  <2>3. n = [cache |-> [ruleMap |-> new.ruleMap, ingress2Rule |-> new.ingress2Rule],
             routeTableFile |-> s.routeTableFile, bfeClusterConf |-> s.bfeClusterConf]
    BY <1>2, <1>3
  <2> HIDE DEF n
  <2> QED
    BY <2>1, <2>2, <2>3, ServerWhole
<1>6. CASE obj.paths = <<>>
  <2>1. u = [conf |-> s, err |-> FALSE]
    BY <1>6 DEF Server!UpdateIngress
  <2> QED
    BY <1>6, <2>1 DEF RulesUpdated
<1>7. CASE obj.paths # <<>> /\ Server!UpdateFails(s, i, obj)
  <2>1. u = [conf |-> Server!WithoutIngress(n, i), err |-> TRUE]
    BY <1>7 DEF Server!UpdateIngress
  <2> HIDE DEF n
  <2>2. /\ ServerInv(u.conf)
        /\ u.conf.cache.ruleMap = {r \in n.cache.ruleMap : r.ingress # i}
    BY <1>5, <2>1, ServerWithout
  <2>3. \A r \in u.conf.cache.ruleMap : r.ingress # i /\ r \in s.cache.ruleMap
    BY <1>1, <1>2, <1>3, <1>4, <2>2
  <2> QED
    BY <2>2, <2>3 DEF RulesUpdated
<1>8. CASE obj.paths # <<>> /\ ~Server!UpdateFails(s, i, obj)
  <2>1. u = [conf |-> Server!UpdateBfeClusterConf(Server!UpdateRouteTable(n)),
             err |-> FALSE]
    BY <1>8 DEF Server!UpdateIngress
  <2> HIDE DEF n
  <2>2. ServerInv(u.conf) /\ u.conf.cache = n.cache
    BY <1>5, <2>1, ServerFiles
  <2>3. u.err = FALSE
    BY <2>1
  <2>4. \A r \in u.conf.cache.ruleMap :
            \/ r.ingress # i /\ r \in s.cache.ruleMap
            \/ r.ingress = i /\ \E k \in DOMAIN obj.paths :
                                   r.cluster = <<i, obj.paths[k].backend>>
    BY <1>1, <1>2, <1>3, <1>4, <2>2
  <2> QED
    BY <2>2, <2>3, <2>4 DEF RulesUpdated
<1> QED
  BY <1>6, <1>7, <1>8

-----------------------------------------------------------------------------
(* The certificates. *)

TlsInv(t) == t \in Tls!Configuration

\* What a configuration of the certificates consists of.
LEMMA TlsParts ==
    ASSUME NEW t
    PROVE  TlsInv(t) <=> /\ t = [ingress2secret |-> t.ingress2secret, certs |-> t.certs,
                                 changed |-> t.changed]
                         /\ t.ingress2secret \in [Ingress -> SUBSET Secret]
                         /\ t.certs \in [Secret -> {Nil} \cup (Content \ BadContent)]
                         /\ t.changed \in BOOLEAN
BY DEF TlsInv, Tls!Configuration, Tls!Certificates

\* TLSConfig.DeleteIngress: the Ingress uses nothing, and what another one uses stays.
LEMMA TlsDelete ==
    ASSUME NEW t, TlsInv(t), NEW i \in Ingress
    PROVE  LET d == Tls!DeleteIngress(t, i)
           IN  /\ TlsInv(d)
               /\ d.ingress2secret = [t.ingress2secret EXCEPT ![i] = {}]
               /\ \A j \in Ingress \ {i} : \A s \in t.ingress2secret[j] :
                     d.certs[s] = t.certs[s]
<1> DEFINE d == Tls!DeleteIngress(t, i)
           index == [t.ingress2secret EXCEPT ![i] = {}]
           gone == Tls!Named(t) \ UNION {index[j] : j \in Ingress}
<1>1. /\ t = [ingress2secret |-> t.ingress2secret, certs |-> t.certs, changed |-> t.changed]
      /\ t.ingress2secret \in [Ingress -> SUBSET Secret]
      /\ t.certs \in [Secret -> {Nil} \cup (Content \ BadContent)]
      /\ t.changed \in BOOLEAN
  BY TlsParts
<1>2. CASE t.ingress2secret[i] = {}
  <2>1. d = t /\ t.ingress2secret = index
    BY <1>1, <1>2 DEF Tls!DeleteIngress
  <2> QED
    BY <2>1
<1>3. CASE t.ingress2secret[i] # {}
  <2>1. /\ d = [ingress2secret |-> d.ingress2secret, certs |-> d.certs,
                changed |-> d.changed]
        /\ d.ingress2secret = index
        /\ d.certs = [s \in Secret |-> IF s \in gone THEN Nil ELSE t.certs[s]]
        /\ d.changed = (t.changed \/ gone # {})
    BY <1>1, <1>3 DEF Tls!DeleteIngress, Tls!Used
  <2>2. /\ index \in [Ingress -> SUBSET Secret]
        /\ \A j \in Ingress \ {i} : index[j] = t.ingress2secret[j]
    BY <1>1
  <2> HIDE DEF index, d
  <2>3. \A j \in Ingress \ {i} : \A s \in t.ingress2secret[j] : s \in Secret /\ s \notin gone
    BY <1>1, <2>2
  <2> HIDE DEF gone
  <2>4. TlsInv(d)
    <3>1. /\ d.certs \in [Secret -> {Nil} \cup (Content \ BadContent)]
          /\ d.changed \in BOOLEAN
      BY <1>1, <2>1
    <3> QED
      BY <2>1, <2>2, <3>1, TlsParts
  <2> QED
    BY <2>1, <2>3, <2>4 DEF d, index
<1> QED
  BY <1>2, <1>3

\* TLSConfig.UpdateIngress with its Secrets at hand: the Ingress uses them, no
\* certificate goes, and without an error each of them has one.
LEMMA TlsUpdate ==
    ASSUME NEW t, TlsInv(t), NEW i \in Ingress, NEW tls \in Seq(Secret),
           NEW secrets \in Secrets, \A s \in Tls!Listed(tls) : secrets[s] # NoObject
    PROVE  LET u == Tls!UpdateIngress(t, i, tls, secrets)
           IN  /\ TlsInv(u.conf)
               /\ u.conf.ingress2secret
                    = [t.ingress2secret EXCEPT ![i] = @ \cup Tls!Listed(tls)]
               /\ \A s \in Secret : t.certs[s] # Nil => u.conf.certs[s] # Nil
               /\ ~u.err => \A s \in Tls!Listed(tls) : u.conf.certs[s] # Nil
<1> DEFINE u == Tls!UpdateIngress(t, i, tls, secrets)
           listed == Tls!Listed(tls)
           taken == Tls!Taken(tls, secrets)
<1>1. /\ t.ingress2secret \in [Ingress -> SUBSET Secret]
      /\ t.certs \in [Secret -> {Nil} \cup (Content \ BadContent)]
      /\ t.changed \in BOOLEAN
  BY TlsParts
<1>2. listed \subseteq Secret /\ taken \subseteq listed
  BY DEF Tls!Listed, Tls!Taken
<1>3. \A s \in taken : secrets[s] \in Content \ BadContent /\ secrets[s] # Nil
  <2>1. \A s \in taken : secrets[s] \notin BadContent
    <3> SUFFICES ASSUME NEW k \in DOMAIN tls,
                        \A j \in 1 .. k : secrets[tls[j]] \notin BadContent
                 PROVE  secrets[tls[k]] \notin BadContent
      BY DEF Tls!Taken
    <3>1. k \in 1 .. k
      OBVIOUS
    <3> QED
      BY <3>1
  <2> QED
    BY <1>2, <2>1, ConfigBuilderAssumption DEF Secrets
<1>4. u = [conf |-> [ingress2secret |-> [t.ingress2secret EXCEPT ![i] = @ \cup listed],
                     certs |-> [s \in Secret |-> IF s \in taken THEN secrets[s]
                                                 ELSE t.certs[s]],
                     changed |-> t.changed \/ taken # {}],
           err |-> taken # listed]
  BY DEF Tls!UpdateIngress
<1> HIDE DEF listed, taken
<1>5. TlsInv(u.conf)
  <2>1. [t.ingress2secret EXCEPT ![i] = @ \cup listed] \in [Ingress -> SUBSET Secret]
    BY <1>1, <1>2
  <2>2. [s \in Secret |-> IF s \in taken THEN secrets[s] ELSE t.certs[s]]
            \in [Secret -> {Nil} \cup (Content \ BadContent)]
    BY <1>1, <1>2, <1>3
  <2>3. (t.changed \/ taken # {}) \in BOOLEAN
    BY <1>1
  <2> QED
    <3> HIDE DEF u
    <3>1. /\ u.conf = [ingress2secret |-> u.conf.ingress2secret, certs |-> u.conf.certs,
                       changed |-> u.conf.changed]
          /\ u.conf.ingress2secret = [t.ingress2secret EXCEPT ![i] = @ \cup listed]
          /\ u.conf.certs = [s \in Secret |-> IF s \in taken THEN secrets[s] ELSE t.certs[s]]
          /\ u.conf.changed = (t.changed \/ taken # {})
      BY <1>4
    <3> QED
      BY <2>1, <2>2, <2>3, <3>1, TlsParts
<1>6. \A s \in Secret : u.conf.certs[s] = IF s \in taken THEN secrets[s] ELSE t.certs[s]
  BY <1>4
<1>7. /\ u.conf.ingress2secret = [t.ingress2secret EXCEPT ![i] = @ \cup listed]
      /\ ~u.err => taken = listed
  <2>1. u.conf.ingress2secret = [t.ingress2secret EXCEPT ![i] = @ \cup listed]
    BY DEF Tls!UpdateIngress, listed
  <2>2. CASE taken = listed
    BY <2>1, <2>2
  <2>3. CASE taken # listed
    <3>1. u.err
      BY <2>3, Zenon DEF Tls!UpdateIngress, taken, listed
    <3> QED
      BY <2>1, <3>1
  <2> QED
    BY <2>2, <2>3
<1> HIDE DEF u
<1>8. /\ \A s \in Secret : t.certs[s] # Nil => u.conf.certs[s] # Nil
      /\ ~u.err => \A s \in listed : u.conf.certs[s] # Nil
  BY <1>2, <1>3, <1>6, <1>7
<1> QED
  BY <1>5, <1>7, <1>8 DEF u, listed

\* TLSConfig.UpdateSecret: no certificate goes, and no use changes.
LEMMA TlsSecret ==
    ASSUME NEW t, TlsInv(t), NEW s \in Secret, NEW content \in Content
    PROVE  LET n == Tls!UpdateSecret(t, s, content).conf
           IN  /\ TlsInv(n)
               /\ n.ingress2secret = t.ingress2secret
               /\ \A x \in Secret : t.certs[x] # Nil => n.certs[x] # Nil
<1> DEFINE n == Tls!UpdateSecret(t, s, content).conf
<1>1. CASE n = t
  BY <1>1
<1>2. CASE n # t
  <2>1. /\ n = [t EXCEPT !.certs = [@ EXCEPT ![s] = content], !.changed = TRUE]
        /\ content \notin BadContent
    BY <1>2 DEF Tls!UpdateSecret
  <2>2. n = [ingress2secret |-> t.ingress2secret,
             certs |-> [t.certs EXCEPT ![s] = content], changed |-> TRUE]
    BY <2>1, TlsParts
  <2>3. /\ t.certs \in [Secret -> {Nil} \cup (Content \ BadContent)]
        /\ t.ingress2secret \in [Ingress -> SUBSET Secret]
        /\ content # Nil
    BY ConfigBuilderAssumption, TlsParts
  <2> HIDE DEF n
  <2>4. [t.certs EXCEPT ![s] = content] \in [Secret -> {Nil} \cup (Content \ BadContent)]
    BY <2>1, <2>3
  <2>5. TlsInv(n)
    BY <2>2, <2>3, <2>4, TlsParts
  <2> QED
    BY <2>2, <2>3, <2>5 DEF n
<1> QED
  BY <1>1, <1>2

-----------------------------------------------------------------------------
(* The clusters. *)

\* An Ingress lists clusters of its own, and all of them are in the table.
ClusterInv(c) ==
    /\ c \in Cluster!Configuration
    /\ \A i \in Ingress : \A x \in c.ingress2Cluster[i] :
          x[1] = i /\ c.clusterTableConf[x] # Nil

\* What a configuration of the clusters consists of.
LEMMA ClusterParts ==
    ASSUME NEW c
    PROVE  ClusterInv(c) <=>
              /\ c = [ingress2Cluster |-> c.ingress2Cluster,
                      service2Cluster |-> c.service2Cluster,
                      gslbConf |-> c.gslbConf, clusterTableConf |-> c.clusterTableConf]
              /\ c.ingress2Cluster \in [Ingress -> SUBSET Cluster!Cluster]
              /\ c.service2Cluster \in [Service -> SUBSET Cluster!AllCluster]
              /\ c.gslbConf \in [Cluster!AllCluster -> {Nil} \cup Cluster!Weights]
              /\ c.clusterTableConf
                    \in [Cluster!AllCluster -> {Nil} \cup Cluster!SubClusters]
              /\ \A i \in Ingress : \A x \in c.ingress2Cluster[i] :
                    x[1] = i /\ c.clusterTableConf[x] # Nil
BY DEF ClusterInv, Cluster!Configuration

\* newGslbClusterConf yields weights, also without a balance annotation.
LEMMA GslbType ==
    ASSUME NEW s \in Service
    PROVE  /\ \A balance \in [Service -> {Nil} \cup Cluster!Weights] :
                 Cluster!NewGslbClusterConf(s, balance) \in Cluster!Weights
           /\ Cluster!NewGslbClusterConf(s, Cluster!NoBalance) \in Cluster!Weights
<1>1. \A balance \in [Service -> {Nil} \cup Cluster!Weights] :
          Cluster!NewGslbClusterConf(s, balance) \in Cluster!Weights
  BY ConfigBuilderAssumption DEF Cluster!NewGslbClusterConf, Cluster!Weights
<1>2. Cluster!NoBalance \in [Service -> {Nil} \cup Cluster!Weights]
  BY DEF Cluster!NoBalance
<1> QED
  BY <1>1, <1>2

\* The addresses of a sub-cluster.
LEMMA BackendType ==
    ASSUME NEW svc \in ServiceState, NEW t \in BOOLEAN
    PROVE  Cluster!NewSubClusterBackend(svc, t) \in SUBSET Addr
<1>1. svc.addrs \in Seq(Addr)
  BY ConfigBuilderAssumption DEF Cluster!ServiceObject
<1>2. Cluster!Addresses(svc) \subseteq Addr
  BY <1>1 DEF Cluster!Addresses
<1>3. svc.addrs # <<>> => svc.addrs[1] \in Addr
  BY <1>1
<1> QED
  BY <1>2, <1>3 DEF Cluster!NewSubClusterBackend

\* A sub-cluster set or removed leaves a cluster a cluster.
LEMMA SubClusterSet ==
    ASSUME NEW m \in Cluster!SubClusters, NEW s \in Service,
           NEW v \in {Nil} \cup SUBSET Addr
    PROVE  [m EXCEPT ![s] = v] \in Cluster!SubClusters /\ [m EXCEPT ![s] = v] # Nil
<1>1. [m EXCEPT ![s] = v] \in Cluster!SubClusters
  BY DEF Cluster!SubClusters
<1> QED
  BY <1>1, ConfigBuilderAssumption

\* ClusterConfig.DeleteIngress: the Ingress has no cluster, the others keep theirs.
LEMMA ClusterDelete ==
    ASSUME NEW c, ClusterInv(c), NEW i \in Ingress
    PROVE  LET d == Cluster!DeleteIngress(c, i)
           IN  /\ ClusterInv(d)
               /\ d.ingress2Cluster = [c.ingress2Cluster EXCEPT ![i] = {}]
<1> DEFINE w == Cluster!WithoutClusters(c, i)
           mine == c.ingress2Cluster[i]
           index == [c.ingress2Cluster EXCEPT ![i] = {}]
<1>1. /\ c.ingress2Cluster \in [Ingress -> SUBSET Cluster!Cluster]
      /\ c.service2Cluster \in [Service -> SUBSET Cluster!AllCluster]
      /\ c.gslbConf \in [Cluster!AllCluster -> {Nil} \cup Cluster!Weights]
      /\ c.clusterTableConf \in [Cluster!AllCluster -> {Nil} \cup Cluster!SubClusters]
      /\ Cluster!Cluster \subseteq Cluster!AllCluster
      /\ DefaultCluster \notin Cluster!Cluster
  BY ConfigBuilderAssumption, ClusterParts DEF Cluster!AllCluster
<1>2. /\ w = [ingress2Cluster |-> w.ingress2Cluster, service2Cluster |-> w.service2Cluster,
              gslbConf |-> w.gslbConf, clusterTableConf |-> w.clusterTableConf]
      /\ w.ingress2Cluster = index
      /\ \A x \in Service : w.service2Cluster[x] \subseteq c.service2Cluster[x]
      /\ DOMAIN w.service2Cluster = Service
      /\ w.gslbConf = [x \in Cluster!AllCluster |->
                          IF x \in mine THEN Nil ELSE c.gslbConf[x]]
      /\ w.clusterTableConf = [x \in Cluster!AllCluster |->
                                  IF x \in mine THEN Nil ELSE c.clusterTableConf[x]]
  <2>1. w.service2Cluster
          = [x \in Service |->
                {y \in c.service2Cluster[x] :
                    ~ (y \in mine /\ c.clusterTableConf[y] # Nil
                                  /\ c.clusterTableConf[y][x] # Nil)}]
    BY DEF Cluster!WithoutClusters
  <2>2. \A x \in Service : w.service2Cluster[x] \subseteq c.service2Cluster[x]
    BY <2>1
  <2>3. DOMAIN w.service2Cluster = Service
    BY <2>1
  <2> QED
    BY <2>2, <2>3 DEF Cluster!WithoutClusters
<1>3. /\ index \in [Ingress -> SUBSET Cluster!Cluster]
      /\ index[i] = {}
      /\ \A j \in Ingress \ {i} : index[j] = c.ingress2Cluster[j]
  BY <1>1
<1> HIDE DEF w, index
<1>4. /\ w.service2Cluster \in [Service -> SUBSET Cluster!AllCluster]
      /\ w.gslbConf \in [Cluster!AllCluster -> {Nil} \cup Cluster!Weights]
      /\ w.clusterTableConf \in [Cluster!AllCluster -> {Nil} \cup Cluster!SubClusters]
  <2>1. w.service2Cluster = [x \in Service |-> w.service2Cluster[x]]
    BY <1>2, Zenon DEF Cluster!WithoutClusters, w
  <2>2. \A x \in Service : w.service2Cluster[x] \in SUBSET Cluster!AllCluster
    BY <1>1, <1>2
  <2> QED
    BY <1>1, <1>2, <2>1, <2>2
<1>5. ASSUME NEW j \in Ingress, NEW x \in index[j]
      PROVE  x[1] = j /\ x \in Cluster!Cluster /\ w.clusterTableConf[x] # Nil
  <2>1. j # i /\ x \in c.ingress2Cluster[j]
    BY <1>3, <1>5
  <2>2. x[1] = j /\ c.clusterTableConf[x] # Nil /\ x \in Cluster!Cluster
    BY <1>1, <2>1 DEF ClusterInv
  <2>3. x \notin mine
    BY <2>1, <2>2 DEF ClusterInv
  <2> QED
    BY <1>1, <1>2, <2>2, <2>3
<1>6. ClusterInv(w)
  BY <1>2, <1>3, <1>4, <1>5, ClusterParts
<1>7. CASE c.ingress2Cluster[i] = {}
  <2>1. Cluster!DeleteIngress(c, i) = c
    BY <1>7 DEF Cluster!DeleteIngress
  <2>2. c.ingress2Cluster = index
    BY <1>1, <1>7 DEF index
  <2> QED
    BY <2>1, <2>2 DEF index
<1>8. CASE Cluster!DeleteIngress(c, i) = w
  BY <1>2, <1>6, <1>8 DEF index
<1>9. CASE Cluster!DeleteIngress(c, i) = Cluster!DelDefaultBackend(w)
  <2> DEFINE d == Cluster!DelDefaultBackend(w)
  <2>1. /\ d = [ingress2Cluster |-> d.ingress2Cluster, service2Cluster |-> d.service2Cluster,
                gslbConf |-> d.gslbConf, clusterTableConf |-> d.clusterTableConf]
        /\ d.ingress2Cluster = index
        /\ d.service2Cluster
              = [w.service2Cluster EXCEPT ![DefaultBackend] = @ \ {DefaultCluster}]
        /\ d.gslbConf = [w.gslbConf EXCEPT ![DefaultCluster] = Nil]
        /\ d.clusterTableConf = [w.clusterTableConf EXCEPT ![DefaultCluster] = Nil]
    BY <1>2 DEF Cluster!DelDefaultBackend
  <2> HIDE DEF d
  <2>2. /\ d.clusterTableConf \in [Cluster!AllCluster -> {Nil} \cup Cluster!SubClusters]
        /\ \A x \in Cluster!Cluster : d.clusterTableConf[x] = w.clusterTableConf[x]
    <3>1. d.clusterTableConf = [w.clusterTableConf EXCEPT ![DefaultCluster] = Nil]
      BY <2>1
    <3>2. \A x \in Cluster!Cluster : x \in Cluster!AllCluster /\ x # DefaultCluster
      BY <1>1
    <3>3. d.clusterTableConf \in [Cluster!AllCluster -> {Nil} \cup Cluster!SubClusters]
      BY <1>4, <3>1
    <3>4. \A x \in Cluster!AllCluster \ {DefaultCluster} :
              d.clusterTableConf[x] = w.clusterTableConf[x]
      BY <1>4, <3>1
    <3> QED
      BY <3>2, <3>3, <3>4
  <2>3. d.service2Cluster \in [Service -> SUBSET Cluster!AllCluster]
    <3>1. d.service2Cluster
              = [w.service2Cluster EXCEPT ![DefaultBackend] = @ \ {DefaultCluster}]
      BY <2>1
    <3> QED
      BY <1>4, <3>1
  <2>4. d.gslbConf \in [Cluster!AllCluster -> {Nil} \cup Cluster!Weights]
    BY <1>4, <2>1
  <2>5. ClusterInv(d)
    BY <1>3, <1>5, <2>1, <2>2, <2>3, <2>4, ClusterParts
  <2> QED
    BY <1>9, <2>1, <2>5 DEF d, index
<1> QED
  BY <1>7, <1>8, <1>9 DEF Cluster!DeleteIngress, w

\* The Services that an update was given suffice for the clusters of an object.
Given(obj, services) ==
    \A b \in obj.backends : \A s \in Service :
        Cluster!NewGslbClusterConf(b[1], obj.balance)[s] # Nil
            => services[s] \in ServiceState

\* A new cluster is a cluster.
LEMMA NewClusterType ==
    ASSUME NEW obj, NEW services, Given(obj, services), NEW b \in obj.backends
    PROVE  Cluster!NewClusterBackend(b, obj.balance, services) \in Cluster!SubClusters
<1> DEFINE n == Cluster!NewClusterBackend(b, obj.balance, services)
           g == Cluster!NewGslbClusterConf(b[1], obj.balance)
<1>1. n = [s \in Service |->
              IF g[s] = Nil THEN Nil
              ELSE Cluster!NewSubClusterBackend(services[s],
                                                Cluster!HasTarget(services[s], b[2]))]
  BY DEF Cluster!NewClusterBackend
<1>2. ASSUME NEW s \in Service, g[s] # Nil
      PROVE  Cluster!NewSubClusterBackend(services[s],
                                          Cluster!HasTarget(services[s], b[2]))
                \in SUBSET Addr
  <2>1. services[s] \in ServiceState
    BY <1>2 DEF Given
  <2>2. Cluster!HasTarget(services[s], b[2]) \in BOOLEAN
    BY DEF Cluster!HasTarget
  <2> QED
    BY <2>1, <2>2, BackendType
<1> HIDE DEF g
<1>3. \A s \in Service : (IF g[s] = Nil THEN Nil
                          ELSE Cluster!NewSubClusterBackend(services[s],
                                    Cluster!HasTarget(services[s], b[2])))
                         \in {Nil} \cup SUBSET Addr
  BY <1>2
<1> QED
  BY <1>1, <1>3 DEF Cluster!SubClusters

\* The clusters after an update u of c for an object.
ClustersUpdated(c, u, i, obj) ==
    /\ u.err => u.conf.ingress2Cluster = [c.ingress2Cluster EXCEPT ![i] = {}]
    /\ ~u.err => u.conf.ingress2Cluster
                   = [c.ingress2Cluster EXCEPT ![i] = @ \cup ({i} \X obj.backends)]

\* ClusterConfig.UpdateIngress: an Ingress that is taken keeps its clusters and has
\* one for each backend; one that is refused has none.
LEMMA ClusterUpdate ==
    ASSUME NEW c, ClusterInv(c), NEW i \in Ingress, NEW obj, NEW services,
           obj.backends \subseteq Service \X Port,
           obj.balance \in [Service -> {Nil} \cup Cluster!Weights], Given(obj, services),
           Cluster!DefaultFound(services) => services[DefaultBackend] \in ServiceState,
           NEW valid \in BOOLEAN,
           NEW u, u = Cluster!UpdateIngress(c, i, obj, services, valid)
    PROVE  ClusterInv(u.conf) /\ ClustersUpdated(c, u, i, obj)
<1> DEFINE w == Cluster!WithClusters(c, i, obj, services)
           new == Cluster!AddDefaultBackend(w, services)
           mine == {i} \X obj.backends
           gslb(x) == Cluster!NewGslbClusterConf(x[2][1], obj.balance)
           index == [c.ingress2Cluster EXCEPT ![i] = @ \cup mine]
<1>1. /\ c.ingress2Cluster \in [Ingress -> SUBSET Cluster!Cluster]
      /\ c.service2Cluster \in [Service -> SUBSET Cluster!AllCluster]
      /\ c.gslbConf \in [Cluster!AllCluster -> {Nil} \cup Cluster!Weights]
      /\ c.clusterTableConf \in [Cluster!AllCluster -> {Nil} \cup Cluster!SubClusters]
      /\ Cluster!Cluster \subseteq Cluster!AllCluster
      /\ DefaultCluster \notin Cluster!Cluster
      /\ mine \subseteq Cluster!Cluster
  BY ConfigBuilderAssumption, ClusterParts
     DEF Cluster!AllCluster, Cluster!Cluster, Cluster!Backend
<1>2. /\ w = [ingress2Cluster |-> w.ingress2Cluster, service2Cluster |-> w.service2Cluster,
              gslbConf |-> w.gslbConf, clusterTableConf |-> w.clusterTableConf]
      /\ w.ingress2Cluster = index
      /\ w.service2Cluster = [s \in Service |->
            c.service2Cluster[s] \cup {x \in mine : gslb(x)[s] # Nil}]
      /\ w.gslbConf = [x \in Cluster!AllCluster |->
            IF x \in mine THEN gslb(x) ELSE c.gslbConf[x]]
      /\ w.clusterTableConf = [x \in Cluster!AllCluster |->
            IF x \in mine THEN Cluster!NewClusterBackend(x[2], obj.balance, services)
            ELSE c.clusterTableConf[x]]
  BY DEF Cluster!WithClusters
<1>3. \A x \in mine : /\ x[1] = i /\ gslb(x) \in Cluster!Weights
                      /\ Cluster!NewClusterBackend(x[2], obj.balance, services)
                            \in Cluster!SubClusters
  <2>1. \A x \in mine : x[1] = i /\ x[2] \in obj.backends /\ x[2][1] \in Service
    OBVIOUS
  <2>2. \A x \in mine : gslb(x) \in Cluster!Weights
    BY <2>1, GslbType
  <2>3. \A x \in mine : Cluster!NewClusterBackend(x[2], obj.balance, services)
                            \in Cluster!SubClusters
    BY <2>1, NewClusterType
  <2> HIDE DEF mine, gslb
  <2> QED
    BY <2>1, <2>2, <2>3
<1>4. /\ index \in [Ingress -> SUBSET Cluster!Cluster]
      /\ \A j \in Ingress : index[j] \subseteq c.ingress2Cluster[j] \cup (IF j = i THEN mine ELSE {})
  BY <1>1
<1> HIDE DEF w, index, gslb
<1>5. /\ w.service2Cluster \in [Service -> SUBSET Cluster!AllCluster]
      /\ w.gslbConf \in [Cluster!AllCluster -> {Nil} \cup Cluster!Weights]
      /\ w.clusterTableConf \in [Cluster!AllCluster -> {Nil} \cup Cluster!SubClusters]
  <2> HIDE DEF mine
  <2>1. w.service2Cluster \in [Service -> SUBSET Cluster!AllCluster]
    BY <1>1, <1>2
  <2>2. w.gslbConf \in [Cluster!AllCluster -> {Nil} \cup Cluster!Weights]
    BY <1>1, <1>2, <1>3
  <2>3. w.clusterTableConf \in [Cluster!AllCluster -> {Nil} \cup Cluster!SubClusters]
    BY <1>1, <1>2, <1>3
  <2> QED
    BY <2>1, <2>2, <2>3
<1>6. ASSUME NEW j \in Ingress, NEW x \in index[j]
      PROVE  x[1] = j /\ w.clusterTableConf[x] # Nil
  <2>1. x \in Cluster!AllCluster
    BY <1>1, <1>4
  <2>2. CASE x \in mine
    <3>1. j = i
      <4>1. CASE x \in c.ingress2Cluster[j]
        BY <1>3, <2>2, <4>1 DEF ClusterInv
      <4> QED
        BY <1>4, <1>6, <4>1
    <3>2. w.clusterTableConf[x] \in Cluster!SubClusters
      BY <1>2, <1>3, <2>1, <2>2
    <3> QED
      BY <1>3, <2>2, <3>1, <3>2, ConfigBuilderAssumption
  <2>3. CASE x \notin mine
    <3>1. x \in c.ingress2Cluster[j]
      BY <1>4, <1>6, <2>3
    <3> QED
      BY <1>2, <2>1, <2>3, <3>1 DEF ClusterInv
  <2> QED
    BY <2>2, <2>3
<1>7. ClusterInv(w)
  BY <1>2, <1>4, <1>5, <1>6, ClusterParts
<1>8. ClusterInv(new) /\ new.ingress2Cluster = index
  <2>1. CASE new = w
    BY <1>2, <1>7, <2>1
  <2>2. CASE new # w
    <3> DEFINE n == [s \in Service |-> IF s = DefaultBackend
                        THEN Cluster!NewSubClusterBackend(services[s], FALSE) ELSE Nil]
    <3> DEFINE g == Cluster!NewGslbClusterConf(DefaultBackend, Cluster!NoBalance)
    <3>1. Cluster!DefaultFound(services) /\ DefaultBackend \in Service
      BY <2>2, ConfigBuilderAssumption DEF Cluster!AddDefaultBackend, Cluster!DefaultFound
    <3>2. Cluster!NewSubClusterBackend(services[DefaultBackend], FALSE) \in SUBSET Addr
      BY <3>1, BackendType
    <3>3. n \in Cluster!SubClusters
      BY <3>2 DEF Cluster!SubClusters
    <3>9. g \in Cluster!Weights
      BY <3>1, GslbType
    <3> HIDE DEF n, g
    <3>4. /\ new = [ingress2Cluster |-> new.ingress2Cluster,
                    service2Cluster |-> new.service2Cluster,
                    gslbConf |-> new.gslbConf, clusterTableConf |-> new.clusterTableConf]
          /\ new.ingress2Cluster = index
          /\ new.service2Cluster
                = [w.service2Cluster EXCEPT ![DefaultBackend] = @ \cup {DefaultCluster}]
          /\ new.gslbConf = [w.gslbConf EXCEPT ![DefaultCluster] = g]
          /\ new.clusterTableConf = [w.clusterTableConf EXCEPT ![DefaultCluster] = n]
      BY <1>2, <2>2 DEF Cluster!AddDefaultBackend, n, g
    <3> HIDE DEF new
    <3>5. /\ new.clusterTableConf \in [Cluster!AllCluster -> {Nil} \cup Cluster!SubClusters]
          /\ \A x \in Cluster!Cluster : new.clusterTableConf[x] = w.clusterTableConf[x]
      <4>1. new.clusterTableConf = [w.clusterTableConf EXCEPT ![DefaultCluster] = n]
        BY <3>4
      <4>2. /\ DOMAIN w.clusterTableConf = Cluster!AllCluster
            /\ \A x \in Cluster!AllCluster :
                  w.clusterTableConf[x] \in {Nil} \cup Cluster!SubClusters
        BY <1>5
      <4>3. \A x \in Cluster!Cluster : x \in Cluster!AllCluster /\ x # DefaultCluster
        BY <1>1
      <4> HIDE DEF mine
      <4>4. /\ DOMAIN new.clusterTableConf = Cluster!AllCluster
            /\ \A x \in Cluster!AllCluster : new.clusterTableConf[x]
                  = IF x = DefaultCluster THEN n ELSE w.clusterTableConf[x]
        BY <4>1, <4>2
      <4>5. new.clusterTableConf
                = [x \in Cluster!AllCluster |-> new.clusterTableConf[x]]
        BY <4>1, <4>2
      <4> QED
        BY <3>3, <4>2, <4>3, <4>4, <4>5
    <3>6. new.service2Cluster \in [Service -> SUBSET Cluster!AllCluster]
      <4>1. new.service2Cluster
                = [w.service2Cluster EXCEPT ![DefaultBackend] = @ \cup {DefaultCluster}]
        BY <3>4
      <4>2. DefaultCluster \in Cluster!AllCluster
        BY DEF Cluster!AllCluster
      <4> HIDE DEF mine
      <4>3. /\ DOMAIN w.service2Cluster = Service
            /\ \A x \in Service : w.service2Cluster[x] \subseteq Cluster!AllCluster
        BY <1>5
      <4>4. \A x \in Service : new.service2Cluster[x]
                \subseteq w.service2Cluster[x] \cup {DefaultCluster}
        BY <4>1, <4>3
      <4>5. new.service2Cluster = [x \in Service |-> new.service2Cluster[x]]
        BY <4>1, <4>3
      <4> QED
        BY <4>2, <4>3, <4>4, <4>5
    <3>7. new.gslbConf \in [Cluster!AllCluster -> {Nil} \cup Cluster!Weights]
      BY <1>5, <3>4, <3>9
    <3> QED
      BY <1>4, <1>6, <3>4, <3>5, <3>6, <3>7, ClusterParts
  <2> QED
    BY <2>1, <2>2
<1> HIDE DEF new
<1>9. CASE obj.backends = {}
  <2>1. u = [conf |-> c, err |-> FALSE]
    BY <1>9 DEF Cluster!UpdateIngress
  <2>2. c.ingress2Cluster = index
    BY <1>1, <1>9 DEF index
  <2> QED
    BY <2>1, <2>2 DEF index, ClustersUpdated
<1>10. CASE obj.backends # {} /\ valid
  <2>1. u = [conf |-> new, err |-> FALSE]
    BY <1>10 DEF Cluster!UpdateIngress, new, w
  <2> QED
    BY <1>8, <2>1 DEF index, ClustersUpdated
<1>11. CASE obj.backends # {} /\ ~valid
  <2>1. u = [conf |-> Cluster!DeleteIngress(new, i), err |-> TRUE]
    BY <1>11 DEF Cluster!UpdateIngress, new, w
  <2>2. /\ ClusterInv(Cluster!DeleteIngress(new, i))
        /\ Cluster!DeleteIngress(new, i).ingress2Cluster = [index EXCEPT ![i] = {}]
    BY <1>8, ClusterDelete
  <2>3. [index EXCEPT ![i] = {}] = [c.ingress2Cluster EXCEPT ![i] = {}]
    BY <1>1 DEF index
  <2> QED
    BY <2>1, <2>2, <2>3 DEF ClustersUpdated
<1> QED
  BY <1>9, <1>10, <1>11

\* UpdateService on clusters that the table has.
LEMMA ClusterRefresh ==
    ASSUME NEW c, ClusterInv(c), NEW s \in Service, NEW svc \in ServiceState, NEW cs,
           \A x \in cs : c.clusterTableConf[x] # Nil
    PROVE  LET r == Cluster!RefreshService(c, s, svc, cs)
           IN  ClusterInv(r) /\ r.ingress2Cluster = c.ingress2Cluster
<1> DEFINE r == Cluster!RefreshService(c, s, svc, cs)
           back(x) == Cluster!NewSubClusterBackend(svc,
                            Cluster!HasTarget(svc, Cluster!ParsePort(x)))
           set(x) == [c.clusterTableConf[x] EXCEPT ![s] = back(x)]
<1>1. /\ c.ingress2Cluster \in [Ingress -> SUBSET Cluster!Cluster]
      /\ c.service2Cluster \in [Service -> SUBSET Cluster!AllCluster]
      /\ c.gslbConf \in [Cluster!AllCluster -> {Nil} \cup Cluster!Weights]
      /\ c.clusterTableConf \in [Cluster!AllCluster -> {Nil} \cup Cluster!SubClusters]
      /\ Cluster!Cluster \subseteq Cluster!AllCluster
  BY ClusterParts DEF Cluster!AllCluster
<1>2. \A x : back(x) \in SUBSET Addr
  BY BackendType DEF Cluster!HasTarget
<1>3. /\ r = [ingress2Cluster |-> r.ingress2Cluster, service2Cluster |-> r.service2Cluster,
              gslbConf |-> r.gslbConf, clusterTableConf |-> r.clusterTableConf]
      /\ r.ingress2Cluster = c.ingress2Cluster
      /\ r.service2Cluster = c.service2Cluster
      /\ r.gslbConf = [x \in Cluster!AllCluster |->
            IF x \in cs THEN Cluster!NewGslbClusterConf(s, Cluster!NoBalance)
            ELSE c.gslbConf[x]]
      /\ r.clusterTableConf = [x \in Cluster!AllCluster |->
            IF x \in cs THEN set(x) ELSE c.clusterTableConf[x]]
  BY DEF Cluster!RefreshService
<1> HIDE DEF r, back
<1>4. \A x \in Cluster!AllCluster \cap cs :
          set(x) \in Cluster!SubClusters /\ set(x) # Nil
  BY <1>1, <1>2, SubClusterSet
<1> HIDE DEF set
<1>5. /\ r.clusterTableConf \in [Cluster!AllCluster -> {Nil} \cup Cluster!SubClusters]
      /\ \A x \in Cluster!AllCluster :
            c.clusterTableConf[x] # Nil => r.clusterTableConf[x] # Nil
  BY <1>1, <1>3, <1>4
<1>6. r.gslbConf \in [Cluster!AllCluster -> {Nil} \cup Cluster!Weights]
  BY <1>1, <1>3, GslbType
<1>7. ClusterInv(r)
  BY <1>1, <1>3, <1>5, <1>6, ClusterParts
<1> QED
  BY <1>3, <1>7 DEF r

\* DeleteService takes sub-clusters away, and no cluster.
LEMMA ClusterShrink ==
    ASSUME NEW c, ClusterInv(c), NEW s \in Service
    PROVE  LET d == Cluster!DeleteService(c, s)
           IN  ClusterInv(d) /\ d.ingress2Cluster = c.ingress2Cluster
<1> DEFINE d == Cluster!DeleteService(c, s)
           tbl == c.clusterTableConf
           gslb(x) == Cluster!Without(c.gslbConf[x], s)
<1>1. /\ c.ingress2Cluster \in [Ingress -> SUBSET Cluster!Cluster]
      /\ c.service2Cluster \in [Service -> SUBSET Cluster!AllCluster]
      /\ c.gslbConf \in [Cluster!AllCluster -> {Nil} \cup Cluster!Weights]
      /\ tbl \in [Cluster!AllCluster -> {Nil} \cup Cluster!SubClusters]
      /\ Cluster!Cluster \subseteq Cluster!AllCluster
  BY ClusterParts DEF Cluster!AllCluster
<1>2. /\ d = [ingress2Cluster |-> d.ingress2Cluster, service2Cluster |-> d.service2Cluster,
              gslbConf |-> d.gslbConf, clusterTableConf |-> d.clusterTableConf]
      /\ d.ingress2Cluster = c.ingress2Cluster
      /\ d.service2Cluster = c.service2Cluster
      /\ d.gslbConf = [x \in Cluster!AllCluster |->
            IF x \notin c.service2Cluster[s] THEN c.gslbConf[x]
            ELSE IF gslb(x) = Nil \/ Cluster!Keys(gslb(x)) = {} THEN Nil
            ELSE gslb(x)]
      /\ d.clusterTableConf = [x \in Cluster!AllCluster |->
            IF x \in c.service2Cluster[s] THEN Cluster!Without(tbl[x], s) ELSE tbl[x]]
  BY DEF Cluster!DeleteService
<1> HIDE DEF d
<1>3. \A x \in Cluster!AllCluster :
          /\ Cluster!Without(tbl[x], s) \in {Nil} \cup Cluster!SubClusters
          /\ tbl[x] # Nil => Cluster!Without(tbl[x], s) # Nil
  BY <1>1, SubClusterSet DEF Cluster!Without
<1>4. /\ d.clusterTableConf \in [Cluster!AllCluster -> {Nil} \cup Cluster!SubClusters]
      /\ \A x \in Cluster!AllCluster : tbl[x] # Nil => d.clusterTableConf[x] # Nil
  BY <1>1, <1>2, <1>3
<1>5. d.gslbConf \in [Cluster!AllCluster -> {Nil} \cup Cluster!Weights]
  <2>1. \A x \in Cluster!AllCluster : gslb(x) \in {Nil} \cup Cluster!Weights
    BY <1>1 DEF Cluster!Without, Cluster!Weights
  <2> HIDE DEF gslb
  <2> QED
    BY <1>1, <1>2, <2>1
<1>6. ClusterInv(d)
  BY <1>1, <1>2, <1>4, <1>5, ClusterParts
<1> QED
  BY <1>2, <1>6 DEF d

\* An event of a Service changes no Ingress's clusters, however UpdateService ends.
LEMMA ClusterService ==
    ASSUME NEW c, ClusterInv(c), NEW s \in Service, NEW svc \in ServiceState,
           NEW u \in Cluster!UpdateServiceResults(c, s, svc)
    PROVE  ClusterInv(u) /\ u.ingress2Cluster = c.ingress2Cluster
<1> DEFINE cs == c.service2Cluster[s]
           good == cs \ (Cluster!Lacking(c, s, svc) \cup Cluster!Dangling(c, s))
<1>1. \A x \in cs \ Cluster!Dangling(c, s) : c.clusterTableConf[x] # Nil
  BY DEF Cluster!Dangling
<1>2. CASE Cluster!Lacking(c, s, svc) # {}
  <2>1. PICK done \in SUBSET good :
            u = Cluster!DeleteService(Cluster!RefreshService(c, s, svc, done), s)
    BY <1>2 DEF Cluster!UpdateServiceResults
  <2> DEFINE r == Cluster!RefreshService(c, s, svc, done)
  <2>2. ClusterInv(r) /\ r.ingress2Cluster = c.ingress2Cluster
    BY <1>1, <2>1, ClusterRefresh
  <2> HIDE DEF r
  <2>3. ClusterInv(Cluster!DeleteService(r, s))
        /\ Cluster!DeleteService(r, s).ingress2Cluster = r.ingress2Cluster
    BY <2>2, ClusterShrink
  <2> QED
    BY <2>1, <2>2, <2>3 DEF r
<1>3. CASE Cluster!Lacking(c, s, svc) = {}
  <2>1. Cluster!Dangling(c, s) = {} /\ u = Cluster!RefreshService(c, s, svc, cs)
    BY <1>3 DEF Cluster!UpdateServiceResults
  <2> QED
    BY <1>1, <2>1, ClusterRefresh
<1> QED
  BY <1>2, <1>3

-----------------------------------------------------------------------------
(* The ConfigBuilder. *)

\* Rules belong to Ingresses that list the cluster they forward to.
ConfInv(c) ==
    /\ c \in [server: {c.server}, cluster: {c.cluster}, tls: {c.tls}]
    /\ ServerInv(c.server) /\ ClusterInv(c.cluster) /\ TlsInv(c.tls)
    /\ \A r \in c.server.cache.ruleMap :
          r.cluster \in c.cluster.ingress2Cluster[r.ingress]

\* Nothing of an Ingress is configured.
Absent(c, i) ==
    /\ \A r \in c.server.cache.ruleMap : r.ingress # i
    /\ c.cluster.ingress2Cluster[i] = {}
    /\ c.tls.ingress2secret[i] = {}

\* Everything an object asks for is.
Complete(c, i, obj) ==
    /\ {i} \X Backends(obj).backends \subseteq c.cluster.ingress2Cluster[i]
    /\ Tls!Listed(obj.tls) \subseteq c.tls.ingress2secret[i]
    /\ \A s \in Tls!Listed(obj.tls) : c.tls.certs[s] # Nil

\* Going from c to d, an Ingress gets nothing, and loses at most rules.
Kept(c, d, i) ==
    /\ \A r \in d.server.cache.ruleMap : r.ingress = i => r \in c.server.cache.ruleMap
    /\ d.cluster.ingress2Cluster[i] = c.cluster.ingress2Cluster[i]
    /\ d.tls.ingress2secret[i] = c.tls.ingress2secret[i]
    /\ \A s \in c.tls.ingress2secret[i] :
          s \in Secret /\ c.tls.certs[s] # Nil => d.tls.certs[s] # Nil

\* Objects of the API server are well-formed.
LEMMA ObjectType ==
    ASSUME NEW obj \in Objects
    PROVE  /\ obj.tls \in Seq(Secret)
           /\ Tls!Listed(obj.tls) \subseteq Secret
           /\ Backends(obj).backends \subseteq Service \X Port
           /\ Backends(obj).balance \in [Service -> {Nil} \cup Cluster!Weights]
           /\ \A k \in DOMAIN obj.paths : obj.paths[k].backend \in Backends(obj).backends
<1>1. PICK m \in Manifest, t \in 0 .. MaxTime : obj = Stamped(m, t)
  BY DEF Objects
<1>2. obj.paths = m.paths /\ obj.tls = m.tls
  BY <1>1 DEF Stamped
<1>3. m.paths \in Seq(Server!HttpPath) /\ m.tls \in Seq(Secret)
  BY ConfigBuilderAssumption
<1>4. \A k \in DOMAIN obj.paths : obj.paths[k].backend \in Service \X Port
  <2>1. \A k \in DOMAIN obj.paths : obj.paths[k] \in Server!HttpPath
    BY <1>2, <1>3
  <2> QED
    BY <2>1 DEF Server!HttpPath
<1>5. Tls!Listed(obj.tls) \subseteq Secret
  BY <1>2, <1>3 DEF Tls!Listed
<1>6. Backends(obj).backends = {obj.paths[k].backend : k \in DOMAIN obj.paths}
  BY DEF Backends
<1>7. Backends(obj).balance = m.balance
  BY <1>1 DEF Backends, Stamped
<1>8. m.balance \in [Service -> {Nil} \cup Cluster!Weights]
  BY ConfigBuilderAssumption
<1> QED
  BY <1>2, <1>3, <1>4, <1>5, <1>6, <1>7, <1>8

\* The ConfigBuilder before its first Ingress.
LEMMA NewInv == ConfInv(NewConfigBuilder) /\ \A i \in Ingress : Absent(NewConfigBuilder, i)
<1>1. NewConfigBuilder = [server |-> Server!NewServerDataConfig,
                          cluster |-> Cluster!NewClusterConfig, tls |-> Tls!NewTLSConfig]
  BY DEF NewConfigBuilder
<1>2. ServerInv(Server!NewServerDataConfig)
      /\ Server!NewServerDataConfig.cache.ruleMap = {}
  <2>1. /\ Server!RouteTable({}) \in Server!RouteTableFile
        /\ [i \in Ingress |-> {}] \in [Ingress -> SUBSET Server!Rule]
    BY FilesType
  <2>2. Server!NewServerDataConfig
          = [cache |-> [ruleMap |-> {}, ingress2Rule |-> [i \in Ingress |-> {}]],
             routeTableFile |-> Server!RouteTable({}), bfeClusterConf |-> {}]
    BY DEF Server!NewServerDataConfig, Server!NewRouteRuleCache
  <2> QED
    BY <2>1, <2>2, ServerWhole
<1>3. /\ ClusterInv(Cluster!NewClusterConfig)
      /\ \A i \in Ingress : Cluster!NewClusterConfig.ingress2Cluster[i] = {}
  BY ClusterParts DEF Cluster!NewClusterConfig
<1>4. /\ TlsInv(Tls!NewTLSConfig)
      /\ \A i \in Ingress : Tls!NewTLSConfig.ingress2secret[i] = {}
  BY TlsParts DEF Tls!NewTLSConfig
<1> QED
  BY <1>1, <1>2, <1>3, <1>4 DEF ConfInv, Absent

\* ConfigBuilder.DeleteIngress: nothing of the Ingress is left.
LEMMA DeleteIngressInv ==
    ASSUME NEW c, ConfInv(c), NEW i \in Ingress
    PROVE  LET d == DeleteIngress(c, i)
           IN  /\ ConfInv(d)
               /\ Absent(d, i)
               /\ \A j \in Ingress \ {i} : Kept(c, d, j)
<1> DEFINE s == Server!DeleteIngress(c.server, i)
           l == Cluster!DeleteIngress(c.cluster, i)
           t == Tls!DeleteIngress(c.tls, i)
           d == DeleteIngress(c, i)
<1>1. d = [server |-> s, cluster |-> l, tls |-> t]
  BY DEF DeleteIngress
<1>2. ServerInv(s) /\ s.cache.ruleMap = {r \in c.server.cache.ruleMap : r.ingress # i}
  BY ServerDelete DEF ConfInv
<1>3. ClusterInv(l) /\ l.ingress2Cluster = [c.cluster.ingress2Cluster EXCEPT ![i] = {}]
  BY ClusterDelete DEF ConfInv
<1>4. /\ TlsInv(t)
      /\ t.ingress2secret = [c.tls.ingress2secret EXCEPT ![i] = {}]
      /\ \A j \in Ingress \ {i} : \A x \in c.tls.ingress2secret[j] :
            t.certs[x] = c.tls.certs[x]
  BY TlsDelete DEF ConfInv
<1>5. /\ DOMAIN c.cluster.ingress2Cluster = Ingress
      /\ c.tls.ingress2secret \in [Ingress -> SUBSET Secret]
  BY ClusterParts, TlsParts DEF ConfInv
<1> HIDE DEF s, l, t, d
<1>6. \A r \in s.cache.ruleMap :
          /\ r \in c.server.cache.ruleMap /\ r.ingress # i
          /\ r.cluster \in l.ingress2Cluster[r.ingress]
  BY <1>2, <1>3, <1>5, ServerParts DEF ConfInv
<1>7. ConfInv(d)
  <2>1. d.server = s /\ d.cluster = l /\ d.tls = t
    BY <1>1
  <2> QED
    BY <1>1, <1>2, <1>3, <1>4, <1>6, <2>1 DEF ConfInv
<1>8. Absent(d, i)
  BY <1>1, <1>3, <1>4, <1>5, <1>6 DEF Absent
<1>9. \A j \in Ingress \ {i} : Kept(c, d, j)
  BY <1>1, <1>3, <1>4, <1>5, <1>6 DEF Kept
<1> QED
  BY <1>7, <1>8, <1>9 DEF d

\* ConfigBuilder.UpdateIngress, whichever component refuses the Ingress: the others
\* keep what they have, no rule loses its cluster, and without an error the
\* Ingress is complete.
LEMMA UpdateIngressInv ==
    ASSUME NEW c, ConfInv(c), NEW i \in Ingress, NEW obj \in Objects,
           NEW services, Given(Backends(obj), services),
           Cluster!DefaultFound(services) => services[DefaultBackend] \in ServiceState,
           NEW secrets \in Secrets, \A s \in Tls!Listed(obj.tls) : secrets[s] # NoObject,
           NEW valid \in BOOLEAN
    PROVE  LET u == UpdateIngress(c, i, obj, services, secrets, valid)
           IN  /\ ConfInv(u.conf)
               /\ \A j \in Ingress \ {i} : Kept(c, u.conf, j)
               /\ ~u.err => Complete(u.conf, i, obj)
<1>0. SUFFICES
        ASSUME NEW u, u = UpdateIngress(c, i, obj, services, secrets, valid),
               NEW s, s = Server!UpdateIngress(c.server, i, obj),
               NEW l, l = Cluster!UpdateIngress(c.cluster, i, Backends(obj), services, valid),
               NEW t, t = Tls!UpdateIngress(c.tls, i, obj.tls, secrets),
               NEW sd, sd = Server!DeleteIngress(s.conf, i),
               NEW ld, ld = Cluster!DeleteIngress(l.conf, i)
        PROVE  /\ ConfInv(u.conf)
               /\ \A j \in Ingress \ {i} : Kept(c, u.conf, j)
               /\ ~u.err => Complete(u.conf, i, obj)
  OBVIOUS
<1> DEFINE back == Backends(obj).backends
           listed == Tls!Listed(obj.tls)
<1>1. /\ ServerInv(c.server) /\ ClusterInv(c.cluster) /\ TlsInv(c.tls)
      /\ c \in [server: {c.server}, cluster: {c.cluster}, tls: {c.tls}]
      /\ \A r \in c.server.cache.ruleMap :
            /\ r.ingress \in Ingress
            /\ r.cluster \in c.cluster.ingress2Cluster[r.ingress]
  BY ServerParts DEF ConfInv
<1>2. /\ obj.tls \in Seq(Secret) /\ listed \subseteq Secret
      /\ back \subseteq Service \X Port
      /\ \A k \in DOMAIN obj.paths : obj.paths[k].backend \in back
  BY ObjectType
<1>3. /\ ServerInv(s.conf)
      /\ \A r \in s.conf.cache.ruleMap :
            \/ r.ingress # i /\ r \in c.server.cache.ruleMap
            \/ /\ r.ingress = i /\ s.err = FALSE
               /\ \/ obj.paths = <<>> /\ r \in c.server.cache.ruleMap
                  \/ \E k \in DOMAIN obj.paths : r.cluster = <<i, obj.paths[k].backend>>
  <2>1. ServerInv(s.conf) /\ RulesUpdated(c.server, s, i, obj)
    BY <1>0, <1>1, ServerUpdate
  <2> QED
    BY <2>1 DEF RulesUpdated
<1>4. /\ ClusterInv(l.conf)
      /\ l.err => l.conf.ingress2Cluster = [c.cluster.ingress2Cluster EXCEPT ![i] = {}]
      /\ ~l.err => l.conf.ingress2Cluster
                    = [c.cluster.ingress2Cluster EXCEPT ![i] = @ \cup ({i} \X back)]
  <2>1. /\ ClusterInv(c.cluster)
        /\ Backends(obj).backends \subseteq Service \X Port
        /\ Backends(obj).balance \in [Service -> {Nil} \cup Cluster!Weights]
    BY <1>1, ObjectType
  <2>2. ClusterInv(l.conf) /\ ClustersUpdated(c.cluster, l, i, Backends(obj))
    BY <1>0, <2>1, ClusterUpdate
  <2> QED
    BY <2>2 DEF ClustersUpdated
<1>5. /\ TlsInv(t.conf)
      /\ t.conf.ingress2secret = [c.tls.ingress2secret EXCEPT ![i] = @ \cup listed]
      /\ \A x \in Secret : c.tls.certs[x] # Nil => t.conf.certs[x] # Nil
      /\ ~t.err => \A x \in listed : t.conf.certs[x] # Nil
  <2>1. TlsInv(c.tls) /\ obj.tls \in Seq(Secret)
    BY <1>1, <1>2
  <2> HIDE DEF listed
  <2>2. t = Tls!UpdateIngress(c.tls, i, obj.tls, secrets)
    BY <1>0
  <2> QED
    BY <2>1, <2>2, TlsUpdate DEF listed
<1>6. ServerInv(sd) /\ sd.cache.ruleMap = {r \in s.conf.cache.ruleMap : r.ingress # i}
  BY <1>0, <1>3, ServerDelete
<1>7. ClusterInv(ld) /\ ld.ingress2Cluster = [l.conf.ingress2Cluster EXCEPT ![i] = {}]
  BY <1>0, <1>4, ClusterDelete
<1>8. /\ DOMAIN c.cluster.ingress2Cluster = Ingress
      /\ c.tls.ingress2secret \in [Ingress -> SUBSET Secret]
  BY <1>1, ClusterParts, TlsParts
<1>9. \A r \in sd.cache.ruleMap : r \in c.server.cache.ruleMap /\ r.ingress # i
  BY <1>3, <1>6
<1>10. CASE s.err
  <2>1. u = [conf |-> [c EXCEPT !.server = s.conf], err |-> TRUE]
    BY <1>0, <1>10 DEF UpdateIngress
  <2>2. u.conf = [server |-> s.conf, cluster |-> c.cluster, tls |-> c.tls] /\ u.err
    BY <1>1, <2>1
  <2>3. \A r \in s.conf.cache.ruleMap : r \in c.server.cache.ruleMap /\ r.ingress # i
    BY <1>3, <1>10
  <2> QED
    BY <1>1, <1>3, <2>2, <2>3 DEF ConfInv, Kept
<1>11. CASE ~s.err /\ l.err
  <2>1. u = [conf |-> [server |-> sd, cluster |-> l.conf, tls |-> c.tls], err |-> TRUE]
    BY <1>0, <1>11 DEF UpdateIngress
  <2>2. u.conf = [server |-> sd, cluster |-> l.conf, tls |-> c.tls] /\ u.err
    BY <2>1
  <2>3. \A j \in Ingress \ {i} :
            l.conf.ingress2Cluster[j] = c.cluster.ingress2Cluster[j]
    BY <1>4, <1>8, <1>11
  <2> QED
    BY <1>1, <1>4, <1>6, <1>9, <2>2, <2>3 DEF ConfInv, Kept
<1>12. CASE ~s.err /\ ~l.err /\ t.err
  <2>1. u = [conf |-> [server |-> sd, cluster |-> ld, tls |-> t.conf], err |-> TRUE]
    BY <1>0, <1>12 DEF UpdateIngress
  <2>2. u.conf = [server |-> sd, cluster |-> ld, tls |-> t.conf] /\ u.err
    BY <2>1
  <2>3. \A j \in Ingress \ {i} :
            /\ ld.ingress2Cluster[j] = c.cluster.ingress2Cluster[j]
            /\ t.conf.ingress2secret[j] = c.tls.ingress2secret[j]
    BY <1>4, <1>5, <1>7, <1>8, <1>12
  <2>4. ConfInv(u.conf)
    <3>1. \A r \in sd.cache.ruleMap : r.cluster \in ld.ingress2Cluster[r.ingress]
      BY <1>1, <1>9, <2>3
    <3>2. u.conf.server = sd /\ u.conf.cluster = ld /\ u.conf.tls = t.conf
      BY <2>2
    <3> QED
      BY <1>5, <1>6, <1>7, <2>2, <3>1, <3>2 DEF ConfInv
  <2>5. \A j \in Ingress \ {i} : Kept(c, u.conf, j)
    BY <1>5, <1>8, <1>9, <2>2, <2>3 DEF Kept
  <2> QED
    BY <2>2, <2>4, <2>5
<1>13. CASE ~s.err /\ ~l.err /\ ~t.err
  <2>1. u = [conf |-> [server |-> s.conf, cluster |-> l.conf, tls |-> t.conf], err |-> FALSE]
    BY <1>0, <1>13 DEF UpdateIngress
  <2>2. u.conf = [server |-> s.conf, cluster |-> l.conf, tls |-> t.conf]
    BY <2>1
  <2>3. \A j \in Ingress \ {i} :
            /\ l.conf.ingress2Cluster[j] = c.cluster.ingress2Cluster[j]
            /\ t.conf.ingress2secret[j] = c.tls.ingress2secret[j]
    BY <1>4, <1>5, <1>8, <1>13
  <2>4. /\ l.conf.ingress2Cluster[i] = c.cluster.ingress2Cluster[i] \cup ({i} \X back)
        /\ t.conf.ingress2secret[i] = c.tls.ingress2secret[i] \cup listed
    BY <1>4, <1>5, <1>8, <1>13
  <2>5. ASSUME NEW r \in s.conf.cache.ruleMap
        PROVE  r.cluster \in l.conf.ingress2Cluster[r.ingress]
    <3>1. CASE r \in c.server.cache.ruleMap
      BY <1>1, <2>3, <2>4, <3>1
    <3>2. CASE r.ingress = i /\ \E k \in DOMAIN obj.paths :
                                   r.cluster = <<i, obj.paths[k].backend>>
      BY <1>2, <2>4, <3>2
    <3> QED
      BY <1>3, <3>1, <3>2
  <2>6. ConfInv(u.conf)
    BY <1>3, <1>4, <1>5, <2>2, <2>5 DEF ConfInv
  <2>7. \A j \in Ingress \ {i} : Kept(c, u.conf, j)
    BY <1>3, <1>5, <1>8, <2>2, <2>3 DEF Kept
  <2>8. Complete(u.conf, i, obj)
    <3>1. \A x \in listed : t.conf.certs[x] # Nil
      BY <1>5, <1>13
    <3> QED
      BY <2>2, <2>4, <3>1 DEF Complete
  <2> QED
    BY <2>6, <2>7, <2>8
<1> QED
  BY <1>10, <1>11, <1>12, <1>13

-----------------------------------------------------------------------------
(* The machine.                                                            *)
(*                                                                         *)
(* AllOrNothing and AcceptedComplete are about the times when an Ingress   *)
(* is not being worked on.  What they need besides is that the reconciler  *)
(* works on the current object, or has a further event to come, and that   *)
(* a new process starts from no status.                                    *)

Shape ==
    /\ object \in [Ingress -> Objects \cup {NoObject}]
    /\ service \in Services
    /\ secret \in Secrets
    /\ clock \in 0 .. MaxTime
    /\ working \in Note \cup {Nil}
    /\ status \in [Ingress -> {"none", "success", "error"}]
    /\ running \in BOOLEAN

UpToDate ==
    /\ working # Nil => running
    /\ working # Nil /\ working.stage = "update" /\ working.ingress \notin queue
          => object[working.ingress] = working.obj
    /\ ~running => \A i \in Ingress : status[i] = "none"

NoneLeft == \A i \in Ingress : status[i] # "success" /\ ~InProgress(i) => Absent(conf, i)

AllThere ==
    \A i \in Ingress :
        /\ running /\ i \notin queue /\ ~InProgress(i)
        /\ object[i] # NoObject /\ object[i].ours /\ status[i] = "success"
        => Complete(conf, i, object[i])

IInv == Shape /\ UpToDate /\ ConfInv(conf) /\ NoneLeft /\ AllThere

\* An operation on one Ingress leaves the others as they are.
LEMMA KeptFacts ==
    ASSUME NEW c, NEW d, NEW i, Kept(c, d, i)
    PROVE  /\ Absent(c, i) => Absent(d, i)
           /\ \A obj \in Objects : Complete(c, i, obj) => Complete(d, i, obj)
<1>1. Absent(c, i) => Absent(d, i)
  BY DEF Kept, Absent
<1>2. ASSUME NEW obj \in Objects, Complete(c, i, obj)
      PROVE  Complete(d, i, obj)
  <2>1. Tls!Listed(obj.tls) \subseteq Secret
    BY ObjectType
  <2> QED
    BY <1>2, <2>1 DEF Kept, Complete
<1> QED
  BY <1>1, <1>2

\* The controller starts with nothing.
LEMMA InitHolds == Init => IInv
<1> SUFFICES ASSUME Init PROVE IInv
  OBVIOUS
<1>1. Shape
  BY ConfigBuilderAssumption DEF Init, Shape, Services, Secrets
<1>2. ConfInv(conf) /\ NoneLeft
  BY NewInv DEF Init, NoneLeft
<1> QED
  BY <1>1, <1>2 DEF Init, IInv, UpToDate, AllThere

\* Steps of the Ingress reconciler that end the work on i: the configuration is c,
\* where the others keep what they have.
LEMMA SettledHolds ==
    ASSUME IInv, NEW i \in Ingress, ConfInv(conf'),
           \A j \in Ingress \ {i} : Kept(conf, conf', j),
           working = Nil \/ working.ingress = i, working' = Nil,
           NEW st \in {"none", "success", "error"},
           status' = [status EXCEPT ![i] = st], running, running' = running,
           UNCHANGED <<object, service, secret, clock>>,
           \A j \in Ingress \ {i} : j \in queue' <=> j \in queue,
           st # "success" => Absent(conf', i),
           i \notin queue' /\ object[i] # NoObject /\ st = "success"
                => Complete(conf', i, object[i])
    PROVE  IInv'
<1>1. Shape'
  BY DEF IInv, Shape
<1>2. UpToDate'
  BY DEF IInv, UpToDate
<1>3. \A j \in Ingress \ {i} : status'[j] = status[j] /\ ~InProgress(j)
  BY DEF IInv, Shape, InProgress
<1>4. status'[i] = st
  BY DEF IInv, Shape
<1>5. NoneLeft'
  <2> SUFFICES ASSUME NEW j \in Ingress, status'[j] # "success" PROVE Absent(conf', j)
    BY DEF NoneLeft
  <2>1. CASE j = i
    BY <1>4, <2>1
  <2>2. CASE j # i
    BY <1>3, <2>2, KeptFacts DEF IInv, NoneLeft
  <2> QED
    BY <2>1, <2>2
<1>6. AllThere'
  <2> SUFFICES ASSUME NEW j \in Ingress, j \notin queue', object[j] # NoObject,
                      object[j].ours, status'[j] = "success"
               PROVE  Complete(conf', j, object[j])
    BY DEF AllThere
  <2>1. CASE j = i
    BY <1>4, <2>1
  <2>2. CASE j # i
    <3>1. Complete(conf, j, object[j])
      BY <1>3, <2>2 DEF IInv, AllThere
    <3>2. object[j] \in Objects
      BY DEF IInv, Shape
    <3> QED
      BY <2>2, <3>1, <3>2, KeptFacts
  <2> QED
    BY <2>1, <2>2
<1> QED
  BY <1>1, <1>2, <1>5, <1>6 DEF IInv

\* Steps of others: every Ingress keeps what it has.
LEMMA OthersHold ==
    ASSUME IInv, ConfInv(conf'), \A j \in Ingress : Kept(conf, conf', j), Shape',
           UNCHANGED <<object, queue, working, status, running>>
    PROVE  IInv'
<1>1. UpToDate'
  BY DEF IInv, UpToDate
<1>2. NoneLeft'
  BY KeptFacts DEF IInv, NoneLeft, InProgress
<1>3. AllThere'
  <2> SUFFICES ASSUME NEW j \in Ingress, running, j \notin queue, ~InProgress(j),
                      object[j] # NoObject, object[j].ours, status[j] = "success"
               PROVE  Complete(conf', j, object[j])
    BY DEF AllThere, InProgress
  <2>1. Complete(conf, j, object[j]) /\ object[j] \in Objects
    BY DEF IInv, AllThere, Shape
  <2> QED
    BY <2>1, KeptFacts
<1> QED
  BY <1>1, <1>2, <1>3 DEF IInv

-----------------------------------------------------------------------------
(* The steps. *)

\* Steps of the users and of the clock: the configuration stays, and an Ingress
\* that changes has an event to come.
LEMMA UsersHold ==
    ASSUME IInv, UNCHANGED controller,
           \/ Tick
           \/ \E i \in Ingress : ChangeIngress(i)
           \/ \E s \in Service : ChangeService(s)
           \/ \E s \in Secret : ChangeSecret(s)
    PROVE  IInv'
<1>1. /\ ConfInv(conf)' /\ NoneLeft'
      /\ (working \in Note \cup {Nil})'
      /\ (status \in [Ingress -> {"none", "success", "error"}])' /\ (running \in BOOLEAN)'
  BY DEF controller, IInv, Shape, NoneLeft, InProgress
<1>2. CASE Tick
  <2>1. Shape'
    BY <1>1, <1>2, ConfigBuilderAssumption DEF Tick, IInv, Shape
  <2>2. UpToDate' /\ AllThere'
    BY <1>2 DEF Tick, controller, IInv, UpToDate, AllThere, InProgress
  <2> QED
    BY <1>1, <2>1, <2>2 DEF IInv
<1>3. ASSUME NEW i \in Ingress, ChangeIngress(i)
      PROVE  IInv'
  <2>1. PICK obj \in Objects \cup {NoObject} : object' = [object EXCEPT ![i] = obj]
    <3>1. object[i] # NoObject => object[i].created \in 0 .. MaxTime
      <4>1. ASSUME object[i] # NoObject
            PROVE  object[i].created \in 0 .. MaxTime
        <5>1. PICK m \in Manifest, t \in 0 .. MaxTime : object[i] = Stamped(m, t)
          BY <4>1 DEF IInv, Shape, Objects
        <5> QED
          BY <5>1 DEF Stamped
      <4> QED
        BY <4>1
    <3>2. clock \in 0 .. MaxTime
      BY DEF IInv, Shape
    <3>3. \A m \in Manifest : \A t \in 0 .. MaxTime : Stamped(m, t) \in Objects
      BY DEF Objects
    <3>4. CASE object[i] = NoObject
      BY <1>3, <3>2, <3>3, <3>4 DEF ChangeIngress
    <3>5. CASE object[i] # NoObject
      BY <1>3, <3>1, <3>3, <3>5 DEF ChangeIngress
    <3> QED
      BY <3>4, <3>5
  <2>2. Shape'
    BY <1>1, <1>3, <2>1 DEF ChangeIngress, IInv, Shape
  <2>3. running => i \in queue' /\ queue \subseteq queue'
    BY <1>3 DEF ChangeIngress
  <2>4. \A j \in Ingress \ {i} : object'[j] = object[j]
    BY <2>1 DEF IInv, Shape
  <2>5. UpToDate'
    <3>1. working # Nil => working.ingress \in Ingress
      BY DEF IInv, Shape, Note
    <3> QED
      BY <2>3, <2>4, <3>1 DEF controller, IInv, UpToDate
  <2>6. AllThere'
    BY <2>3, <2>4 DEF controller, IInv, AllThere, InProgress
  <2> QED
    BY <1>1, <2>2, <2>5, <2>6 DEF IInv
<1>4. ASSUME NEW s \in Service, ChangeService(s)
      PROVE  IInv'
  <2>1. service' \in Services
    BY <1>4 DEF ChangeService, IInv, Shape, Services
  <2>2. Shape'
    BY <1>1, <1>4, <2>1 DEF ChangeService, IInv, Shape
  <2>3. UpToDate' /\ AllThere'
    BY <1>4 DEF ChangeService, controller, IInv, UpToDate, AllThere, InProgress
  <2> QED
    BY <1>1, <2>2, <2>3 DEF IInv
<1>5. ASSUME NEW s \in Secret, ChangeSecret(s)
      PROVE  IInv'
  <2>1. secret' \in Secrets
    BY <1>5 DEF ChangeSecret, IInv, Shape, Secrets
  <2>2. Shape'
    BY <1>1, <1>5, <2>1 DEF ChangeSecret, IInv, Shape
  <2>3. UpToDate' /\ AllThere'
    BY <1>5 DEF ChangeSecret, controller, IInv, UpToDate, AllThere, InProgress
  <2> QED
    BY <1>1, <2>2, <2>3 DEF IInv
<1> QED
  BY <1>2, <1>3, <1>4, <1>5

\* What the reconciler notes is a note, and never Nil.
LEMMA Noted ==
    /\ Nil \notin Note
    /\ \A w \in Note : /\ w.ingress \in Ingress
                       /\ w.stage = "update" => /\ w.obj \in Objects
                                                /\ w.services \in Services
                                                /\ w.secrets \in Secrets
BY ConfigBuilderAssumption DEF Note

\* What Ready finds suffices for UpdateIngress.
LEMMA ReadySuffices ==
    ASSUME NEW w \in Note, w.stage = "update", Ready(w)
    PROVE  /\ Given(Backends(w.obj), w.services)
           /\ Cluster!DefaultFound(w.services) => w.services[DefaultBackend] \in ServiceState
           /\ \A s \in Tls!Listed(w.obj.tls) : w.secrets[s] # NoObject
<1>1. w.services \in [Service -> ServiceState \cup {NoObject}]
  BY Noted DEF Services
<1>2. ASSUME NEW b \in Backends(w.obj).backends, NEW s \in Service,
             Cluster!NewGslbClusterConf(b[1], Backends(w.obj).balance)[s] # Nil
      PROVE  w.services[s] \in ServiceState
  <2>1. /\ Backends(w.obj).balance = w.obj.balance
        /\ \E k \in DOMAIN w.obj.paths : b = w.obj.paths[k].backend
    BY DEF Backends
  <2>2. s \in Needed(w.obj, b)
    BY <1>2, <2>1 DEF Needed, Cluster!Keys
  <2>3. w.services[s] # NoObject
    BY <2>1, <2>2 DEF Ready
  <2> QED
    BY <1>1, <2>3
<1>3. Cluster!DefaultFound(w.services) => w.services[DefaultBackend] \in ServiceState
  BY <1>1, ConfigBuilderAssumption DEF Cluster!DefaultFound
<1> QED
  BY <1>2, <1>3 DEF Given, Ready

\* Steps of the Ingress reconciler.
LEMMA IngressHolds ==
    ASSUME IInv,
           \/ \E i \in Ingress : SyncAbsent(i) \/ SkipForeign(i) \/ ReadIngress(i)
           \/ \E valid \in Verdict : ApplyAccepted(valid) \/ ApplyRefused(valid)
           \/ Withdraw
    PROVE  IInv'
<1>1. ASSUME NEW i \in Ingress, SyncAbsent(i)
      PROVE  IInv'
  <2> DEFINE d == DeleteIngress(conf, i)
  <2>1. ConfInv(d) /\ Absent(d, i) /\ \A j \in Ingress \ {i} : Kept(conf, d, j)
    BY DeleteIngressInv DEF IInv
  <2>2. conf' = d /\ object[i] = NoObject
    BY <1>1 DEF SyncAbsent
  <2>3. /\ UNCHANGED <<object, service, secret, clock>> /\ running /\ running' = running
        /\ working = Nil /\ working' = Nil /\ status' = [status EXCEPT ![i] = "none"]
        /\ queue' = queue \ {i}
    BY <1>1 DEF SyncAbsent, Take
  <2> HIDE DEF d
  <2> QED
    BY <2>1, <2>2, <2>3, SettledHolds
<1>2. ASSUME NEW i \in Ingress, SkipForeign(i)
      PROVE  IInv'
  <2>1. /\ UNCHANGED <<object, service, secret, clock, running, working, status, conf>>
        /\ working = Nil /\ queue' = queue \ {i}
        /\ ~object[i].ours
    BY <1>2 DEF SkipForeign, Take
  <2>2. Shape' /\ UpToDate' /\ ConfInv(conf)' /\ NoneLeft'
    BY <2>1 DEF IInv, Shape, UpToDate, NoneLeft, InProgress
  <2>3. AllThere'
    BY <2>1 DEF IInv, AllThere, InProgress
  <2> QED
    BY <2>2, <2>3 DEF IInv
<1>3. ASSUME NEW i \in Ingress, ReadIngress(i)
      PROVE  IInv'
  <2>1. /\ UNCHANGED <<object, service, secret, clock, running, status, conf>>
        /\ running /\ working = Nil /\ queue' = queue \ {i}
        /\ object[i] # NoObject
    BY <1>3 DEF ReadIngress, Take
  <2>2. /\ working' \in Note
        /\ working'.stage = "update" /\ working'.ingress = i /\ working'.obj = object[i]
    <3> DEFINE sv == [s \in Service |-> IF s \in ServicesOf(object[i])
                                        THEN service[s] ELSE NoObject]
               se == [s \in Secret |-> IF s \in Tls!Listed(object[i].tls)
                                       THEN secret[s] ELSE NoObject]
    <3>1. working' = [stage |-> "update", ingress |-> i, obj |-> object[i],
                      services |-> sv, secrets |-> se]
      BY <1>3 DEF ReadIngress
    <3>2. sv \in Services /\ se \in Secrets
      BY DEF IInv, Shape, Services, Secrets
    <3>3. object[i] \in Objects
      BY <2>1 DEF IInv, Shape
    <3> HIDE DEF sv, se
    <3> QED
      BY <3>1, <3>2, <3>3 DEF Note
  <2>3. working' # Nil
    BY <2>2, Noted
  <2>4. Shape' /\ UpToDate'
    BY <2>1, <2>2 DEF IInv, Shape, UpToDate
  <2>5. /\ ConfInv(conf)' /\ InProgress(i)'
        /\ \A j \in Ingress : ~InProgress(j)
    BY <2>1, <2>2, <2>3 DEF IInv, InProgress
  <2>6. NoneLeft' /\ AllThere'
    BY <2>1, <2>5 DEF IInv, NoneLeft, AllThere
  <2> QED
    BY <2>4, <2>5, <2>6 DEF IInv
<1>4. ASSUME NEW valid \in Verdict, NEW u, working # Nil, working.stage = "update",
             Ready(working),
             u = UpdateIngress(conf, working.ingress, working.obj, working.services,
                               working.secrets, valid)
      PROVE  /\ ConfInv(u.conf)
             /\ \A j \in Ingress \ {working.ingress} : Kept(conf, u.conf, j)
             /\ ~u.err => Complete(u.conf, working.ingress, working.obj)
  <2>1. working \in Note
    BY <1>4 DEF IInv, Shape
  <2>2. /\ working.ingress \in Ingress /\ working.obj \in Objects
        /\ working.services \in Services /\ working.secrets \in Secrets
    BY <1>4, <2>1, Noted
  <2>3. /\ Given(Backends(working.obj), working.services)
        /\ Cluster!DefaultFound(working.services)
              => working.services[DefaultBackend] \in ServiceState
        /\ \A s \in Tls!Listed(working.obj.tls) : working.secrets[s] # NoObject
    BY <1>4, <2>1, ReadySuffices
  <2>4. ConfInv(conf) /\ valid \in BOOLEAN
    BY ConfigBuilderAssumption DEF IInv
  <2> QED
    BY <1>4, <2>2, <2>3, <2>4, UpdateIngressInv
<1>5. ASSUME NEW valid \in Verdict, ApplyAccepted(valid)
      PROVE  IInv'
  <2> DEFINE i == working.ingress
             u == UpdateIngress(conf, working.ingress, working.obj, working.services,
                                working.secrets, valid)
  <2>1. /\ working # Nil /\ working.stage = "update" /\ Ready(working)
        /\ ~u.err /\ conf' = u.conf
        /\ working' = Nil /\ status' = [status EXCEPT ![i] = "success"]
        /\ UNCHANGED <<object, service, secret, clock, queue, running>>
    BY <1>5 DEF ApplyAccepted, apis
  <2>2. /\ ConfInv(u.conf) /\ \A j \in Ingress \ {i} : Kept(conf, u.conf, j)
        /\ ~u.err => Complete(u.conf, i, working.obj)
    BY <1>4, <2>1
  <2> HIDE DEF u
  <2>3. i \in Ingress /\ running
    BY <2>1, Noted DEF IInv, Shape, UpToDate
  <2>4. i \notin queue' => Complete(conf', i, object[i])
    BY <2>1, <2>2 DEF IInv, UpToDate
  <2> HIDE DEF i
  <2>5. working.ingress = i
    BY DEF i
  <2> QED
    BY <2>1, <2>2, <2>3, <2>4, <2>5, SettledHolds
<1>6. ASSUME NEW valid \in Verdict, ApplyRefused(valid)
      PROVE  IInv'
  <2> DEFINE i == working.ingress
             u == UpdateIngress(conf, working.ingress, working.obj, working.services,
                                working.secrets, valid)
  <2>1. /\ working # Nil /\ working.stage = "update" /\ Ready(working) /\ conf' = u.conf
        /\ working' = [stage |-> "withdraw", ingress |-> i]
        /\ UNCHANGED <<object, service, secret, clock, queue, status, running>>
    BY <1>6 DEF ApplyRefused, apis
  <2>2. ConfInv(u.conf) /\ \A j \in Ingress \ {i} : Kept(conf, u.conf, j)
    BY <1>4, <2>1
  <2> HIDE DEF u
  <2>3. i \in Ingress /\ running
    BY <2>1, Noted DEF IInv, Shape, UpToDate
  <2>4. working' \in Note /\ working'.stage = "withdraw" /\ working'.ingress = i
    BY <2>1, <2>3 DEF Note
  <2>5. working' # Nil /\ working'.ingress = i
    BY <2>4, Noted
  <2>6. \A j \in Ingress \ {i} : ~InProgress(j) /\ Kept(conf, conf', j)
    BY <2>1, <2>2 DEF InProgress
  <2>7. Shape' /\ UpToDate' /\ ConfInv(conf')
    BY <2>1, <2>2, <2>3, <2>4 DEF IInv, Shape, UpToDate
  <2> HIDE DEF i
  <2>8. NoneLeft'
    <3> SUFFICES ASSUME NEW j \in Ingress, status'[j] # "success", ~(InProgress(j))'
                 PROVE  Absent(conf', j)
      BY DEF NoneLeft
    <3>1. j # i
      BY <2>5 DEF InProgress
    <3> QED
      BY <2>1, <2>6, <3>1, KeptFacts DEF IInv, NoneLeft
  <2>9. AllThere'
    <3> SUFFICES ASSUME NEW j \in Ingress, running, j \notin queue, ~(InProgress(j))',
                        object[j] # NoObject, object[j].ours, status[j] = "success"
                 PROVE  Complete(conf', j, object[j])
      BY <2>1 DEF AllThere
    <3>1. j # i
      BY <2>5 DEF InProgress
    <3>2. Complete(conf, j, object[j]) /\ object[j] \in Objects
      BY <2>6, <3>1 DEF IInv, AllThere, Shape
    <3> QED
      BY <2>6, <3>1, <3>2, KeptFacts
  <2> QED
    BY <2>7, <2>8, <2>9 DEF IInv
<1>7. ASSUME Withdraw
      PROVE  IInv'
  <2> DEFINE i == working.ingress
             d == DeleteIngress(conf, i)
  <2>1. /\ working # Nil /\ conf' = d /\ working' = Nil
        /\ status' = [status EXCEPT ![i] = "error"] /\ queue' = queue \cup {i}
        /\ UNCHANGED <<object, service, secret, clock, running>>
    BY <1>7 DEF Withdraw, apis
  <2>2. i \in Ingress /\ running
    BY <2>1, Noted DEF IInv, Shape, UpToDate
  <2>3. ConfInv(d) /\ Absent(d, i) /\ \A j \in Ingress \ {i} : Kept(conf, d, j)
    BY <2>2, DeleteIngressInv DEF IInv
  <2> HIDE DEF d
  <2>4. working.ingress = i
    OBVIOUS
  <2> HIDE DEF i
  <2> QED
    BY <2>1, <2>2, <2>3, <2>4, SettledHolds
<1> QED
  BY <1>1, <1>2, <1>3, <1>5, <1>6, <1>7

\* Steps of the other reconcilers, and the process going down and up.
LEMMA OtherHolds ==
    ASSUME IInv,
           \/ Restart
           \/ \E s \in Service : SyncService(s) \/ PanicService(s)
           \/ \E s \in Secret : SyncSecret(s)
    PROVE  IInv'
<1> DEFINE same == UNCHANGED <<object, service, secret, clock, queue, working, status, running>>
<1>1. ASSUME Restart
      PROVE  IInv'
  <2>1. /\ UNCHANGED <<object, service, secret, clock, working, status, conf>>
        /\ ~running /\ running' = TRUE
    BY <1>1 DEF Restart
  <2>2. Shape' /\ UpToDate' /\ ConfInv(conf)' /\ NoneLeft'
    BY <2>1 DEF IInv, Shape, UpToDate, NoneLeft, InProgress
  <2>3. AllThere'
    BY <2>1 DEF IInv, UpToDate, AllThere
  <2> QED
    BY <2>2, <2>3 DEF IInv
<1>2. ASSUME NEW s \in Service, SyncService(s)
      PROVE  IInv'
  <2>1. same
    BY <1>2 DEF SyncService
  <2>2. Shape'
    BY <2>1 DEF IInv, Shape
  <2>3. CASE service[s] = NoObject
    <3>1. conf' = conf
      BY <1>2, <2>3 DEF SyncService
    <3> QED
      BY <2>1, <2>2, <3>1, OthersHold DEF IInv, Kept
  <2>4. CASE service[s] # NoObject
    <3>1. PICK c \in Cluster!UpdateServiceResults(conf.cluster, s, service[s]) :
              conf' = [conf EXCEPT !.cluster = c]
      BY <1>2, <2>4 DEF SyncService
    <3>2. conf' = [server |-> conf.server, cluster |-> c, tls |-> conf.tls]
      BY <3>1 DEF IInv, ConfInv
    <3>3. service[s] \in ServiceState
      BY <2>4 DEF IInv, Shape, Services
    <3>4. ClusterInv(c) /\ c.ingress2Cluster = conf.cluster.ingress2Cluster
      BY <3>1, <3>3, ClusterService DEF IInv, ConfInv
    <3>5. ConfInv(conf') /\ \A j \in Ingress : Kept(conf, conf', j)
      BY <3>2, <3>4 DEF IInv, ConfInv, Kept
    <3> QED
      BY <2>1, <2>2, <3>5, OthersHold
  <2> QED
    BY <2>3, <2>4
<1>3. ASSUME NEW s \in Service, PanicService(s)
      PROVE  IInv'
  <2>1. /\ UNCHANGED <<object, service, secret, clock>>
        /\ conf' = NewConfigBuilder /\ working' = Nil /\ running' = FALSE
        /\ status' = [i \in Ingress |-> "none"]
    BY <1>3 DEF PanicService
  <2>2. Shape' /\ UpToDate' /\ AllThere'
    BY <2>1 DEF IInv, Shape, UpToDate, AllThere
  <2>3. ConfInv(conf)' /\ NoneLeft'
    BY <2>1, NewInv DEF NoneLeft
  <2> QED
    BY <2>2, <2>3 DEF IInv
<1>4. ASSUME NEW s \in Secret, SyncSecret(s)
      PROVE  IInv'
  <2>1. same
    BY <1>4 DEF SyncSecret
  <2>2. Shape'
    BY <2>1 DEF IInv, Shape
  <2>3. CASE secret[s] = NoObject
    <3>1. conf' = conf
      BY <1>4, <2>3 DEF SyncSecret
    <3> QED
      BY <2>1, <2>2, <3>1, OthersHold DEF IInv, Kept
  <2>4. CASE secret[s] # NoObject
    <3> DEFINE t == Tls!UpdateSecret(conf.tls, s, secret[s]).conf
    <3>1. conf' = [server |-> conf.server, cluster |-> conf.cluster, tls |-> t]
      BY <1>4, <2>4 DEF SyncSecret, IInv, ConfInv
    <3>2. secret[s] \in Content
      BY <2>4 DEF IInv, Shape, Secrets
    <3>3. /\ TlsInv(t) /\ t.ingress2secret = conf.tls.ingress2secret
          /\ \A x \in Secret : conf.tls.certs[x] # Nil => t.certs[x] # Nil
      BY <3>2, TlsSecret DEF IInv, ConfInv
    <3> HIDE DEF t
    <3>4. ConfInv(conf') /\ \A j \in Ingress : Kept(conf, conf', j)
      BY <3>1, <3>3 DEF IInv, ConfInv, Kept
    <3> QED
      BY <2>1, <2>2, <3>4, OthersHold
  <2> QED
    BY <2>3, <2>4
<1> QED
  BY <1>1, <1>2, <1>3, <1>4

\* Every step of the controller keeps what the argument rests on.
LEMMA Inductive == Spec => []IInv
<1>1. ASSUME IInv, [Next]_vars
      PROVE  IInv'
  <2>1. CASE Tick
    <3>1. UNCHANGED controller
      BY <2>1 DEF Tick
    <3> QED
      BY <1>1, <2>1, <3>1, UsersHold
  <2>2. ASSUME \/ \E i \in Ingress : ChangeIngress(i)
               \/ \E s \in Service : ChangeService(s)
               \/ \E s \in Secret : ChangeSecret(s)
        PROVE  IInv'
    <3>1. UNCHANGED controller
      BY <2>2 DEF ChangeIngress, ChangeService, ChangeSecret
    <3> QED
      BY <1>1, <2>2, <3>1, UsersHold
  <2>3. ASSUME \/ \E i \in Ingress : SyncAbsent(i) \/ SkipForeign(i) \/ ReadIngress(i)
               \/ \E valid \in Verdict : ApplyAccepted(valid) \/ ApplyRefused(valid)
               \/ Withdraw
        PROVE  IInv'
    BY <1>1, <2>3, IngressHolds
  <2>4. ASSUME \/ Restart
               \/ \E s \in Service : SyncService(s) \/ PanicService(s)
               \/ \E s \in Secret : SyncSecret(s)
        PROVE  IInv'
    BY <1>1, <2>4, OtherHolds
  <2>5. CASE UNCHANGED vars
    BY <1>1, <2>5 DEF vars, IInv, Shape, UpToDate, NoneLeft, AllThere, InProgress
  <2> QED
    BY <1>1, <2>1, <2>2, <2>3, <2>4, <2>5 DEF Next
<1> QED
  BY <1>1, InitHolds, PTL DEF Spec

\* The queues hold names of their kind; the Ingress reconciler puts back what it took.
Queues ==
    queue \subseteq Ingress /\ serviceQueue \subseteq Service /\ secretQueue \subseteq Secret

LEMMA QueuesHold == Spec => []Queues
<1>1. Init => Queues
  BY DEF Init, Queues
<1>2. ASSUME IInv, Queues, [Next]_vars
      PROVE  Queues'
  <2>1. CASE Tick
    BY <1>2, <2>1 DEF Tick, Queues
  <2>2. CASE Restart
    BY <2>2 DEF Restart, Queues
  <2>3. ASSUME NEW i \in Ingress,
               ChangeIngress(i) \/ SyncAbsent(i) \/ SkipForeign(i) \/ ReadIngress(i)
        PROVE  Queues'
    BY <1>2, <2>3 DEF ChangeIngress, SyncAbsent, SkipForeign, ReadIngress, Take, Queues
  <2>4. ASSUME NEW valid \in Verdict, ApplyAccepted(valid) \/ ApplyRefused(valid)
        PROVE  Queues'
    BY <1>2, <2>4 DEF ApplyAccepted, ApplyRefused, apis, Queues
  <2>5. CASE Withdraw
    <3>1. working.ingress \in Ingress
      BY <1>2, <2>5, Noted DEF Withdraw, IInv, Shape
    <3> QED
      BY <1>2, <2>5, <3>1 DEF Withdraw, apis, Queues
  <2>6. ASSUME NEW s \in Service, ChangeService(s) \/ SyncService(s) \/ PanicService(s)
        PROVE  Queues'
    BY <1>2, <2>6 DEF ChangeService, SyncService, PanicService, Queues
  <2>7. ASSUME NEW s \in Secret, ChangeSecret(s) \/ SyncSecret(s)
        PROVE  Queues'
    BY <1>2, <2>7 DEF ChangeSecret, SyncSecret, Queues
  <2>8. CASE UNCHANGED vars
    BY <1>2, <2>8 DEF vars, Queues
  <2> QED
    BY <1>2, <2>1, <2>2, <2>3, <2>4, <2>5, <2>6, <2>7, <2>8 DEF Next
<1> QED
  BY <1>1, <1>2, Inductive, PTL DEF Spec

-----------------------------------------------------------------------------
(* The theorems. *)

\* The three configurations that the ConfigBuilder joins keep their shape through
\* each other's rollbacks, and the reconciler's notes through every interleaving;
\* in particular no certificate in memory is one that BFE cannot load.
THEOREM Typing == Spec => []TypeOK
<1>1. IInv /\ Queues => TypeOK
  BY DEF IInv, Shape, Queues, TypeOK, ConfInv, ServerInv, ClusterInv, TlsInv
<1> QED
  BY <1>1, Inductive, QueuesHold, PTL

\* ConfigBuilder.UpdateIngress and the Withdraw of the reconciler leave nothing of an
\* Ingress that is refused, deleted, or lost with the process, in any of the
\* three components.
THEOREM WholeOrNothing == Spec => []AllOrNothing
<1>1. IInv => AllOrNothing
  BY DEF IInv, NoneLeft, Absent, AllOrNothing, Rules
<1> QED
  BY <1>1, Inductive, PTL

\* The order of ConfigBuilder's rollbacks and UpdateService never leave a rule
\* without its cluster.
THEOREM NoRouteDangles == Spec => []RoutesHaveClusters
<1>1. IInv => RoutesHaveClusters
  <2> SUFFICES ASSUME IInv, NEW r \in conf.server.cache.ruleMap
               PROVE  conf.cluster.clusterTableConf[r.cluster] # Nil
    BY DEF RoutesHaveClusters
  <2>1. r.ingress \in Ingress /\ r.cluster \in conf.cluster.ingress2Cluster[r.ingress]
    BY ServerParts DEF IInv, ConfInv
  <2> QED
    BY <2>1 DEF IInv, ConfInv, ClusterInv
<1> QED
  BY <1>1, Inductive, PTL

\* What a reconciler was told to be configured is: no event of a Service or a Secret,
\* and no refusal of another Ingress, takes it away.
THEOREM AcceptedIsComplete == Spec => []AcceptedComplete
<1>1. IInv => AcceptedComplete
  <2> SUFFICES ASSUME IInv, NEW i \in Ingress,
                      running, i \notin queue, ~InProgress(i), object[i] # NoObject,
                      object[i].ours, status[i] = "success"
               PROVE  /\ {i} \X Backends(object[i]).backends
                            \subseteq conf.cluster.ingress2Cluster[i]
                      /\ Tls!Listed(object[i].tls) \subseteq Tls!Named(conf.tls)
    BY DEF AcceptedComplete
  <2>1. Complete(conf, i, object[i])
    BY DEF IInv, AllThere
  <2>2. Tls!Listed(object[i].tls) \subseteq Secret
    BY ObjectType DEF IInv, Shape
  <2> QED
    BY <2>1, <2>2 DEF Complete, Tls!Named
<1> QED
  BY <1>1, Inductive, PTL

=============================================================================
