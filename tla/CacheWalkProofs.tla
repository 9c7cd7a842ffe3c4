--------------------------- MODULE CacheWalkProofs ---------------------------
(***************************************************************************)
(* The walk of updateCache, one put at a time, implements the single step  *)
(* of ServerDataConfig, for any Ingresses, objects and clock.  With this   *)
(* the theorems about ServerDataConfig hold of the walk.                   *)
(***************************************************************************)
EXTENDS CacheWalk, ServerDataConfigProofs

\* What the first n paths of an object have put into the cache m.
Written(m, i, obj, n) == {RuleOf(i, obj, k) : k \in {k \in Claims(m, i, obj) : k <= n}}

Displaced(m, new) == {q \in m : \E r \in new : SameSlot(q, r)}

\* The cache after n paths that were not refused.
Walked(cache, i, obj, n) ==
    LET new == Written(cache.ruleMap, i, obj, n)
    IN  [ruleMap |-> (cache.ruleMap \ Displaced(cache.ruleMap, new)) \cup new,
         ingress2Rule |-> [cache.ingress2Rule EXCEPT ![i] = @ \cup new]]

Passed(m, i, obj, n) == \A k \in 1 .. n : ~Refused(m, i, obj, k)

\* A cache from which the rules of i have been deleted.
Cleared(cache, i) ==
    /\ cache \in Cache
    /\ OnePerSlot(cache.ruleMap)
    /\ cache.ingress2Rule[i] = {}
    /\ \A q \in cache.ruleMap : q.ingress # i

Base(i) == DeleteHttpRulesByIngress(serverDataConf.cache, i)

\* The draft is what the paths so far have made of the cleared cache, none of them
\* refused, and nobody has touched object, queue and configuration meanwhile.
WalkInv ==
    /\ updating \subseteq Ingress
    /\ \A i \in updating :
          /\ updating = {i}
          /\ i \in queue
          /\ object[i] # NoObject
          /\ object[i].paths # <<>>
          /\ at \in 1 .. Len(object[i].paths) + 1
          /\ Passed(Base(i).ruleMap, i, object[i], at - 1)
          /\ draft = Walked(Base(i), i, object[i], at - 1)

-----------------------------------------------------------------------------
(* The cache during the walk. *)

\* Paths and times are numbers.
LEMMA Numbers ==
    ASSUME NEW obj \in IngressObject
    PROVE  /\ Len(obj.paths) \in Nat
           /\ DOMAIN obj.paths = 1 .. Len(obj.paths)
           /\ obj.created \in Int
           /\ \A q \in Rule : q.created \in Int
  BY ServerDataAssumption DEF IngressObject, Rule, Time

\* Deletion before the walk leaves no rule and no entry of the Ingress.
LEMMA BaseCleared ==
    ASSUME NEW cache \in Cache, NEW i \in Ingress, Indexed(cache),
           OnePerSlot(cache.ruleMap)
    PROVE  Cleared(DeleteHttpRulesByIngress(cache, i), i)
<1> DEFINE d == DeleteHttpRulesByIngress(cache, i)
<1>1. d \in Cache /\ d.ruleMap = Others(cache.ruleMap, i)
  BY DeleteRules
<1>2. d.ingress2Rule[i] = {}
  BY DEF DeleteHttpRulesByIngress, Cache
<1>3. OnePerSlot(d.ruleMap) /\ \A q \in d.ruleMap : q.ingress # i
  BY <1>1 DEF Others, OnePerSlot
<1> QED
  BY <1>1, <1>2, <1>3 DEF Cleared

\* Before the first path nothing has changed.
LEMMA WalkedNone ==
    ASSUME NEW i \in Ingress, NEW obj \in IngressObject, NEW cache, Cleared(cache, i)
    PROVE  Walked(cache, i, obj, 0) = cache
<1>1. \A k \in Claims(cache.ruleMap, i, obj) : ~(k <= 0)
  BY Numbers DEF Claims, Processed
<1>2. Written(cache.ruleMap, i, obj, 0) = {}
  BY <1>1 DEF Written
<1>3. cache.ruleMap \ Displaced(cache.ruleMap, {}) = cache.ruleMap
  BY DEF Displaced
<1>4. [cache.ingress2Rule EXCEPT ![i] = @ \cup {}] = cache.ingress2Rule
  BY DEF Cleared, Cache
<1> QED
  BY <1>2, <1>3, <1>4 DEF Walked, Cleared, Cache

\* The walk that stops at a refused path, or after the last one, ends with the cache
\* that UpdateCache gives.
LEMMA WalkedAll ==
    ASSUME NEW i \in Ingress, NEW obj \in IngressObject, NEW cache,
           NEW n \in 0 .. Len(obj.paths),
           n = Len(obj.paths) \/ Refused(cache.ruleMap, i, obj, n + 1)
    PROVE  Walked(cache, i, obj, n) = UpdateCache(cache, i, obj)
<1> DEFINE m == cache.ruleMap
<1>1. ASSUME NEW k \in Claims(m, i, obj) PROVE k <= n
  <2>1. k \in 1 .. Len(obj.paths) /\ \A j \in 1 .. k : ~Refused(m, i, obj, j)
    BY Numbers DEF Claims, Processed
  <2> QED
    BY <2>1, Numbers
<1>2. Written(m, i, obj, n) = Inserted(m, i, obj)
  BY <1>1 DEF Written, Inserted
<1> QED
  BY <1>2 DEF Walked, UpdateCache, Overwritten, Displaced

\* A path either claims its slot or leaves everything as it was.
LEMMA WalkedNext ==
    ASSUME NEW i \in Ingress, NEW obj \in IngressObject, NEW cache,
           NEW n \in Nat
    PROVE  Written(cache.ruleMap, i, obj, n + 1) =
             IF n + 1 \in Claims(cache.ruleMap, i, obj)
             THEN Written(cache.ruleMap, i, obj, n) \cup {RuleOf(i, obj, n + 1)}
             ELSE Written(cache.ruleMap, i, obj, n)
<1> DEFINE C == Claims(cache.ruleMap, i, obj)
<1>1. \A k \in C : k \in Nat
  BY Numbers DEF Claims, Processed
<1>2. \A k \in C : k <= n + 1 <=> k <= n \/ k = n + 1
  BY <1>1
<1> QED
  BY <1>2 DEF Written

\* Rules that the walk has written are of the age of the object, and their slots
\* had no rule as old as that before.
LEMMA WrittenRules ==
    ASSUME NEW i \in Ingress, NEW obj \in IngressObject, NEW cache, cache \in Cache,
           NEW n \in Nat, NEW r \in Written(cache.ruleMap, i, obj, n)
    PROVE  /\ r \in Rule
           /\ r.ingress = i
           /\ r.created = obj.created
           /\ \A q \in cache.ruleMap : SameSlot(q, r) => obj.created < q.created
<1>1. PICK k \in Claims(cache.ruleMap, i, obj) : r = RuleOf(i, obj, k)
  BY DEF Written
<1>2. k \in DOMAIN obj.paths
  BY DEF Claims, Processed
<1> QED
  BY <1>1, <1>2, RuleOfType DEF Claims, Rivals

\* During the walk, too, a slot has one rule.
LEMMA WalkedOnePerSlot ==
    ASSUME NEW i \in Ingress, NEW obj \in IngressObject, NEW cache, Cleared(cache, i),
           NEW n \in Nat
    PROVE  OnePerSlot(Walked(cache, i, obj, n).ruleMap)
<1> DEFINE new == Written(cache.ruleMap, i, obj, n)
           old == cache.ruleMap \ Displaced(cache.ruleMap, new)
<1>1. new \subseteq UpdateCache(cache, i, obj).ruleMap
  BY DEF Written, Inserted, UpdateCache
<1>2. \A r, q \in new : SameSlot(r, q) => r = q
  BY <1>1, UpdateCacheOnePerSlot DEF OnePerSlot, Cleared
<1>3. \A r \in old, q \in new : ~SameSlot(r, q) /\ ~SameSlot(q, r)
  BY DEF Displaced, SameSlot
<1>4. \A r, q \in old : SameSlot(r, q) => r = q
  BY DEF OnePerSlot, Cleared
<1>5. Walked(cache, i, obj, n).ruleMap = old \cup new
  BY DEF Walked
<1> QED
  BY <1>2, <1>3, <1>4, <1>5 DEF OnePerSlot

-----------------------------------------------------------------------------
(* One call of put. *)

\* What put meets is a rule from before the walk, or one of the object's own.
LEMMA MetRules ==
    ASSUME NEW i \in Ingress, NEW obj \in IngressObject, NEW cache, Cleared(cache, i),
           NEW n \in Nat, NEW r,
           NEW q \in Rivals(Walked(cache, i, obj, n).ruleMap, r)
    PROVE  /\ q \in Rule /\ SameSlot(q, r)
           /\ q \in Rivals(cache.ruleMap, r) \/ q.created = obj.created
<1>1. q \in cache.ruleMap \/ q \in Written(cache.ruleMap, i, obj, n)
  BY DEF Rivals, Walked
<1>2. SameSlot(q, r)
  BY DEF Rivals
<1>3. CASE q \in cache.ruleMap
  BY <1>2, <1>3 DEF Rivals, Cleared, Cache
<1>4. CASE q \in Written(cache.ruleMap, i, obj, n)
  BY <1>2, <1>4, WrittenRules DEF Cleared
<1> QED
  BY <1>1, <1>3, <1>4

\* A rule that is not younger than the object is still there.
LEMMA ElderStays ==
    ASSUME NEW i \in Ingress, NEW obj \in IngressObject, NEW cache, Cleared(cache, i),
           NEW n \in Nat, NEW r,
           NEW q \in Rivals(cache.ruleMap, r), ~(obj.created < q.created)
    PROVE  q \in Rivals(Walked(cache, i, obj, n).ruleMap, r)
<1>1. q \in cache.ruleMap /\ SameSlot(q, r)
  BY DEF Rivals
<1>2. \A c \in Written(cache.ruleMap, i, obj, n) : ~SameSlot(q, c)
  BY <1>1, WrittenRules DEF Cleared
<1> QED
  BY <1>1, <1>2 DEF Walked, Displaced, Rivals

\* A path with a claim finds in its slot what was there before the walk.
LEMMA ClaimMeets ==
    ASSUME NEW i \in Ingress, NEW obj \in IngressObject, NEW cache, Cleared(cache, i),
           NEW n \in Nat, n + 1 \in Claims(cache.ruleMap, i, obj)
    PROVE  LET r == RuleOf(i, obj, n + 1)
           IN  /\ Rivals(Walked(cache, i, obj, n).ruleMap, r) = Rivals(cache.ruleMap, r)
               /\ \A q \in Rivals(cache.ruleMap, r) : obj.created < q.created
<1> DEFINE r == RuleOf(i, obj, n + 1)
           new == Written(cache.ruleMap, i, obj, n)
<1>1. \A c \in new : ~SameSlot(c, r)
  <2> SUFFICES ASSUME NEW k \in Claims(cache.ruleMap, i, obj), k <= n
               PROVE  ~SameSlot(RuleOf(i, obj, k), r)
    BY DEF Written
  <2>1. k \in 1 .. (n + 1) - 1
    BY Numbers DEF Claims, Processed
  <2> QED
    BY <2>1 DEF Claims
<1>2. \A q \in Rivals(cache.ruleMap, r) : q \notin Displaced(cache.ruleMap, new)
  BY <1>1 DEF Rivals, Displaced, SameSlot
<1>3. Rivals(Walked(cache, i, obj, n).ruleMap, r) = Rivals(cache.ruleMap, r)
  BY <1>1, <1>2 DEF Walked, Rivals
<1>4. \A q \in Rivals(cache.ruleMap, r) : obj.created < q.created
  BY DEF Claims
<1> QED
  BY <1>3, <1>4

\* A path without a claim, that is not refused, finds a rule of its own age.
LEMMA NoClaimMeets ==
    ASSUME NEW i \in Ingress, NEW obj \in IngressObject, NEW cache, Cleared(cache, i),
           NEW n \in Nat, n + 1 \in DOMAIN obj.paths,
           Passed(cache.ruleMap, i, obj, n + 1),
           n + 1 \notin Claims(cache.ruleMap, i, obj)
    PROVE  \E q \in Rivals(Walked(cache, i, obj, n).ruleMap, RuleOf(i, obj, n + 1)) :
              q.created = obj.created
<1> DEFINE m == cache.ruleMap
           r == RuleOf(i, obj, n + 1)
           w == Walked(cache, i, obj, n)
<1>1. PICK l \in 1 .. n + 1 :
         /\ SameSlot(RuleOf(i, obj, l), r)
         /\ \A j \in 1 .. l - 1 : ~SameSlot(RuleOf(i, obj, j), RuleOf(i, obj, l))
  BY FirstPath
<1>2. l \in DOMAIN obj.paths /\ l \in Processed(m, i, obj)
  BY <1>1, Numbers DEF Passed, Processed
<1>3. CASE l \in Claims(m, i, obj)
  <2>1. l # n + 1 /\ l <= n
    BY <1>1, <1>3
  <2>2. RuleOf(i, obj, l) \in Written(m, i, obj, n)
    BY <1>3, <2>1 DEF Written
  <2>3. RuleOf(i, obj, l) \in Rivals(w.ruleMap, r)
    BY <1>1, <2>2 DEF Walked, Rivals
  <2> QED
    BY <1>2, <2>3, RuleOfType
<1>4. CASE l \notin Claims(m, i, obj)
  <2>1. PICK q \in Rivals(m, RuleOf(i, obj, l)) : ~(obj.created < q.created)
    BY <1>1, <1>2, <1>4 DEF Claims
  <2>2. ~Refused(m, i, obj, l)
    BY <1>1 DEF Passed
  <2>3. q \in Rule /\ ~(q.created < obj.created)
    BY <2>1, <2>2 DEF Refused, Rivals, Cleared, Cache
  <2>4. q.created = obj.created
    BY <2>1, <2>3, Numbers
  <2>5. q \in Rivals(m, r)
    BY <1>1, <2>1 DEF Rivals, SameSlot
  <2> QED
    BY <2>1, <2>4, <2>5, ElderStays
<1> QED
  BY <1>3, <1>4

\* put refuses exactly the path that the closed form refuses.
LEMMA PutRefuses ==
    ASSUME NEW i \in Ingress, NEW obj \in IngressObject, NEW cache, Cleared(cache, i),
           NEW n \in Nat
    PROVE  Refused(cache.ruleMap, i, obj, n + 1) <=>
              \/ ~Legal(obj, n + 1)
              \/ \E q \in Rivals(Walked(cache, i, obj, n).ruleMap, RuleOf(i, obj, n + 1)) :
                    q.created < obj.created
<1> DEFINE m == cache.ruleMap
           r == RuleOf(i, obj, n + 1)
           w == Walked(cache, i, obj, n)
<1>1. ASSUME NEW q \in Rivals(m, r), q.created < obj.created
      PROVE  q \in Rivals(w.ruleMap, r)
  <2>1. q \in Rule
    BY DEF Rivals, Cleared, Cache
  <2>2. ~(obj.created < q.created)
    BY <1>1, <2>1, Numbers
  <2> HIDE DEF m, r, w
  <2>3. q \in Rivals(Walked(cache, i, obj, n).ruleMap, r)
    BY <1>1, <2>2, ElderStays DEF m
  <2> QED
    BY <2>3 DEF w
<1>2. ASSUME NEW q \in Rivals(w.ruleMap, r), q.created < obj.created
      PROVE  q \in Rivals(m, r)
  BY <1>2, MetRules, Numbers
<1> QED
  BY <1>1, <1>2 DEF Refused, Legal

\* A path that is not refused is passed.
LEMMA PassedNext ==
    ASSUME NEW m, NEW i, NEW obj, NEW n \in Nat, Passed(m, i, obj, n),
           ~Refused(m, i, obj, n + 1)
    PROVE  Passed(m, i, obj, n + 1)
<1>1. \A k \in 1 .. n + 1 : k \in 1 .. n \/ k = n + 1
  OBVIOUS
<1> QED
  BY <1>1 DEF Passed

\* A claim puts its rule in the place of the younger rules of its slot.
LEMMA ClaimWalks ==
    ASSUME NEW i \in Ingress, NEW obj \in IngressObject, NEW cache, Cleared(cache, i),
           NEW n \in Nat, n + 1 \in Claims(cache.ruleMap, i, obj)
    PROVE  LET r == RuleOf(i, obj, n + 1)
               w == Walked(cache, i, obj, n)
               u == Walked(cache, i, obj, n + 1)
           IN  /\ u.ruleMap = (w.ruleMap \ Rivals(w.ruleMap, r)) \cup {r}
               /\ u.ingress2Rule = [w.ingress2Rule EXCEPT ![i] = @ \cup {r}]
<1> DEFINE m == cache.ruleMap
           r == RuleOf(i, obj, n + 1)
           w == Walked(cache, i, obj, n)
           u == Walked(cache, i, obj, n + 1)
           new == Written(m, i, obj, n)
<1>1. Written(m, i, obj, n + 1) = new \cup {r}
  BY WalkedNext
<1>2. Displaced(m, new \cup {r}) = Displaced(m, new) \cup Rivals(m, r)
  BY DEF Displaced, Rivals
<1>3. Rivals(w.ruleMap, r) = Rivals(m, r)
  BY ClaimMeets
<1>4. \A c \in new : SameSlot(c, r) => c \in Rivals(m, r)
  BY <1>3 DEF Walked, Rivals
<1>5. \A c \in new : c \notin m
  BY WrittenRules DEF Cleared
<1>6. new \cap Rivals(m, r) = {}
  BY <1>5 DEF Rivals
<1>7. /\ w.ruleMap = (m \ Displaced(m, new)) \cup new
      /\ u.ruleMap = (m \ Displaced(m, new \cup {r})) \cup (new \cup {r})
  BY <1>1 DEF Walked
<1>8. u.ruleMap = (w.ruleMap \ Rivals(w.ruleMap, r)) \cup {r}
  BY <1>2, <1>3, <1>6, <1>7
<1>9. /\ w.ingress2Rule = [cache.ingress2Rule EXCEPT ![i] = @ \cup new]
      /\ u.ingress2Rule = [cache.ingress2Rule EXCEPT ![i] = @ \cup (new \cup {r})]
  BY <1>1 DEF Walked
<1>10. u.ingress2Rule = [w.ingress2Rule EXCEPT ![i] = @ \cup {r}]
  BY <1>9 DEF Cleared, Cache
<1> QED
  BY <1>8, <1>10

\* During the walk the index of the Ingress has its own rules and no others.
LEMMA WalkedIndex ==
    ASSUME NEW i \in Ingress, NEW obj \in IngressObject, NEW cache, Cleared(cache, i),
           NEW n \in Nat
    PROVE  Walked(cache, i, obj, n).ingress2Rule[i] = Written(cache.ruleMap, i, obj, n)
  BY DEF Walked, Cleared, Cache

\* Each way in which put can end goes one step further in the closed form.
LEMMA PutWalks ==
    ASSUME NEW i \in Ingress, NEW obj \in IngressObject, NEW cache, Cleared(cache, i),
           NEW n \in Nat, n + 1 \in DOMAIN obj.paths,
           Passed(cache.ruleMap, i, obj, n), Legal(obj, n + 1)
    PROVE  LET r == RuleOf(i, obj, n + 1)
               w == Walked(cache, i, obj, n)
               u == Walked(cache, i, obj, n + 1)
           IN  /\ Rivals(w.ruleMap, r) = {} =>
                     Passed(cache.ruleMap, i, obj, n + 1) /\ u = PutNew(w, r)
               /\ \A q \in Rivals(w.ruleMap, r) :
                     /\ obj.created < q.created =>
                           Passed(cache.ruleMap, i, obj, n + 1) /\ u = PutOver(w, q, r)
                     /\ obj.created = q.created =>
                           Passed(cache.ruleMap, i, obj, n + 1) /\ u = w
<1> DEFINE m == cache.ruleMap
           r == RuleOf(i, obj, n + 1)
           w == Walked(cache, i, obj, n)
           u == Walked(cache, i, obj, n + 1)
           met == Rivals(w.ruleMap, r)
<1>1. r.ingress = i
  BY RuleOfType
<1>2. /\ w = [ruleMap |-> w.ruleMap, ingress2Rule |-> w.ingress2Rule]
      /\ u = [ruleMap |-> u.ruleMap, ingress2Rule |-> u.ingress2Rule]
  BY DEF Walked
<1>3. \A p, q \in met : p = q
  BY WalkedOnePerSlot DEF OnePerSlot, Rivals, SameSlot
<1>4. \A q \in met : q \in Rule /\ q.created \in Int
  BY MetRules, Numbers
<1>5. (\A q \in met : ~(q.created < obj.created)) => Passed(m, i, obj, n + 1)
  <2>1. (\A q \in met : ~(q.created < obj.created)) => ~Refused(m, i, obj, n + 1)
    BY PutRefuses
  <2> QED
    BY <2>1, PassedNext
<1>6. CASE met = {}
  <2>1. Passed(m, i, obj, n + 1)
    BY <1>5, <1>6
  <2>2. n + 1 \in Claims(m, i, obj)
    BY <1>6, <2>1, NoClaimMeets
  <2>3. /\ u.ruleMap = (w.ruleMap \ met) \cup {r}
        /\ u.ingress2Rule = [w.ingress2Rule EXCEPT ![i] = @ \cup {r}]
    BY <2>2, ClaimWalks
  <2>4. u = PutNew(w, r)
    BY <1>1, <1>2, <1>6, <2>3 DEF PutNew
  <2> QED
    BY <1>6, <2>1, <2>4
<1>7. ASSUME NEW q \in met, obj.created < q.created
      PROVE  Passed(m, i, obj, n + 1) /\ u = PutOver(w, q, r)
  <2>1. met = {q}
    BY <1>3
  <2>2. Passed(m, i, obj, n + 1)
    BY <1>4, <1>5, <1>7, <2>1, Numbers
  <2>3. n + 1 \in Claims(m, i, obj)
    BY <1>4, <1>7, <2>1, <2>2, NoClaimMeets, Numbers
  <2>4. /\ u.ruleMap = (w.ruleMap \ met) \cup {r}
        /\ u.ingress2Rule = [w.ingress2Rule EXCEPT ![i] = @ \cup {r}]
    BY <2>3, ClaimWalks
  <2>5. q \in m
    BY <2>3, ClaimMeets DEF Rivals
  <2>6. q \notin w.ingress2Rule[i]
    BY <2>5, WalkedIndex, WrittenRules DEF Cleared
  <2>7. w.ingress2Rule[i] \ {q} = w.ingress2Rule[i]
    BY <2>6
  <2>8. u = PutOver(w, q, r)
    BY <1>1, <1>2, <2>1, <2>4, <2>7 DEF PutOver
  <2> QED
    BY <2>2, <2>8
<1>8. ASSUME NEW q \in met, obj.created = q.created
      PROVE  Passed(m, i, obj, n + 1) /\ u = w
  <2>1. met = {q}
    BY <1>3
  <2>2. Passed(m, i, obj, n + 1)
    BY <1>4, <1>5, <1>8, <2>1
  <2>3. n + 1 \notin Claims(m, i, obj)
    BY <1>4, <1>8, ClaimMeets
  <2>4. Written(m, i, obj, n + 1) = Written(m, i, obj, n)
    BY <2>3, WalkedNext
  <2> QED
    BY <2>2, <2>4 DEF Walked
<1> QED
  BY <1>6, <1>7, <1>8

-----------------------------------------------------------------------------
(* The machine. *)

WInv == IInv /\ WalkInv

\* What is known of an Ingress while its update walks.
LEMMA Walking ==
    ASSUME WInv, NEW i \in updating
    PROVE  /\ i \in Ingress
           /\ object[i] \in IngressObject
           /\ Cleared(Base(i), i)
           /\ at \in Nat \ {0}
           /\ at - 1 \in 0 .. Len(object[i].paths)
           /\ (at - 1) + 1 = at
<1>1. i \in Ingress /\ object[i] # NoObject
  BY DEF WInv, WalkInv
<1>2. object[i] \in IngressObject
  BY <1>1 DEF WInv, IInv, TypeOK
<1>3. Cleared(Base(i), i)
  BY <1>1, BaseCleared DEF Base, WInv, IInv, ConfInv, Configuration
<1>4. at \in 1 .. Len(object[i].paths) + 1 /\ Len(object[i].paths) \in Nat
  BY <1>2, Numbers DEF WInv, WalkInv
<1> QED
  BY <1>1, <1>2, <1>3, <1>4

\* An end of the walk: configuration, error and the draft as UpdateIngress sees them.
LEMMA WalkEnds ==
    ASSUME WInv, NEW i \in updating,
           at = Len(object[i].paths) + 1 \/ Refused(Base(i).ruleMap, i, object[i], at)
    PROVE  /\ [serverDataConf EXCEPT !.cache = draft] = Updated(serverDataConf, i, object[i])
           /\ CacheError(Base(i), i, object[i]) <=> at \in DOMAIN object[i].paths
<1> DEFINE obj == object[i]
           n == at - 1
<1>1. /\ obj \in IngressObject /\ n \in 0 .. Len(obj.paths) /\ n + 1 = at
      /\ at \in Nat \ {0} /\ Len(obj.paths) \in Nat /\ DOMAIN obj.paths = 1 .. Len(obj.paths)
  BY Walking, Numbers
<1>2. n = Len(obj.paths) \/ Refused(Base(i).ruleMap, i, obj, n + 1)
  BY <1>1
<1>3. draft = UpdateCache(Base(i), i, obj)
  <2>1. Walked(Base(i), i, obj, n) = UpdateCache(Base(i), i, obj)
    BY <1>1, <1>2, WalkedAll, Walking
  <2> QED
    BY <2>1 DEF WInv, WalkInv
<1>4. \A k \in 1 .. n : ~Refused(Base(i).ruleMap, i, obj, k)
  BY DEF WInv, WalkInv, Passed
<1>5. CacheError(Base(i), i, obj) <=> at \in DOMAIN obj.paths
  <2>1. CASE at = Len(obj.paths) + 1
    BY <1>1, <1>4, <2>1 DEF CacheError
  <2>2. CASE at # Len(obj.paths) + 1
    <3>1. at \in DOMAIN obj.paths
      BY <1>1, <2>2
    <3> QED
      BY <2>2, <3>1 DEF CacheError
  <2> QED
    BY <2>1, <2>2
<1> QED
  BY <1>3, <1>5 DEF Updated, Base, WInv, IInv, ConfInv, Configuration

\* A walk that runs through takes the object.
LEMMA PublishAccepts ==
    ASSUME WInv, NEW i \in updating, Publish(i)
    PROVE  SyncAccepted(i)
<1> DEFINE obj == object[i]
<1>1. /\ i \in queue /\ obj # NoObject /\ obj.paths # <<>>
  BY DEF WInv, WalkInv
<1>2. /\ [serverDataConf EXCEPT !.cache = draft] = Updated(serverDataConf, i, obj)
      /\ ~CacheError(Base(i), i, obj)
  <2>1. at \notin DOMAIN obj.paths
    BY Walking, Numbers DEF Publish
  <2> QED
    BY <2>1, WalkEnds DEF Publish
<1>3. Updated(serverDataConf, i, obj).cache = draft
  BY <1>2 DEF WInv, IInv, ConfInv, Configuration
<1>4. ~UpdateFails(serverDataConf, i, obj)
  BY <1>2, <1>3 DEF UpdateFails, Base, Publish
<1>5. UpdateIngress(serverDataConf, i, obj) =
        [conf |-> UpdateBfeClusterConf(UpdateRouteTable(Updated(serverDataConf, i, obj))),
         err |-> FALSE]
  BY <1>1, <1>4 DEF UpdateIngress
<1> QED
  BY <1>1, <1>2, <1>5 DEF SyncAccepted, Publish

\* A walk that ends with an error refuses it.
LEMMA GiveUpRefuses ==
    ASSUME WInv, NEW i \in updating, GiveUp(i)
    PROVE  SyncRefused(i)
<1> DEFINE obj == object[i]
           base == Base(i)
<1>1. /\ i \in queue /\ obj # NoObject /\ obj.paths # <<>>
      /\ draft = Walked(base, i, obj, at - 1)
  BY DEF WInv, WalkInv
<1>2. CASE at \in DOMAIN obj.paths
  <2>1. ~Legal(obj, at) \/ \E q \in Met(i) : q.created < obj.created
    BY <1>2, Walking, Numbers DEF GiveUp, Fails
  <2>2. Refused(base.ruleMap, i, obj, at)
    <3>1. at - 1 \in Nat /\ (at - 1) + 1 = at
      BY Walking
    <3>2. Refused(base.ruleMap, i, obj, (at - 1) + 1) <=>
             \/ ~Legal(obj, (at - 1) + 1)
             \/ \E q \in Rivals(Walked(base, i, obj, at - 1).ruleMap, RuleOf(i, obj, (at - 1) + 1)) :
                   q.created < obj.created
      BY <3>1, Walking, PutRefuses
    <3> QED
      BY <1>1, <2>1, <3>1, <3>2 DEF Met, New
  <2>3. [serverDataConf EXCEPT !.cache = draft] = Updated(serverDataConf, i, obj)
        /\ CacheError(base, i, obj)
    BY <1>2, <2>2, WalkEnds
  <2> QED
    BY <1>1, <2>3 DEF SyncRefused, GiveUp, UpdateIngress, UpdateFails, Base
<1>3. CASE at \notin DOMAIN obj.paths
  <2>1. at = Len(obj.paths) + 1 /\ ~Publishable(draft.ruleMap)
    BY <1>3 DEF GiveUp, Fails
  <2>2. [serverDataConf EXCEPT !.cache = draft] = Updated(serverDataConf, i, obj)
    BY <2>1, WalkEnds
  <2>3. Updated(serverDataConf, i, obj).cache = draft
    BY <2>2 DEF WInv, IInv, ConfInv, Configuration
  <2>4. UpdateFails(serverDataConf, i, obj)
    BY <2>1, <2>3 DEF UpdateFails
  <2> QED
    BY <1>1, <2>2, <2>4 DEF SyncRefused, GiveUp, UpdateIngress
<1> QED
  BY <1>2, <1>3

\* Every step of the walk is a step of ServerDataConfig, or none.
LEMMA StepImplements ==
    ASSUME WInv, [WalkNext]_walkVars
    PROVE  [Next]_vars
<1>1. CASE UNCHANGED walkVars
  BY <1>1 DEF walkVars, vars
<1>2. CASE Users
  BY <1>2 DEF Users, Next
<1>3. ASSUME NEW i \in Ingress, Take(i) PROVE [Next]_vars
  BY <1>3 DEF Take, Begin, NothingAsked, Absent, Next, Sync
<1>4. ASSUME NEW i \in Ingress, Advance(i) PROVE [Next]_vars
  <2>1. i \in updating
    BY <1>4 DEF Advance
  <2>2. CASE Publish(i)
    BY <2>1, <2>2, PublishAccepts DEF Next, Sync
  <2>3. CASE GiveUp(i)
    BY <2>1, <2>3, GiveUpRefuses DEF Next, Sync
  <2>4. CASE Insert(i) \/ Overwrite(i) \/ Yield(i)
    BY <2>4 DEF Insert, Overwrite, Yield, Walk
  <2> QED
    BY <1>4, <2>2, <2>3, <2>4 DEF Advance
<1> QED
  BY <1>1, <1>2, <1>3, <1>4 DEF WalkNext

\* A put that returns nil keeps the draft in step with the closed form.
LEMMA WalkKeeps ==
    ASSUME WInv, NEW i \in updating, Insert(i) \/ Overwrite(i) \/ Yield(i)
    PROVE  WalkInv'
<1> DEFINE obj == object[i]
           n == at - 1
           r == RuleOf(i, obj, at)
           w == Walked(Base(i), i, obj, n)
           u == Walked(Base(i), i, obj, at)
<1>1. /\ UNCHANGED <<object, queue, serverDataConf, updating>>
      /\ at' = at + 1
      /\ at \in DOMAIN obj.paths
      /\ Legal(obj, at)
  BY DEF Insert, Overwrite, Yield, Walk, vars
<1>2. /\ i \in Ingress /\ obj \in IngressObject /\ Cleared(Base(i), i)
      /\ n \in Nat /\ n + 1 = at /\ at \in Nat \ {0}
  BY Walking
<1>3. draft = w /\ Passed(Base(i).ruleMap, i, obj, n)
  BY DEF WInv, WalkInv
<1>4. /\ Rivals(w.ruleMap, r) = {} =>
             Passed(Base(i).ruleMap, i, obj, at) /\ u = PutNew(w, r)
      /\ \A q \in Rivals(w.ruleMap, r) :
            /\ obj.created < q.created =>
                  Passed(Base(i).ruleMap, i, obj, at) /\ u = PutOver(w, q, r)
            /\ obj.created = q.created =>
                  Passed(Base(i).ruleMap, i, obj, at) /\ u = w
  <2> DEFINE base == Base(i)
  <2>1. n + 1 \in DOMAIN obj.paths /\ Legal(obj, n + 1)
    BY <1>1, <1>2
  <2> HIDE DEF base, n, obj
  <2>2. LET s == RuleOf(i, obj, n + 1)
            v == Walked(base, i, obj, n)
            x == Walked(base, i, obj, n + 1)
        IN  /\ Rivals(v.ruleMap, s) = {} =>
                  Passed(base.ruleMap, i, obj, n + 1) /\ x = PutNew(v, s)
            /\ \A q \in Rivals(v.ruleMap, s) :
                  /\ obj.created < q.created =>
                        Passed(base.ruleMap, i, obj, n + 1) /\ x = PutOver(v, q, s)
                  /\ obj.created = q.created =>
                        Passed(base.ruleMap, i, obj, n + 1) /\ x = v
    BY <1>2, <1>3, <2>1, PutWalks DEF base
  <2> QED
    BY <1>2, <2>2 DEF base
<1>5. Met(i) = Rivals(w.ruleMap, r) /\ New(i) = r
  BY <1>3 DEF Met, New
<1>6. draft' = u /\ Passed(Base(i).ruleMap, i, obj, at)
  <2>1. CASE Insert(i)
    BY <1>3, <1>4, <1>5, <2>1 DEF Insert
  <2>2. CASE Overwrite(i)
    BY <1>3, <1>4, <1>5, <2>2 DEF Overwrite
  <2>3. CASE Yield(i)
    BY <1>3, <1>4, <1>5, <2>3 DEF Yield
  <2> QED
    BY <2>1, <2>2, <2>3
<1>7. updating' = {i} /\ i \in queue /\ obj # NoObject /\ obj.paths # <<>>
  BY <1>1 DEF WInv, WalkInv
<1>8. at' \in 1 .. Len(obj.paths) + 1 /\ at' - 1 = at
  BY <1>1, <1>2, Numbers
<1>9. Base(i)' = Base(i)
  BY <1>1 DEF Base
<1> QED
  BY <1>1, <1>2, <1>6, <1>7, <1>8, <1>9 DEF WalkInv

\* A walk begins with the cleared cache.
LEMMA WalkBegins ==
    ASSUME WInv, NEW i \in Ingress, Begin(i)
    PROVE  WalkInv'
<1> DEFINE obj == object[i]
<1>1. obj \in IngressObject
  BY DEF Begin, WInv, IInv, TypeOK
<1>2. Cleared(Base(i), i)
  BY BaseCleared DEF Base, WInv, IInv, ConfInv, Configuration
<1>3. /\ UNCHANGED <<object, queue, serverDataConf>>
      /\ updating' = {i} /\ at' = 1 /\ draft' = Base(i)
      /\ i \in queue /\ obj # NoObject /\ obj.paths # <<>>
  BY DEF Begin, Base, vars
<1>4. at' \in 1 .. Len(obj.paths) + 1 /\ at' - 1 = 0
  BY <1>1, <1>3, Numbers
<1>5. draft' = Walked(Base(i), i, obj, 0)
  BY <1>1, <1>2, <1>3, WalkedNone
<1>6. Passed(Base(i).ruleMap, i, obj, 0)
  BY DEF Passed
<1>7. Base(i)' = Base(i)
  BY <1>3 DEF Base
<1> QED
  BY <1>3, <1>4, <1>5, <1>6, <1>7 DEF WalkInv

\* Every step keeps the invariant.
LEMMA WInvInductive == WInv /\ [WalkNext]_walkVars => WInv'
<1> SUFFICES ASSUME WInv, [WalkNext]_walkVars PROVE WInv'
  OBVIOUS
<1>1. IInv'
  BY StepImplements, IInvInductive DEF WInv
<1>2. CASE updating' = {}
  BY <1>1, <1>2 DEF WInv, WalkInv
<1>3. CASE UNCHANGED walkVars
  BY <1>1, <1>3 DEF WInv, WalkInv, walkVars, Base
<1>4. ASSUME NEW i \in Ingress, Begin(i) PROVE WInv'
  BY <1>1, <1>4, WalkBegins DEF WInv
<1>5. ASSUME NEW i \in updating, Insert(i) \/ Overwrite(i) \/ Yield(i) PROVE WInv'
  BY <1>1, <1>5, WalkKeeps DEF WInv
<1>6. ASSUME NEW i \in Ingress, Take(i) PROVE Begin(i) \/ updating' = {}
  BY <1>6 DEF Take, Absent
<1>7. ASSUME NEW i \in Ingress, Advance(i)
      PROVE  \/ updating' = {}
             \/ i \in updating /\ (Insert(i) \/ Overwrite(i) \/ Yield(i))
  BY <1>7 DEF Advance, Publish, GiveUp, Done
<1>8. CASE updating = {} /\ Users /\ UNCHANGED <<updating, at, draft>>
  BY <1>2, <1>8
<1> QED
  BY <1>2, <1>3, <1>4, <1>5, <1>6, <1>7, <1>8 DEF WalkNext

\* The invariant of the walk, between and during the updates: the configuration in
\* force is as in ServerDataConfig, the draft is what the paths so far amount to.
THEOREM WalkInvariance == WalkSpec => []WInv
<1>1. WalkInit => WInv
  BY IInvInitial DEF WalkInit, WInv, WalkInv
<1> QED
  BY <1>1, WInvInductive, PTL DEF WalkSpec

\* put, called for one path after the other, implements the single step.
THEOREM WalkImplements == WalkSpec => WalkIsOneStep
<1>1. WalkInit => Init
  BY DEF WalkInit
<1>2. WInv /\ [WalkNext]_walkVars => [Next]_vars
  BY StepImplements
<1>3. WalkSpec => Spec
  BY <1>1, <1>2, WalkInvariance, PTL DEF WalkSpec, Spec
<1> QED
  BY <1>3 DEF WalkIsOneStep

\* So what ServerDataConfig promises to competing Ingresses is kept by put.
THEOREM WalkAllocates == WalkSpec => SlotsAllocated
  BY WalkImplements, AllocationRefined, PTL DEF WalkIsOneStep

=============================================================================
