--------------------------- MODULE RouteOrderProofs ---------------------------
(* Theorems about RouteOrder, for any hosts, paths and conditions. *)
EXTENDS RouteOrder, ServerDataConfigProofs

LEMMA HostFacts ==
    ASSUME NEW l \in Location
    PROVE  /\ HostExactness(l) \in {0, 1}
           /\ HostLength(l) \in Nat
  <1>1. HostText[l.host] \in Text
    BY RouteOrderAssumption DEF Location
  <1>2. HostLength(l) \in Nat
    BY <1>1 DEF Text, HostLength
  <1>3. HostExactness(l) \in {0, 1}
    BY Zenon DEF HostExactness
  <1>. QED  BY <1>2, <1>3

LEMMA PathFacts ==
    ASSUME NEW l \in Location
    PROVE  /\ PathExactness(l) \in {0, 1}
           /\ PathLength(l) \in Nat
  <1>1. PathText[l.path] \in Text
    BY RouteOrderAssumption DEF Location
  <1>2. Len(PathText[l.path]) \in Nat
    BY <1>1 DEF Text
  <1>3. PathExactness(l) \in {0, 1}
    BY Zenon DEF PathExactness
  <1>4. CASE l.prefix
    <2>1. PathLength(l) = Len(PathText[l.path]) + 1
      BY <1>4, Zenon DEF PathLength
    <2>. QED  BY <1>2, <1>3, <2>1
  <1>5. CASE ~l.prefix
    <2>1. PathLength(l) = Len(PathText[l.path]) + 0
      BY <1>5, Zenon DEF PathLength
    <2>. QED  BY <1>2, <1>3, <2>1
  <1>. QED  BY <1>4, <1>5

LEMMA PriorityFacts ==
    ASSUME NEW c \in Condition
    PROVE  Priority(c) \in Nat
  BY DEF Priority

\* comparePriority weighs the hosts of locations consistently, however long they
\* are: it is antisymmetric, and "higher" and "equal" are transitive.
LEMMA HostsWeighed ==
    ASSUME NEW l1 \in Location, NEW l2 \in Location, NEW l3 \in Location
    PROVE  /\ CompareHost(l1, l2) \in Int
           /\ CompareHost(l1, l1) = 0
           /\ CompareHost(l2, l1) > 0 <=> CompareHost(l1, l2) < 0
           /\ CompareHost(l2, l1) = 0 <=> CompareHost(l1, l2) = 0
           /\ CompareHost(l1, l2) >= 0 /\ CompareHost(l2, l3) >= 0
              => /\ CompareHost(l1, l3) >= 0
                 /\ CompareHost(l1, l3) = 0
                    <=> CompareHost(l1, l2) = 0 /\ CompareHost(l2, l3) = 0
  <1>1. /\ HostExactness(l1) \in {0, 1} /\ HostExactness(l2) \in {0, 1} /\ HostExactness(l3) \in {0, 1}
        /\ HostLength(l1) \in Nat /\ HostLength(l2) \in Nat /\ HostLength(l3) \in Nat
    BY HostFacts
  <1>. QED  BY <1>1 DEF CompareHost, ComparePriority

\* The same for their paths.
LEMMA PathsWeighed ==
    ASSUME NEW l1 \in Location, NEW l2 \in Location, NEW l3 \in Location
    PROVE  /\ ComparePath(l1, l2) \in Int
           /\ ComparePath(l1, l1) = 0
           /\ ComparePath(l2, l1) > 0 <=> ComparePath(l1, l2) < 0
           /\ ComparePath(l2, l1) = 0 <=> ComparePath(l1, l2) = 0
           /\ ComparePath(l1, l2) >= 0 /\ ComparePath(l2, l3) >= 0
              => /\ ComparePath(l1, l3) >= 0
                 /\ ComparePath(l1, l3) = 0
                    <=> ComparePath(l1, l2) = 0 /\ ComparePath(l2, l3) = 0
  <1>1. /\ PathExactness(l1) \in {0, 1} /\ PathExactness(l2) \in {0, 1} /\ PathExactness(l3) \in {0, 1}
        /\ PathLength(l1) \in Nat /\ PathLength(l2) \in Nat /\ PathLength(l3) \in Nat
    BY PathFacts
  <1>. QED  BY <1>1 DEF ComparePath, ComparePriority

\* The comparison that get sorts by is a strict weak order for any rules, so
\* sort.SliceStable yields a sorted list, whatever order the maps give.
THEOREM SortWellDefined ==
    ASSUME NEW r \in Rule, NEW q \in Rule, NEW s \in Rule
    PROVE  /\ ~Precedes(r, r)
           /\ Precedes(r, q) /\ Precedes(q, s) => Precedes(r, s)
           /\ /\ ~Precedes(r, q) /\ ~Precedes(q, r)
              /\ ~Precedes(q, s) /\ ~Precedes(s, q)
              => ~Precedes(r, s)
  <1>. DEFINE h(x, y) == CompareHost(x.location, y.location)
              p(x, y) == ComparePath(x.location, y.location)
              c(x) == Priority(x.cond)
  <1>1. /\ r.location \in Location /\ q.location \in Location /\ s.location \in Location
        /\ r.cond \in Condition /\ q.cond \in Condition /\ s.cond \in Condition
        /\ r.created \in Int /\ q.created \in Int /\ s.created \in Int
    BY DEF Rule, Time
  <1>2. /\ h(r, r) = 0 /\ p(r, r) = 0
        /\ \A x, y \in {r, q, s} :
              /\ h(x, y) \in Int /\ p(x, y) \in Int
              /\ h(y, x) > 0 <=> h(x, y) < 0
              /\ h(y, x) = 0 <=> h(x, y) = 0
              /\ p(y, x) > 0 <=> p(x, y) < 0
              /\ p(y, x) = 0 <=> p(x, y) = 0
    BY <1>1, HostsWeighed, PathsWeighed
  <1>3. /\ h(r, q) >= 0 /\ h(q, s) >= 0
           => h(r, s) >= 0 /\ (h(r, s) = 0 <=> h(r, q) = 0 /\ h(q, s) = 0)
        /\ p(r, q) >= 0 /\ p(q, s) >= 0
           => p(r, s) >= 0 /\ (p(r, s) = 0 <=> p(r, q) = 0 /\ p(q, s) = 0)
    BY <1>1, HostsWeighed, PathsWeighed
  <1>4. c(r) \in Nat /\ c(q) \in Nat /\ c(s) \in Nat
    BY <1>1, PriorityFacts
  <1>5. \A x, y \in {r, q, s} :
           Precedes(x, y) <=> \/ h(x, y) > 0
                              \/ h(x, y) = 0 /\ p(x, y) > 0
                              \/ h(x, y) = 0 /\ p(x, y) = 0 /\ c(x) - c(y) > 0
                              \/ /\ h(x, y) = 0 /\ p(x, y) = 0 /\ c(x) - c(y) = 0
                                 /\ x.created < y.created
    BY DEF Precedes
  <1>. HIDE DEF h, p, c
  <1>6. ~Precedes(r, r)
    BY <1>1, <1>2, <1>4, <1>5
  <1>7. Precedes(r, q) /\ Precedes(q, s) => Precedes(r, s)
    BY <1>1, <1>2, <1>3, <1>4, <1>5
  <1>8. ~Precedes(r, q) /\ ~Precedes(q, r) /\ ~Precedes(q, s) /\ ~Precedes(s, q)
        => ~Precedes(r, s)
    BY <1>1, <1>2, <1>3, <1>4, <1>5
  <1>. QED  BY <1>6, <1>7, <1>8

\* A longer or more precise text, or a more advanced condition, goes first.
LEMMA PreferredFirst ==
    ASSUME \A x \in Host \ {NoHost, AnyHost} : HostText[x] \in Text => Len(HostText[x]) > 1,
           NEW r \in Rule, NEW q \in Rule, Preferred(r, q),
           ~ (WildcardHost(HostText[r.location.host]) /\ q.location.host = AnyHost)
    PROVE  Precedes(r, q)
  <1>. DEFINE l == r.location
              k == q.location
  <1>1. /\ l \in Location /\ k \in Location
        /\ r.cond \in Condition /\ q.cond \in Condition
    BY DEF Rule
  <1>2. /\ HostExactness(l) \in {0, 1} /\ HostExactness(k) \in {0, 1}
        /\ HostLength(l) \in Nat /\ HostLength(k) \in Nat
    BY <1>1, HostFacts
  <1>3. /\ PathExactness(l) \in {0, 1} /\ PathExactness(k) \in {0, 1}
        /\ PathLength(l) \in Nat /\ PathLength(k) \in Nat
    BY <1>1, PathFacts
  <1>4. CASE Precision(l.host) > Precision(k.host)
    <2>1. CompareHost(l, k) > 0
      <3>1. CASE WildcardHost(HostText[k.host])
        <4>1. HostText[k.host] # <<"*">>
          BY <3>1, Len(<<"*">>) = 1, Len(<<"*", ".">>) = 2 DEF WildcardHost, IsPrefix
        <4>2. ~WildcardHost(HostText[l.host])
          BY <1>4, <3>1, <4>1 DEF Precision
        <4>3. HostExactness(l) = 1 /\ HostExactness(k) = 0
          BY <3>1, <4>2 DEF HostExactness
        <4>. QED  BY <4>3, <1>2 DEF CompareHost, ComparePriority
      <3>2. CASE ~WildcardHost(HostText[k.host])
        <4>1. HostText[k.host] = <<"*">>
          BY <1>4, <3>2 DEF Precision
        <4>2. HostText[k.host] \in Text /\ HostText[l.host] \in Text
          BY <1>1, RouteOrderAssumption DEF Location
        <4>3. k.host = AnyHost
          <5>1. k.host \in (Host \ {NoHost}) \cup {AnyHost}
            BY <1>1 DEF Location
          <5>2. SUFFICES ASSUME k.host \in Host \ {NoHost, AnyHost}
                         PROVE  FALSE
            BY <5>1
          <5>3. Len(HostText[k.host]) > 1
            BY <4>2, <5>2
          <5>4. Len(HostText[k.host]) = 1
            BY <4>1
          <5>. QED  BY <5>3, <5>4
        <4>4. ~WildcardHost(HostText[l.host])
          BY <4>3
        <4>5. l.host # AnyHost
          BY <1>4, <4>3 DEF Precision
        <4>6. HostLength(l) > 1 /\ HostLength(k) = 1
          BY <1>1, <4>1, <4>2, <4>5, Len(<<"*">>) = 1 DEF Location, HostLength
        <4>7. HostExactness(l) = 1 /\ HostExactness(k) = 1
          BY <3>2, <4>4 DEF HostExactness
        <4>. QED  BY <4>6, <4>7, <1>2 DEF CompareHost, ComparePriority
      <3>. QED  BY <3>1, <3>2
    <2>. QED  BY <2>1 DEF Precedes
  <1>5. CASE l.host = k.host /\ MorePrecisePath(l, k)
    <2>1. CompareHost(l, k) = 0
      BY <1>1, <1>5, HostsWeighed DEF CompareHost, HostExactness, HostLength, ComparePriority
    <2>2. CASE ~l.prefix /\ k.prefix
      <3>1. PathExactness(l) = 1 /\ PathExactness(k) = 0
        BY <2>2 DEF PathExactness
      <3>2. ComparePath(l, k) > 0
        BY <3>1, <1>3 DEF ComparePath, ComparePriority
      <3>. QED  BY <2>1, <3>2 DEF Precedes
    <2>3. CASE l.prefix /\ k.prefix /\ IsStrictPrefix(PathText[k.path], PathText[l.path])
      <3>1. PathExactness(l) = 0 /\ PathExactness(k) = 0
        BY <2>3 DEF PathExactness
      <3>2. PathText[l.path] \in Text /\ PathText[k.path] \in Text
        BY <1>1, RouteOrderAssumption DEF Location
      <3>3. Len(PathText[l.path]) > Len(PathText[k.path])
        <4>. DEFINE s == PathText[k.path]
                    t == PathText[l.path]
        <4>1. s # t /\ Len(s) <= Len(t) /\ \A n \in 1 .. Len(s) : s[n] = t[n]
          BY <2>3, <3>2 DEF IsStrictPrefix, IsPrefix, Text
        <4>2. Len(s) = Len(t) => s = t
          BY <3>2, <4>1 DEF Text
        <4>. QED  BY <3>2, <4>1, <4>2 DEF Text
      <3>4. /\ PathLength(l) = Len(PathText[l.path]) + 1
            /\ PathLength(k) = Len(PathText[k.path]) + 1
        BY <2>3 DEF PathLength
      <3>5. PathLength(l) > PathLength(k)
        BY <3>2, <3>3, <3>4 DEF Text
      <3>6. ComparePath(l, k) > 0
        BY <3>1, <3>5, <1>3 DEF ComparePath, ComparePriority
      <3>. QED  BY <2>1, <3>6 DEF Precedes
    <2>. QED  BY <1>5, <2>2, <2>3 DEF MorePrecisePath
  <1>6. CASE l = k /\ Rank[Kind[r.cond]] > Rank[Kind[q.cond]]
    <2>1. CompareHost(l, k) = 0 /\ ComparePath(l, k) = 0
      BY <1>1, <1>6, HostsWeighed, PathsWeighed
    <2>2. Kind[r.cond] \in AnnotationKind /\ Kind[q.cond] \in AnnotationKind
      BY <1>1, RouteOrderAssumption
    <2>3. Priority(r.cond) - Priority(q.cond) > 0
      BY <1>6, <2>2 DEF Rank, Priority, AnnotationKind
    <2>. QED  BY <2>1, <2>3 DEF Precedes
  <1>. QED  BY <1>4, <1>5, <1>6 DEF Preferred

\* For any hosts of more than one character, BFE meets the rule first that the
\* documents prefer, in every reachable state of the cache.
THEOREM OrderAsDocumented ==
    ASSUME \A x \in Host \ {NoHost, AnyHost} : HostText[x] \in Text => Len(HostText[x]) > 1
    PROVE  Spec => []DocumentedOrder
  <1>1. TypeOK => DocumentedOrder
    <2>1. TypeOK => ruleMap \subseteq Rule
      BY DEF TypeOK, Configuration, Cache, ruleMap
    <2>. QED  BY <2>1, PreferredFirst DEF DocumentedOrder, AdvancedRules
  <1>. QED  BY <1>1, Typing, PTL

\* A text of more than one character is not "*".
LEMMA OnlyAnyHost ==
    ASSUME \A x \in Host \ {NoHost, AnyHost} : HostText[x] \in Text => Len(HostText[x]) > 1,
           NEW l \in Location, Len(HostText[l.host]) = 1
    PROVE  l.host = AnyHost
  <1>1. l.host \in (Host \ {NoHost}) \cup {AnyHost} /\ HostText[l.host] \in Text
    BY RouteOrderAssumption DEF Location
  <1>2. SUFFICES ASSUME l.host \in Host \ {NoHost, AnyHost}
                 PROVE  FALSE
    BY <1>1
  <1>3. Len(HostText[l.host]) > 1
    BY <1>1, <1>2
  <1>. QED  BY <1>3

\* Hosts that comparePriority cannot tell apart, and that one request satisfies, are
\* one host, unless they are two wildcard hosts.
LEMMA HostTie ==
    ASSUME \A x \in Host \ {NoHost, AnyHost} : HostText[x] \in Text => Len(HostText[x]) > 1,
           NEW l \in Location, NEW k \in Location, NEW host,
           HostPrimitive(HostText[l.host], host), HostPrimitive(HostText[k.host], host),
           WildcardHost(HostText[l.host]) /\ WildcardHost(HostText[k.host]) => l.host = k.host,
           CompareHost(l, k) = 0
    PROVE  l.host = k.host
  <1>1. /\ HostExactness(l) \in {0, 1} /\ HostExactness(k) \in {0, 1}
        /\ HostLength(l) \in Nat /\ HostLength(k) \in Nat
    BY HostFacts
  <1>2. HostExactness(l) = HostExactness(k) /\ HostLength(l) = HostLength(k)
    BY <1>1 DEF CompareHost, ComparePriority
  <1>3. SUFFICES ASSUME ~WildcardHost(HostText[l.host]), ~WildcardHost(HostText[k.host])
                 PROVE  l.host = k.host
    BY <1>2 DEF HostExactness
  <1>4. CASE HostText[l.host] = <<"*">> \/ HostText[k.host] = <<"*">>
    <2>1. Len(HostText[l.host]) = 1 /\ Len(HostText[k.host]) = 1
      BY <1>2, <1>4, Len(<<"*">>) = 1 DEF HostLength
    <2>. QED  BY <2>1, OnlyAnyHost
  <1>5. CASE HostText[l.host] # <<"*">> /\ HostText[k.host] # <<"*">>
    <2>1. HostText[l.host] = host /\ HostText[k.host] = host
      BY <1>3, <1>5 DEF HostPrimitive
    <2>2. l.host \in DOMAIN HostText /\ k.host \in DOMAIN HostText
      BY RouteOrderAssumption DEF Location
    <2>. QED  BY <2>1, <2>2, RouteOrderAssumption
  <1>. QED  BY <1>4, <1>5

\* A path has at most one prefix of each length.
LEMMA PrefixOfLength ==
    ASSUME NEW s \in Text, NEW t \in Text, NEW path \in Text,
           IsPrefix(s \o <<"/">>, path), IsPrefix(t \o <<"/">>, path), Len(s) = Len(t)
    PROVE  s = t
  <1>1. \A n \in 1 .. Len(s) : s[n] = path[n]
    BY DEF IsPrefix, Text
  <1>2. \A n \in 1 .. Len(t) : t[n] = path[n]
    BY DEF IsPrefix, Text
  <1>. QED  BY <1>1, <1>2 DEF Text

\* Paths that comparePriority cannot tell apart, and that one request satisfies, are
\* one path.
LEMMA PathTie ==
    ASSUME NEW l \in Location, NEW k \in Location, NEW path \in Text,
           PathPrimitive(l, path), PathPrimitive(k, path), ComparePath(l, k) = 0
    PROVE  l.path = k.path /\ l.prefix = k.prefix
  <1>. DEFINE s == PathText[l.path]
              t == PathText[k.path]
  <1>1. /\ PathExactness(l) \in {0, 1} /\ PathExactness(k) \in {0, 1}
        /\ PathLength(l) \in Nat /\ PathLength(k) \in Nat
    BY PathFacts
  <1>2. PathExactness(l) = PathExactness(k) /\ PathLength(l) = PathLength(k)
    BY <1>1 DEF ComparePath, ComparePriority
  <1>3. l.prefix = k.prefix
    BY <1>2 DEF PathExactness, Location
  <1>4. s \in Text /\ t \in Text
    BY RouteOrderAssumption DEF Location
  <1>5. Len(s) = Len(t)
    <2>. DEFINE star == IF l.prefix THEN 1 ELSE 0
    <2>1. PathLength(l) = Len(s) + star /\ PathLength(k) = Len(t) + star
      BY <1>3, Zenon DEF PathLength
    <2>2. Len(s) \in Nat /\ Len(t) \in Nat /\ star \in Nat
      BY <1>4 DEF Text
    <2>3. \A x, y, z \in Nat : x + z = y + z => x = y
      OBVIOUS
    <2>4. Len(s) + star = Len(t) + star
      BY <1>2, <2>1
    <2>. QED  BY <2>2, <2>3, <2>4, Zenon
  <1>6. s = t
    <2>. HIDE DEF s, t
    <2>1. ASSUME NEW u \in Text, IsPrefix(u \o <<"/">>, path)
          PROVE  Len(u) < Len(path)
      BY <2>1 DEF IsPrefix, Text
    <2>2. path = s \/ IsPrefix(s \o <<"/">>, path)
      BY DEF PathPrimitive, s
    <2>3. path = t \/ IsPrefix(t \o <<"/">>, path)
      BY DEF PathPrimitive, t
    <2>4. CASE path = s /\ path = t
      BY <2>4
    <2>5. CASE path = s /\ IsPrefix(t \o <<"/">>, path)
      BY <1>4, <1>5, <2>1, <2>5 DEF Text
    <2>6. CASE path = t /\ IsPrefix(s \o <<"/">>, path)
      BY <1>4, <1>5, <2>1, <2>6 DEF Text
    <2>7. CASE IsPrefix(s \o <<"/">>, path) /\ IsPrefix(t \o <<"/">>, path)
      BY <1>4, <1>5, <2>7, PrefixOfLength
    <2>. QED  BY <2>2, <2>3, <2>4, <2>5, <2>6, <2>7
  <1>7. l.path \in DOMAIN PathText /\ k.path \in DOMAIN PathText
    BY RouteOrderAssumption DEF Location
  <1>. QED  BY <1>3, <1>6, <1>7, RouteOrderAssumption

\* For any hosts of more than one character, two rules that match one request and that
\* the sort leaves in any order are rules of one location, or of two wildcard hosts.
THEOREM TiesLocal ==
    ASSUME \A x \in Host \ {NoHost, AnyHost} : HostText[x] \in Text => Len(HostText[x]) > 1
    PROVE  Spec => []TiesAreLocal
  <1>1. ASSUME NEW r \in Rule, NEW q \in Rule, Competing(r, q),
               WildcardHost(HostText[r.location.host]) /\ WildcardHost(HostText[q.location.host])
                  => r.location.host = q.location.host,
               ~Precedes(r, q), ~Precedes(q, r)
        PROVE  r.location = q.location
    <2>. DEFINE l == r.location
                k == q.location
    <2>1. l \in Location /\ k \in Location
      BY DEF Rule
    <2>2. PICK req \in Request : Matches(r, req) /\ Matches(q, req)
      BY <1>1 DEF Competing
    <2>3. CompareHost(l, k) = 0
      <3>1. ~(CompareHost(l, k) > 0) /\ ~(CompareHost(k, l) > 0)
        BY <1>1 DEF Precedes
      <3>. QED  BY <2>1, <3>1, HostsWeighed
    <2>4. ComparePath(l, k) = 0
      <3>1. CompareHost(k, l) = 0
        BY <2>1, <2>3, HostsWeighed
      <3>2. ~(ComparePath(l, k) > 0) /\ ~(ComparePath(k, l) > 0)
        BY <1>1, <2>3, <3>1 DEF Precedes
      <3>. QED  BY <2>1, <3>2, PathsWeighed
    <2>5. l.host = k.host
      BY <1>1, <2>1, <2>2, <2>3, HostTie DEF Matches
    <2>6. req.path \in Text
      BY RouteOrderAssumption
    <2>7. l.path = k.path /\ l.prefix = k.prefix
      BY <2>1, <2>2, <2>4, <2>6, PathTie DEF Matches
    <2>. QED  BY <2>1, <2>5, <2>7 DEF Location
  <1>2. TypeOK => TiesAreLocal
    <2>1. TypeOK => ruleMap \subseteq Rule
      BY DEF TypeOK, Configuration, Cache, ruleMap
    <2>. QED  BY <1>1, <2>1 DEF TiesAreLocal, AdvancedRules
  <1>. QED  BY <1>2, Typing, PTL

=============================================================================
