------------------------------ MODULE RouteOrder ------------------------------
(***************************************************************************)
(* The order of the advanced rules: the sort in HttpRouteRuleCache.get and *)
(* the conditions that serverDataConfig.go builds for the rules.  BFE goes *)
(* through the advanced rules in this order and takes the first one whose  *)
(* condition holds.                                                        *)
(*                                                                         *)
(* Hosts and paths are texts here, sequences of symbols: their length, the *)
(* leading "*." and what a pattern matches decide.  get collects the rules *)
(* from Go maps, whose order is random, and sorts them stably; so what the *)
(* comparison leaves undecided is random, except within one location.      *)
(***************************************************************************)
EXTENDS ServerDataConfig, SequencesExt

CONSTANTS
    HostText,            \* text of each host of a Location
    PathText,            \* text of each path, without the "*" of a prefix
    Kind,                \* which annotations make up each condition
    Request              \* requests to reckon with: [host, path, meets]

AnnotationKind == {"none", "header", "cookie", "both"}

Text == Seq(STRING)

ASSUME RouteOrderAssumption ==
    /\ HostText \in [(Host \ {NoHost}) \cup {AnyHost} -> Text]
    /\ PathText \in [Path -> Text]
    /\ Kind \in [Condition -> AnnotationKind]
    /\ \A c \in Condition : Kind[c] = "none" <=> c = Basic
    /\ HostText[AnyHost] = <<"*">>
    /\ \A x, y \in DOMAIN HostText : HostText[x] = HostText[y] => x = y
    /\ \A x, y \in DOMAIN PathText : PathText[x] = PathText[y] => x = y
    /\ \A q \in Request : /\ q.host \in Text /\ q.path \in Text
                          /\ q.meets \subseteq Condition

-----------------------------------------------------------------------------
(* The comparison. *)

\* annotations.Priority.
Priority(cond) ==
    CASE Kind[cond] = "both"   -> 40
      [] Kind[cond] = "cookie" -> 30
      [] Kind[cond] = "header" -> 20
      [] OTHER                 -> 10

WildcardHost(text) == IsPrefix(<<"*", ".">>, text)

HostLength(l) == Len(HostText[l.host])

\* A prefix ends in "*", and checkPath lets no other path do so.
PathLength(l) == Len(PathText[l.path]) + (IF l.prefix THEN 1 ELSE 0)

\* 1 for a text without wildcard, 0 for one with.
HostExactness(l) == IF WildcardHost(HostText[l.host]) THEN 0 ELSE 1
PathExactness(l) == IF l.prefix THEN 0 ELSE 1

\* Mutant of ComparePriority: the shorter text goes first.
BugShorterFirst(exact1, len1, exact2, len2) ==
    IF exact1 # exact2 THEN exact1 - exact2 ELSE len2 - len1

\* Mutant of ComparePriority: length does not matter.
BugNoLength(exact1, len1, exact2, len2) == exact1 - exact2

\* Positive if the first of two texts has the higher priority, negative if the
\* second has, 0 if neither.
ComparePriority(exact1, len1, exact2, len2) ==
    IF exact1 # exact2 THEN exact1 - exact2 ELSE len1 - len2

CompareHost(l1, l2) ==
    ComparePriority(HostExactness(l1), HostLength(l1), HostExactness(l2), HostLength(l2))

ComparePath(l1, l2) ==
    ComparePriority(PathExactness(l1), PathLength(l1), PathExactness(l2), PathLength(l2))

\* Less of sort.SliceStable: host, then path, then annotations, then age.
Precedes(r, q) ==
    LET host == CompareHost(r.location, q.location)
        path == ComparePath(r.location, q.location)
        cond == Priority(r.cond) - Priority(q.cond)
    IN  \/ host > 0
        \/ host = 0 /\ path > 0
        \/ host = 0 /\ path = 0 /\ cond > 0
        \/ host = 0 /\ path = 0 /\ cond = 0 /\ r.created < q.created

-----------------------------------------------------------------------------
(* The conditions. *)

\* hostPrimitive: a wildcard host "*.x" becomes the regular expression
\* ^[^.]+x, and any text may follow.
HostPrimitive(text, host) ==
    \/ text = <<"*">>
    \/ /\ ~WildcardHost(text)
       /\ host = text
    \/ /\ WildcardHost(text)
       /\ \E n \in 1 .. Len(host) :
             /\ \A k \in 1 .. n : host[k] # "."
             /\ IsPrefix(SubSeq(text, 3, Len(text)), SubSeq(host, n + 1, Len(host)))

\* pathPrimitive: the path itself, or a prefix that ends between two elements.
PathPrimitive(l, path) ==
    LET text == PathText[l.path]
    IN  \/ path = text
        \/ l.prefix /\ IsPrefix(text \o <<"/">>, path)

\* buildCondition, for a request.
Matches(r, req) ==
    /\ HostPrimitive(HostText[r.location.host], req.host)
    /\ PathPrimitive(r.location, req.path)
    /\ r.cond = Basic \/ r.cond \in req.meets

-----------------------------------------------------------------------------
(* Properties *)

\* Some request satisfies the conditions of both rules.
Competing(r, q) == \E req \in Request : Matches(r, req) /\ Matches(q, req)

\* The order that docs/en_us/ingress/priority.md gives for two rules that match the
\* same request: the more precise host, then the more precise path, then the
\* more advanced condition.
Precision(host) ==
    CASE HostText[host] = <<"*">>     -> 0
      [] WildcardHost(HostText[host]) -> 1
      [] OTHER                        -> 2

MorePrecisePath(l1, l2) ==
    \/ ~l1.prefix /\ l2.prefix
    \/ /\ l1.prefix /\ l2.prefix
       /\ IsStrictPrefix(PathText[l2.path], PathText[l1.path])

Rank == [none |-> 0, header |-> 1, cookie |-> 2, both |-> 3]

Preferred(r, q) ==
    \/ Precision(r.location.host) > Precision(q.location.host)
    \/ /\ r.location.host = q.location.host
       /\ MorePrecisePath(r.location, q.location)
    \/ /\ r.location = q.location
       /\ Rank[Kind[r.cond]] > Rank[Kind[q.cond]]

\* Of two rules that match a request BFE meets the one first that the documents
\* prefer.  The host "*" is left out against wildcard hosts, because wildcardHost
\* takes it for an exact host.
DocumentedOrder ==
    \A r, q \in AdvancedRules(ruleMap) :
        /\ Preferred(r, q)
        /\ ~ (WildcardHost(HostText[r.location.host]) /\ q.location.host = AnyHost)
        /\ Competing(r, q)
        => Precedes(r, q)

\* Which of two rules answers a request is not left to the random order of a Go
\* map: a tie is between rules of one location, which the stable sort keeps in
\* the order they were put.  Two wildcard hosts are left out: the conditions of
\* "*.foo" and "*.bar" both hold for "xfoobar", although no host is covered by both.
TiesAreLocal ==
    \A r, q \in AdvancedRules(ruleMap) :
        /\ r.location # q.location
        /\ Competing(r, q)
        /\ WildcardHost(HostText[r.location.host]) /\ WildcardHost(HostText[q.location.host])
              => r.location.host = q.location.host
        => Precedes(r, q) \/ Precedes(q, r)

-----------------------------------------------------------------------------
(* What a test says of wildcard hosts and the code does not do. *)

\* Kubernetes: the "*" of a host stands for exactly one label.
Covers(text, host) ==
    /\ WildcardHost(text)
    /\ \E n \in 1 .. Len(host) :
          /\ \A k \in 1 .. n : host[k] # "."
          /\ SubSeq(host, n + 1, Len(host)) = Tail(text)

\* host_rules.feature: a wildcard host sends traffic to its backend.  With a route
\* annotation the condition of the rule lacks the dot after the first label.
WildcardServed ==
    \A r \in AdvancedRules(ruleMap), req \in Request :
        /\ Covers(HostText[r.location.host], req.host)
        /\ PathPrimitive(r.location, req.path)
        /\ r.cond = Basic \/ r.cond \in req.meets
        => Matches(r, req)

=============================================================================
