------------------------------ MODULE CacheWalk ------------------------------
(***************************************************************************)
(* The walk of updateCache through the paths of an Ingress, one call of    *)
(* put per step.  ServerDataConfig gives the result of the whole walk in   *)
(* closed form; here the cache is what the calls before have made of it,   *)
(* put looks at that cache, and nothing is known of the walk to come.      *)
(*                                                                         *)
(* The walk happens under the mutex of the ConfigBuilder, so its cache is  *)
(* a draft until it ends, and users' steps, which do not touch the         *)
(* configuration, are taken before or after it.                            *)
(***************************************************************************)
EXTENDS ServerDataConfig

VARIABLES
    updating,        \* the Ingress in UpdateIngress: {} or {i}
    at,              \* the path that addRule handles next
    draft            \* the cache as the walk has left it

walkVars == <<object, clock, queue, status, serverDataConf, updating, at, draft>>

-----------------------------------------------------------------------------
(* HttpRouteRuleCache.put *)

PutNew(cache, r) ==
    [ruleMap |-> cache.ruleMap \cup {r},
     ingress2Rule |-> [cache.ingress2Rule EXCEPT ![r.ingress] = @ \cup {r}]]

\* The overwritten rule q is looked for in the index of the Ingress of the new one.
PutOver(cache, q, r) ==
    [ruleMap |-> (cache.ruleMap \ {q}) \cup {r},
     ingress2Rule |-> [cache.ingress2Rule EXCEPT ![r.ingress] = (@ \ {q}) \cup {r}]]

\* addRule accepts host and path of the k-th path.
Legal(obj, k) == CheckHost(obj.paths[k].host) /\ CheckPath(obj.paths[k].path)

-----------------------------------------------------------------------------
(* Steps of the walk.  The rule in the slot of the new one is any that has *)
(* its location and condition: put takes the first it meets in the list.   *)

New(i) == RuleOf(i, object[i], at)

Met(i) == Rivals(draft.ruleMap, New(i))

\* UpdateIngress removes the rules the Ingress had.
Begin(i) ==
    /\ i \in queue
    /\ object[i] # NoObject
    /\ object[i].paths # <<>>
    /\ updating' = {i}
    /\ at' = 1
    /\ draft' = DeleteHttpRulesByIngress(serverDataConf.cache, i)
    /\ UNCHANGED vars

\* addRule of a path that is in order, and whose put returns nil.
Walk(i) ==
    /\ at \in DOMAIN object[i].paths
    /\ Legal(object[i], at)
    /\ at' = at + 1
    /\ UNCHANGED <<vars, updating>>

\* Nobody has the slot.
Insert(i) ==
    /\ Walk(i)
    /\ Met(i) = {}
    /\ draft' = PutNew(draft, New(i))

\* Mutant of Overwrite: the younger rule stays in the list.
BugAppends(i) ==
    /\ Walk(i)
    /\ \E q \in Met(i) : object[i].created < q.created
    /\ draft' = PutNew(draft, New(i))

\* "all conditions are same, oldest rule is valid"
Overwrite(i) ==
    /\ Walk(i)
    /\ \E q \in Met(i) :
          /\ object[i].created < q.created
          /\ draft' = PutOver(draft, q, New(i))

\* A rule of the same second keeps its slot, and put returns nil.
Yield(i) ==
    /\ Walk(i)
    /\ \E q \in Met(i) : object[i].created = q.created
    /\ UNCHANGED draft

Done ==
    /\ updating' = {}
    /\ at' = 1
    /\ draft' = NewRouteRuleCache

\* The whole object is in the cache, and a route table can be made of it.
Publish(i) ==
    /\ at = Len(object[i].paths) + 1
    /\ Publishable(draft.ruleMap)
    /\ serverDataConf' =
          UpdateBfeClusterConf(UpdateRouteTable([serverDataConf EXCEPT !.cache = draft]))
    /\ queue' = queue \ {i}
    /\ status' = [status EXCEPT ![i] = "success"]
    /\ Done
    /\ UNCHANGED <<object, clock>>

\* addRule or updateRouteTable returns an error.
Fails(i) ==
    \/ /\ at \in DOMAIN object[i].paths
       /\ \/ ~Legal(object[i], at)
          \/ \E q \in Met(i) : q.created < object[i].created
    \/ /\ at = Len(object[i].paths) + 1
       /\ ~Publishable(draft.ruleMap)

\* Mutant of GiveUp: the reconciler drops the error.
BugDropsError(i) ==
    /\ Fails(i)
    /\ serverDataConf' =
          DeleteIngress(WithoutIngress([serverDataConf EXCEPT !.cache = draft], i), i)
    /\ queue' = queue \ {i}
    /\ status' = [status EXCEPT ![i] = "error"]
    /\ Done
    /\ UNCHANGED <<object, clock>>

\* What was put in is removed again, and the reconciler withdraws the Ingress.
GiveUp(i) ==
    /\ Fails(i)
    /\ serverDataConf' =
          DeleteIngress(WithoutIngress([serverDataConf EXCEPT !.cache = draft], i), i)
    /\ status' = [status EXCEPT ![i] = "error"]
    /\ Done
    /\ UNCHANGED <<object, clock, queue>>

Advance(i) ==
    /\ i \in updating
    /\ Insert(i) \/ Overwrite(i) \/ Yield(i) \/ Publish(i) \/ GiveUp(i)

-----------------------------------------------------------------------------
(* The machine *)

WalkInit ==
    /\ Init
    /\ updating = {}
    /\ at = 1
    /\ draft = NewRouteRuleCache

Users ==
    \/ Tick
    \/ \E i \in Ingress : CreateIngress(i) \/ EditIngress(i) \/ RemoveIngress(i)

\* UpdateIngress of an object without rules returns at once.
NothingAsked(i) == SyncAccepted(i) /\ object[i].paths = <<>>

\* Mutant of Absent: a missing object is ignored.
BugAbsent(i) ==
    /\ i \in queue
    /\ object[i] = NoObject
    /\ queue' = queue \ {i}
    /\ status' = [status EXCEPT ![i] = "none"]
    /\ UNCHANGED <<object, clock, serverDataConf, updating, at, draft>>

Absent(i) == SyncAbsent(i) /\ UNCHANGED <<updating, at, draft>>

\* The worker takes a name from its queue.
Take(i) ==
    /\ updating = {}
    /\ \/ Begin(i)
       \/ NothingAsked(i) /\ UNCHANGED <<updating, at, draft>>
       \/ Absent(i)

WalkNext ==
    \/ /\ updating = {}
       /\ Users
       /\ UNCHANGED <<updating, at, draft>>
    \/ \E i \in Ingress : Take(i) \/ Advance(i)

WalkSpec == WalkInit /\ [][WalkNext]_walkVars

\* The worker takes names in turn, so each return of a rival may come first, and it
\* finishes what it has begun.
FairWalkSpec ==
    /\ WalkSpec
    /\ \A i \in Ingress : SF_walkVars(Take(i)) /\ WF_walkVars(Advance(i))

-----------------------------------------------------------------------------
(* Properties *)

\* The walk, path by path, amounts to the single step that ServerDataConfig makes of
\* it: the order in which put meets rules, its own and others', the replacement
\* in place and the error at any path make no other difference.
WalkIsOneStep == Spec

=============================================================================
