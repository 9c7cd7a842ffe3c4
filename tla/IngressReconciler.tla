-------------------------- MODULE IngressReconciler --------------------------
(***************************************************************************)
(* The Ingress reconcilers of the three API versions and what they tell    *)
(* users: Reconcile, the conversion to networking.k8s.io/v1, and the       *)
(* status annotation of controllers/ingress, netv1, netv1beta1 and         *)
(* extv1beta1.                                                             *)
(*                                                                         *)
(* A reconciler reads an Ingress from the informer's copy, which lags      *)
(* behind the API server, has the configuration changed, and then writes   *)
(* the outcome into an annotation of the object; that write is an event    *)
(* of its own, may fail, and a failure is only logged.  What               *)
(* ReconcileV1Ingress answers depends on Services, Secrets and rivals; it  *)
(* is given here, the other modules model it.                              *)
(***************************************************************************)
EXTENDS Integers, FiniteSets

CONSTANTS
    Ingress,
    Manifest,            \* what users write: [claim, form, annotated, note]
    Reason,              \* messages of errors
    NamelessService,     \* the error about a Service without name
    NoObject,            \* no such object
    Idle,                \* the worker does nothing
    MaxChanges           \* bound on the changes of users and their environment

API == {"netv1", "netv1beta1", "extv1beta1"}

\* How an object asks for the controller: by annotation, by class, or not at all.
Claim == {"annotation", "class", "other"}

\* Its rules: complete, one with a host only, one without path type, one with a
\* resource for a backend.
Form == {"plain", "hostOnly", "untyped", "resource"}

Error == Reason \cup {NamelessService}
Fine == "success"
Note == {"none", Fine} \cup Error

ObjectType == [claim: Claim, form: Form, annotated: BOOLEAN, note: Note]

\* What Reconcile still knows when it writes the status.
WorkType == [ingress: Ingress, copy: ObjectType, outcome: {Fine} \cup Error]

ASSUME ReconcilerAssumption ==
    /\ Manifest \subseteq ObjectType
    /\ \A m \in Manifest : m.claim = "annotation" \/ m.note # "none" => m.annotated
    /\ NoObject \notin ObjectType
    /\ Idle \notin WorkType
    /\ Error \cap {"none", Fine} = {}
    /\ MaxChanges \in Nat

VARIABLES
    api,         \* the reconciler that addController registered
    classKnown,  \* an IngressClass names the controller
    object,      \* Ingress objects of the API server
    reasons,     \* the errors ReconcileV1Ingress finds in each object
    changes,     \* changes of users and environment so far
    cache,       \* the informer's copies
    queue,       \* work queue
    work,        \* the object between configuration and status, or Idle
    configured,  \* Ingresses in the configuration
    running      \* FALSE while the process is down after a panic

vars == <<api, classKnown, object, reasons, changes, cache, queue, work, configured,
          running>>

environment == <<api, classKnown, object, reasons, changes>>
process == <<cache, queue, work, configured, running>>

Object(i) == object[i] # NoObject

\* IngressClassFilter.
Ours(o) == o.claim = "annotation" \/ (o.claim = "class" /\ classKnown)

Init ==
    /\ api \in API
    /\ classKnown \in BOOLEAN
    /\ object = [i \in Ingress |-> NoObject]
    /\ reasons = [i \in Ingress |-> {}]
    /\ changes = 0
    /\ cache = [i \in Ingress |-> NoObject]
    /\ queue = {}
    /\ work = Idle
    /\ configured = {}
    /\ running = TRUE

-----------------------------------------------------------------------------
(* Users, and what surrounds the Ingresses. *)

Changing ==
    /\ changes < MaxChanges
    /\ changes' = changes + 1
    /\ UNCHANGED <<api, process>>

\* The forms and claims that an API has.
Expressible(m) ==
    /\ m.form = "untyped" => api # "netv1"
    /\ m.form = "resource" => api # "extv1beta1"
    /\ m.claim = "class" => api # "extv1beta1"

\* An Ingress is created, replaced or deleted.  The note may come along from another
\* cluster.
ChangeIngress(i) ==
    /\ Changing
    /\ \E m \in {n \in Manifest : Expressible(n)} \cup {NoObject} :
          object' = [object EXCEPT ![i] = m]
    /\ UNCHANGED <<classKnown, reasons>>

\* Services, Endpoints, Secrets or rivals change; the object does not, and there is
\* no event.
ChangeReasons(i) ==
    /\ Changing
    /\ \E R \in SUBSET Reason : reasons' = [reasons EXCEPT ![i] = R]
    /\ UNCHANGED <<classKnown, object>>

\* Nobody watches IngressClasses.
ChangeClass ==
    /\ Changing
    /\ classKnown' = ~classKnown
    /\ UNCHANGED <<object, reasons>>

-----------------------------------------------------------------------------
(* The informer. *)

\* A watch event, or several at once, reach the cache and the queue.
Deliver(i) ==
    /\ running
    /\ cache[i] # object[i]
    /\ cache' = [cache EXCEPT ![i] = object[i]]
    /\ queue' = queue \cup {i}
    /\ UNCHANGED <<environment, work, configured, running>>

\* Every ten hours each object in the cache is queued.
Resync ==
    /\ running
    /\ queue' = queue \cup {i \in Ingress : cache[i] # NoObject}
    /\ UNCHANGED <<environment, cache, work, configured, running>>

-----------------------------------------------------------------------------
(* Reconcile. *)

Dequeue(i) ==
    /\ running
    /\ work = Idle
    /\ i \in queue
    /\ queue' = queue \ {i}
    /\ UNCHANGED <<environment, cache, running>>

\* Mutant of Forget: the configuration stays.
BugForget(i) ==
    /\ Dequeue(i)
    /\ cache[i] = NoObject
    /\ UNCHANGED <<work, configured>>

\* The object is gone.
Forget(i) ==
    /\ Dequeue(i)
    /\ cache[i] = NoObject
    /\ configured' = configured \ {i}
    /\ UNCHANGED work

\* The object is another controller's.
Skip(i) ==
    /\ Dequeue(i)
    /\ cache[i] # NoObject
    /\ ~Ours(cache[i])
    /\ UNCHANGED <<work, configured>>

\* convert of netv1beta1: a rule without HTTP part is passed over; a path type that is
\* not there is read all the same; a backend without Service gets a nameless one.
ConvertNetworking(form) ==
    CASE form = "plain"    -> "plain"
      [] form = "hostOnly" -> "plain"
      [] form = "untyped"  -> "panic"
      [] form = "resource" -> "nameless"

\* convert of extv1beta1: a missing HTTP part is read, too.
ConvertExtensions(form) ==
    IF form = "hostOnly" THEN "panic" ELSE ConvertNetworking(form)

\* The object of networking.k8s.io/v1.
Converted(form) ==
    CASE api = "netv1"      -> form
      [] api = "netv1beta1" -> ConvertNetworking(form)
      [] api = "extv1beta1" -> ConvertExtensions(form)

\* getIngressBackends reads the HTTP part of each rule and the Service of each path.
Panics(form) == Converted(form) \in {"panic", "hostOnly", "resource"}

\* getService finds no Service without name.
Errors(i, form) == IF Converted(form) = "nameless" THEN {NamelessService} ELSE reasons[i]

Outcomes(i, form) == IF Errors(i, form) = {} THEN {Fine} ELSE Errors(i, form)

\* ReconcileV1Ingress: the configuration has the Ingress, or an error is reported
\* and it has not.  Which one of several errors depends on the order of a Go map.
Apply(i) ==
    /\ Dequeue(i)
    /\ cache[i] # NoObject
    /\ Ours(cache[i])
    /\ ~Panics(cache[i].form)
    /\ \E outcome \in Outcomes(i, cache[i].form) :
          /\ configured' = IF outcome = Fine THEN configured \cup {i} ELSE configured \ {i}
          /\ work' = [ingress |-> i, copy |-> cache[i], outcome |-> outcome]

\* Mutant of Down: the configuration outlives the process.
BugDown ==
    /\ running' = FALSE
    /\ work' = Idle
    /\ queue' = {}
    /\ cache' = [i \in Ingress |-> NoObject]
    /\ UNCHANGED <<environment, configured>>

\* A panic: controller-runtime does not recover it.
Down ==
    /\ running' = FALSE
    /\ work' = Idle
    /\ queue' = {}
    /\ configured' = {}
    /\ cache' = [i \in Ingress |-> NoObject]
    /\ UNCHANGED environment

PanicOnForm(i) ==
    /\ running
    /\ work = Idle
    /\ i \in queue
    /\ cache[i] # NoObject
    /\ Ours(cache[i])
    /\ Panics(cache[i].form)
    /\ Down

-----------------------------------------------------------------------------
(* setStatus. *)

\* Mutant of SameStatus: two errors are equal, whatever their messages say.
BugSameStatus(outcome, note) ==
    IF outcome = Fine THEN note = Fine ELSE note \in Error

\* CompareStatus: the note says what the outcome is.
SameStatus(outcome, note) == note = outcome

\* Mutant of Finish: an error that was reported is done with.
BugFinish ==
    /\ work' = Idle
    /\ UNCHANGED <<api, classKnown, reasons, changes, cache, queue, configured, running>>

\* Reconcile returns; an error puts the name back.
Finish ==
    /\ work' = Idle
    /\ queue' = IF work.outcome = Fine THEN queue ELSE queue \cup {work.ingress}
    /\ UNCHANGED <<api, classKnown, reasons, changes, cache, configured, running>>

KnowsAlready ==
    /\ work # Idle
    /\ SameStatus(work.outcome, work.copy.note)
    /\ Finish
    /\ UNCHANGED object

Telling ==
    /\ work # Idle
    /\ ~SameStatus(work.outcome, work.copy.note)

\* The older reconcilers write into the annotations without looking whether there are
\* any.
NilAnnotations(o) == api # "netv1" /\ ~o.annotated

PanicOnStatus ==
    /\ Telling
    /\ NilAnnotations(work.copy)
    /\ Down

Noted(o, outcome) ==
    [claim |-> o.claim, form |-> o.form, annotated |-> TRUE, note |-> outcome]

\* The patch touches nothing but the note, of whatever the object is by now.
Tell(i) ==
    /\ Telling
    /\ work.ingress = i
    /\ ~NilAnnotations(work.copy)
    /\ Object(i)
    /\ object' = [object EXCEPT ![i] = Noted(@, work.outcome)]
    /\ Finish

TellFails ==
    /\ Telling
    /\ ~NilAnnotations(work.copy)
    /\ Finish
    /\ UNCHANGED object

\* The new process lists every object.
Restart ==
    /\ ~running
    /\ running' = TRUE
    /\ cache' = object
    /\ queue' = {i \in Ingress : Object(i)}
    /\ UNCHANGED <<environment, work, configured>>

Take(i) == Forget(i) \/ Skip(i) \/ Apply(i) \/ PanicOnForm(i)

Return == KnowsAlready \/ PanicOnStatus \/ TellFails \/ \E i \in Ingress : Tell(i)

Next ==
    \/ \E i \in Ingress : \/ ChangeIngress(i) \/ ChangeReasons(i)
                          \/ Deliver(i) \/ Take(i)
    \/ ChangeClass
    \/ Resync
    \/ Return
    \/ Restart

Spec == Init /\ [][Next]_vars

\* Watches deliver, the queue serves names in turn, a patch that is tried again and
\* again succeeds in the end, and the process is restarted.
Fairness ==
    /\ \A i \in Ingress : /\ WF_vars(Deliver(i))
                          /\ SF_vars(Take(i))
                          /\ SF_vars(Tell(i))
    /\ WF_vars(Return)
    /\ WF_vars(Resync)
    /\ WF_vars(Restart)

FairSpec == Spec /\ Fairness

-----------------------------------------------------------------------------
(* Properties *)

\* Objects, copies and the worker's notes have their shape.
TypeOK ==
    /\ api \in API
    /\ classKnown \in BOOLEAN
    /\ object \in [Ingress -> ObjectType \cup {NoObject}]
    /\ reasons \in [Ingress -> SUBSET Reason]
    /\ changes \in 0 .. MaxChanges
    /\ cache \in [Ingress -> ObjectType \cup {NoObject}]
    /\ queue \subseteq Ingress
    /\ work \in WorkType \cup {Idle}
    /\ configured \subseteq Ingress
    /\ running \in BOOLEAN
    /\ ~running => configured = {} /\ queue = {} /\ work = Idle
    /\ \A i \in Ingress : Object(i) /\ object[i].note # "none" => object[i].annotated

\* Nobody is about to look at the Ingress.
Quiet(i) ==
    /\ running
    /\ cache[i] = object[i]
    /\ i \notin queue
    /\ work # Idle => work.ingress # i

\* An Ingress that asks for the controller by annotation is configured, or a
\* synchronisation of it is due: not even an error whose report failed, or an event
\* during the report, makes the controller lose sight of it.
NeverLost ==
    \A i \in Ingress : Quiet(i) /\ Object(i) /\ object[i].claim = "annotation"
                       => i \in configured

\* A deleted Ingress has left the configuration, or its name is still to be looked at,
\* also when it was deleted during its own synchronisation.
GoneForgotten ==
    \A i \in Ingress : Quiet(i) /\ ~Object(i) => i \notin configured

\* An object that takes the process down whenever it is synchronised.
Poison(o) == Ours(o) /\ (Panics(o.form) \/ NilAnnotations(o))

\* The note says whether the Ingress is configured, or why it is not.
Told(i) ==
    Object(i) /\ Ours(object[i]) =>
        /\ object[i].note \in Outcomes(i, object[i].form)
        /\ i \in configured <=> Errors(i, object[i].form) = {}

\* In the end each user reads what became of the Ingress: not an older error, not the
\* message of another cluster, and not a success that did not last; unless an
\* object of some user keeps taking the process down.
ToldInTheEnd ==
    <>[](\A i \in Ingress : Object(i) => ~Poison(object[i]))
    => \A i \in Ingress : <>[]Told(i)

=============================================================================
