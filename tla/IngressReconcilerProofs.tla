----------------------- MODULE IngressReconcilerProofs -----------------------
(* Proofs of the safety properties of IngressReconciler, for any Ingresses, *)
(* manifests and errors.                                                    *)
EXTENDS IngressReconciler, TLAPS

\* What the informer last said about an Ingress has been acted on, unless its name is
\* queued or in work.
Settled(i) ==
    running /\ i \notin queue /\ (work # Idle => work.ingress # i) =>
        /\ cache[i] = NoObject => i \notin configured
        /\ cache[i] # NoObject /\ cache[i].claim = "annotation" => i \in configured

\* The worker's copy is the informer's, unless the name is queued again; and the
\* configuration is what the worker is about to report.
WorkSound ==
    work # Idle =>
        /\ cache[work.ingress] = NoObject => work.ingress \in queue
        /\ work.outcome = Fine => work.ingress \in configured

IInv == TypeOK /\ WorkSound /\ \A i \in Ingress : Settled(i)

LEMMA InitHolds == Init => IInv
  BY ReconcilerAssumption DEF Init, IInv, TypeOK, WorkSound, Settled, Object

LEMMA ManifestKept ==
    ASSUME TypeOK, NEW i \in Ingress, ChangeIngress(i)
    PROVE  TypeOK'
  <1>1. PICK m \in {n \in Manifest : Expressible(n)} \cup {NoObject} :
            object' = [object EXCEPT ![i] = m]
    BY DEF ChangeIngress
  <1>2. /\ m \in ObjectType \cup {NoObject}
        /\ m # NoObject /\ m.note # "none" => m.annotated
    BY ReconcilerAssumption
  <1>3. object' \in [Ingress -> ObjectType \cup {NoObject}]
    BY <1>1, <1>2 DEF TypeOK
  <1>4. \A j \in Ingress : object'[j] # NoObject /\ object'[j].note # "none"
                           => object'[j].annotated
    <2>. SUFFICES ASSUME NEW j \in Ingress, object'[j] # NoObject, object'[j].note # "none"
                  PROVE  object'[j].annotated
      OBVIOUS
    <2>1. CASE j = i
      BY <1>1, <1>2, <2>1 DEF TypeOK
    <2>2. CASE j # i
      BY <1>1, <2>2 DEF TypeOK, Object
    <2>. QED  BY <2>1, <2>2
  <1>. QED  BY <1>3, <1>4, ReconcilerAssumption
            DEF TypeOK, ChangeIngress, Changing, process, Object

LEMMA NoteKept ==
    ASSUME TypeOK, NEW i \in Ingress, Tell(i)
    PROVE  TypeOK'
  <1>1. /\ object' = [object EXCEPT ![i] = Noted(@, work.outcome)]
        /\ work \in WorkType
        /\ object[i] \in ObjectType
    BY DEF Tell, Telling, TypeOK, Object
  <1>2. /\ Noted(object[i], work.outcome) \in ObjectType
        /\ Noted(object[i], work.outcome).annotated = TRUE
    BY <1>1 DEF Noted, ObjectType, WorkType, Note
  <1>3. object' \in [Ingress -> ObjectType \cup {NoObject}]
    BY <1>1, <1>2 DEF TypeOK
  <1>4. \A j \in Ingress : object'[j] # NoObject /\ object'[j].note # "none"
                           => object'[j].annotated
    <2>. SUFFICES ASSUME NEW j \in Ingress, object'[j] # NoObject, object'[j].note # "none"
                  PROVE  object'[j].annotated
      OBVIOUS
    <2>1. CASE j = i
      <3>1. object'[j] = Noted(object[i], work.outcome)
        BY <1>1, <2>1 DEF TypeOK
      <3>. QED  BY <3>1, <1>2
    <2>2. CASE j # i
      BY <1>1, <2>2 DEF TypeOK, Object
    <2>. QED  BY <2>1, <2>2
  <1>5. /\ running' = running /\ configured' = configured /\ work' = Idle
        /\ queue' \subseteq Ingress
        /\ running
    BY <1>1, ReconcilerAssumption DEF Tell, Finish, TypeOK, WorkType, Telling
  <1>. QED  BY <1>3, <1>4, <1>5 DEF TypeOK, Tell, Finish, Object

LEMMA StepHolds ==
    ASSUME IInv, [Next]_vars
    PROVE  IInv'
  <1>. USE DEF IInv
  <1>1. ASSUME NEW i \in Ingress, ChangeIngress(i)
        PROVE  IInv'
    BY <1>1, ManifestKept DEF ChangeIngress, Changing, process, WorkSound, Settled
  <1>2. ASSUME NEW i \in Ingress, ChangeReasons(i)
        PROVE  IInv'
    <2>1. UNCHANGED <<api, process, classKnown, object>> /\ changes' \in 0 .. MaxChanges
      BY <1>2, ReconcilerAssumption DEF ChangeReasons, Changing, TypeOK
    <2>2. reasons' \in [Ingress -> SUBSET Reason]
      BY <1>2 DEF ChangeReasons, TypeOK
    <2>3. TypeOK'
      BY <2>1, <2>2 DEF TypeOK, process, Object
    <2>4. WorkSound' /\ \A j \in Ingress : Settled(j)'
      BY <2>1 DEF WorkSound, Settled, process
    <2>. QED  BY <2>3, <2>4
  <1>3. CASE ChangeClass
    <2>1. UNCHANGED <<api, process, reasons, object>> /\ changes' \in 0 .. MaxChanges
      BY <1>3, ReconcilerAssumption DEF ChangeClass, Changing, TypeOK
    <2>2. TypeOK'
      BY <1>3, <2>1 DEF ChangeClass, TypeOK, process, Object
    <2>3. WorkSound' /\ \A j \in Ingress : Settled(j)'
      BY <2>1 DEF WorkSound, Settled, process
    <2>. QED  BY <2>2, <2>3
  <1>4. ASSUME NEW i \in Ingress, Deliver(i)
        PROVE  IInv'
    <2>1. TypeOK'
      BY <1>4 DEF Deliver, environment, TypeOK, Object
    <2>2. WorkSound'
      BY <1>4 DEF Deliver, WorkSound, TypeOK, WorkType
    <2>3. \A j \in Ingress : Settled(j)'
      BY <1>4 DEF Deliver, Settled, TypeOK
    <2>. QED  BY <2>1, <2>2, <2>3
  <1>5. CASE Resync
    BY <1>5 DEF Resync, environment, WorkSound, Settled, TypeOK, Object
  <1>6. ASSUME NEW i \in Ingress, Take(i)
        PROVE  IInv'
    <2>1. CASE Forget(i)
      BY <2>1 DEF Forget, Dequeue, environment, WorkSound, Settled, TypeOK, Object
    <2>2. CASE Skip(i)
      BY <2>2 DEF Skip, Dequeue, Ours, environment, WorkSound, Settled, TypeOK, Object
    <2>3. CASE Apply(i)
      <3>1. PICK outcome \in Outcomes(i, cache[i].form) :
               /\ configured' = IF outcome = Fine THEN configured \cup {i}
                                ELSE configured \ {i}
               /\ work' = [ingress |-> i, copy |-> cache[i], outcome |-> outcome]
        BY <2>3 DEF Apply
      <3>2. outcome \in {Fine} \cup Error
        BY DEF Outcomes, Errors, Error, TypeOK
      <3>3. cache[i] \in ObjectType
        BY <2>3 DEF Apply, TypeOK
      <3>4. work' \in WorkType
        BY <3>1, <3>2, <3>3 DEF WorkType
      <3>5. TypeOK'
        BY <2>3, <3>1, <3>4 DEF Apply, Dequeue, environment, TypeOK, Object
      <3>6. WorkSound'
        BY <2>3, <3>1 DEF Apply, Dequeue, WorkSound
      <3>7. \A j \in Ingress : Settled(j)'
        <4>1. work' # Idle /\ work'.ingress = i
          BY <3>1, <3>4, ReconcilerAssumption
        <4>. QED  BY <2>3, <3>1, <4>1 DEF Apply, Dequeue, Settled
      <3>. QED  BY <3>5, <3>6, <3>7
    <2>4. CASE PanicOnForm(i)
      BY <2>4 DEF PanicOnForm, Down, environment, WorkSound, Settled, TypeOK, Object
    <2>. QED  BY <1>6, <2>1, <2>2, <2>3, <2>4 DEF Take
  <1>7. ASSUME Finish, WorkSound, work # Idle, UNCHANGED object
        PROVE  IInv'
    BY <1>7 DEF Finish, WorkSound, Settled, TypeOK, Object, WorkType
  <1>8. CASE Return
    <2>1. CASE PanicOnStatus
      BY <2>1 DEF PanicOnStatus, Down, environment, WorkSound, Settled, TypeOK, Object
    <2>2. CASE KnowsAlready \/ TellFails
      BY <2>2, <1>7 DEF KnowsAlready, TellFails, Telling
    <2>3. ASSUME NEW i \in Ingress, Tell(i)
          PROVE  IInv'
      <3>1. TypeOK'
        BY <2>3, NoteKept
      <3>2. WorkSound' /\ \A j \in Ingress : Settled(j)'
        BY <2>3 DEF Tell, Telling, Finish, WorkSound, Settled, TypeOK, WorkType
      <3>. QED  BY <3>1, <3>2
    <2>. QED  BY <1>8, <2>1, <2>2, <2>3 DEF Return
  <1>9. CASE Restart
    BY <1>9 DEF Restart, environment, WorkSound, Settled, TypeOK, Object
  <1>10. CASE UNCHANGED vars
    BY <1>10 DEF vars, WorkSound, Settled, TypeOK, Object
  <1>. QED  BY <1>1, <1>2, <1>3, <1>4, <1>5, <1>6, <1>8, <1>9, <1>10 DEF Next

\* The inductive invariant: the informer's copies have been acted on, and the worker
\* reports what the configuration has.
THEOREM Invariance == Spec => []IInv
  BY InitHolds, StepHolds, PTL DEF Spec

\* Objects, copies and the worker's notes keep their shape, also across panics.
THEOREM Typing == Spec => []TypeOK
  BY Invariance, PTL DEF IInv

\* No Ingress that asks by annotation is lost sight of.
THEOREM NoneLost == Spec => []NeverLost
  <1>1. IInv => NeverLost
    BY DEF IInv, NeverLost, Quiet, Settled, Object
  <1>. QED  BY <1>1, Invariance, PTL

\* No deleted Ingress stays configured.
THEOREM GoneIsGone == Spec => []GoneForgotten
  <1>1. IInv => GoneForgotten
    BY DEF IInv, GoneForgotten, Quiet, Settled, Object
  <1>. QED  BY <1>1, Invariance, PTL

=============================================================================
