--------------------------- MODULE TLSConfigProofs ---------------------------
(* Proofs about TLSConfig, for any Ingresses, Secrets and lists of Secrets. *)
EXTENDS TLSConfig, TLAPS

Contents == [Secret -> {NoObject} \cup Content]

-----------------------------------------------------------------------------
(* What the operations do to the three parts of a configuration. *)

LEMMA ListedSecrets ==
    ASSUME NEW tls \in Manifest
    PROVE  Listed(tls) \subseteq Secret
  BY TLSAssumption DEF Listed

LEMMA TakenFacts ==
    ASSUME NEW tls \in Manifest, NEW secrets \in Contents,
           \A s \in Listed(tls) : secrets[s] # NoObject
    PROVE  /\ Taken(tls, secrets) \subseteq Listed(tls)
           /\ \A s \in Taken(tls, secrets) : secrets[s] \in Content \ BadContent
  <1>1. Taken(tls, secrets) \subseteq Listed(tls)
    BY DEF Taken, Listed
  <1>2. \A s \in Taken(tls, secrets) : secrets[s] \notin BadContent
    BY TLSAssumption DEF Taken
  <1>. QED  BY <1>1, <1>2, ListedSecrets DEF Contents

LEMMA UpdateIngressFacts ==
    ASSUME NEW conf \in Configuration, NEW i \in Ingress,
           NEW tls \in Manifest, NEW secrets \in Contents,
           \A s \in Listed(tls) : secrets[s] # NoObject,
           NEW new, new = UpdateIngress(conf, i, tls, secrets).conf
    PROVE  /\ new \in Configuration
           /\ new.ingress2secret[i] = conf.ingress2secret[i] \cup Listed(tls)
           /\ \A j \in Ingress \ {i} : new.ingress2secret[j] = conf.ingress2secret[j]
           /\ \A s \in Taken(tls, secrets) : new.certs[s] = secrets[s]
           /\ \A s \in Secret \ Taken(tls, secrets) : new.certs[s] = conf.certs[s]
           /\ new.changed = (conf.changed \/ Taken(tls, secrets) # {})
  <1>. DEFINE taken == Taken(tls, secrets)
  <1>1. new = [ingress2secret |-> [conf.ingress2secret EXCEPT ![i] = @ \cup Listed(tls)],
               certs          |-> [s \in Secret |-> IF s \in taken THEN secrets[s]
                                                    ELSE conf.certs[s]],
               changed        |-> conf.changed \/ taken # {}]
    BY DEF UpdateIngress
  <1>2. taken \subseteq Listed(tls) /\ \A s \in taken : secrets[s] \in Content \ BadContent
    BY TakenFacts
  <1>3. Listed(tls) \subseteq Secret
    BY ListedSecrets
  <1>4. /\ conf.ingress2secret \in [Ingress -> SUBSET Secret]
        /\ conf.certs \in [Secret -> {Nil} \cup (Content \ BadContent)]
        /\ conf.changed \in BOOLEAN
    BY DEF Configuration, Certificates
  <1>. HIDE DEF taken
  <1>5. new.ingress2secret \in [Ingress -> SUBSET Secret]
    BY <1>1, <1>3, <1>4
  <1>6. new.certs \in [Secret -> {Nil} \cup (Content \ BadContent)]
    BY <1>1, <1>2, <1>4
  <1>7. new.changed = (conf.changed \/ taken # {})
    BY <1>1
  <1>8. new \in Configuration
    BY <1>1, <1>5, <1>6, <1>7 DEF Configuration, Certificates
  <1>9. /\ new.ingress2secret[i] = conf.ingress2secret[i] \cup Listed(tls)
        /\ \A j \in Ingress \ {i} : new.ingress2secret[j] = conf.ingress2secret[j]
    BY <1>1, <1>4
  <1>10. /\ \A s \in taken : new.certs[s] = secrets[s]
         /\ \A s \in Secret \ taken : new.certs[s] = conf.certs[s]
    BY <1>1, <1>2, <1>3
  <1>. QED  BY <1>7, <1>8, <1>9, <1>10 DEF taken

LEMMA DeleteIngressFacts ==
    ASSUME NEW conf \in Configuration, NEW i \in Ingress,
           Named(conf) \subseteq Used(conf),
           NEW new, new = DeleteIngress(conf, i)
    PROVE  /\ new \in Configuration
           /\ new.ingress2secret[i] = {}
           /\ \A j \in Ingress \ {i} : new.ingress2secret[j] = conf.ingress2secret[j]
           /\ \A s \in Used(new) : s \in Secret /\ new.certs[s] = conf.certs[s]
           /\ \A s \in Secret \ Used(new) : new.certs[s] = Nil
           /\ new.certs = conf.certs \/ new.changed
           /\ new.certs = conf.certs => new.changed = conf.changed
  <1>1. /\ conf.ingress2secret \in [Ingress -> SUBSET Secret]
        /\ conf.certs \in [Secret -> {Nil} \cup (Content \ BadContent)]
        /\ conf.changed \in BOOLEAN
    BY DEF Configuration, Certificates
  <1>2. CASE conf.ingress2secret[i] = {}
    <2>1. new = conf
      BY <1>2 DEF DeleteIngress
    <2>. QED  BY <1>1, <1>2, <2>1 DEF Named, Used
  <1>3. CASE conf.ingress2secret[i] # {}
    <2>. DEFINE index == [conf.ingress2secret EXCEPT ![i] = {}]
                used  == UNION {index[j] : j \in Ingress}
                gone  == Named(conf) \ used
                certs == [s \in Secret |-> IF s \in gone THEN Nil ELSE conf.certs[s]]
    <2>1. new = [ingress2secret |-> index, certs |-> certs,
                 changed |-> conf.changed \/ gone # {}]
      <3>1. conf = [ingress2secret |-> conf.ingress2secret, certs |-> conf.certs,
                    changed |-> conf.changed]
        BY DEF Configuration
      <3>2. [conf EXCEPT !.ingress2secret = [@ EXCEPT ![i] = {}]]
              = [ingress2secret |-> index, certs |-> conf.certs, changed |-> conf.changed]
        BY <3>1
      <3>3. Used([conf EXCEPT !.ingress2secret = [@ EXCEPT ![i] = {}]]) = used
        BY <3>2 DEF Used
      <3>. HIDE DEF index, used
      <3>. QED  BY <1>3, <3>2, <3>3 DEF DeleteIngress
    <2>2. index \in [Ingress -> SUBSET Secret]
      BY <1>1
    <2>3. certs \in [Secret -> {Nil} \cup (Content \ BadContent)]
      BY <1>1
    <2>4. Used(new) = used /\ used \subseteq Secret
      BY <2>1, <2>2 DEF Used
    <2>5. /\ index[i] = {}
          /\ \A j \in Ingress \ {i} : index[j] = conf.ingress2secret[j]
      BY <1>1
    <2>6. \A s \in Secret : s \in used => certs[s] = conf.certs[s]
      OBVIOUS
    <2>7. \A s \in Secret : s \notin used => certs[s] = Nil
      BY DEF Named
    <2>8. gone = {} <=> certs = conf.certs
      <3>1. ASSUME gone = {}
            PROVE  certs = conf.certs
        BY <3>1, <1>1
      <3>2. ASSUME certs = conf.certs, NEW s \in gone
            PROVE  FALSE
        BY <3>2 DEF Named
      <3>. QED  BY <3>1, <3>2
    <2>9. new \in Configuration
      BY <2>1, <2>2, <2>3 DEF Configuration, Certificates
    <2>. HIDE DEF index, used, gone, certs
    <2>10. new.ingress2secret = index /\ new.certs = certs
           /\ new.changed = (conf.changed \/ gone # {})
      BY <2>1
    <2>. QED  BY <1>1, <2>4, <2>5, <2>6, <2>7, <2>8, <2>9, <2>10
  <1>. QED  BY <1>2, <1>3

LEMMA UpdateSecretFacts ==
    ASSUME NEW conf \in Configuration, NEW s \in Secret, NEW content \in Content,
           NEW new, new = UpdateSecret(conf, s, content).conf
    PROVE  /\ new \in Configuration
           /\ new.ingress2secret = conf.ingress2secret
           /\ \A r \in Secret \ {s} : new.certs[r] = conf.certs[r]
           /\ \/ new = conf /\ (s \notin Used(conf) \/ content \in BadContent)
              \/ /\ s \in Used(conf)
                 /\ new.certs[s] = content
                 /\ content \notin BadContent
                 /\ new.changed
  <1>1. /\ conf.ingress2secret \in [Ingress -> SUBSET Secret]
        /\ conf.certs \in [Secret -> {Nil} \cup (Content \ BadContent)]
        /\ conf.changed \in BOOLEAN
    BY DEF Configuration, Certificates
  <1>2. CASE s \notin Used(conf) \/ content \in BadContent
    BY <1>2 DEF UpdateSecret
  <1>3. CASE s \in Used(conf) /\ content \notin BadContent
    <2>1. new = [conf EXCEPT !.certs = [@ EXCEPT ![s] = content], !.changed = TRUE]
      BY <1>3 DEF UpdateSecret
    <2>2. new = [ingress2secret |-> conf.ingress2secret,
                 certs |-> [conf.certs EXCEPT ![s] = content], changed |-> TRUE]
      BY <2>1 DEF Configuration
    <2>3. [conf.certs EXCEPT ![s] = content] \in [Secret -> {Nil} \cup (Content \ BadContent)]
      BY <1>1, <1>3
    <2>. QED  BY <1>1, <1>3, <2>2, <2>3 DEF Configuration, Certificates
  <1>. QED  BY <1>2, <1>3

-----------------------------------------------------------------------------
(* The inductive invariant. *)

\* The Ingress that was refused and is still to be withdrawn.
Withdrawn == IF At("withdraw") THEN {working.ingress} ELSE {}

\* A configuration and the statuses of the Ingresses fit together: UsersServed.
Serves(conf, st, out) ==
    \A i \in Ingress \ out :
        IF st[i] = "success"
        THEN conf.ingress2secret[i] \subseteq Named(conf)
        ELSE conf.ingress2secret[i] = {}

\* A certificate is that of its Secret, unless an event of the Secret is to come or
\* was overtaken, or the Secret is gone or holds no key pair.
Fresh(conf, missed) ==
    \A s \in Named(conf) :
        \/ s \in secretQueue \cup missed
        \/ secret[s] \in {NoObject} \cup BadContent \cup {conf.certs[s]}

IInv ==
    /\ TypeOK
    /\ CertsUsed
    /\ Serves(tlsConf, status, Withdrawn)
    /\ KeysRemoved
    /\ Fresh(tlsConf, overtaken)
    /\ ServedUnlessChanged

\* What a new TLSConfig has.
LEMMA NewFacts ==
    /\ NewTLSConfig \in Configuration
    /\ Named(NewTLSConfig) = {}
    /\ \A i \in Ingress : NewTLSConfig.ingress2secret[i] = {}
    /\ NewTLSConfig.changed
  <1>1. /\ NewTLSConfig.ingress2secret = [i \in Ingress |-> {}]
        /\ NewTLSConfig.certs = [s \in Secret |-> Nil]
        /\ NewTLSConfig.changed = TRUE
    BY DEF NewTLSConfig
  <1>2. NewTLSConfig \in Configuration
    BY DEF NewTLSConfig, Configuration, Certificates
  <1>. QED  BY <1>1, <1>2 DEF Named

LEMMA InitHolds == Init => IInv
  <1>. SUFFICES ASSUME Init
                PROVE  IInv
    OBVIOUS
  <1>1. TypeOK
    BY NewFacts DEF Init, TypeOK, NoFiles, Certificates
  <1>2. Serves(tlsConf, status, Withdrawn) /\ KeysRemoved
    BY NewFacts DEF Init, Serves, KeysRemoved, NoFiles
  <1>. QED  BY <1>1, <1>2, NewFacts DEF Init, IInv, CertsUsed, Fresh, ServedUnlessChanged

\* What a synchronisation of an Ingress owes to the invariant.
LEMMA ConfiguredHolds ==
    ASSUME IInv, NEW new \in Configuration, Configured(new),
           queue' \subseteq Ingress,
           status' \in [Ingress -> {"none", "success", "error"}],
           working' \in {Nil} \cup Note,
           overtaken' \subseteq Secret,
           Named(new) \subseteq Used(new),
           Serves(new, status', Withdrawn'),
           Fresh(new, overtaken'),
           new.changed \/ (new.certs = tlsConf.certs /\ ~tlsConf.changed)
    PROVE  IInv'
  <1>1. PICK stuck \in SUBSET (Named(tlsConf) \ Named(new)) :
          /\ tlsConf' = new
          /\ files' = DeleteCerts(tlsConf, new, files, stuck)
          /\ left' = {s \in (left \cup stuck) \ Named(new) : files[s] # Nil}
          /\ UNCHANGED <<object, secret, secretQueue, certConf, served>>
    BY DEF Configured
  <1>2. files' \in Certificates
    BY <1>1 DEF IInv, TypeOK, DeleteCerts, Certificates
  <1>3. left' \subseteq Secret
    BY <1>1 DEF IInv, TypeOK, Named
  <1>4. TypeOK'
    BY <1>1, <1>2, <1>3 DEF IInv, TypeOK
  <1>5. CertsUsed' /\ Serves(tlsConf, status, Withdrawn)' /\ Fresh(tlsConf, overtaken)'
    BY <1>1 DEF CertsUsed, Serves, Fresh, Named, Used
  <1>6. KeysRemoved'
    <2>. SUFFICES ASSUME NEW s \in Secret, files'[s] # Nil, s \notin Named(new)
                  PROVE  s \in left'
      BY <1>1 DEF KeysRemoved, Named
    <2>1. s \in Named(tlsConf) => s \in stuck
      BY <1>1 DEF DeleteCerts
    <2>2. files[s] # Nil
      BY <1>1 DEF DeleteCerts
    <2>. QED  BY <1>1, <2>1, <2>2 DEF IInv, KeysRemoved
  <1>7. ServedUnlessChanged'
    <2>. SUFFICES ASSUME ~new.changed
                  PROVE  /\ served' = new.certs
                         /\ certConf' = Named(new)
                         /\ \A s \in certConf' : files'[s] = new.certs[s]
      BY <1>1 DEF ServedUnlessChanged, Named
    <2>1. new.certs = tlsConf.certs /\ ~tlsConf.changed
      OBVIOUS
    <2>2. Named(new) = Named(tlsConf)
      BY <2>1 DEF Named
    <2>3. files' = files
      BY <1>1, <2>2 DEF DeleteCerts, IInv, TypeOK, Certificates
    <2>. QED  BY <1>1, <2>1, <2>2, <2>3 DEF IInv, ServedUnlessChanged
  <1>. QED  BY <1>4, <1>5, <1>6, <1>7 DEF IInv

\* Deleting an Ingress from a sound configuration.
LEMMA DeletionSound ==
    ASSUME NEW conf \in Configuration, NEW i \in Ingress, NEW st, NEW missed,
           Named(conf) \subseteq Used(conf),
           Serves(conf, st, {i}),
           st[i] # "success",
           Fresh(conf, missed),
           NEW new, new = DeleteIngress(conf, i)
    PROVE  /\ new \in Configuration
           /\ Named(new) \subseteq Used(new)
           /\ Serves(new, st, {})
           /\ Fresh(new, missed \cap Named(new))
           /\ new.changed \/ (new.certs = conf.certs /\ ~conf.changed)
  <1>1. /\ new \in Configuration
        /\ new.ingress2secret[i] = {}
        /\ \A j \in Ingress \ {i} : new.ingress2secret[j] = conf.ingress2secret[j]
        /\ \A s \in Used(new) : s \in Secret /\ new.certs[s] = conf.certs[s]
        /\ \A s \in Secret \ Used(new) : new.certs[s] = Nil
        /\ new.certs = conf.certs \/ new.changed
        /\ new.certs = conf.certs => new.changed = conf.changed
    BY DeleteIngressFacts
  <1>2. Named(new) \subseteq Used(new)
    BY <1>1 DEF Named
  <1>3. Serves(new, st, {})
    <2>. SUFFICES ASSUME NEW j \in Ingress, st[j] = "success"
                  PROVE  new.ingress2secret[j] \subseteq Named(new)
      BY <1>1 DEF Serves
    <2>1. j # i
      OBVIOUS
    <2>2. new.ingress2secret[j] \subseteq Named(conf)
      BY <1>1, <2>1 DEF Serves
    <2>3. new.ingress2secret[j] \subseteq Used(new)
      BY DEF Used
    <2>. QED  BY <1>1, <2>2, <2>3 DEF Named
  <1>4. Fresh(new, missed \cap Named(new))
    BY <1>1, <1>2 DEF Fresh, Named
  <1>. QED  BY <1>1, <1>2, <1>3, <1>4

\* Taking in an Ingress from copies of its Secrets keeps everything but what its own
\* status says.
LEMMA UpdateSound ==
    ASSUME IInv, NEW i \in Ingress, NEW tls \in Manifest, NEW copies \in Contents,
           Ready(tls, copies),
           NEW new, new = UpdateIngress(tlsConf, i, tls, copies).conf
    PROVE  /\ new \in Configuration
           /\ Named(new) = Named(tlsConf) \cup Taken(tls, copies)
           /\ Named(new) \subseteq Used(new)
           /\ Fresh(new, Overtaken(Taken(tls, copies), copies))
           /\ Overtaken(Taken(tls, copies), copies) \subseteq Secret
           /\ new.ingress2secret[i] = tlsConf.ingress2secret[i] \cup Listed(tls)
           /\ \A j \in Ingress \ {i} : new.ingress2secret[j] = tlsConf.ingress2secret[j]
           /\ new.changed \/ (new.certs = tlsConf.certs /\ ~tlsConf.changed)
  <1>. DEFINE taken == Taken(tls, copies)
  <1>1. /\ tlsConf \in Configuration
        /\ \A s \in Listed(tls) : copies[s] # NoObject
    BY DEF IInv, TypeOK, Ready
  <1>2. /\ new \in Configuration
        /\ new.ingress2secret[i] = tlsConf.ingress2secret[i] \cup Listed(tls)
        /\ \A j \in Ingress \ {i} : new.ingress2secret[j] = tlsConf.ingress2secret[j]
        /\ \A s \in taken : new.certs[s] = copies[s]
        /\ \A s \in Secret \ taken : new.certs[s] = tlsConf.certs[s]
        /\ new.changed = (tlsConf.changed \/ taken # {})
    BY <1>1, UpdateIngressFacts
  <1>3. /\ taken \subseteq Listed(tls)
        /\ \A s \in taken : copies[s] \in Content \ BadContent
        /\ Listed(tls) \subseteq Secret
    BY <1>1, TakenFacts, ListedSecrets
  <1>. HIDE DEF taken
  <1>4. Named(new) = Named(tlsConf) \cup taken
    BY <1>2, <1>3, TLSAssumption DEF Named
  <1>5. Used(tlsConf) \cup Listed(tls) \subseteq Used(new)
    BY <1>2 DEF Used
  <1>6. Named(new) \subseteq Used(new)
    BY <1>3, <1>4, <1>5 DEF IInv, CertsUsed
  <1>7. Fresh(new, Overtaken(taken, copies))
    BY <1>2, <1>3, <1>4 DEF Fresh, Overtaken, IInv, Named
  <1>8. Overtaken(taken, copies) \subseteq Secret
    BY <1>3 DEF Overtaken, IInv, TypeOK
  <1>9. new.changed \/ (new.certs = tlsConf.certs /\ ~tlsConf.changed)
    <2>1. ASSUME taken = {}
          PROVE  new.certs = tlsConf.certs
      BY <1>1, <1>2, <2>1 DEF Configuration, Certificates
    <2>. QED  BY <1>2, <2>1
  <1>. QED  BY <1>2, <1>4, <1>6, <1>7, <1>8, <1>9 DEF taken

\* What the reconciler keeps is a note, of either kind.
LEMMA WorkingFacts ==
    ASSUME TypeOK, working # Nil
    PROVE  /\ working.ingress \in Ingress
           /\ At("update") => /\ working.tls \in Manifest /\ working.secrets \in Contents
                              /\ Withdrawn = {}
           /\ At("withdraw") => Withdrawn = {working.ingress}
  BY DEF TypeOK, Note, At, Contents, Withdrawn

\* An Ingress that goes, or is withdrawn.
LEMMA DeletedHolds ==
    ASSUME IInv, NEW i \in Ingress, NEW outcome \in {"none", "error"},
           Withdrawn \subseteq {i}, working' = Nil,
           status' = [status EXCEPT ![i] = outcome],
           queue' \subseteq Ingress,
           overtaken' = overtaken \cap Named(tlsConf'),
           Configured(DeleteIngress(tlsConf, i))
    PROVE  IInv'
  <1>. DEFINE new == DeleteIngress(tlsConf, i)
  <1>1. /\ status' \in [Ingress -> {"none", "success", "error"}]
        /\ status'[i] # "success"
        /\ \A j \in Ingress \ {i} : status'[j] = status[j]
    BY DEF IInv, TypeOK
  <1>2. Serves(tlsConf, status', {i})
    BY <1>1 DEF IInv, Serves
  <1>3. /\ new \in Configuration
        /\ Named(new) \subseteq Used(new)
        /\ Serves(new, status', {})
        /\ Fresh(new, overtaken \cap Named(new))
        /\ new.changed \/ (new.certs = tlsConf.certs /\ ~tlsConf.changed)
    BY <1>1, <1>2, DeletionSound DEF IInv, TypeOK, CertsUsed
  <1>4. /\ tlsConf' = new /\ Configured(new) /\ overtaken' = overtaken \cap Named(new)
        /\ overtaken' \subseteq Secret
    BY DEF Configured, IInv, TypeOK, Named
  <1>5. Withdrawn' = {}
    BY DEF Withdrawn, At
  <1>. HIDE DEF new
  <1>. QED  BY <1>1, <1>3, <1>4, <1>5, ConfiguredHolds

LEMMA AcceptedHolds ==
    ASSUME IInv, SyncAccepted
    PROVE  IInv'
  <1>. DEFINE i   == working.ingress
              tls == working.tls
              new == UpdateIngress(tlsConf, i, tls, working.secrets).conf
  <1>1. /\ i \in Ingress /\ tls \in Manifest /\ working.secrets \in Contents
        /\ Withdrawn = {}
        /\ status \in [Ingress -> {"none", "success", "error"}]
    BY WorkingFacts DEF SyncAccepted, At, IInv, TypeOK
  <1>2. /\ Ready(tls, working.secrets)
        /\ Taken(tls, working.secrets) = Listed(tls)
        /\ Configured(new)
        /\ status' = [status EXCEPT ![i] = "success"]
        /\ overtaken' = Overtaken(Taken(tls, working.secrets), working.secrets)
        /\ working' = Nil /\ queue' = queue
    BY DEF SyncAccepted, UpdateIngress
  <1>3. /\ new \in Configuration
        /\ Named(new) = Named(tlsConf) \cup Listed(tls)
        /\ Named(new) \subseteq Used(new)
        /\ Fresh(new, overtaken') /\ overtaken' \subseteq Secret
        /\ new.ingress2secret[i] = tlsConf.ingress2secret[i] \cup Listed(tls)
        /\ \A j \in Ingress \ {i} : new.ingress2secret[j] = tlsConf.ingress2secret[j]
        /\ new.changed \/ (new.certs = tlsConf.certs /\ ~tlsConf.changed)
    <2>. DEFINE taken == Taken(tls, working.secrets)
    <2>1. /\ new \in Configuration
          /\ Named(new) = Named(tlsConf) \cup taken
          /\ Named(new) \subseteq Used(new)
          /\ Fresh(new, Overtaken(taken, working.secrets))
          /\ Overtaken(taken, working.secrets) \subseteq Secret
          /\ new.ingress2secret[i] = tlsConf.ingress2secret[i] \cup Listed(tls)
          /\ \A j \in Ingress \ {i} : new.ingress2secret[j] = tlsConf.ingress2secret[j]
          /\ new.changed \/ (new.certs = tlsConf.certs /\ ~tlsConf.changed)
      <3>. HIDE DEF i, tls
      <3>. QED  BY <1>1, <1>2, UpdateSound
    <2>. HIDE DEF i, tls, new
    <2>. QED  BY <1>2, <2>1
  <1>. HIDE DEF i, tls, new
  <1>4. /\ status' \in [Ingress -> {"none", "success", "error"}]
        /\ status'[i] = "success"
        /\ \A j \in Ingress \ {i} : status'[j] = status[j]
    BY <1>1, <1>2
  <1>5. Serves(new, status', {})
    <2>. SUFFICES ASSUME NEW j \in Ingress
                  PROVE  IF status'[j] = "success"
                         THEN new.ingress2secret[j] \subseteq Named(new)
                         ELSE new.ingress2secret[j] = {}
      BY DEF Serves
    <2>1. IF status[j] = "success"
          THEN tlsConf.ingress2secret[j] \subseteq Named(tlsConf)
          ELSE tlsConf.ingress2secret[j] = {}
      BY <1>1 DEF IInv, Serves
    <2>2. CASE j = i
      BY <1>3, <1>4, <2>1, <2>2
    <2>3. CASE j # i
      BY <1>3, <1>4, <2>1, <2>3
    <2>. QED  BY <2>2, <2>3
  <1>6. Withdrawn' = {}
    BY <1>2 DEF Withdrawn, At
  <1>. QED  BY <1>2, <1>3, <1>4, <1>5, <1>6, ConfiguredHolds DEF IInv, TypeOK

LEMMA RefusedHolds ==
    ASSUME IInv, SyncRefused
    PROVE  IInv'
  <1>. DEFINE i   == working.ingress
              tls == working.tls
              mid == UpdateIngress(tlsConf, i, tls, working.secrets).conf
  <1>1. /\ i \in Ingress /\ tls \in Manifest /\ working.secrets \in Contents
        /\ Withdrawn = {}
        /\ working' = [stage |-> "withdraw", ingress |-> i]
        /\ UNCHANGED <<queue, status>>
    BY WorkingFacts DEF SyncRefused, At, IInv
  <1>2. /\ working' \in Note /\ working' # Nil
        /\ Withdrawn' = {i}
    BY <1>1, TLSAssumption DEF Note, Withdrawn, At
  <1>3. ASSUME NEW new \in Configuration, Configured(new), overtaken' \subseteq Secret,
               Named(tlsConf) \subseteq Named(new), Named(new) \subseteq Used(new),
               Fresh(new, overtaken'),
               \A j \in Ingress \ {i} : new.ingress2secret[j] = tlsConf.ingress2secret[j],
               new.changed \/ (new.certs = tlsConf.certs /\ ~tlsConf.changed)
        PROVE  IInv'
    <2>1. Serves(new, status', {i})
      BY <1>1, <1>3 DEF IInv, Serves
    <2>. QED  BY <1>1, <1>2, <1>3, <2>1, ConfiguredHolds DEF IInv, TypeOK
  <1>4. CASE Configured(tlsConf) /\ UNCHANGED overtaken
    BY <1>3, <1>4 DEF IInv, TypeOK, CertsUsed, Configuration
  <1>5. CASE /\ Ready(tls, working.secrets)
             /\ Configured(mid)
             /\ overtaken' = Overtaken(Taken(tls, working.secrets), working.secrets)
    <2>1. /\ mid \in Configuration
          /\ Named(mid) = Named(tlsConf) \cup Taken(tls, working.secrets)
          /\ Named(mid) \subseteq Used(mid)
          /\ Fresh(mid, overtaken') /\ overtaken' \subseteq Secret
          /\ \A j \in Ingress \ {i} : mid.ingress2secret[j] = tlsConf.ingress2secret[j]
          /\ mid.changed \/ (mid.certs = tlsConf.certs /\ ~tlsConf.changed)
      <3>. HIDE DEF i, tls
      <3>. QED  BY <1>1, <1>5, UpdateSound
    <2>. HIDE DEF mid
    <2>. QED  BY <1>3, <1>5, <2>1
  <1>. QED  BY <1>4, <1>5 DEF SyncRefused

LEMMA SyncHolds ==
    ASSUME IInv, \/ \E i \in Ingress : SyncAbsent(i)
                 \/ Withdraw
    PROVE  IInv'
  <1>1. ASSUME NEW i \in Ingress, SyncAbsent(i)
        PROVE  IInv'
    <2>1. Withdrawn = {} /\ working' = Nil /\ queue' \subseteq Ingress
      BY <1>1 DEF SyncAbsent, Withdrawn, At, IInv, TypeOK
    <2>. QED  BY <1>1, <2>1, DeletedHolds DEF SyncAbsent
  <1>2. CASE Withdraw
    <2>1. /\ working.ingress \in Ingress
          /\ Withdrawn = {working.ingress}
      BY <1>2, WorkingFacts DEF Withdraw, At, IInv
    <2>2. queue' \subseteq Ingress
      BY <1>2, <2>1 DEF Withdraw, IInv, TypeOK
    <2>. QED  BY <1>2, <2>1, <2>2, DeletedHolds DEF Withdraw
  <1>. QED  BY <1>1, <1>2

\* Reading changes nothing but the note.
LEMMA ReadHolds ==
    ASSUME IInv, \/ \E i \in Ingress : ReadIngress(i)
                 \/ \E s \in Secret : ReadSecret(s)
    PROVE  IInv'
  <1>1. /\ UNCHANGED <<object, secret, secretQueue, status, tlsConf, certConf, files, served,
                       overtaken, left>>
        /\ queue' \subseteq queue
    BY DEF ReadIngress, ReadSecret
  <1>2. /\ working' \in Note
        /\ Withdrawn = {} /\ Withdrawn' = {}
    <2>1. ASSUME NEW i \in Ingress, ReadIngress(i)
          PROVE  /\ working' \in Note
                 /\ Withdrawn = {} /\ Withdrawn' = {}
      <3>1. /\ working = Nil
            /\ working' = [stage |-> "update", ingress |-> i, tls |-> object[i],
                           secrets |-> [s \in Secret |-> IF s \in Listed(object[i])
                                                         THEN secret[s] ELSE NoObject]]
            /\ object[i] \in Manifest
        BY <2>1 DEF ReadIngress, IInv, TypeOK
      <3>2. [s \in Secret |-> IF s \in Listed(object[i]) THEN secret[s] ELSE NoObject]
                \in [Secret -> {NoObject} \cup Content]
        BY DEF IInv, TypeOK
      <3>. QED  BY <3>1, <3>2 DEF Note, Withdrawn, At
    <2>2. ASSUME NEW s \in Secret, ReadSecret(s)
          PROVE  /\ working' \in Note
                 /\ Withdrawn = {} /\ Withdrawn' = {}
      <3>1. /\ working \in [stage: {"update"}, ingress: Ingress, tls: Manifest,
                            secrets: [Secret -> {NoObject} \cup Content]]
            /\ secret[s] \in {NoObject} \cup Content
            /\ working' = [working EXCEPT !.secrets = [@ EXCEPT ![s] = secret[s]]]
            /\ Withdrawn = {}
        BY <2>2 DEF ReadSecret, At, Withdrawn, IInv, TypeOK, Note
      <3>2. working' \in [stage: {"update"}, ingress: Ingress, tls: Manifest,
                          secrets: [Secret -> {NoObject} \cup Content]]
        BY <3>1
      <3>. QED  BY <3>1, <3>2 DEF Note, Withdrawn, At
    <2>. QED  BY <2>1, <2>2
  <1>3. TypeOK'
    BY <1>1, <1>2 DEF IInv, TypeOK
  <1>. QED  BY <1>1, <1>2, <1>3 DEF IInv, CertsUsed, Serves, KeysRemoved, Fresh,
                                    ServedUnlessChanged, Named, Used

\* A new process forgets everything but the files.
LEMMA RestartHolds ==
    ASSUME IInv, Restart
    PROVE  IInv'
  <1>1. /\ tlsConf' = NewTLSConfig
        /\ working' = Nil
        /\ status' = [i \in Ingress |-> "none"]
        /\ left' = {s \in Secret : files'[s] # Nil}
    BY DEF Restart
  <1>2. certConf' \subseteq Secret /\ files' \in Certificates
    BY DEF Restart, IInv, TypeOK, NoFiles, Certificates
  <1>3. served' \in Certificates
    BY <1>2 DEF Restart, Certificates
  <1>4. TypeOK'
    BY <1>1, <1>2, <1>3, NewFacts DEF Restart, IInv, TypeOK
  <1>5. Serves(tlsConf', status', Withdrawn')
    BY <1>1, NewFacts DEF Serves
  <1>. QED  BY <1>1, <1>4, <1>5, NewFacts
            DEF IInv, CertsUsed, Serves, KeysRemoved, Fresh, ServedUnlessChanged, Named, Used

LEMMA SecretHolds ==
    ASSUME IInv, NEW s \in Secret, SyncSecret(s)
    PROVE  IInv'
  <1>1. CASE secret[s] = NoObject
    <2>1. /\ UNCHANGED <<object, secret, queue, working, status, tlsConf, certConf, files,
                         served>>
          /\ secretQueue' = secretQueue \ {s}
          /\ overtaken' = overtaken \ {s}
          /\ left' = left \ Named(tlsConf)
      BY <1>1 DEF SyncSecret
    <2>2. Withdrawn' = Withdrawn
      BY <2>1 DEF Withdrawn, At
    <2>. QED  BY <1>1, <2>1, <2>2 DEF IInv, TypeOK, CertsUsed, Serves, KeysRemoved, Fresh,
                                ServedUnlessChanged, Named, Used
  <1>2. CASE secret[s] # NoObject
    <2>. DEFINE new == UpdateSecret(tlsConf, s, secret[s]).conf
    <2>1. /\ tlsConf' = new
          /\ secretQueue' = secretQueue \ {s}
          /\ overtaken' = overtaken \ {s}
          /\ left' = left \ Named(new)
          /\ UNCHANGED <<object, secret, queue, working, status, certConf, files, served>>
          /\ Withdrawn' = Withdrawn
      BY <1>2 DEF SyncSecret, Withdrawn, At
    <2>2. /\ tlsConf \in Configuration
          /\ secret[s] \in Content
      BY <1>2 DEF IInv, TypeOK
    <2>3. /\ new \in Configuration
          /\ new.ingress2secret = tlsConf.ingress2secret
          /\ \A r \in Secret \ {s} : new.certs[r] = tlsConf.certs[r]
          /\ \/ new = tlsConf /\ (s \notin Used(tlsConf) \/ secret[s] \in BadContent)
             \/ /\ s \in Used(tlsConf)
                /\ new.certs[s] = secret[s]
                /\ secret[s] \notin BadContent
                /\ new.changed
      BY <2>2, UpdateSecretFacts
    <2>. HIDE DEF new
    <2>4. Named(tlsConf) \subseteq Named(new) /\ Named(new) \subseteq Used(new)
      BY <2>2, <2>3, TLSAssumption DEF IInv, CertsUsed, Named, Used
    <2>5. TypeOK' /\ CertsUsed'
      BY <2>1, <2>3, <2>4 DEF IInv, TypeOK, CertsUsed, Named, Used
    <2>6. Serves(tlsConf, status, Withdrawn)'
      BY <2>1, <2>3, <2>4 DEF IInv, Serves, Named
    <2>7. KeysRemoved'
      BY <2>1, <2>4 DEF IInv, KeysRemoved, Named
    <2>8. Fresh(tlsConf, overtaken)'
      <3>. SUFFICES ASSUME NEW r \in Named(new), r \notin secretQueue' \cup overtaken'
                    PROVE  secret[r] \in {NoObject} \cup BadContent \cup {new.certs[r]}
        BY <2>1 DEF Fresh, Named
      <3>1. CASE r = s
        BY <2>3, <2>4, <3>1 DEF IInv, CertsUsed, Used, Named
      <3>2. CASE r # s
        <4>1. r \notin secretQueue \cup overtaken /\ r \in Named(tlsConf) /\ new.certs[r] = tlsConf.certs[r]
          BY <2>1, <2>3, <3>2 DEF Named
        <4>. QED  BY <4>1 DEF IInv, Fresh
      <3>. QED  BY <3>1, <3>2
    <2>9. ServedUnlessChanged'
      BY <2>1, <2>3 DEF IInv, ServedUnlessChanged, Named
    <2>. QED  BY <2>5, <2>6, <2>7, <2>8, <2>9 DEF IInv
  <1>. QED  BY <1>1, <1>2

LEMMA DumpFacts ==
    ASSUME TypeOK, NEW written \in SUBSET Named(tlsConf), Dumped(written)
    PROVE  /\ certConf' = Named(tlsConf)
           /\ files' \in Certificates
           /\ \A s \in Secret : files'[s] # Nil => files[s] # Nil \/ s \in Named(tlsConf)
           /\ \A s \in written : files'[s] = tlsConf.certs[s]
           /\ \A s \in Secret \ written : files'[s] = files[s]
  BY DEF TypeOK, Dumped, Named, Configuration, Certificates

LEMMA StepHolds ==
    ASSUME IInv, [Next]_vars
    PROVE  IInv'
  <1>1. ASSUME NEW i \in Ingress, ChangeIngress(i)
        PROVE  IInv'
    <2>1. /\ UNCHANGED <<secret, secretQueue, working, status, tlsConf, certConf, files,
                         served, overtaken, left>>
          /\ queue' = queue \cup {i}
          /\ object' \in [Ingress -> {NoObject} \cup Manifest]
          /\ Withdrawn' = Withdrawn
      BY <1>1 DEF ChangeIngress, Withdrawn, At, IInv, TypeOK
    <2>. QED  BY <2>1 DEF IInv, TypeOK, CertsUsed, Serves, KeysRemoved, Fresh,
                          ServedUnlessChanged, Named, Used
  <1>2. ASSUME NEW s \in Secret, ChangeSecret(s)
        PROVE  IInv'
    <2>1. /\ UNCHANGED <<object, queue, working, status, tlsConf, certConf, files, served,
                         overtaken, left>>
          /\ secretQueue' = secretQueue \cup {s}
          /\ secret' \in [Secret -> {NoObject} \cup Content]
          /\ \A r \in Secret \ {s} : secret'[r] = secret[r]
          /\ Withdrawn' = Withdrawn
      BY <1>2 DEF ChangeSecret, Withdrawn, At, IInv, TypeOK
    <2>. QED  BY <2>1 DEF IInv, TypeOK, CertsUsed, Serves, KeysRemoved, Fresh,
                          ServedUnlessChanged, Named, Used
  <1>3. CASE Reload
    <2>1. /\ Dumped(Named(tlsConf))
          /\ served' = tlsConf.certs
          /\ tlsConf' = [tlsConf EXCEPT !.changed = FALSE]
          /\ UNCHANGED <<object, secret, queue, secretQueue, working, status, overtaken, left>>
          /\ Withdrawn' = Withdrawn
      BY <1>3 DEF Reload, Withdrawn, At
    <2>2. /\ tlsConf \in Configuration
          /\ tlsConf.certs \in Certificates
      BY DEF IInv, TypeOK, Configuration
    <2>3. /\ tlsConf' \in Configuration
          /\ tlsConf'.certs = tlsConf.certs
          /\ tlsConf'.ingress2secret = tlsConf.ingress2secret
      BY <2>1, <2>2 DEF Configuration
    <2>4. /\ certConf' = Named(tlsConf)
          /\ files' \in Certificates
          /\ \A s \in Named(tlsConf) : files'[s] = tlsConf.certs[s]
          /\ \A s \in Secret \ Named(tlsConf) : files'[s] = files[s]
      BY <2>1, DumpFacts DEF IInv
    <2>5. Named(tlsConf)' = Named(tlsConf) /\ Used(tlsConf)' = Used(tlsConf)
      BY <2>3 DEF Named, Used
    <2>6. TypeOK'
      BY <2>1, <2>2, <2>3, <2>4 DEF IInv, TypeOK, Named
    <2>7. CertsUsed' /\ KeysRemoved' /\ ServedUnlessChanged'
      BY <2>1, <2>3, <2>4, <2>5
         DEF IInv, CertsUsed, KeysRemoved, ServedUnlessChanged, Named
    <2>8. Serves(tlsConf, status, Withdrawn)' /\ Fresh(tlsConf, overtaken)'
      BY <2>1, <2>3, <2>5 DEF IInv, Serves, Fresh
    <2>. QED  BY <2>6, <2>7, <2>8 DEF IInv
  <1>4. CASE ReloadFails
    <2>1. PICK written \in SUBSET Named(tlsConf) :
             /\ Dumped(written)
             /\ \/ UNCHANGED served
                \/ written = Named(tlsConf) /\ served' = tlsConf.certs
      BY <1>4 DEF ReloadFails
    <2>2. /\ tlsConf.changed
          /\ UNCHANGED <<object, secret, queue, secretQueue, working, status, tlsConf,
                         overtaken, left>>
          /\ Withdrawn' = Withdrawn
      BY <1>4 DEF ReloadFails, Withdrawn, At
    <2>3. /\ certConf' = Named(tlsConf)
          /\ files' \in Certificates
          /\ \A s \in Secret : files'[s] # Nil => files[s] # Nil \/ s \in Named(tlsConf)
      BY <2>1, DumpFacts DEF IInv
    <2>4. served' \in Certificates
      BY <2>1 DEF IInv, TypeOK, Configuration
    <2>5. TypeOK'
      BY <2>2, <2>3, <2>4 DEF IInv, TypeOK, Named
    <2>6. KeysRemoved'
      BY <2>2, <2>3 DEF IInv, KeysRemoved, Named
    <2>. QED  BY <2>2, <2>5, <2>6
              DEF IInv, CertsUsed, Serves, Fresh, ServedUnlessChanged, Named, Used
  <1>5. CASE UNCHANGED vars
    <2>1. Withdrawn' = Withdrawn
      BY <1>5 DEF vars, Withdrawn, At
    <2>. QED  BY <1>5, <2>1 DEF vars, IInv, TypeOK, CertsUsed, Serves, KeysRemoved, Fresh,
                                ServedUnlessChanged, Named, Used
  <1>. QED  BY <1>1, <1>2, <1>3, <1>4, <1>5, AcceptedHolds, RefusedHolds, SyncHolds,
               ReadHolds, RestartHolds, SecretHolds DEF Next

-----------------------------------------------------------------------------
(* Theorems *)

\* The inductive invariant: index, certificates, files and Secrets fit together in
\* every reachable state, failed reloads and removals, restarts and Secrets read too
\* early included, but for what the two histories record.
THEOREM Invariance == Spec => []IInv
  BY InitHolds, StepHolds, PTL DEF Spec

\* Every certificate in memory, on disk and in BFE is a key pair.
THEOREM Typing == Spec => []TypeOK
  BY Invariance, PTL DEF IInv

\* No Secret is given to BFE that no Ingress uses.
THEOREM OnlyUsed == Spec => []CertsUsed
  BY Invariance, PTL DEF IInv

\* An accepted Ingress has all its certificates, a refused one holds on to none once
\* it is withdrawn.
THEOREM Served == Spec => []UsersServed
  <1>1. IInv => UsersServed
    BY DEF IInv, Serves, Withdrawn, UsersServed
  <1>. QED  BY <1>1, Invariance, PTL

\* A private key outlives its last Ingress on disk only by a removal that failed or
\* by a restart in between: no reload, refusal or order of events leaves one.
THEOREM NoKeyLeft == Spec => []KeysRemoved
  BY Invariance, PTL DEF IInv

\* With empty queues each certificate is that of its Secret, but for one that was
\* taken from a copy older than an event of the Secret handled before the update,
\* until the next event of the Secret.
THEOREM UpToDate == Spec => []CertsCurrent
  <1>1. IInv => CertsCurrent
    BY DEF IInv, Fresh, CertsCurrent
  <1>. QED  BY <1>1, Invariance, PTL

\* The next reload notices every difference between BFE, files and memory.
THEOREM NoticedByReload == Spec => []ServedUnlessChanged
  BY Invariance, PTL DEF IInv

=============================================================================
