------------------------------ MODULE TLSConfig ------------------------------
(***************************************************************************)
(* The certificates of the BFE ingress controller, configs/TLSConfig.go:   *)
(* which Ingress uses which Secret, the certificates taken from them, and  *)
(* the files of BFE: server_cert_conf.data and a certificate and key file  *)
(* per Secret.  Certificate files are removed as soon as no Ingress uses   *)
(* them, if that succeeds: an error is dropped, and nothing tries again.   *)
(* Everything is written by the periodic Reload only.                      *)
(*                                                                         *)
(* As in ServerDataConfig a method is an operator on a configuration       *)
(* record.  The machine interleaves the Ingress reconciler, which reads    *)
(* the Secrets before it takes the mutex of the ConfigBuilder and takes it *)
(* a second time to withdraw a refused Ingress, the Secret reconciler, the *)
(* reload, and restarts of the process.                                    *)
(***************************************************************************)
EXTENDS Integers, Sequences

CONSTANTS
    Ingress, Secret,
    Content,             \* what a Secret can hold: certificate and key
    BadContent,          \* what bfe_tls.X509KeyPair refuses
    Manifest,            \* what users write: Spec.TLS, a sequence of Secrets
    NoObject,            \* the API server holds no such object
    Nil                  \* a key that is not in a map, a file that is not there

\* What the Ingress reconciler keeps while it works on a name.
Note ==
    [stage: {"update"}, ingress: Ingress, tls: Manifest,
     secrets: [Secret -> {NoObject} \cup Content]]
        \cup [stage: {"withdraw"}, ingress: Ingress]

ASSUME TLSAssumption ==
    /\ BadContent \subseteq Content
    /\ Manifest \subseteq Seq(Secret)
    /\ NoObject \notin Content \cup Manifest
    /\ Nil \notin Content \cup Note

-----------------------------------------------------------------------------
(* Operations of TLSConfig.  certs stands for both maps that name the      *)
(* certificates, certs and serverCertConf.Config.CertConf, which are       *)
(* written and deleted together; the default certificate is left out.      *)
(* changed tells that the version differs from the one BFE has loaded.     *)

NewTLSConfig ==
    [ingress2secret |-> [i \in Ingress |-> {}],
     certs          |-> [s \in Secret |-> Nil],
     changed        |-> TRUE]

Used(conf) == UNION {conf.ingress2secret[i] : i \in Ingress}

Named(conf) == {s \in Secret : conf.certs[s] # Nil}

\* Mutant of UpdateSecret: the key pair is not checked.
BugUnchecked(conf, s, content) ==
    IF s \notin Used(conf)
    THEN [conf |-> conf, err |-> FALSE]
    ELSE [conf |-> [conf EXCEPT !.certs = [@ EXCEPT ![s] = content],
                                !.changed = TRUE],
          err  |-> FALSE]

\* Mutant of UpdateSecret: a certificate is kept for each Secret there is.
BugKeepsAnySecret(conf, s, content) ==
    IF content \in BadContent
    THEN [conf |-> conf, err |-> TRUE]
    ELSE [conf |-> [conf EXCEPT !.certs = [@ EXCEPT ![s] = content],
                                !.changed = TRUE],
          err  |-> FALSE]

\* Mutant of UpdateSecret: the first certificate of a Secret stays.
BugKeepsFirstCert(conf, s, content) ==
    IF s \notin Used(conf) \/ conf.certs[s] # Nil
    THEN [conf |-> conf, err |-> FALSE]
    ELSE IF content \in BadContent
    THEN [conf |-> conf, err |-> TRUE]
    ELSE [conf |-> [conf EXCEPT !.certs = [@ EXCEPT ![s] = content],
                                !.changed = TRUE],
          err  |-> FALSE]

\* A Secret that no Ingress uses is passed over; one that holds no key pair is
\* an error, and the certificate taken from it before stays.
UpdateSecret(conf, s, content) ==
    IF s \notin Used(conf)
    THEN [conf |-> conf, err |-> FALSE]
    ELSE IF content \in BadContent
    THEN [conf |-> conf, err |-> TRUE]
    ELSE [conf |-> [conf EXCEPT !.certs = [@ EXCEPT ![s] = content],
                                !.changed = TRUE],
          err  |-> FALSE]

Listed(tls) == {tls[k] : k \in DOMAIN tls}

\* The Secrets updated before the first bad one.
Taken(tls, secrets) ==
    {tls[k] : k \in {k \in DOMAIN tls : \A j \in 1 .. k : secrets[tls[j]] \notin BadContent}}

\* All Secrets of the Ingress enter the index, then one after the other is
\* updated.  Secrets that an edit dropped stay in the index.
UpdateIngress(conf, i, tls, secrets) ==
    LET taken == Taken(tls, secrets)
    IN  [conf |-> [ingress2secret |-> [conf.ingress2secret EXCEPT ![i] = @ \cup Listed(tls)],
                   certs          |-> [s \in Secret |-> IF s \in taken THEN secrets[s]
                                                        ELSE conf.certs[s]],
                   changed        |-> conf.changed \/ taken # {}],
         err  |-> taken # Listed(tls)]

\* Mutant of DeleteIngress: a certificate goes with any Ingress that used it.
BugDropsShared(conf, i) ==
    LET gone == {s \in Named(conf) : s \in conf.ingress2secret[i]}
    IN  [ingress2secret |-> [conf.ingress2secret EXCEPT ![i] = {}],
         certs          |-> [s \in Secret |-> IF s \in gone THEN Nil ELSE conf.certs[s]],
         changed        |-> conf.changed \/ gone # {}]

\* Mutant of DeleteIngress: the version stays.
BugUnchanged(conf, i) ==
    LET rest == [conf EXCEPT !.ingress2secret = [@ EXCEPT ![i] = {}]]
        gone == Named(conf) \ Used(rest)
    IN  IF conf.ingress2secret[i] = {} THEN conf
        ELSE [rest EXCEPT !.certs = [s \in Secret |-> IF s \in gone THEN Nil ELSE @[s]]]

\* Every certificate that no other Ingress uses goes with the Ingress.
DeleteIngress(conf, i) ==
    LET rest == [conf EXCEPT !.ingress2secret = [@ EXCEPT ![i] = {}]]
        gone == Named(conf) \ Used(rest)
    IN  IF conf.ingress2secret[i] = {} THEN conf
        ELSE [rest EXCEPT !.certs = [s \in Secret |-> IF s \in gone THEN Nil ELSE @[s]],
                          !.changed = @ \/ gone # {}]

\* Mutant of DeleteCerts: the files are left behind.
BugKeepsFiles(old, new, files, stuck) == files

\* deleteCert: the two files of a certificate go at once, or stay where the error
\* of os.Remove is dropped.
DeleteCerts(old, new, files, stuck) ==
    [s \in Secret |-> IF s \in (Named(old) \ Named(new)) \ stuck THEN Nil ELSE files[s]]

-----------------------------------------------------------------------------
(* The machine. *)

VARIABLES
    object,        \* Spec.TLS of each Ingress object of the API server
    secret,        \* Secrets of the API server
    queue,         \* work queue of the Ingress reconciler
    secretQueue,   \* work queue of the Secret reconciler
    working,       \* what the Ingress reconciler has read or must withdraw, or Nil
    status,        \* outcome of the last synchronisation of each Ingress
    tlsConf,       \* the TLSConfig
    certConf,      \* Secrets that server_cert_conf.data on disk names
    files,         \* certificate and key file of each Secret on disk
    served,        \* certificates BFE has loaded
    overtaken,     \* history, read by no step: Secrets whose certificate was taken
                   \* from a copy older than the last event
    left           \* history: Secrets whose files a failed removal or an earlier
                   \* process left behind

vars == <<object, secret, queue, secretQueue, working, status, tlsConf, certConf, files,
          served, overtaken, left>>

NoFiles == [s \in Secret |-> Nil]

Init ==
    /\ object = [i \in Ingress |-> NoObject]
    /\ secret = [s \in Secret |-> NoObject]
    /\ queue = {}
    /\ secretQueue = {}
    /\ working = Nil
    /\ status = [i \in Ingress |-> "none"]
    /\ tlsConf = NewTLSConfig
    /\ certConf = {}
    /\ files = NoFiles
    /\ served = NoFiles
    /\ overtaken = {}
    /\ left = {}

\* An event without a change is a resync of the informer.
ChangeIngress(i) ==
    /\ \E obj \in Manifest \cup {NoObject} :
          object' = [object EXCEPT ![i] = obj]
    /\ queue' = queue \cup {i}
    /\ UNCHANGED <<secret, secretQueue, working, status, tlsConf, certConf, files, served,
                   overtaken, left>>

ChangeSecret(s) ==
    /\ \E content \in Content \cup {NoObject} :
          secret' = [secret EXCEPT ![s] = content]
    /\ secretQueue' = secretQueue \cup {s}
    /\ UNCHANGED <<object, queue, working, status, tlsConf, certConf, files, served,
                   overtaken, left>>

\* The one worker of the reconciler takes a name and reads the object and its
\* Secrets, without the mutex.
ReadIngress(i) ==
    /\ working = Nil
    /\ i \in queue
    /\ object[i] # NoObject
    /\ queue' = queue \ {i}
    /\ working' =
         [stage   |-> "update",
          ingress |-> i,
          tls     |-> object[i],
          secrets |-> [s \in Secret |-> IF s \in Listed(object[i]) THEN secret[s]
                                        ELSE NoObject]]
    /\ UNCHANGED <<object, secret, secretQueue, status, tlsConf, certConf, files, served,
                   overtaken, left>>

At(stage) == working # Nil /\ working.stage = stage

\* The Secrets are read one by one: each is as it was at a moment of its own.
ReadSecret(s) ==
    /\ At("update")
    /\ s \in Listed(working.tls)
    /\ working' = [working EXCEPT !.secrets = [@ EXCEPT ![s] = secret[s]]]
    /\ UNCHANGED <<object, secret, queue, secretQueue, status, tlsConf, certConf, files,
                   served, overtaken, left>>

\* getIngressSecret: each Secret of the object is there.
Ready(tls, secrets) == \A s \in Listed(tls) : secrets[s] # NoObject

\* A new configuration; certificates that it lacks lose their files, but for those
\* that cannot be removed.
Configured(new) ==
    \E stuck \in SUBSET (Named(tlsConf) \ Named(new)) :
        /\ tlsConf' = new
        /\ files' = DeleteCerts(tlsConf, new, files, stuck)
        /\ left' = {s \in (left \cup stuck) \ Named(new) : files[s] # Nil}
        /\ UNCHANGED <<object, secret, secretQueue, certConf, served>>

SyncAbsent(i) ==
    /\ working = Nil
    /\ i \in queue
    /\ object[i] = NoObject
    /\ Configured(DeleteIngress(tlsConf, i))
    /\ queue' = queue \ {i}
    /\ status' = [status EXCEPT ![i] = "none"]
    /\ overtaken' = overtaken \cap Named(tlsConf')
    /\ UNCHANGED working

\* What the history says when the Secrets in taken come from the copies in secrets:
\* those that changed since, with no event left that could tell.
Overtaken(taken, secrets) ==
    (overtaken \ taken) \cup {s \in taken \ secretQueue : secrets[s] # secret[s]}

\* What was read is applied under the mutex.
SyncAccepted ==
    /\ At("update")
    /\ Ready(working.tls, working.secrets)
    /\ LET i == working.ingress
           u == UpdateIngress(tlsConf, i, working.tls, working.secrets)
       IN  /\ ~u.err
           /\ Configured(u.conf)
           /\ status' = [status EXCEPT ![i] = "success"]
    /\ overtaken' = Overtaken(Taken(working.tls, working.secrets), working.secrets)
    /\ working' = Nil
    /\ UNCHANGED queue

\* A missing Secret, or a bad one, before which others may have been updated.
SyncRefused ==
    /\ At("update")
    /\ \/ /\ ~Ready(working.tls, working.secrets)
          /\ Configured(tlsConf)
          /\ UNCHANGED overtaken
       \/ /\ Ready(working.tls, working.secrets)
          /\ LET u == UpdateIngress(tlsConf, working.ingress, working.tls, working.secrets)
             IN  /\ u.err
                 /\ Configured(u.conf)
          /\ overtaken' = Overtaken(Taken(working.tls, working.secrets), working.secrets)
    /\ working' = [stage |-> "withdraw", ingress |-> working.ingress]
    /\ UNCHANGED <<queue, status>>

\* The refused Ingress is withdrawn under a lock of its own and queued again.
Withdraw ==
    /\ At("withdraw")
    /\ Configured(DeleteIngress(tlsConf, working.ingress))
    /\ queue' = queue \cup {working.ingress}
    /\ status' = [status EXCEPT ![working.ingress] = "error"]
    /\ overtaken' = overtaken \cap Named(tlsConf')
    /\ working' = Nil

\* An event of a Secret that is gone is dropped; the error of UpdateSecret is
\* dropped, too.  A Secret that changes between its own reading and the update is
\* queued again by that change.
SyncSecret(s) ==
    /\ s \in secretQueue
    /\ secretQueue' = secretQueue \ {s}
    /\ tlsConf' = IF secret[s] = NoObject THEN tlsConf
                  ELSE UpdateSecret(tlsConf, s, secret[s]).conf
    /\ overtaken' = overtaken \ {s}
    /\ left' = left \ Named(tlsConf')
    /\ UNCHANGED <<object, secret, queue, working, status, certConf, files, served>>

\* Reload, which finds a new version, writes server_cert_conf.data and then the
\* files of each certificate.
Dumped(written) ==
    /\ certConf' = Named(tlsConf)
    /\ files' = [s \in Secret |-> IF s \in written THEN tlsConf.certs[s] ELSE files[s]]

Reload ==
    /\ tlsConf.changed
    /\ Dumped(Named(tlsConf))
    /\ served' = tlsConf.certs
    /\ tlsConf' = [tlsConf EXCEPT !.changed = FALSE]
    /\ UNCHANGED <<object, secret, queue, secretQueue, working, status, overtaken, left>>

\* A write of a certificate file fails, BFE refuses to load, or its answer is
\* lost: the version is not recorded, and the next reload repeats it all.
ReloadFails ==
    /\ tlsConf.changed
    /\ \E written \in SUBSET Named(tlsConf) :
          /\ Dumped(written)
          /\ \/ UNCHANGED served
             \/ written = Named(tlsConf) /\ served' = tlsConf.certs
    /\ UNCHANGED <<object, secret, queue, secretQueue, working, status, tlsConf,
                   overtaken, left>>

\* The process ends, at any point, and starts again from nothing, in the same place
\* or from the image.  BFE starts from the files it finds, if none is missing.
Restart ==
    /\ \/ UNCHANGED <<certConf, files>>
       \/ certConf' = {} /\ files' = NoFiles
    /\ \A s \in certConf' : files'[s] # Nil
    /\ served' = [s \in Secret |-> IF s \in certConf' THEN files'[s] ELSE Nil]
    /\ tlsConf' = NewTLSConfig
    /\ queue' = {i \in Ingress : object[i] # NoObject}
    /\ secretQueue' = {s \in Secret : secret[s] # NoObject}
    /\ working' = Nil
    /\ status' = [i \in Ingress |-> "none"]
    /\ overtaken' = {}
    /\ left' = {s \in Secret : files'[s] # Nil}
    /\ UNCHANGED <<object, secret>>

Next ==
    \/ Reload \/ ReloadFails
    \/ Restart
    \/ SyncAccepted \/ SyncRefused \/ Withdraw
    \/ \E i \in Ingress : ChangeIngress(i) \/ ReadIngress(i) \/ SyncAbsent(i)
    \/ \E s \in Secret : ChangeSecret(s) \/ ReadSecret(s) \/ SyncSecret(s)

Spec == Init /\ [][Next]_vars

-----------------------------------------------------------------------------
(* Properties *)

Certificates == [Secret -> {Nil} \cup (Content \ BadContent)]

Configuration ==
    [ingress2secret: [Ingress -> SUBSET Secret], certs: Certificates, changed: BOOLEAN]

\* The state of the reconcilers, of the TLSConfig and of the files has its
\* shape; no certificate is bad.
TypeOK ==
    /\ object \in [Ingress -> {NoObject} \cup Manifest]
    /\ secret \in [Secret -> {NoObject} \cup Content]
    /\ queue \subseteq Ingress
    /\ secretQueue \subseteq Secret
    /\ working \in {Nil} \cup Note
    /\ status \in [Ingress -> {"none", "success", "error"}]
    /\ tlsConf \in Configuration
    /\ certConf \subseteq Secret
    /\ files \in Certificates
    /\ served \in Certificates
    /\ overtaken \subseteq Secret
    /\ left \subseteq Secret

\* BFE is given the certificates of Ingresses only: no Secret of another
\* purpose, and none whose last Ingress went, was refused or was withdrawn.
CertsUsed == Named(tlsConf) \subseteq Used(tlsConf)

\* An Ingress counts on its certificates as long as it is accepted, whatever
\* happens to the other Ingresses that share them; one that is not accepted
\* holds on to none.  An Ingress about to be withdrawn is neither.
UsersServed ==
    \A i \in Ingress :
        ~(At("withdraw") /\ working.ingress = i) =>
            IF status[i] = "success"
            THEN tlsConf.ingress2secret[i] \subseteq Named(tlsConf)
            ELSE tlsConf.ingress2secret[i] = {}

\* A private key stays on disk after its last Ingress only where its removal failed
\* or a restart had the controller forget it, even if reloads fail half-way or lie
\* between the deletion and the next synchronisation.
KeysRemoved == \A s \in Secret : files[s] # Nil => s \in Named(tlsConf) \cup left

\* Once the queues are empty, each certificate is that of its Secret, unless the
\* Secret is gone or holds no key pair.  The one way to miss an event is to handle
\* it while the Ingress reconciler holds an older copy of the Secret; the next
\* event of the Secret makes up for it.
CertsCurrent ==
    queue = {} /\ secretQueue = {} /\ working = Nil =>
        \A s \in Named(tlsConf) \ overtaken :
            secret[s] \in {NoObject} \cup BadContent \cup {tlsConf.certs[s]}

\* Between reloads a difference between what BFE serves, what the files say and
\* what the controller wants never goes unnoticed by the next reload; a key that
\* was left behind is not named to BFE.
ServedUnlessChanged ==
    ~tlsConf.changed =>
        /\ served = tlsConf.certs
        /\ certConf = Named(tlsConf)
        /\ \A s \in certConf : files[s] = tlsConf.certs[s]

=============================================================================
