---------------------------- MODULE MCTLSConfig ----------------------------
(* Small instances of TLSConfig for TLC. *)
EXTENDS TLSConfig, FiniteSets, TLC

CONSTANTS i1, i2, s1, s2, cert1, cert2, bad

\* One Secret that both Ingresses may share, and one behind it in the list.
MCManifest == {<<s1>>, <<s1, s2>>}

\* At most two names are queued or worked on; only a restart queues more.
Pending == Cardinality(queue) + Cardinality(secretQueue) + IF working = Nil THEN 0 ELSE 1

FewPending ==
    \/ Pending <= 2
    \/ tlsConf = NewTLSConfig /\ working = Nil

\* Secrets come at any time and stay: s1 gets new certificates, s2 turns bad and
\* good again.
FewContents ==
    /\ secret'[s1] \in {NoObject, cert1, cert2}
    /\ secret'[s2] \in {NoObject, cert1, bad}
    /\ \A s \in Secret : secret'[s] = NoObject => secret[s] = NoObject

\* An Ingress is not edited while one is worked on, its Secrets are.
FewEdits == working # Nil => UNCHANGED object

Symmetry == Permutations(Ingress)
=============================================================================
