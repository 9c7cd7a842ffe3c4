-------------------------- MODULE MCClusterConfig --------------------------
(* Small instances of ClusterConfig for TLC. *)
EXTENDS ClusterConfig, TLC

CONSTANTS i1, i2, s1, s2, p1, p2, a1, a2

none == [s \in Service |-> Nil]

\* s1 is split over s1 and s2.
split == [s \in Service |->
            IF s = s1 THEN [x \in Service |-> IF x = s1 THEN 0 ELSE 100] ELSE Nil]

MCManifest ==
    {[backends |-> {}, balance |-> none],
     [backends |-> {<<s1, p1>>}, balance |-> none],
     [backends |-> {<<s1, p1>>}, balance |-> split],
     [backends |-> {<<s1, p1>>, <<s1, p2>>}, balance |-> none]}

ports(x, y) == [p \in {p1, p2, AnyPort} |-> IF p = p2 THEN y ELSE x]

\* A complete Service; one that lost its second port and an address; one with
\* an unnamed port and no pod that is ready.
MCServiceState ==
    {[ports |-> ports("resolved", "resolved"), subset |-> TRUE, addrs |-> <<a1, a2>>],
     [ports |-> ports("resolved", "absent"), subset |-> TRUE, addrs |-> <<a2>>],
     [ports |-> ports("unresolved", "absent"), subset |-> TRUE, addrs |-> <<>>]}

\* Two Ingresses, of which each takes either port of s1, splits one of them, and
\* keeps the old cluster when it is edited.
Symmetry == Permutations(Ingress)

PairManifest ==
    {[backends |-> {<<s1, p1>>}, balance |-> split],
     [backends |-> {<<s1, p2>>}, balance |-> none]}

full == [ports |-> ports("resolved", "resolved"), subset |-> TRUE, addrs |-> <<a1>>]
lacking == [ports |-> ports("resolved", "absent"), subset |-> TRUE, addrs |-> <<a2>>]

PairServiceState == {full, lacking}

\* s1 changes its ports and addresses, comes and goes; s2, the default backend,
\* comes at any time and stays.
SteadyDefault == service'[s2] \in IF service[s2] = full THEN {full} ELSE {NoObject, full}

\* At most two names are queued or worked on, once there are clusters; a restart
\* may queue all.
Pending == Cardinality(queue) + Cardinality(serviceQueue) + IF working = Nil THEN 0 ELSE 1

FewPending == Pending <= 2 \/ clusterConf = NewClusterConfig

=============================================================================
