-------------------------- MODULE MCConfigBuilder --------------------------
(* A small instance of ConfigBuilder for TLC: two Ingresses compete for one *)
(* path, over one Service and one Secret.                                   *)
EXTENDS ConfigBuilder, TLC

CONSTANTS i1, i2, s1, p1, a1, c1, h, anyHost, noHost, a, basic, cert, bad

none == [s \in Service |-> Nil]

manifest(ours, paths, tls) ==
    [ours |-> ours, paths |-> paths, cond |-> basic, balance |-> none, tls |-> tls]

pa == [host |-> h, path |-> a, type |-> "Exact", backend |-> <<s1, p1>>]

MCManifest ==
    {manifest(TRUE, <<pa>>, <<c1>>),
     manifest(TRUE, <<>>, <<c1>>),
     manifest(FALSE, <<>>, <<>>)}

MCServiceState ==
    {[ports |-> [p \in {p1, AnyPort} |-> "resolved"], subset |-> TRUE, addrs |-> <<a1>>],
     [ports |-> [p \in {p1, AnyPort} |-> "absent"], subset |-> FALSE, addrs |-> <<>>]}

MCHost == {h, noHost}
MCPath == {a}

\* No more than MaxPending reconciliations are due or under way at a time.
MaxPending == 2

FewPending ==
    Cardinality(queue) + Cardinality(serviceQueue) + Cardinality(secretQueue)
        + (IF working = Nil THEN 0 ELSE 1) <= MaxPending

Made == {i \in Ingress : object[i] # NoObject}

\* Two Ingresses of the same second are those of the last one: nothing is different
\* about a pair created earlier.  And of two, one asks for the path.
PairsWanted ==
    /\ clock < MaxTime => Cardinality(Made) <= 1
    /\ Cardinality({i \in Made : object[i].paths = <<>>}) <= 1

Symmetry == Permutations(Ingress)
=============================================================================
