------------------------- MODULE MCServerDataConfig -------------------------
(* Small instances of ServerDataConfig and RouteOrder for TLC. *)
EXTENDS RouteOrder

CONSTANTS i1, i2, h, wild, badHost, anyHost, noHost, a, b, quote, badPath,
          basic, cookie, header, badCookie, s1, s2

p(host, path, type, backend) ==
    [host |-> host, path |-> path, type |-> type, backend |-> backend]

pa == p(h, a, "Prefix", s1)
pb == p(noHost, b, "Exact", s1)

MCHost == {h, wild, badHost, noHost}
MCPath == {a, b, quote, badPath}
MCCondition == {basic, cookie, header, badCookie}

\* Conflicts over one slot of two: an object can be refused after its first path
\* was put into the cache, overwriting a younger rule there.
ConflictManifest ==
    {[cond |-> basic, paths |-> <<pa, pb>>],
     [cond |-> basic, paths |-> <<pb>>]}

\* A plain object, and every way to be odd or refused at one path or at the table.
RejectManifest ==
    {[cond |-> basic, paths |-> <<pa, pb>>],
     [cond |-> basic, paths |-> <<pa, p(h, a, "ImplementationSpecific", s2)>>],
     [cond |-> basic, paths |-> <<pb, p(noHost, badPath, "Exact", s1)>>],
     [cond |-> badCookie, paths |-> <<pa>>],
     [cond |-> basic, paths |-> <<p(noHost, quote, "Prefix", s1)>>],
     [cond |-> cookie, paths |-> <<pb, p(noHost, quote, "Prefix", s2)>>]}

\* Advanced rules whose hosts, paths and conditions overlap.
AdvancedManifest ==
    {[cond |-> cookie, paths |-> <<pa, p(h, b, "Prefix", s2), pb>>],
     [cond |-> header, paths |-> <<p(wild, a, "Prefix", s1), pb, p(h, a, "Prefix", s2)>>]}

MCManifest == RejectManifest \cup AdvancedManifest

\* The condition of "*.f" takes in the host "cf", which is h, and not "c.f".
MCHostText ==
    [x \in (MCHost \ {noHost}) \cup {anyHost} |->
        CASE x = h       -> <<"c", "f">>
          [] x = wild    -> <<"*", ".", "f">>
          [] x = anyHost -> <<"*">>
          [] OTHER       -> <<"*", "f">>]

MCPathText ==
    [x \in MCPath |->
        CASE x = a     -> <<"/", "x">>
          [] x = b     -> <<"/", "x", "/", "y">>
          [] x = quote -> <<"/", "'">>
          [] OTHER     -> <<"/", "*">>]

MCKind ==
    [c \in MCCondition |->
        CASE c = basic -> "none" [] c = header -> "header" [] OTHER -> "cookie"]

MCRequest ==
    [host: {<<"c", "f">>, <<"c", ".", "f">>}, path: {<<"/", "x", "/", "y">>},
     meets: {{cookie, header}, {header}}]

\* No two objects stamped in the same second, a rule of a deleted object included.
NoTwins ==
    \A i, j \in Ingress : i # j /\ object[i] # NoObject =>
        /\ object[j] # NoObject => object[i].created # object[j].created
        /\ \A r \in ingress2Rule[j] : object[i].created # r.created

Symmetry == Permutations(Ingress)
=============================================================================
