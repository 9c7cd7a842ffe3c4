----------------------------- MODULE MCCacheWalk -----------------------------
(* Small instances of CacheWalk for TLC. *)
EXTENDS MCServerDataConfig, CacheWalk

\* Two slots to compete for, and an object for each end of the walk: nothing to
\* walk, an error after the first path, and a table that cannot be generated.
WalkManifest ==
    {[cond |-> basic, paths |-> <<>>],
     [cond |-> basic, paths |-> <<pa, pb>>],
     [cond |-> basic, paths |-> <<pb, p(noHost, badPath, "Exact", s1)>>],
     [cond |-> cookie, paths |-> <<pb, p(noHost, quote, "Prefix", s2)>>]}
=============================================================================
