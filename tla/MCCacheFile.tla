---------------------------- MODULE MCCacheFile ----------------------------
(***************************************************************************)
(* Two processes, A with two threads, share the cache directory.           *)
(***************************************************************************)
EXTENDS CacheFile, TLC

CONSTANTS a1, a2, b1, A, B, h1, r1, i1, i2, i3

MCHome == (a1 :> A) @@ (a2 :> A) @@ (b1 :> B)
MCDistinct == (A :> 7) @@ (B :> 8)

HomeOfWriters == [w \in Writer |-> MCHome[w]]
PidDistinct == [q \in Process |-> MCDistinct[q]]

\* Inodes are interchangeable, and so are the threads of A.
Interchangeable == Permutations(Inode) \cup Permutations({a1, a2})

\* In one pid namespace.
ASSUME PidAssumption == DistinctPids
=============================================================================
