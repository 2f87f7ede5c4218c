------------------------- MODULE RenameReplayProofs -------------------------
(***************************************************************************)
(* Proofs about RenameReplay: with any number of paths, files and commits,  *)
(* a replay credits every change to the path its file carries at the        *)
(* target, as long as no path is used twice and no commit with a rename is  *)
(* dropped.                                                                 *)
(*                                                                          *)
(* `resolve_alias` searches a chain of aliases.  The first part shows by    *)
(* induction where such a search ends, the second that the aliases a replay *)
(* has gathered lead from a touched path to where its file went.            *)
(***************************************************************************)
EXTENDS RenameReplay, FiniteSetTheorems, WellFoundedInduction, TLAPS

Renaming == {<<>>} \cup {Only(s, d) : s \in Path, d \in Path}

Record == [oid : Nat, renames : Renaming, touched : Path, file : File]

Events == ToSet(log)
RenamedAway == UNION {DOMAIN e.renames : e \in Events}

Decreasing(s) == \A i, j \in DOMAIN s : i < j => s[j].oid < s[i].oid

\* The log, or the files at its head, bear witness that f once was at p.
Names(p, f) ==
  \/ f \in created /\ lastPath[f] = p
  \/ \E e \in Events : e.file = f /\ (p = e.touched \/ p \in DOMAIN e.renames)

\* The log holds a commit once, newest first.
LogRight ==
  /\ made \in Nat
  /\ log \in Seq(Record) /\ Decreasing(log)
  /\ \A e \in Events : /\ e.oid <= made
                       /\ \A s \in DOMAIN e.renames : e.renames[s] = e.touched

\* A file of the tree is where it went last.
FilesRight ==
  /\ created \subseteq File /\ used \subseteq Path
  /\ DOMAIN lastPath = created
  /\ \A f \in created : lastPath[f] \in Path
  /\ DOMAIN tree \subseteq used
  /\ \A p \in DOMAIN tree : tree[p] \in created /\ lastPath[tree[p]] = p

\* No path ever had two files.
OneFile ==
  /\ \A p, f : Names(p, f) => p \in used /\ f \in created
  /\ \A p, f, h : Names(p, f) /\ Names(p, h) => f = h

\* A path is renamed away once, after every change that touched it, and is not
\* used again; the paths a file had and was not renamed from are its last.
EdgesRight ==
  /\ RenamedAway \subseteq used \ DOMAIN tree
  /\ IsFiniteSet(RenamedAway)
  /\ \A d, e \in Events : DOMAIN d.renames \cap DOMAIN e.renames # {} => d = e
  /\ \A d, e \in Events : d.touched \in DOMAIN e.renames => d.oid < e.oid
  /\ \A p, f : Names(p, f) => (p \in RenamedAway <=> p # lastPath[f])

HistoryRight == LogRight /\ FilesRight /\ OneFile /\ EdgesRight

\* The events are folded newest first, the aliases are theirs, and so are the
\* credits.
ReplayRight ==
  /\ phase \in {"history", "replay"}
  /\ phase = "history" => todo = <<>> /\ DOMAIN alias = {} /\ credited = {}
  /\ todo \in Seq(Record) /\ ToSet(todo) \subseteq Events /\ Decreasing(todo)
  /\ IsFiniteSet(DOMAIN alias)
  /\ phase = "replay" =>
       /\ \A d \in Folded, e \in ToSet(todo) : e.oid < d.oid
       /\ DOMAIN alias = UNION {DOMAIN e.renames : e \in Folded}
       /\ \A e \in Folded : \A s \in DOMAIN e.renames : alias[s] = e.touched
       /\ \A c \in credited : \E e \in Folded : c.oid = e.oid

\* The paths a file was renamed from, and that they are no more than a chain of
\* aliases is followed.
FormerPaths(f) == UNION {DOMAIN e.renames : e \in {e \in Events : e.file = f}}
FewRenames == \A f \in File : Cardinality(FormerPaths(f)) <= MAX_ALIAS_DEPTH

ReplayInvariant == HistoryRight /\ ReplayRight /\ HomedAtTarget

-----------------------------------------------------------------------------
(***************************************************************************)
(* Chains of aliases.                                                       *)
(***************************************************************************)
\* Every set of numbers has a least one.
LEMMA Least == \A T \in SUBSET Nat : T # {} => \E m \in T : \A k \in T : m <= k
<1> DEFINE R == {ss \in Nat \X Nat : ss[1] < ss[2]}
<1>1. IsWellFoundedOn(R, Nat)
  BY NatLessThanWellFounded DEF OpToRel
<1> HIDE DEF R
<1> SUFFICES ASSUME NEW T \in SUBSET Nat, T # {} PROVE \E m \in T : \A k \in T : m <= k
  OBVIOUS
<1>2. PICK x \in T : \A y \in T : ~(<<y, x>> \in R)
  BY <1>1, WFMin
<1>3. \A y \in T : ~ (y < x)
  BY <1>2 DEF R
<1> QED
  BY <1>3

\* Induction, as a fact about sets of numbers.
LEMMA Induct == \A T \in SUBSET Nat : 0 \in T /\ (\A n \in T : n + 1 \in T) => T = Nat
<1> SUFFICES ASSUME NEW T \in SUBSET Nat, 0 \in T, \A n \in T : n + 1 \in T, Nat \ T # {}
             PROVE  FALSE
  OBVIOUS
<1>1. PICK m \in Nat \ T : \A k \in Nat \ T : m <= k
  BY Least
<1>2. m - 1 \in Nat /\ m - 1 \in T /\ (m - 1) + 1 = m
  BY <1>1
<1> QED
  BY <1>2

\* A step can be repeated without end.
LEMMA Iterates ==
  ASSUME NEW S, NEW base \in S, NEW step \in [S -> S]
  PROVE  \E f \in [Nat -> S] : f[0] = base /\ \A n \in Nat : f[n + 1] = step[f[n]]
<1> DEFINE Runs(f, n) == f[0] = base /\ \A k \in 0..n - 1 : f[k + 1] = step[f[k]]
           Prefix(n) == {f \in [0..n -> S] : Runs(f, n)}
<1>1. \A n \in Nat : Prefix(n) # {}
  <2> DEFINE T == {n \in Nat : Prefix(n) # {}}
  <2>1. 0 \in T
    <3> DEFINE h == [k \in 0..0 |-> base]
    <3>1. h \in [0..0 -> S] /\ h[0] = base /\ 0..0 - 1 = {}
      OBVIOUS
    <3> HIDE DEF h
    <3>2. h \in Prefix(0)
      BY <3>1
    <3> QED
      BY <3>2
  <2>2. ASSUME NEW n \in T PROVE n + 1 \in T
    <3>2. PICK f \in [0..n -> S] : Runs(f, n)
      OBVIOUS
    <3> DEFINE h == [k \in 0..n + 1 |-> IF k <= n THEN f[k] ELSE step[f[n]]]
    <3>3. h \in [0..n + 1 -> S]
      BY <3>2
    <3>4. Runs(h, n + 1)
      <4>1. h[0] = base
        BY <3>2
      <4>2. ASSUME NEW k \in 0..(n + 1) - 1 PROVE h[k + 1] = step[h[k]]
        BY <3>2
      <4> QED
        BY <4>1, <4>2
    <3> HIDE DEF h
    <3>5. h \in Prefix(n + 1)
      BY <3>3, <3>4
    <3> QED
      BY <3>5
  <2> HIDE DEF T
  <2>3. T = Nat
    <3>1. T \in SUBSET Nat
      BY DEF T
    <3> QED
      BY <2>1, <2>2, <3>1, Induct
  <2> QED
    BY <2>3 DEF T
<1>2. ASSUME NEW n \in Nat, NEW f \in Prefix(n), NEW m \in Nat, NEW h \in Prefix(m)
      PROVE  \A k \in 0..n : k \in 0..m => f[k] = h[k]
  <2> DEFINE T == {k \in Nat : k \in 0..n /\ k \in 0..m => f[k] = h[k]}
  <2>1. 0 \in T
    OBVIOUS
  <2>2. ASSUME NEW k \in T PROVE k + 1 \in T
    <3>1. k \in Nat
      OBVIOUS
    <3> SUFFICES ASSUME k + 1 \in 0..n, k + 1 \in 0..m PROVE f[k + 1] = h[k + 1]
      BY <3>1
    <3>2. k \in 0..n - 1 /\ k \in 0..m - 1
      BY <3>1
    <3>3. f[k + 1] = step[f[k]] /\ h[k + 1] = step[h[k]]
      BY <3>2
    <3> QED
      BY <3>1, <3>3
  <2> HIDE DEF T
  <2>3. T = Nat
    <3>1. T \in SUBSET Nat
      BY DEF T
    <3> QED
      BY <2>1, <2>2, <3>1, Induct
  <2> QED
    BY <2>3 DEF T
<1> DEFINE prefix(n) == CHOOSE f \in Prefix(n) : TRUE
           whole == [n \in Nat |-> prefix(n)[n]]
<1>3. \A n \in Nat : prefix(n) \in Prefix(n)
  BY <1>1
<1> HIDE DEF prefix
<1>4. whole \in [Nat -> S]
  BY <1>3
<1>5. whole[0] = base
  BY <1>3
<1>6. ASSUME NEW n \in Nat PROVE whole[n + 1] = step[whole[n]]
  <2>1. n + 1 \in Nat /\ n \in 0..n /\ n \in 0..n + 1 /\ n \in 0..(n + 1) - 1
    OBVIOUS
  <2>2. prefix(n) \in Prefix(n) /\ prefix(n + 1) \in Prefix(n + 1)
    BY <1>3, <2>1
  <2>3. prefix(n)[n] = prefix(n + 1)[n]
    BY <1>2, <2>1, <2>2
  <2>4. prefix(n + 1)[n + 1] = step[prefix(n + 1)[n]]
    BY <2>1, <2>2
  <2> QED
    BY <2>1, <2>3, <2>4
<1> HIDE DEF whole
<1> QED
  BY <1>4, <1>5, <1>6

\* Of n + 1 members of a set of at most n, two are the same.
LEMMA Repeats ==
  ASSUME NEW n \in Nat, NEW T, IsFiniteSet(T), Cardinality(T) < n + 1, NEW f \in [0..n -> T]
  PROVE  \E x, y \in 0..n : x # y /\ f[x] = f[y]
<1> DEFINE S == 0..n
<1>1. IsFiniteSet(S) /\ Cardinality(S) = n + 1
  BY FS_Interval
<1> HIDE DEF S
<1>2. \E x, y \in S : x # y /\ f[x] = f[y]
  <2>1. f \in [S -> T] /\ Cardinality(T) < Cardinality(S)
    BY <1>1 DEF S
  <2> QED
    BY <1>1, <2>1, FS_PigeonHole
<1> QED
  BY <1>2 DEF S

\* Where the search for the end of a chain may stop, and what the search does.
Stops(c, aliases) ==
  {k \in 0..(Cardinality(DOMAIN aliases) + 1) :
     \/ c[k] \notin DOMAIN aliases
     \/ \E j \in 0..(k - 1) : c[j] = c[k]
     \/ k = MAX_ALIAS_DEPTH}

Follows(c, aliases, path) ==
  /\ c \in [Nat -> Path]
  /\ c[0] = path
  /\ \A n \in Nat : c[n + 1] = IF c[n] \in DOMAIN aliases THEN aliases[c[n]] ELSE c[n]
  /\ resolve_alias(aliases, path) = c[Min(Stops(c, aliases))]

\* The chain of aliases from a path is well defined.
LEMMA ChainDefined ==
  ASSUME NEW aliases, DOMAIN aliases \subseteq Path,
         \A p \in DOMAIN aliases : aliases[p] \in Path,
         NEW path \in Path
  PROVE  \E c : Follows(c, aliases, path)
<1> DEFINE Chain(d) == d = [k \in Nat |-> IF k = 0 THEN path
          ELSE IF d[k - 1] \in DOMAIN aliases THEN aliases[d[k - 1]]
          ELSE d[k - 1]]
      c == CHOOSE d : Chain(d)
<1>1. resolve_alias(aliases, path) = c[Min(Stops(c, aliases))]
  BY Zenon DEF resolve_alias, Stops
<1>2. \E d \in [Nat -> Path] : Chain(d)
  <2> DEFINE step == [p \in Path |-> IF p \in DOMAIN aliases THEN aliases[p] ELSE p]
  <2>1. PICK f \in [Nat -> Path] : f[0] = path /\ \A n \in Nat : f[n + 1] = step[f[n]]
    <3>1. step \in [Path -> Path]
      OBVIOUS
    <3> HIDE DEF step
    <3> QED
      BY <3>1, Iterates
  <2>2. ASSUME NEW k \in Nat
        PROVE  f[k] = IF k = 0 THEN path
                      ELSE IF f[k - 1] \in DOMAIN aliases THEN aliases[f[k - 1]] ELSE f[k - 1]
    <3>1. CASE k = 0
      BY <2>1, <3>1
    <3>2. CASE k # 0
      <4>1. k - 1 \in Nat /\ (k - 1) + 1 = k
        BY <3>2
      <4>2. f[(k - 1) + 1] = step[f[k - 1]]
        BY <2>1, <4>1
      <4> QED
        BY <2>1, <3>2, <4>1, <4>2
    <3> QED
      BY <3>1, <3>2
  <2>3. f = [k \in Nat |-> IF k = 0 THEN path
                      ELSE IF f[k - 1] \in DOMAIN aliases THEN aliases[f[k - 1]] ELSE f[k - 1]]
    BY <2>2
  <2> QED
    BY <2>3
<1>3. Chain(c)
  <2> HIDE DEF Chain
  <2> QED
    BY <1>2
<1> HIDE DEF c
<1>4. /\ DOMAIN c = Nat /\ c[0] = path
      /\ \A k \in Nat : c[k + 1] = IF c[k] \in DOMAIN aliases THEN aliases[c[k]] ELSE c[k]
  <2>1. DOMAIN c = Nat /\ c[0] = path
    BY <1>3
  <2>2. ASSUME NEW k \in Nat
        PROVE  c[k + 1] = IF c[k] \in DOMAIN aliases THEN aliases[c[k]] ELSE c[k]
    <3>1. k + 1 \in Nat /\ k + 1 # 0 /\ (k + 1) - 1 = k
      OBVIOUS
    <3> QED
      BY <1>3, <3>1
  <2> QED
    BY <2>1, <2>2
<1>5. c \in [Nat -> Path]
  <2> DEFINE T == {k \in Nat : c[k] \in Path}
  <2>1. 0 \in T /\ \A k \in T : k + 1 \in T
    BY <1>4
  <2>2. T = Nat
    <3>1. T \in SUBSET Nat
      OBVIOUS
    <3> QED
      BY <2>1, <3>1, Induct
  <2>3. c = [k \in Nat |-> c[k]] /\ \A k \in Nat : c[k] \in Path
    BY <1>3, <2>2
  <2> QED
    BY <2>3
<1> QED
  BY <1>1, <1>4, <1>5 DEF Follows

\* Where a chain ends: on a path without an alias, in every set that holds the
\* start and is closed under the aliases.  It meets no path twice, because the
\* aliases get newer along it, and it is no longer than a chain is followed when
\* the set holds no more paths with an alias than that.
LEMMA ChainEnds ==
  ASSUME NEW aliases, DOMAIN aliases \subseteq Path, IsFiniteSet(DOMAIN aliases),
         \A p \in DOMAIN aliases : aliases[p] \in Path,
         NEW rank \in [DOMAIN aliases -> Nat],
         \A p \in DOMAIN aliases :
           aliases[p] \in DOMAIN aliases => rank[p] < rank[aliases[p]],
         NEW path \in Path,
         NEW Q, path \in Q, \A p \in Q \cap DOMAIN aliases : aliases[p] \in Q,
         Cardinality(Q \cap DOMAIN aliases) <= MAX_ALIAS_DEPTH
  PROVE  resolve_alias(aliases, path) \in Q \ DOMAIN aliases
<1> DEFINE D == DOMAIN aliases
           N == Cardinality(D)
<1>0. PICK c : Follows(c, aliases, path)
  BY ChainDefined
<1>1. /\ c \in [Nat -> Path] /\ c[0] = path
      /\ \A n \in Nat : c[n + 1] = IF c[n] \in D THEN aliases[c[n]] ELSE c[n]
      /\ resolve_alias(aliases, path) = c[Min(Stops(c, aliases))]
  BY <1>0 DEF Follows
<1> DEFINE Ends == Stops(c, aliases)
<1> USE DEF Stops
<1>2. N \in Nat
  BY FS_CardinalityType
<1>3. Ends # {}
  <2>1. CASE \E k \in 0..N : c[k] \notin D
    BY <1>2, <2>1
  <2>2. CASE \A k \in 0..N : c[k] \in D
    <3> DEFINE f == [k \in 0..N |-> c[k]]
    <3>1. f \in [0..N -> D]
      BY <2>2
    <3>2. IsFiniteSet(0..N) /\ Cardinality(0..N) = N + 1 /\ N < N + 1
      BY <1>2, FS_Interval
    <3> HIDE DEF f, D, N
    <3>3. PICK x, y \in 0..N : x # y /\ f[x] = f[y]
      <4>1. IsFiniteSet(D) /\ Cardinality(D) < Cardinality(0..N)
        BY <3>2 DEF D, N
      <4> QED
        BY <3>1, <3>2, <4>1, FS_PigeonHole
    <3>4. c[x] = c[y]
      BY <3>3 DEF f
    <3>5. x \in 0..(N + 1) /\ y \in 0..(N + 1) /\ (x \in 0..(y - 1) \/ y \in 0..(x - 1))
      BY <1>2, <3>3
    <3> QED
      BY <3>4, <3>5 DEF D, N
  <2> QED
    BY <2>1, <2>2
<1> DEFINE m == Min(Ends)
<1>4. m \in Ends /\ \A k \in Ends : m <= k
  <2>1. \E k \in Ends : \A j \in Ends : k <= j
    <3>1. Ends \in SUBSET Nat
      BY <1>2
    <3> HIDE DEF Ends
    <3> QED
      BY <1>3, <3>1, Least
  <2> HIDE DEF Ends
  <2> QED
    BY <2>1 DEF Min
<1>5. resolve_alias(aliases, path) = c[m]
  BY <1>1
<1> HIDE DEF m
<1>6. m \in Nat /\ m \in 0..(N + 1)
  BY <1>2, <1>4
<1>7. \A k \in Nat : c[k] \in Q
  <2> DEFINE T == {k \in Nat : c[k] \in Q}
  <2>1. 0 \in T /\ \A k \in T : k + 1 \in T
    BY <1>1
  <2>2. T \in SUBSET Nat
    OBVIOUS
  <2> HIDE DEF T
  <2>3. T = Nat
    BY <2>1, <2>2, Induct
  <2> QED
    BY <2>3 DEF T
<1>8. c[m] \notin D
  <2> SUFFICES ASSUME c[m] \in D PROVE FALSE
    OBVIOUS
  <2>1. \A k \in Nat : k <= m => c[k] \in D
    BY <1>2, <1>4, <1>6
  <2>2. PICK j \in 0..(m - 1) : c[j] = c[m]
    <3> SUFFICES ASSUME m = MAX_ALIAS_DEPTH PROVE \E j \in 0..(m - 1) : c[j] = c[m]
      BY <1>4
    <3> DEFINE f == [k \in 0..m |-> c[k]]
               C == Q \cap D
    <3>1. f \in [0..m -> C]
      BY <1>6, <1>7, <2>1
    <3>2. IsFiniteSet(C) /\ Cardinality(C) < m + 1
      <4>1. IsFiniteSet(C)
        BY FS_Subset
      <4> QED
        BY <1>6, <4>1, FS_CardinalityType
    <3> HIDE DEF f, C
    <3>3. PICK x, y \in 0..m : x # y /\ f[x] = f[y]
      BY <1>6, <3>1, <3>2, Repeats
    <3>4. c[x] = c[y] /\ (x \in 0..(y - 1) \/ y \in 0..(x - 1))
          /\ x \in 0..(N + 1) /\ y \in 0..(N + 1)
      BY <1>2, <1>6, <3>3 DEF f
    <3> QED
      BY <1>4, <1>6, <3>4
  <2> DEFINE T == {i \in Nat : j + i + 1 <= m => rank[c[j]] < rank[c[j + i + 1]]}
  <2>3. 0 \in T
    <3>1. j \in Nat /\ c[j] \in D /\ c[j + 1] = aliases[c[j]] /\ j + 1 \in Nat
      BY <1>1, <1>6, <2>2, <2>1
    <3>2. j + 1 <= m => rank[c[j]] < rank[c[j + 1]]
      BY <1>6, <2>1, <3>1
    <3>3. j + 0 + 1 = j + 1
      BY <3>1
    <3> QED
      BY <3>2, <3>3
  <2>4. ASSUME NEW i \in T PROVE i + 1 \in T
    <3> DEFINE k == j + i + 1
    <3>1. i \in Nat /\ j \in Nat /\ k \in Nat /\ j + (i + 1) + 1 = k + 1
      OBVIOUS
    <3>2. k + 1 <= m => /\ c[j] \in D /\ c[k] \in D /\ c[k + 1] \in D
                        /\ rank[c[j]] < rank[c[k]] /\ c[k + 1] = aliases[c[k]]
      BY <1>1, <1>6, <2>1, <3>1
    <3> HIDE DEF k
    <3>3. k + 1 <= m => rank[c[j]] < rank[c[k + 1]]
      <4> SUFFICES ASSUME k + 1 <= m PROVE rank[c[j]] < rank[c[k + 1]]
        OBVIOUS
      <4>1. rank[c[k]] < rank[c[k + 1]]
        BY <3>2
      <4>2. rank[c[j]] \in Nat /\ rank[c[k]] \in Nat /\ rank[c[k + 1]] \in Nat
        BY <3>2
      <4> QED
        BY <3>2, <4>1, <4>2
    <3> QED
      BY <3>1, <3>3
  <2>5. T = Nat
    <3>1. T \in SUBSET Nat
      OBVIOUS
    <3> HIDE DEF T
    <3> QED
      BY <2>3, <2>4, <3>1, Induct
  <2>6. m - j - 1 \in Nat /\ j + (m - j - 1) + 1 = m
    BY <1>6, <2>2
  <2>7. rank[c[j]] < rank[c[m]] /\ rank[c[m]] \in Nat
    <3>1. m - j - 1 \in T
      BY <2>5, <2>6
    <3>2. m <= m /\ rank[c[m]] \in Nat
      BY <1>6
    <3> QED
      BY <2>6, <3>1, <3>2
  <2> QED
    BY <2>2, <2>7
<1> QED
  BY <1>5, <1>6, <1>7, <1>8

-----------------------------------------------------------------------------
(***************************************************************************)
(* Maps and sequences.                                                      *)
(***************************************************************************)
\* Maps with no entry, with one, and one written over another.
LEMMA NoEntry == DOMAIN <<>> = {}
  OBVIOUS

\* A map of one entry.
LEMMA OneEntry == \A s, d : DOMAIN Only(s, d) = {s} /\ Only(s, d)[s] = d
BY DEF Only

\* Writing one map over another.
LEMMA Written ==
  \A f, h : /\ DOMAIN Over(f, h) = DOMAIN f \cup DOMAIN h
            /\ \A x \in DOMAIN f : Over(f, h)[x] = f[x]
            /\ \A x \in DOMAIN h \ DOMAIN f : Over(f, h)[x] = h[x]
BY DEF Over

\* The map `new` is `old` with v written at k.
Updates(new, old, k, v) ==
  /\ DOMAIN new = {k} \cup DOMAIN old
  /\ new[k] = v
  /\ \A x \in DOMAIN old \ {k} : new[x] = old[x]

\* Writing a map of one entry over another updates that entry alone.
LEMMA OneWritten ==
  ASSUME NEW k, NEW v, NEW old, NEW new, new = Over(Only(k, v), old)
  PROVE  Updates(new, old, k, v)
<1> DEFINE one == Only(k, v)
<1>1. DOMAIN one = {k} /\ one[k] = v
  BY OneEntry
<1> HIDE DEF one
<1>2. new = Over(one, old)
  BY DEF one
<1>3. DOMAIN new = {k} \cup DOMAIN old
  BY <1>1, <1>2, Written
<1>4. new[k] = v
  BY <1>1, <1>2, Written
<1>5. \A x \in DOMAIN old \ {k} : new[x] = old[x]
  BY <1>1, <1>2, Written
<1> QED
  BY <1>3, <1>4, <1>5 DEF Updates

\* What an event renames.
LEMMA Renamings ==
  ASSUME NEW r \in Renaming
  PROVE  /\ DOMAIN r \subseteq Path /\ IsFiniteSet(DOMAIN r)
         /\ \A s \in DOMAIN r : r[s] \in Path /\ DOMAIN r = {s}
<1>1. CASE r = <<>>
  <2>1. DOMAIN r = {}
    BY <1>1, NoEntry
  <2>2. IsFiniteSet({})
    BY FS_EmptySet
  <2> QED
    BY <2>1, <2>2
<1>2. ASSUME NEW s \in Path, NEW d \in Path, r = Only(s, d)
      PROVE  /\ DOMAIN r \subseteq Path /\ IsFiniteSet(DOMAIN r)
             /\ \A t \in DOMAIN r : r[t] \in Path /\ DOMAIN r = {t}
  <2>1. DOMAIN r = {s} /\ r[s] = d
    BY <1>2, OneEntry
  <2>2. IsFiniteSet({s})
    BY FS_Singleton
  <2> QED
    BY <2>1, <2>2
<1>3. r = <<>> \/ \E s \in Path, d \in Path : r = Only(s, d)
  BY DEF Renaming
<1> QED
  BY <1>1, <1>2, <1>3

\* A sequence of events, newest first, that gets a newer one in front ...
LEMMA InFront ==
  ASSUME NEW s \in Seq(Record), Decreasing(s), NEW e \in Record,
         \A d \in ToSet(s) : d.oid < e.oid
  PROVE  /\ <<e>> \o s \in Seq(Record) /\ Decreasing(<<e>> \o s)
         /\ ToSet(<<e>> \o s) = ToSet(s) \cup {e}
<1> DEFINE t == <<e>> \o s
<1>1. /\ t \in Seq(Record) /\ Len(t) = Len(s) + 1 /\ Len(s) \in Nat
      /\ DOMAIN t = 1..Len(t) /\ DOMAIN s = 1..Len(s)
      /\ t[1] = e /\ \A i \in 1..Len(s) : t[i + 1] = s[i]
  OBVIOUS
<1> HIDE DEF t
<1>2. \A i \in DOMAIN t : i = 1 \/ (i - 1 \in DOMAIN s /\ t[i] = s[i - 1])
  <2> TAKE i \in DOMAIN t
  <2>1. i # 1 => i - 1 \in 1..Len(s) /\ (i - 1) + 1 = i
    BY <1>1
  <2> QED
    BY <1>1, <2>1
<1>3. Decreasing(t)
  <2> SUFFICES ASSUME NEW i \in DOMAIN t, NEW j \in DOMAIN t, i < j PROVE t[j].oid < t[i].oid
    BY DEF Decreasing
  <2>1. j # 1 /\ i \in Nat /\ j \in Nat
    BY <1>1
  <2>2. CASE i = 1
    <3>1. t[j] \in ToSet(s)
      BY <1>2, <2>1 DEF ToSet
    <3> QED
      BY <1>1, <2>2, <3>1
  <2>3. CASE i # 1
    <3>1. i - 1 < j - 1
      BY <2>1
    <3> QED
      BY <1>2, <2>1, <2>3, <3>1 DEF Decreasing
  <2> QED
    BY <2>2, <2>3
<1>4. ToSet(t) = ToSet(s) \cup {e}
  <2>1. \A x \in ToSet(t) : x \in ToSet(s) \cup {e}
    BY <1>1, <1>2 DEF ToSet
  <2>2. \A x \in ToSet(s) : x \in ToSet(t)
    <3> SUFFICES ASSUME NEW i \in 1..Len(s) PROVE s[i] \in ToSet(t)
      BY <1>1 DEF ToSet
    <3>1. i + 1 \in DOMAIN t
      BY <1>1
    <3> QED
      BY <1>1, <3>1 DEF ToSet
  <2>3. e \in ToSet(t)
    BY <1>1 DEF ToSet
  <2> QED
    BY <2>1, <2>2, <2>3
<1> QED
  BY <1>1, <1>3, <1>4 DEF t

\* ... and one whose first is taken.
LEMMA FirstTaken ==
  ASSUME NEW s \in Seq(Record), Decreasing(s), s # <<>>
  PROVE  /\ Head(s) \in ToSet(s) /\ Head(s) \in Record
         /\ Tail(s) \in Seq(Record) /\ Decreasing(Tail(s))
         /\ ToSet(Tail(s)) = ToSet(s) \ {Head(s)}
         /\ \A d \in ToSet(Tail(s)) : d.oid < Head(s).oid
<1> DEFINE t == Tail(s)
<1>1. /\ t \in Seq(Record) /\ Len(t) = Len(s) - 1 /\ Len(s) \in Nat \ {0}
      /\ DOMAIN t = 1..Len(t) /\ DOMAIN s = 1..Len(s)
      /\ Head(s) = s[1] /\ \A i \in 1..Len(t) : t[i] = s[i + 1]
      /\ \A i \in 1..Len(s) : s[i] \in Record
  OBVIOUS
<1> HIDE DEF t
<1>2. \A i \in DOMAIN t : i + 1 \in DOMAIN s /\ t[i] = s[i + 1] /\ 1 < i + 1
  BY <1>1
<1>3. Decreasing(t)
  <2> SUFFICES ASSUME NEW i \in DOMAIN t, NEW j \in DOMAIN t, i < j PROVE t[j].oid < t[i].oid
    BY DEF Decreasing
  <2>1. i + 1 < j + 1
    BY <1>1
  <2> QED
    BY <1>2, <2>1 DEF Decreasing
<1>4. 1 \in DOMAIN s
  BY <1>1
<1>5. \A d \in ToSet(t) : d.oid < Head(s).oid /\ d \in ToSet(s)
  BY <1>1, <1>2, <1>4 DEF ToSet, Decreasing
<1>6. \A d \in ToSet(s) : d \in Record
  BY <1>1 DEF ToSet
<1>7. ASSUME NEW d \in ToSet(s), d # Head(s) PROVE d \in ToSet(t)
  <2>1. PICK i \in 1..Len(s) : d = s[i]
    BY <1>1 DEF ToSet
  <2>2. i # 1 /\ i - 1 \in 1..Len(t) /\ (i - 1) + 1 = i
    BY <1>1, <1>7, <2>1
  <2>3. i - 1 \in DOMAIN t /\ t[i - 1] = d
    BY <1>1, <2>1, <2>2
  <2> QED
    BY <2>3 DEF ToSet
<1>8. Head(s) \in ToSet(s)
  BY <1>1, <1>4 DEF ToSet
<1>9. Head(s) \notin ToSet(t)
  BY <1>5, <1>6 DEF Record
<1>10. ToSet(t) = ToSet(s) \ {Head(s)}
  BY <1>5, <1>7, <1>9
<1> QED
  BY <1>1, <1>3, <1>5, <1>6, <1>8, <1>10 DEF t

-----------------------------------------------------------------------------
(***************************************************************************)
(* The history.                                                             *)
(***************************************************************************)
\* What a commit adds to the log, if it is recorded.
Event(renames, path, file) ==
  [oid |-> made + 1, renames |-> renames, touched |-> path, file |-> file]

\* A commit appends its event to the log, unless its operation is one to drop.
LEMMA Committed ==
  ASSUME LogRight, NEW op, NEW r \in Renaming, NEW p \in Path, NEW f \in File,
         \A s \in DOMAIN r : r[s] = p, Commit(op, r, p, f)
  PROVE  /\ LogRight'
         /\ \/ Events' = Events \cup {Event(r, p, f)}
            \/ Events' = Events /\ op \in Droppable
         /\ Event(r, p, f) \in Record
         /\ phase = "history" /\ UNCHANGED <<phase, todo, alias, credited>>
<1> DEFINE e == Event(r, p, f)
<1>1. made \in Nat /\ made' = made + 1
  BY DEF LogRight, Commit
<1>2. e \in Record /\ e.oid = made + 1 /\ e.renames = r /\ e.touched = p
  BY <1>1 DEF Event, Record
<1>3. phase = "history" /\ UNCHANGED <<phase, todo, alias, credited>>
  BY DEF Commit
<1>4. log' = <<e>> \o log \/ (log' = log /\ op \in Droppable)
  BY <1>1 DEF Commit, Event
<1>5. log \in Seq(Record) /\ Decreasing(log) /\ \A d \in Events : d.oid <= made
  BY DEF LogRight
<1>6. \A d \in Events : d \in Record
  <2>1. \A i \in DOMAIN log : log[i] \in Record
    BY <1>5
  <2> QED
    BY <2>1 DEF Events, ToSet
<1> HIDE DEF e
<1>7. CASE log' = <<e>> \o log
  <2>1. \A d \in ToSet(log) : d.oid < e.oid
    BY <1>1, <1>2, <1>5, <1>6 DEF Events, Record
  <2>2. log' \in Seq(Record) /\ Decreasing(log') /\ Events' = Events \cup {e}
    BY <1>2, <1>5, <1>7, <2>1, InFront DEF Events
  <2>3. \A d \in Events' : d.oid <= made' /\ \A s \in DOMAIN d.renames : d.renames[s] = d.touched
    BY <1>1, <1>2, <1>5, <1>6, <2>2 DEF LogRight, Record
  <2>4. LogRight'
    <3>1. (Decreasing(log))'
      BY <2>2 DEF Decreasing
    <3> QED
      BY <1>1, <2>2, <2>3, <3>1 DEF LogRight
  <2> QED
    BY <1>2, <1>3, <2>2, <2>4 DEF e
<1>8. CASE log' = log /\ op \in Droppable
  <2>1. Events' = Events
    BY <1>8 DEF Events
  <2>2. (Decreasing(log))'
    BY <1>5, <1>8 DEF Decreasing
  <2>3. \A d \in Events' : d.oid <= made'
    BY <1>1, <1>5, <1>6, <2>1 DEF Record
  <2>4. LogRight'
    BY <1>1, <1>8, <2>1, <2>2, <2>3 DEF LogRight
  <2> QED
    BY <1>2, <1>3, <1>8, <2>1, <2>4 DEF e
<1> QED
  BY <1>4, <1>7, <1>8

\* What Put does to the maps.
LEMMA Puts ==
  ASSUME NEW f, NEW p, NEW from, Put(f, p, from)
  PROVE  /\ Updates(tree', [q \in DOMAIN tree \ from |-> tree[q]], p, f)
         /\ Updates(lastPath', lastPath, f, p)
         /\ used' = used \cup {p}
<1> DEFINE rest == [q \in DOMAIN tree \ from |-> tree[q]]
<1>1. tree' = Over(Only(p, f), rest) /\ lastPath' = Over(Only(f, p), lastPath)
      /\ used' = used \cup {p}
  BY DEF Put
<1> HIDE DEF rest
<1>2. Updates(tree', rest, p, f)
  BY <1>1, OneWritten
<1>3. Updates(lastPath', lastPath, f, p)
  BY <1>1, OneWritten
<1> QED
  BY <1>1, <1>2, <1>3 DEF rest

\* A change of a file where it is adds no name and no edge.
LEMMA InPlace ==
  ASSUME HistoryRight, NEW p \in DOMAIN tree, NEW e, e.file = tree[p], e.touched = p,
         DOMAIN e.renames = {}, e.oid = made + 1,
         Events' = Events \cup {e} \/ Events' = Events,
         LogRight', UNCHANGED <<created, lastPath, used>>,
         DOMAIN tree' \subseteq DOMAIN tree, \A q \in DOMAIN tree' : tree'[q] = tree[q]
  PROVE  HistoryRight'
<1>1. LogRight /\ FilesRight /\ OneFile /\ EdgesRight
  BY DEF HistoryRight
<1>2. \A q, h : Names(q, h)' <=> Names(q, h)
  <2>1. Names(p, tree[p])
    BY <1>1 DEF FilesRight, Names
  <2> QED
    BY <2>1 DEF Names
<1>3. RenamedAway' = RenamedAway
  BY DEF RenamedAway
<1>4. FilesRight'
  BY <1>1 DEF FilesRight
<1>5. OneFile'
  BY <1>1, <1>2 DEF OneFile
<1>6. EdgesRight'
  <2>1. RenamedAway' \subseteq used' \ DOMAIN tree' /\ IsFiniteSet(RenamedAway')
    BY <1>1, <1>3 DEF EdgesRight
  <2>2. \A c, d \in Events' : DOMAIN c.renames \cap DOMAIN d.renames # {} => c = d
    BY <1>1 DEF EdgesRight
  <2>3. \A c, d \in Events' : c.touched \in DOMAIN d.renames => c.oid < d.oid
    <3>1. p \notin RenamedAway
      BY <1>1 DEF EdgesRight
    <3>2. \A d \in Events : p \notin DOMAIN d.renames
      BY <3>1 DEF RenamedAway
    <3> QED
      BY <1>1, <3>2 DEF EdgesRight
  <2>4. \A q, h : Names(q, h)' => (q \in RenamedAway' <=> q # lastPath'[h])
    BY <1>1, <1>2, <1>3 DEF EdgesRight
  <2> QED
    BY <2>1, <2>2, <2>3, <2>4 DEF EdgesRight
<1> QED
  BY <1>4, <1>5, <1>6 DEF HistoryRight

\* A path that was never in use gets a file, which leaves the path it had, if
\* any, by an edge in the log.
LEMMA Moved ==
  ASSUME HistoryRight, NEW f \in File, NEW p \in Path \ used, NEW from, Put(f, p, from),
         NEW e, e.file = f, e.touched = p, e.oid = made + 1, DOMAIN e.renames = from,
         created' = created \cup {f}, LogRight',
         \/ f \notin created /\ from = {} /\ (Events' = Events \cup {e} \/ Events' = Events)
         \/ \E s \in DOMAIN tree : tree[s] = f /\ from = {s} /\ Events' = Events \cup {e}
  PROVE  HistoryRight'
<1>1. LogRight /\ FilesRight /\ OneFile /\ EdgesRight
  BY DEF HistoryRight
<1>2. /\ DOMAIN tree' = {p} \cup (DOMAIN tree \ from)
      /\ tree'[p] = f /\ \A q \in (DOMAIN tree \ from) \ {p} : tree'[q] = tree[q]
      /\ DOMAIN lastPath' = {f} \cup created
      /\ lastPath'[f] = p /\ \A h \in created \ {f} : lastPath'[h] = lastPath[h]
      /\ used' = used \cup {p}
  <2>1. DOMAIN lastPath = created
    BY <1>1 DEF FilesRight
  <2>2. /\ Updates(tree', [q \in DOMAIN tree \ from |-> tree[q]], p, f)
        /\ Updates(lastPath', lastPath, f, p) /\ used' = used \cup {p}
    BY Puts
  <2> QED
    BY <2>1, <2>2 DEF Updates
<1>3. /\ p \notin DOMAIN tree /\ p \notin RenamedAway /\ p \notin from
      /\ \A h : ~Names(p, h)
      /\ \A d \in Events : d.touched # p /\ p \notin DOMAIN d.renames
  <2>1. p \notin DOMAIN tree /\ p \notin RenamedAway /\ \A h : ~Names(p, h)
    BY <1>1 DEF FilesRight, EdgesRight, OneFile
  <2>2. \A d \in Events : d.touched # p /\ p \notin DOMAIN d.renames
    BY <2>1 DEF Names
  <2> QED
    BY <2>1, <2>2
<1>4. \A s \in from : s \in DOMAIN tree /\ tree[s] = f /\ lastPath[f] = s /\ f \in created
                      /\ Names(s, f) /\ e \in Events'
  BY <1>1 DEF FilesRight, Names
<1>5. f \notin created => \A q : ~Names(q, f)
  BY <1>1 DEF OneFile
<1>6. \A q, h : Names(q, h)' <=> Names(q, h) \/ (q = p /\ h = f)
  <2>1. ASSUME NEW q, NEW h, Names(q, h)' PROVE Names(q, h) \/ (q = p /\ h = f)
    <3>1. CASE h \in created' /\ lastPath'[h] = q
      BY <1>2, <3>1 DEF Names
    <3>2. ASSUME NEW d \in Events', d.file = h, q = d.touched \/ q \in DOMAIN d.renames
          PROVE  Names(q, h) \/ (q = p /\ h = f)
      <4>1. CASE d \in Events
        BY <3>2, <4>1 DEF Names
      <4>2. CASE d = e
        BY <1>4, <3>2, <4>2
      <4> QED
        BY <4>1, <4>2
    <3> QED
      BY <2>1, <3>1, <3>2 DEF Names
  <2>2. ASSUME NEW q, NEW h, Names(q, h) PROVE Names(q, h)'
    <3>1. CASE h \in created /\ lastPath[h] = q
      <4>1. CASE h # f
        BY <1>2, <3>1, <4>1 DEF Names
      <4>2. CASE h = f
        <5>1. q \in from
          BY <1>1, <3>1, <4>2 DEF FilesRight
        <5> QED
          BY <1>4, <4>2, <5>1 DEF Names
      <4> QED
        BY <4>1, <4>2
    <3>2. CASE \E d \in Events : d.file = h /\ (q = d.touched \/ q \in DOMAIN d.renames)
      BY <3>2 DEF Names
    <3> QED
      BY <2>2, <3>1, <3>2 DEF Names
  <2>3. Names(p, f)'
    BY <1>2 DEF Names
  <2> QED
    BY <2>1, <2>2, <2>3
<1>7. RenamedAway' = RenamedAway \cup from
  BY DEF RenamedAway
<1>8. FilesRight'
  <2>1. created' \subseteq File /\ used' \subseteq Path /\ DOMAIN lastPath' = created'
        /\ DOMAIN tree' \subseteq used'
    BY <1>1, <1>2 DEF FilesRight
  <2>2. \A h \in created' : lastPath'[h] \in Path
    BY <1>1, <1>2 DEF FilesRight
  <2>3. ASSUME NEW q \in DOMAIN tree' PROVE tree'[q] \in created' /\ lastPath'[tree'[q]] = q
    <3>1. CASE q = p
      BY <1>2, <3>1
    <3>2. CASE q # p
      <4>1. q \in DOMAIN tree /\ q \notin from /\ tree'[q] = tree[q]
            /\ tree[q] \in created /\ lastPath[tree[q]] = q
        BY <1>1, <1>2, <3>2 DEF FilesRight
      <4>2. tree[q] # f
        BY <1>4, <4>1
      <4> QED
        BY <1>2, <4>1, <4>2
    <3> QED
      BY <3>1, <3>2
  <2> QED
    BY <2>1, <2>2, <2>3 DEF FilesRight
<1>9. OneFile'
  <2>1. \A q, h : Names(q, h)' => q \in used' /\ h \in created'
    BY <1>1, <1>2, <1>6 DEF OneFile
  <2>2. \A q, h, k : Names(q, h)' /\ Names(q, k)' => h = k
    BY <1>1, <1>3, <1>6 DEF OneFile
  <2> QED
    BY <2>1, <2>2 DEF OneFile
<1>10. EdgesRight'
  <2>1. RenamedAway' \subseteq used' \ DOMAIN tree'
    BY <1>1, <1>2, <1>3, <1>4, <1>7 DEF EdgesRight, FilesRight
  <2>6. IsFiniteSet(RenamedAway')
    <3>1. \A A, B : IsFiniteSet(A) /\ IsFiniteSet(B) => IsFiniteSet(A \cup B)
      BY FS_Union
    <3>2. \A s : IsFiniteSet({s})
      BY FS_Singleton
    <3>3. IsFiniteSet(from)
      BY <3>2, FS_EmptySet
    <3> QED
      BY <1>1, <1>7, <3>1, <3>3 DEF EdgesRight
  <2>2. \A s \in from : s \notin RenamedAway /\ \A d \in Events : s \notin DOMAIN d.renames
    <3>1. \A s \in from : s \notin RenamedAway
      BY <1>1, <1>4 DEF EdgesRight
    <3> QED
      BY <3>1 DEF RenamedAway
  <2>3. \A c, d \in Events' : DOMAIN c.renames \cap DOMAIN d.renames # {} => c = d
    BY <1>1, <2>2 DEF EdgesRight
  <2>4. ASSUME NEW c \in Events', NEW d \in Events', c.touched \in DOMAIN d.renames
        PROVE  c.oid < d.oid
    <3>1. CASE c \in Events /\ d \in Events
      BY <1>1, <2>4, <3>1 DEF EdgesRight
    <3>2. CASE c = e
      BY <1>3, <2>4, <3>2
    <3>3. CASE c \in Events /\ d = e
      <4>1. c.oid <= made /\ made \in Nat /\ c.oid \in Nat
        <5>1. c.oid <= made /\ made \in Nat /\ log \in Seq(Record)
          BY <1>1, <3>3 DEF LogRight
        <5>2. c \in Record
          BY <3>3, <5>1 DEF Events, ToSet
        <5> QED
          BY <5>1, <5>2 DEF Record
      <4> QED
        BY <3>3, <4>1
    <3> QED
      BY <3>1, <3>2, <3>3
  <2>5. ASSUME NEW q, NEW h, Names(q, h)' PROVE q \in RenamedAway' <=> q # lastPath'[h]
    <3>1. CASE q = p
      <4>1. h = f
        BY <1>3, <1>6, <2>5, <3>1
      <4> QED
        BY <1>2, <1>3, <1>7, <3>1, <4>1
    <3>2. CASE q # p /\ h # f
      <4>1. Names(q, h) /\ h \in created /\ lastPath'[h] = lastPath[h]
        BY <1>1, <1>2, <1>6, <2>5, <3>2 DEF OneFile
      <4>2. q \notin from
        BY <1>1, <1>4, <3>2, <4>1 DEF OneFile
      <4>3. q \in RenamedAway <=> q # lastPath[h]
        BY <1>1, <4>1 DEF EdgesRight
      <4> QED
        BY <1>7, <4>1, <4>2, <4>3
    <3>3. CASE q # p /\ h = f
      <4>1. Names(q, f) /\ f \in created
        BY <1>1, <1>6, <2>5, <3>3 DEF OneFile
      <4>2. PICK s \in from : lastPath[f] = s
        BY <1>4, <4>1
      <4>3. q \in RenamedAway <=> q # s
        BY <1>1, <4>1, <4>2 DEF EdgesRight
      <4> QED
        BY <1>2, <1>7, <3>3, <4>2, <4>3
    <3> QED
      BY <3>1, <3>2, <3>3
  <2> QED
    BY <2>1, <2>3, <2>4, <2>5, <2>6 DEF EdgesRight
<1> QED
  BY <1>8, <1>9, <1>10 DEF HistoryRight

\* A commit keeps the history right, and there is no replay yet.
LEMMA HistoryStep ==
  ASSUME ~PathsReused, "rename" \notin Droppable, HistoryRight,
         Create \/ Edit \/ Rename \/ Delete
  PROVE  HistoryRight' /\ phase = "history" /\ UNCHANGED <<phase, todo, alias, credited>>
<1>1. LogRight /\ FilesRight /\ OneFile /\ EdgesRight
  BY DEF HistoryRight
<1>2. <<>> \in Renaming /\ DOMAIN <<>> = {}
  BY NoEntry DEF Renaming
<1>3. /\ \A p \in DOMAIN tree : p \in Path /\ tree[p] \in File /\ tree[p] \in created
      /\ \A p \in Free : p \in Path \ used
  BY <1>1 DEF FilesRight, Free
<1>4. ASSUME NEW f \in File \ created, NEW p \in Free, Commit("create", <<>>, p, f),
             Put(f, p, {}), created' = created \cup {f}
      PROVE  HistoryRight' /\ phase = "history" /\ UNCHANGED <<phase, todo, alias, credited>>
  <2> DEFINE e == Event(<<>>, p, f)
  <2>1. /\ LogRight' /\ (Events' = Events \cup {e} \/ Events' = Events)
        /\ phase = "history" /\ UNCHANGED <<phase, todo, alias, credited>>
    BY <1>1, <1>2, <1>3, <1>4, Committed
  <2>2. e.file = f /\ e.touched = p /\ e.oid = made + 1 /\ DOMAIN e.renames = {}
    BY <1>2 DEF Event
  <2> HIDE DEF e
  <2>3. HistoryRight'
    BY <1>3, <1>4, <2>1, <2>2, Moved
  <2> QED
    BY <2>1, <2>3
<1>5. ASSUME NEW p \in DOMAIN tree, NEW op, Commit(op, <<>>, p, tree[p]),
             UNCHANGED <<created, lastPath, used>>,
             DOMAIN tree' \subseteq DOMAIN tree, \A q \in DOMAIN tree' : tree'[q] = tree[q]
      PROVE  HistoryRight' /\ phase = "history" /\ UNCHANGED <<phase, todo, alias, credited>>
  <2> DEFINE e == Event(<<>>, p, tree[p])
  <2>1. /\ LogRight' /\ (Events' = Events \cup {e} \/ Events' = Events)
        /\ phase = "history" /\ UNCHANGED <<phase, todo, alias, credited>>
    BY <1>1, <1>2, <1>3, <1>5, Committed
  <2>2. e.file = tree[p] /\ e.touched = p /\ e.oid = made + 1 /\ DOMAIN e.renames = {}
    BY <1>2 DEF Event
  <2> HIDE DEF e
  <2>3. HistoryRight'
    BY <1>5, <2>1, <2>2, InPlace
  <2> QED
    BY <2>1, <2>3
<1>6. ASSUME NEW s \in DOMAIN tree, NEW d \in Free, Commit("rename", Only(s, d), d, tree[s]),
             Put(tree[s], d, {s}), created' = created
      PROVE  HistoryRight' /\ phase = "history" /\ UNCHANGED <<phase, todo, alias, credited>>
  <2> DEFINE r == Only(s, d)
             e == Event(r, d, tree[s])
  <2>1. r \in Renaming /\ DOMAIN r = {s} /\ \A x \in DOMAIN r : r[x] = d
    <3>1. s \in Path /\ d \in Path
      BY <1>3
    <3>2. r \in Renaming
      BY <3>1 DEF Renaming
    <3>3. DOMAIN r = {s} /\ r[s] = d
      BY OneEntry
    <3> QED
      BY <3>2, <3>3
  <2> HIDE DEF r
  <2>2. /\ LogRight' /\ Events' = Events \cup {e}
        /\ phase = "history" /\ UNCHANGED <<phase, todo, alias, credited>>
    <3>1. Commit("rename", r, d, tree[s]) /\ d \in Path /\ tree[s] \in File
      BY <1>3, <1>6 DEF r
    <3> QED
      BY <1>1, <2>1, <3>1, Committed
  <2>3. e.file = tree[s] /\ e.touched = d /\ e.oid = made + 1 /\ DOMAIN e.renames = {s}
    BY <2>1 DEF Event
  <2> HIDE DEF e
  <2>4. created' = created \cup {tree[s]} /\ tree[s] \in File /\ d \in Path \ used
    BY <1>3, <1>6
  <2>5. HistoryRight'
    BY <1>6, <2>2, <2>3, <2>4, Moved
  <2> QED
    BY <2>2, <2>5
<1>7. CASE Create
  BY <1>4, <1>7 DEF Create
<1>8. CASE Edit
  BY <1>5, <1>8 DEF Edit
<1>9. CASE Rename
  BY <1>6, <1>9 DEF Rename
<1>10. CASE Delete
  BY <1>5, <1>10 DEF Delete
<1> QED
  BY <1>7, <1>8, <1>9, <1>10

-----------------------------------------------------------------------------
(***************************************************************************)
(* The replay.                                                              *)
(***************************************************************************)
\* Nothing is in the empty sequence.
LEMMA Nothing == <<>> \in Seq(Record) /\ ToSet(<<>>) = {} /\ Decreasing(<<>>)
<1>1. <<>> \in Seq(Record) /\ DOMAIN <<>> = {}
  OBVIOUS
<1> QED
  BY <1>1 DEF ToSet, Decreasing

\* The files of the tree are those whose last path is in it.
LEMMA ExistingAtLast ==
  ASSUME HistoryRight, NEW p, NEW f, Names(p, f)
  PROVE  f \in Existing <=> lastPath[f] \in DOMAIN tree
<1>1. FilesRight /\ OneFile
  BY DEF HistoryRight
<1>2. f \in created
  BY <1>1 DEF OneFile
<1>3. ASSUME f \in Existing PROVE lastPath[f] \in DOMAIN tree
  BY <1>1, <1>3 DEF FilesRight, Existing
<1>4. ASSUME lastPath[f] \in DOMAIN tree PROVE f \in Existing
  <2> DEFINE q == lastPath[f]
  <2>1. Names(q, f) /\ Names(q, tree[q])
    BY <1>1, <1>2, <1>4 DEF Names, FilesRight
  <2>2. f = tree[q]
    BY <1>1, <2>1 DEF OneFile
  <2> QED
    BY <1>4, <2>2 DEF Existing
<1> QED
  BY <1>3, <1>4

\* When the aliases are the edges of the event and of every newer one, the chain
\* from its path leads to where its file went.
LEMMA LeadsHome ==
  ASSUME HistoryRight, FewRenames, NEW event \in Events, NEW aliases, IsFiniteSet(DOMAIN aliases),
         DOMAIN aliases = UNION {DOMAIN d.renames : d \in {d \in Events : d.oid >= event.oid}},
         \A d \in Events : d.oid >= event.oid =>
           \A s \in DOMAIN d.renames : aliases[s] = d.touched
  PROVE  resolve_alias(aliases, event.touched) = lastPath[event.file]
<1> DEFINE f == event.file
           D == DOMAIN aliases
           Newer == {d \in Events : d.oid >= event.oid}
           Q == {p \in Path : Names(p, f) /\ \A d \in Events : p \in DOMAIN d.renames => d \in Newer}
<1>1. LogRight /\ FilesRight /\ OneFile /\ EdgesRight
  BY DEF HistoryRight
<1>2. \A d \in Events : d \in Record /\ d.oid \in Nat /\ d.touched \in Path
                        /\ d.renames \in Renaming /\ d.file \in File
  <2>1. \A i \in DOMAIN log : log[i] \in Record
    BY <1>1 DEF LogRight
  <2> QED
    BY <2>1 DEF Events, ToSet, Record
<1>3. \A d \in Events : DOMAIN d.renames \subseteq Path
  BY <1>2, Renamings
<1> DEFINE edge(p) == CHOOSE d \in Newer : p \in DOMAIN d.renames
           rank == [p \in D |-> edge(p).oid]
<1>4. \A p \in D : edge(p) \in Newer /\ p \in DOMAIN edge(p).renames
  OBVIOUS
<1>5. \A d \in Newer : \A s \in DOMAIN d.renames : s \in D /\ aliases[s] = d.touched /\ edge(s) = d
  <2> TAKE d \in Newer
  <2> TAKE s \in DOMAIN d.renames
  <2>1. s \in D /\ aliases[s] = d.touched
    OBVIOUS
  <2>2. edge(s) \in Events /\ s \in DOMAIN edge(s).renames
    BY <1>4, <2>1
  <2> HIDE DEF edge
  <2>3. edge(s) = d
    BY <1>1, <2>2 DEF EdgesRight
  <2> QED
    BY <2>1, <2>3
<1> HIDE DEF edge
<1>6. rank \in [D -> Nat] /\ \A p \in D : rank[p] = edge(p).oid
  BY <1>2, <1>4
<1>7. D \subseteq Path /\ \A p \in D : aliases[p] \in Path
  BY <1>2, <1>3, <1>4, <1>5
<1>8. ASSUME NEW p \in D, aliases[p] \in D PROVE rank[p] < rank[aliases[p]]
  <2>1. /\ edge(p) \in Events /\ aliases[p] = edge(p).touched
        /\ edge(aliases[p]) \in Events /\ aliases[p] \in DOMAIN edge(aliases[p]).renames
    BY <1>4, <1>5, <1>8
  <2>2. edge(p).oid < edge(aliases[p]).oid
    BY <1>1, <2>1 DEF EdgesRight
  <2> QED
    BY <1>6, <1>8, <2>2
<1>9. event.touched \in Q
  <2>1. Names(event.touched, f)
    BY DEF Names
  <2>2. \A d \in Events : event.touched \in DOMAIN d.renames => d.oid >= event.oid
    BY <1>1, <1>2 DEF EdgesRight
  <2> QED
    BY <1>2, <2>1, <2>2
<1>10. ASSUME NEW p \in Q \cap D PROVE aliases[p] \in Q
  <2> DEFINE d == edge(p)
  <2>1. d \in Events /\ d \in Newer /\ p \in DOMAIN d.renames /\ aliases[p] = d.touched
    BY <1>4, <1>5
  <2>2. Names(p, d.file) /\ Names(d.touched, d.file)
    BY <2>1 DEF Names
  <2>3. d.file = f
    BY <1>1, <2>2 DEF OneFile
  <2>4. \A h \in Events : d.touched \in DOMAIN h.renames => d.oid < h.oid
    BY <1>1, <2>1 DEF EdgesRight
  <2>5. \A h \in Events : d.touched \in DOMAIN h.renames => h \in Newer
    BY <1>2, <2>1, <2>4
  <2> QED
    BY <1>2, <2>1, <2>2, <2>3, <2>5
<1>14. Cardinality(Q \cap D) <= MAX_ALIAS_DEPTH
  <2>1. Q \cap D \subseteq FormerPaths(f)
    <3> SUFFICES ASSUME NEW p \in Q \cap D PROVE p \in FormerPaths(f)
      OBVIOUS
    <3>1. edge(p) \in Events /\ p \in DOMAIN edge(p).renames /\ Names(p, f)
      BY <1>4
    <3>2. edge(p).file = f
      BY <1>1, <3>1 DEF OneFile, Names
    <3> QED
      BY <3>1, <3>2 DEF FormerPaths
  <2>2. FormerPaths(f) \subseteq RenamedAway /\ IsFiniteSet(RenamedAway)
    BY <1>1 DEF FormerPaths, RenamedAway, EdgesRight
  <2>3. IsFiniteSet(FormerPaths(f))
    BY <2>2, FS_Subset
  <2> DEFINE former == FormerPaths(f)
             C == Q \cap D
  <2>4. Cardinality(former) <= MAX_ALIAS_DEPTH
    BY <1>2 DEF FewRenames
  <2>5. Cardinality(C) <= Cardinality(former) /\ IsFiniteSet(C)
    BY <2>1, <2>3, FS_Subset
  <2> HIDE DEF former, C
  <2>6. Cardinality(C) \in Nat /\ Cardinality(former) \in Nat
    BY <2>3, <2>5, FS_CardinalityType DEF former
  <2>7. Cardinality(C) <= MAX_ALIAS_DEPTH
    BY <2>4, <2>5, <2>6, ReplayAssumption
  <2> QED
    BY <2>7 DEF C
<1> DEFINE home == resolve_alias(aliases, event.touched)
<1>11. home \in Q \ D
  <2>1. event.touched \in Path
    BY <1>2
  <2> HIDE DEF Q, rank
  <2> QED
    BY <1>6, <1>7, <1>8, <1>9, <1>10, <1>14, <2>1, ChainEnds
<1> HIDE DEF home
<1>12. home \notin RenamedAway
  <2>1. \A d \in Events : home \in DOMAIN d.renames => d \in Newer
    BY <1>11
  <2>2. \A d \in Newer : home \notin DOMAIN d.renames
    BY <1>5, <1>11
  <2> QED
    BY <2>1, <2>2 DEF RenamedAway
<1>13. home = lastPath[f]
  BY <1>1, <1>11, <1>12 DEF EdgesRight
<1> QED
  BY <1>13 DEF home

\* What a fold does when everything newer has been folded.
LEMMA FoldStep ==
  ASSUME ReplayInvariant, FewRenames, Fold
  PROVE  ReplayRight' /\ HomedAtTarget'
<1> DEFINE event == Head(todo)
           path == resolve_alias(alias', event.touched)
           home == lastPath[event.file]
           credit == fold_commit(event, path)
<1>1. /\ phase = "replay" /\ phase' = "replay" /\ todo # <<>> /\ todo' = Tail(todo)
      /\ alias' = Over(event.renames, alias)
      /\ credited' = credited \cup credit
      /\ UNCHANGED history
  BY DEF Fold
<1>2. HistoryRight /\ ReplayRight /\ HomedAtTarget
  BY DEF ReplayInvariant
<1>3. Events' = Events /\ Existing' = Existing /\ lastPath' = lastPath /\ deleted' = deleted
  BY <1>1 DEF history, Events, Existing
<1>4. /\ todo \in Seq(Record) /\ ToSet(todo) \subseteq Events /\ Decreasing(todo)
      /\ IsFiniteSet(DOMAIN alias)
      /\ \A d \in Folded, e \in ToSet(todo) : e.oid < d.oid
      /\ DOMAIN alias = UNION {DOMAIN e.renames : e \in Folded}
      /\ \A e \in Folded : \A s \in DOMAIN e.renames : alias[s] = e.touched
      /\ \A c \in credited : \E e \in Folded : c.oid = e.oid
  BY <1>1, <1>2 DEF ReplayRight
<1>5. /\ event \in ToSet(todo) /\ event \in Record
      /\ todo' \in Seq(Record) /\ Decreasing(Tail(todo))
      /\ ToSet(todo') = ToSet(todo) \ {event}
      /\ \A d \in ToSet(todo') : d.oid < event.oid
  BY <1>1, <1>4, FirstTaken
<1>6. \A d \in Events : d.oid \in Nat /\ d.renames \in Renaming
                        /\ \A s \in DOMAIN d.renames : d.renames[s] = d.touched
  <2>1. \A i \in DOMAIN log : log[i] \in Record
    BY <1>2 DEF HistoryRight, LogRight
  <2> QED
    BY <1>2, <2>1 DEF HistoryRight, LogRight, Events, ToSet, Record
<1> HIDE DEF event
<1>7. event \in Events /\ event \notin Folded /\ Folded \subseteq Events
      /\ Folded' = Folded \cup {event}
  BY <1>3, <1>4, <1>5 DEF Folded, Events
<1>8. \A d \in Folded : event.oid < d.oid
  BY <1>4, <1>5
<1>9. /\ DOMAIN alias' = UNION {DOMAIN d.renames : d \in Folded'}
      /\ \A d \in Folded' : \A s \in DOMAIN d.renames : alias'[s] = d.touched
  <2>1. /\ DOMAIN alias' = DOMAIN event.renames \cup DOMAIN alias
        /\ \A x \in DOMAIN event.renames : alias'[x] = event.renames[x]
        /\ \A x \in DOMAIN alias \ DOMAIN event.renames : alias'[x] = alias[x]
    <3> DEFINE r == event.renames
    <3>1. alias' = Over(r, alias)
      BY <1>1
    <3> HIDE DEF r
    <3>2. DOMAIN alias' = DOMAIN r \cup DOMAIN alias
      BY <3>1, Written
    <3>3. \A x \in DOMAIN r : alias'[x] = r[x]
      BY <3>1, Written
    <3>4. \A x \in DOMAIN alias \ DOMAIN r : alias'[x] = alias[x]
      BY <3>1, Written
    <3> QED
      BY <3>2, <3>3, <3>4 DEF r
  <2>2. DOMAIN alias' = UNION {DOMAIN d.renames : d \in Folded'}
    BY <1>4, <1>7, <2>1
  <2>3. ASSUME NEW d \in Folded', NEW s \in DOMAIN d.renames PROVE alias'[s] = d.touched
    <3>1. CASE s \in DOMAIN event.renames
      <4>1. d = event
        BY <1>2, <1>7, <3>1 DEF HistoryRight, EdgesRight
      <4> QED
        BY <1>6, <1>7, <2>1, <3>1, <4>1
    <3>2. CASE s \notin DOMAIN event.renames
      <4>1. d \in Folded
        BY <1>7, <3>2
      <4> QED
        BY <1>4, <2>1, <3>2, <4>1
    <3> QED
      BY <3>1, <3>2
  <2> QED
    BY <2>2, <2>3
<1>10. IsFiniteSet(DOMAIN alias')
  <2>1. IsFiniteSet(DOMAIN event.renames)
    BY <1>6, <1>7, Renamings
  <2>2. DOMAIN alias' = DOMAIN event.renames \cup DOMAIN alias
    BY <1>4, <1>7, <1>9
  <2>3. \A A, B : IsFiniteSet(A) /\ IsFiniteSet(B) => IsFiniteSet(A \cup B)
    BY FS_Union
  <2> QED
    BY <1>4, <2>1, <2>2, <2>3
<1>11. Folded' = {d \in Events : d.oid >= event.oid}
  <2>1. ASSUME NEW d \in Events, d.oid >= event.oid PROVE d \in Folded'
    <3>1. d \notin ToSet(todo')
      BY <1>5, <1>6, <1>7, <2>1
    <3> QED
      BY <1>3, <3>1 DEF Folded, Events
  <2>2. ASSUME NEW d \in Folded' PROVE d \in Events /\ d.oid >= event.oid
    BY <1>6, <1>7, <1>8
  <2> QED
    BY <2>1, <2>2
<1>12. path = home
  <2>1. \A d \in Events : d.oid >= event.oid => \A s \in DOMAIN d.renames : alias'[s] = d.touched
    BY <1>9, <1>11
  <2>2. DOMAIN alias' = UNION {DOMAIN d.renames : d \in {d \in Events : d.oid >= event.oid}}
    BY <1>9, <1>11
  <2> QED
    BY <1>2, <1>7, <1>10, <2>1, <2>2, LeadsHome
<1>13. credit = IF home \in DOMAIN tree \/ deleted
                THEN {[oid |-> event.oid, file |-> event.file, path |-> home]} ELSE {}
  BY <1>12 DEF fold_commit
<1> HIDE DEF path, credit
<1>14. \A c \in credited' : \E d \in Folded' : c.oid = d.oid
  BY <1>1, <1>4, <1>7, <1>13
<1>15. ReplayRight'
  <2>1. Decreasing(todo)'
    BY <1>1, <1>5 DEF Decreasing
  <2>2. \A d \in Folded', e \in ToSet(todo') : e.oid < d.oid
    BY <1>4, <1>5, <1>7
  <2>3. ToSet(todo') \subseteq Events'
    BY <1>3, <1>4, <1>5
  <2> QED
    BY <1>1, <1>5, <1>9, <1>10, <1>14, <2>1, <2>2, <2>3 DEF ReplayRight
<1>16. ASSUME NEW d \in Folded'
       PROVE  CreditedFor(d)' = IF d.file \in Existing' \/ deleted'
                                THEN {lastPath'[d.file]} ELSE {}
  <2>1. CASE d \in Folded
    <3>1. \A c \in credit : c.oid # d.oid
      BY <1>6, <1>7, <1>8, <1>13, <2>1
    <3>2. CreditedFor(d)' = CreditedFor(d)
      BY <1>1, <3>1 DEF CreditedFor
    <3> QED
      BY <1>1, <1>2, <1>3, <2>1, <3>2 DEF HomedAtTarget
  <2>2. CASE d = event
    <3>1. \A c \in credited : c.oid # event.oid
      <4> SUFFICES ASSUME NEW c \in credited, c.oid = event.oid PROVE FALSE
        OBVIOUS
      <4>1. PICK e \in Folded : c.oid = e.oid
        BY <1>4
      <4> QED
        BY <1>6, <1>7, <1>8, <4>1
    <3>2. \A c \in credit : c.oid = event.oid /\ c.path = home
      BY <1>13
    <3>3. CreditedFor(d)' = {c.path : c \in credit}
      BY <1>1, <2>2, <3>1, <3>2 DEF CreditedFor
    <3>4. event.file \in Existing <=> home \in DOMAIN tree
      <4>1. Names(event.touched, event.file)
        BY <1>7 DEF Names
      <4> QED
        BY <1>2, <4>1, ExistingAtLast
    <3>5. {c.path : c \in credit} = IF home \in DOMAIN tree \/ deleted THEN {home} ELSE {}
      <4>1. CASE home \in DOMAIN tree \/ deleted
        <5> DEFINE r == [oid |-> event.oid, file |-> event.file, path |-> home]
        <5>1. credit = {r} /\ r.path = home
          BY <1>13, <4>1
        <5> HIDE DEF r
        <5>2. {c.path : c \in {r}} = {r.path}
          OBVIOUS
        <5> QED
          BY <4>1, <5>1, <5>2
      <4>2. CASE ~(home \in DOMAIN tree \/ deleted)
        <5>1. credit = {}
          BY <1>13, <4>2
        <5> QED
          BY <4>2, <5>1
      <4> QED
        BY <4>1, <4>2
    <3>6. d.file = event.file /\ lastPath'[d.file] = home
      BY <1>3, <2>2
    <3> QED
      BY <1>3, <3>3, <3>4, <3>5, <3>6
  <2> QED
    BY <1>7, <2>1, <2>2
<1>17. HomedAtTarget'
  BY <1>16 DEF HomedAtTarget
<1> QED
  BY <1>15, <1>17

\* A step of the replay leaves the history alone.
LEMMA HistoryKept ==
  ASSUME HistoryRight, UNCHANGED history
  PROVE  HistoryRight'
<1>1. LogRight /\ FilesRight /\ OneFile /\ EdgesRight
  BY DEF HistoryRight
<1>2. UNCHANGED <<tree, log, made, created, lastPath, used>>
  BY DEF history
<1>3. Events' = Events /\ Decreasing(log)'
  BY <1>1, <1>2 DEF Events, LogRight, Decreasing
<1>4. RenamedAway' = RenamedAway
  BY <1>3 DEF RenamedAway
<1>5. \A p, f : Names(p, f)' <=> Names(p, f)
  BY <1>2, <1>3 DEF Names
<1>6. LogRight'
  BY <1>1, <1>2, <1>3 DEF LogRight
<1>7. FilesRight'
  BY <1>1, <1>2 DEF FilesRight
<1>8. OneFile'
  BY <1>1, <1>2, <1>5 DEF OneFile
<1>9. EdgesRight'
  BY <1>1, <1>2, <1>3, <1>4, <1>5 DEF EdgesRight
<1> QED
  BY <1>6, <1>7, <1>8, <1>9 DEF HistoryRight

\* Every step keeps the invariant.
LEMMA ReplayStep ==
  ASSUME ~PathsReused, "rename" \notin Droppable,
         ReplayInvariant, FewRenames, [Next]_vars
  PROVE  ReplayInvariant'
<1>1. HistoryRight /\ ReplayRight /\ HomedAtTarget
  BY DEF ReplayInvariant
<1>2. CASE Create \/ Edit \/ Rename \/ Delete
  <2>1. HistoryRight' /\ phase = "history" /\ UNCHANGED <<phase, todo, alias, credited>>
    BY <1>1, <1>2, HistoryStep
  <2>2. todo = <<>> /\ todo' = <<>>
    BY <1>1, <2>1 DEF ReplayRight
  <2>3. todo' \in Seq(Record) /\ ToSet(todo') = {} /\ Decreasing(todo)'
    <3>1. Decreasing(todo)'
      BY <2>2, Nothing DEF Decreasing
    <3> QED
      BY <2>2, <3>1, Nothing
  <2>4. ReplayRight'
    BY <1>1, <2>1, <2>2, <2>3 DEF ReplayRight
  <2>5. HomedAtTarget'
    BY <2>1 DEF HomedAtTarget
  <2> QED
    BY <2>1, <2>4, <2>5 DEF ReplayInvariant
<1>3. CASE UNCHANGED history /\ ~Fold
  <2>1. HistoryRight'
    BY <1>1, <1>3, HistoryKept
  <2>2. CASE StartReplay
    <3>1. /\ phase = "history" /\ phase' = "replay" /\ todo' = log /\ alias' = alias
          /\ credited' = credited /\ log' = log
      BY <2>2 DEF StartReplay, history
    <3>2. Folded' = {}
      BY <3>1 DEF Folded
    <3>3. credited' = {} /\ DOMAIN alias' = {} /\ IsFiniteSet(DOMAIN alias')
      BY <1>1, <3>1 DEF ReplayRight
    <3>4. todo' \in Seq(Record) /\ ToSet(todo') \subseteq Events' /\ Decreasing(todo)'
      BY <1>1, <3>1 DEF HistoryRight, LogRight, Events, Decreasing
    <3>5. ReplayRight'
      BY <3>1, <3>2, <3>3, <3>4 DEF ReplayRight
    <3>6. HomedAtTarget'
      BY <3>2 DEF HomedAtTarget
    <3> QED
      BY <2>1, <3>5, <3>6 DEF ReplayInvariant
  <2>3. CASE UNCHANGED vars
    <3>1. ReplayRight'
      BY <1>1, <2>3 DEF vars, history, ReplayRight, Events, Folded, Decreasing
    <3>2. HomedAtTarget'
      BY <1>1, <2>3 DEF vars, history, HomedAtTarget, Folded, CreditedFor, Existing
    <3> QED
      BY <2>1, <3>1, <3>2 DEF ReplayInvariant
  <2>4. StartReplay \/ UNCHANGED vars
    BY <1>3 DEF Next, Replayed, Create, Edit, Rename, Delete, Commit, Put, vars, history
  <2> QED
    BY <2>2, <2>3, <2>4
<1>4. CASE Fold
  <2>1. UNCHANGED history
    BY <1>4 DEF Fold
  <2>2. HistoryRight'
    BY <1>1, <2>1, HistoryKept
  <2> QED
    BY <1>4, <2>2, FoldStep DEF ReplayInvariant
<1> QED
  BY <1>2, <1>3, <1>4 DEF Next, StartReplay, Replayed, vars

\* The empty history, not replayed.
LEMMA ReplayInit == Init => ReplayInvariant
<1> SUFFICES ASSUME Init PROVE ReplayInvariant
  OBVIOUS
<1>1. /\ tree = <<>> /\ log = <<>> /\ made = 0 /\ created = {} /\ lastPath = <<>> /\ used = {}
      /\ phase = "history" /\ todo = <<>> /\ alias = <<>> /\ credited = {}
  BY DEF Init
<1>2. DOMAIN tree = {} /\ DOMAIN lastPath = {} /\ DOMAIN alias = {}
  BY <1>1, NoEntry
<1>3. /\ log \in Seq(Record) /\ Events = {} /\ Decreasing(log)
      /\ todo \in Seq(Record) /\ ToSet(todo) = {} /\ Decreasing(todo)
  BY <1>1, Nothing DEF Events
<1>4. LogRight
  BY <1>1, <1>3 DEF LogRight
<1>5. FilesRight
  BY <1>1, <1>2 DEF FilesRight
<1>6. \A p, f : ~Names(p, f)
  BY <1>1, <1>3 DEF Names
<1>7. OneFile
  BY <1>6 DEF OneFile
<1>8. EdgesRight
  <2>1. RenamedAway = {}
    BY <1>3 DEF RenamedAway
  <2> QED
    BY <1>3, <1>6, <2>1, FS_EmptySet DEF EdgesRight
<1>9. IsFiniteSet(DOMAIN alias)
  BY <1>2, FS_EmptySet
<1>10. ReplayRight
  BY <1>1, <1>2, <1>3, <1>9 DEF ReplayRight
<1>11. HomedAtTarget
  BY <1>1 DEF HomedAtTarget
<1> QED
  BY <1>4, <1>5, <1>7, <1>8, <1>10, <1>11 DEF ReplayInvariant, HistoryRight

\* When no path is used twice, no rename is dropped with its commit and no file
\* was renamed more often than a chain of aliases is followed, a replay credits
\* every change of a file that exists at the target to the path the file has there
\* and to no other (resolve_alias, fold_commit).
THEOREM ChangesFollowTheFile ==
  ASSUME ~PathsReused, "rename" \notin Droppable
  PROVE  Spec /\ []FewRenames => []HomedAtTarget
<1>1. ReplayInvariant /\ FewRenames /\ [Next]_vars => ReplayInvariant'
  BY ReplayStep
<1>2. ReplayInvariant => HomedAtTarget
  BY DEF ReplayInvariant
<1> QED
  BY <1>1, <1>2, ReplayInit, PTL DEF Spec
=============================================================================
