------------------------- MODULE IncludeGraphProofs -------------------------
(***************************************************************************)
(* Proofs about IncludeGraph: for any set of files and any includes among   *)
(* them, the collapse of the include cycles, in any order, changes nothing  *)
(* about what a file includes, and the pass records what it should.         *)
(*                                                                          *)
(* The argument: `fix_includes` maps every path to a node, and one node     *)
(* reaches another just when the file of the one includes that of the       *)
(* other.  Building the graph establishes this and a collapse, which is a   *)
(* contraction of a strongly connected component, keeps it.                 *)
(***************************************************************************)
EXTENDS IncludeGraph, FiniteSetTheorems, TLAPS

Living == DOMAIN g.weight
Reach(i) == ReachedFrom(i, Living, g.edges)
Successors(i) == {e[2] : e \in {e \in g.edges : e[1] = i}}

\* The includes as edges between paths, a file's own among them.
Includes == UNION {{<<h, i>> : i \in direct[h]} : h \in files}

\* The files that include each other with p, and the cycles there are.
CycleOf(p) == {q \in IncludedBy(p) : p \in IncludedBy(q)}
InCycle == {p \in Paths : \E q \in IncludedBy(p) \ {p} : p \in IncludedBy(q)}
Members(c) == {g.weight[i] : i \in c}
ReportedCycles == {d.members : d \in {d \in diagnostics : d.kind = "IncludeCycle"}}
CyclePath(p) == [kind |-> "NonUtf8CyclePath", path |-> p]

-----------------------------------------------------------------------------
InputRight ==
  /\ files \subseteq Files
  /\ direct \in [files -> SUBSET Files]
  /\ pc \in {"build", "collapse", "close", "done"}
  /\ pc = "build" => DOMAIN scc_map = {} /\ DOMAIN closures = {} /\ ReportedCycles = {}

\* Every path has a living node, which bears that path or none; a node that
\* bears none stands for the paths that lead to it.
NodesRight ==
  /\ bound \in Nat /\ Living \subseteq 1..bound
  /\ g.edges \subseteq Living \X Living
  /\ nodes \in [Paths -> Living]
  /\ \A p \in Paths : g.weight[nodes[p]] \in {p, NoPath}
  /\ \A i \in Living : /\ \E p \in Paths : nodes[p] = i
                       /\ g.weight[i] # NoPath => g.weight[i] \in Paths /\ nodes[g.weight[i]] = i
  /\ DOMAIN scc_map = {i \in Living : g.weight[i] = NoPath}
  /\ \A i \in DOMAIN scc_map : scc_map[i] = {p \in Paths : nodes[p] = i} \ Undecodable

\* The nodes reach each other just when their files include each other.
ReachRight ==
  \A p, q \in Paths : nodes[q] \in Reach(nodes[p]) <=> q \in IncludedBy(p)

\* The components that wait are the cycles of the graph, none of them touched.
CyclesRight ==
  /\ \A c \in components :
       /\ c \subseteq Living /\ c # {}
       /\ \A i \in c : /\ g.weight[i] # NoPath
                       /\ \E j \in c : j # i
                       /\ \A j \in Living : j \in c <=> j \in Reach(i) /\ i \in Reach(j)
  /\ \A i, j \in Living : i # j /\ j \in Reach(i) /\ i \in Reach(j) => \E c \in components : i \in c
  /\ pc \in {"close", "done"} => components = {}

\* A closure holds what the nodes it reaches stand for.
ClosuresRight ==
  /\ DOMAIN closures \subseteq Living
  /\ \A i \in DOMAIN closures : closures[i] = UNION {contribution(j) : j \in Reach(i)}
  /\ pc = "collapse" => DOMAIN closures = {}

\* What a collapse removed from the graph, and the cycles that wait.
ReportRight ==
  /\ \A p \in Paths \cap Undecodable :
       g.weight[nodes[p]] = NoPath => CyclePath(p) \in diagnostics
  /\ ReportedCycles \cup {Members(c) \ Undecodable : c \in components}
       = {CycleOf(p) \ Undecodable : p \in InCycle}

IncludeInvariant ==
  /\ InputRight
  /\ pc # "build" =>
       NodesRight /\ ReachRight /\ CyclesRight /\ ClosuresRight /\ ReportRight
  /\ MacrosAreThoseIncluded
  /\ LeftOutIsReported

-----------------------------------------------------------------------------
(***************************************************************************)
(* Reachability.                                                            *)
(***************************************************************************)
\* A vertex reaches itself and what its edges lead to, and nothing that some
\* set closed under the edges does not have.
LEMMA ReachFacts ==
  ASSUME NEW V, NEW E, \A e \in E : e[2] \in V, NEW x \in V
  PROVE  /\ ReachedFrom(x, V, E) \subseteq V
         /\ x \in ReachedFrom(x, V, E)
         /\ \A e \in E : e[1] \in ReachedFrom(x, V, E) => e[2] \in ReachedFrom(x, V, E)
         /\ \A S \in SUBSET V : x \in S /\ (\A e \in E : e[1] \in S => e[2] \in S)
                                  => ReachedFrom(x, V, E) \subseteq S
BY DEF ReachedFrom

\* What a reached node reaches is reached.
LEMMA ReachTrans ==
  ASSUME NEW V, NEW E, \A e \in E : e[2] \in V, NEW x \in V,
         NEW y \in ReachedFrom(x, V, E)
  PROVE  ReachedFrom(y, V, E) \subseteq ReachedFrom(x, V, E)
<1> DEFINE S == ReachedFrom(x, V, E)
<1>1. S \subseteq V /\ y \in S /\ \A e \in E : e[1] \in S => e[2] \in S
  BY ReachFacts
<1> HIDE DEF S
<1>2. ReachedFrom(y, V, E) \subseteq S
  BY <1>1, ReachFacts
<1> QED
  BY <1>2 DEF S

\* A vertex reaches itself and what its successors reach.
LEMMA ReachUnrolls ==
  ASSUME NEW V, NEW E, \A e \in E : e[2] \in V, NEW x \in V
  PROVE  ReachedFrom(x, V, E) = {x} \cup UNION {ReachedFrom(s, V, E) : s \in {e[2] : e \in {e \in E : e[1] = x}}}
<1> DEFINE next == {e[2] : e \in {e \in E : e[1] = x}}
           S == {x} \cup UNION {ReachedFrom(s, V, E) : s \in next}
<1>1. next \subseteq V /\ next \subseteq ReachedFrom(x, V, E)
  <2>1. ASSUME NEW e \in E, e[1] = x PROVE e[2] \in V /\ e[2] \in ReachedFrom(x, V, E)
    BY <2>1, ReachFacts
  <2> QED
    BY <2>1
<1>2. \A s \in next : /\ ReachedFrom(s, V, E) \subseteq V /\ s \in ReachedFrom(s, V, E)
                      /\ \A e \in E : e[1] \in ReachedFrom(s, V, E) => e[2] \in ReachedFrom(s, V, E)
                      /\ ReachedFrom(s, V, E) \subseteq ReachedFrom(x, V, E)
  BY <1>1, ReachFacts, ReachTrans
<1>3. S \subseteq V /\ x \in S /\ S \subseteq ReachedFrom(x, V, E)
  BY <1>2, ReachFacts
<1>4. ASSUME NEW e \in E, e[1] \in S PROVE e[2] \in S
  <2>1. CASE e[1] = x
    <3>1. e[2] \in next
      BY <2>1
    <3> QED
      BY <1>2, <3>1
  <2>2. CASE e[1] # x
    BY <1>2, <1>4, <2>2
  <2> QED
    BY <2>1, <2>2
<1> HIDE DEF S
<1>5. ReachedFrom(x, V, E) \subseteq S
  BY <1>3, <1>4, ReachFacts
<1> QED
  BY <1>3, <1>5 DEF S

\* Vertices that no edge leads to from where one starts can be left out.
LEMMA ReachWithin ==
  ASSUME NEW V, NEW W \in SUBSET V, NEW E, \A e \in E : e[2] \in W, NEW x \in W
  PROVE  ReachedFrom(x, V, E) = ReachedFrom(x, W, E)
<1>0. x \in V /\ \A e \in E : e[2] \in V
  OBVIOUS
<1>1. ReachedFrom(x, V, E) \subseteq ReachedFrom(x, W, E)
  <2> DEFINE S == ReachedFrom(x, W, E)
  <2>1. /\ ReachedFrom(x, W, E) \subseteq W /\ x \in ReachedFrom(x, W, E)
        /\ \A e \in E : e[1] \in ReachedFrom(x, W, E) => e[2] \in ReachedFrom(x, W, E)
    BY ReachFacts
  <2>2. S \subseteq V /\ x \in S /\ \A e \in E : e[1] \in S => e[2] \in S
    BY <2>1
  <2> HIDE DEF S
  <2>3. ReachedFrom(x, V, E) \subseteq S
    BY <1>0, <2>2, ReachFacts
  <2> QED
    BY <2>3 DEF S
<1>2. ReachedFrom(x, W, E) \subseteq ReachedFrom(x, V, E)
  <2> DEFINE S == ReachedFrom(x, V, E) \cap W
  <2>1. /\ ReachedFrom(x, V, E) \subseteq V /\ x \in ReachedFrom(x, V, E)
        /\ \A e \in E : e[1] \in ReachedFrom(x, V, E) => e[2] \in ReachedFrom(x, V, E)
    BY <1>0, ReachFacts
  <2>2. S \subseteq W /\ x \in S /\ \A e \in E : e[1] \in S => e[2] \in S
    BY <2>1
  <2> HIDE DEF S
  <2>3. ReachedFrom(x, W, E) \subseteq S
    BY <2>2, ReachFacts
  <2> QED
    BY <2>3 DEF S
<1> QED
  BY <1>1, <1>2

\* A map of one graph to another under which every edge stays an edge, or
\* becomes a point, keeps what is reached ...
LEMMA ReachMapped ==
  ASSUME NEW V, NEW E, NEW W, NEW F, NEW pi \in [V -> W],
         \A e \in E : e[1] \in V /\ e[2] \in V,
         \A e \in F : e[2] \in W,
         \A e \in E : pi[e[1]] = pi[e[2]] \/ <<pi[e[1]], pi[e[2]]>> \in F
  PROVE  \A x \in V : \A y \in ReachedFrom(x, V, E) : pi[y] \in ReachedFrom(pi[x], W, F)
<1> TAKE x \in V
<1> TAKE y \in ReachedFrom(x, V, E)
<1> DEFINE S == {z \in V : pi[z] \in ReachedFrom(pi[x], W, F)}
<1>1. x \in S /\ S \subseteq V
  BY ReachFacts
<1>2. ASSUME NEW e \in E, e[1] \in S PROVE e[2] \in S
  <2>1. CASE pi[e[1]] = pi[e[2]]
    BY <1>2, <2>1
  <2>2. CASE <<pi[e[1]], pi[e[2]]>> \in F
    <3> DEFINE d == <<pi[e[1]], pi[e[2]]>>
    <3>1. d \in F /\ d[1] = pi[e[1]] /\ d[2] = pi[e[2]]
      BY <2>2
    <3> HIDE DEF d
    <3>2. pi[x] \in W /\ pi[e[1]] \in ReachedFrom(pi[x], W, F)
      BY <1>2
    <3>3. d[2] \in ReachedFrom(pi[x], W, F)
      BY <3>1, <3>2, ReachFacts
    <3> QED
      BY <3>1, <3>3
  <2> QED
    BY <2>1, <2>2
<1> HIDE DEF S
<1>3. y \in S
  BY <1>1, <1>2, ReachFacts
<1> QED
  BY <1>3 DEF S

\* ... and adds nothing when what becomes one vertex reached each other and
\* every new edge runs where something was reached.
LEMMA ReachMappedBack ==
  ASSUME NEW V, NEW E, NEW W, NEW F, NEW pi \in [V -> W],
         \A e \in E : e[2] \in V,
         \A e \in F : e[2] \in W,
         \A y, z \in V : pi[y] = pi[z] => z \in ReachedFrom(y, V, E),
         \A e \in F : \E y, z \in V : /\ pi[y] = e[1] /\ pi[z] = e[2]
                                      /\ z \in ReachedFrom(y, V, E)
  PROVE  \A x, y \in V : pi[y] \in ReachedFrom(pi[x], W, F) => y \in ReachedFrom(x, V, E)
<1> TAKE x, y \in V
<1> HAVE pi[y] \in ReachedFrom(pi[x], W, F)
<1> DEFINE R == ReachedFrom(x, V, E)
           S == {w \in W : \A z \in V : pi[z] = w => z \in R}
<1>1. \A z \in R : z \in V /\ ReachedFrom(z, V, E) \subseteq R
  BY ReachFacts, ReachTrans
<1>2. pi[x] \in S /\ S \subseteq W
  OBVIOUS
<1>3. ASSUME NEW e \in F, e[1] \in S PROVE e[2] \in S
  <2>1. PICK u \in V, v \in V : pi[u] = e[1] /\ pi[v] = e[2] /\ v \in ReachedFrom(u, V, E)
    OBVIOUS
  <2>2. u \in R
    BY <1>3, <2>1
  <2>3. v \in R
    BY <1>1, <2>1, <2>2
  <2>4. ASSUME NEW z \in V, pi[z] = e[2] PROVE z \in R
    <3>1. z \in ReachedFrom(v, V, E)
      BY <2>1, <2>4
    <3> QED
      BY <1>1, <2>3, <3>1
  <2> QED
    BY <2>4
<1> HIDE DEF S
<1>4. ReachedFrom(pi[x], W, F) \subseteq S
  BY <1>2, <1>3, ReachFacts
<1>5. pi[y] \in S
  BY <1>4
<1> QED
  BY <1>5 DEF S

\* The graph (V, E) with the vertices of c contracted to a new vertex r, and
\* where the contraction puts a vertex.
Contracted(V, c, r) == (V \ c) \cup {r}
ContractedEdges(V, E, c, r) ==
  {e \in E : {e[1], e[2]} \subseteq V \ c}
    \cup (({e[1] : e \in {e \in E : e[2] \in c}} \ c) \X {r})
    \cup ({r} \X ({e[2] : e \in {e \in E : e[1] \in c}} \ c))
Contraction(V, c, r) == [i \in V |-> IF i \in c THEN r ELSE i]

\* When vertices that reach each other are contracted to one, the others reach
\* each other as before.
LEMMA ReachContracted ==
  ASSUME NEW V, NEW E \in SUBSET (V \X V), NEW c \in SUBSET V, c # {}, NEW r, r \notin V,
         \A i, j \in c : j \in ReachedFrom(i, V, E)
  PROVE  /\ ContractedEdges(V, E, c, r) \subseteq Contracted(V, c, r) \X Contracted(V, c, r)
         /\ \A x, y \in V : Contraction(V, c, r)[y] \in ReachedFrom(Contraction(V, c, r)[x],
                                   Contracted(V, c, r), ContractedEdges(V, E, c, r))
                            <=> y \in ReachedFrom(x, V, E)
<1> DEFINE W == Contracted(V, c, r)
           F == ContractedEdges(V, E, c, r)
           pi == Contraction(V, c, r)
<1> USE DEF Contracted
<1>1. \A e \in E : e[1] \in V /\ e[2] \in V /\ e = <<e[1], e[2]>>
  OBVIOUS
<1>2. pi \in [V -> W] /\ \A i \in V : pi[i] = IF i \in c THEN r ELSE i
  BY DEF Contraction
<1> HIDE DEF pi
<1>3. ASSUME NEW e \in F
      PROVE  \/ e \in E /\ e[1] \in V \ c /\ e[2] \in V \ c
             \/ e[1] \in V \ c /\ e[2] = r /\ \E d \in E : d[1] = e[1] /\ d[2] \in c
             \/ e[1] = r /\ e[2] \in V \ c /\ \E d \in E : d[1] \in c /\ d[2] = e[2]
  <2>1. CASE e \in {d \in E : {d[1], d[2]} \subseteq V \ c}
    BY <2>1
  <2>2. CASE e \in ({d[1] : d \in {d \in E : d[2] \in c}} \ c) \X {r}
    BY <1>1, <2>2
  <2>3. CASE e \in {r} \X ({d[2] : d \in {d \in E : d[1] \in c}} \ c)
    BY <1>1, <2>3
  <2> QED
    BY <1>3, <2>1, <2>2, <2>3 DEF ContractedEdges
<1>4. F \subseteq W \X W
  <2>1. {e \in E : {e[1], e[2]} \subseteq V \ c} \subseteq W \X W
    BY <1>1
  <2>2. (({e[1] : e \in {e \in E : e[2] \in c}} \ c) \X {r}) \subseteq W \X W
    BY <1>1
  <2>3. ({r} \X ({e[2] : e \in {e \in E : e[1] \in c}} \ c)) \subseteq W \X W
    BY <1>1
  <2> QED
    BY <2>1, <2>2, <2>3 DEF ContractedEdges
<1>5. ASSUME NEW e \in E PROVE pi[e[1]] = pi[e[2]] \/ <<pi[e[1]], pi[e[2]]>> \in F
  <2>1. CASE e[1] \notin c /\ e[2] \notin c
    <3>1. e \in {d \in E : {d[1], d[2]} \subseteq V \ c}
      BY <1>1, <2>1
    <3> QED
      BY <1>1, <1>2, <2>1, <3>1 DEF ContractedEdges
  <2>2. CASE e[1] \notin c /\ e[2] \in c
    <3>1. <<e[1], r>> \in ({d[1] : d \in {d \in E : d[2] \in c}} \ c) \X {r}
      BY <2>2
    <3> QED
      BY <1>1, <1>2, <2>2, <3>1 DEF ContractedEdges
  <2>3. CASE e[1] \in c /\ e[2] \notin c
    <3>1. <<r, e[2]>> \in {r} \X ({d[2] : d \in {d \in E : d[1] \in c}} \ c)
      BY <2>3
    <3> QED
      BY <1>1, <1>2, <2>3, <3>1 DEF ContractedEdges
  <2>4. CASE e[1] \in c /\ e[2] \in c
    BY <1>1, <1>2, <2>4
  <2> QED
    BY <2>1, <2>2, <2>3, <2>4
<1>6. ASSUME NEW y \in V, NEW z \in V, pi[y] = pi[z] PROVE z \in ReachedFrom(y, V, E)
  <2>1. CASE y \in c
    BY <1>2, <1>6, <2>1
  <2>2. CASE y \notin c
    <3>1. z = y
      BY <1>2, <1>6, <2>2
    <3> QED
      BY <1>1, <3>1, ReachFacts
  <2> QED
    BY <2>1, <2>2
<1>7. ASSUME NEW e \in F
      PROVE \E y, z \in V : pi[y] = e[1] /\ pi[z] = e[2] /\ z \in ReachedFrom(y, V, E)
  <2>1. \A d \in E : d[2] \in ReachedFrom(d[1], V, E)
    BY <1>1, ReachFacts
  <2>2. CASE e \in E /\ e[1] \in V \ c /\ e[2] \in V \ c
    BY <1>2, <2>1, <2>2
  <2>3. CASE e[1] \in V \ c /\ e[2] = r /\ \E d \in E : d[1] = e[1] /\ d[2] \in c
    BY <1>1, <1>2, <2>1, <2>3
  <2>4. CASE e[1] = r /\ e[2] \in V \ c /\ \E d \in E : d[1] \in c /\ d[2] = e[2]
    BY <1>1, <1>2, <2>1, <2>4
  <2> QED
    BY <1>3, <2>2, <2>3, <2>4
<1>8. \A e \in F : e[2] \in W
  BY <1>4
<1> HIDE DEF W, F, Contracted
<1>9. \A x \in V : \A y \in ReachedFrom(x, V, E) : pi[y] \in ReachedFrom(pi[x], W, F)
  <2>1. pi \in [V -> W]
    BY <1>2
  <2>2. \A e \in E : e[1] \in V /\ e[2] \in V
    BY <1>1
  <2>3. \A e \in E : pi[e[1]] = pi[e[2]] \/ <<pi[e[1]], pi[e[2]]>> \in F
    BY <1>5
  <2> QED
    BY <1>8, <2>1, <2>2, <2>3, ReachMapped
<1>10. \A x, y \in V : pi[y] \in ReachedFrom(pi[x], W, F) => y \in ReachedFrom(x, V, E)
  <2>1. pi \in [V -> W]
    BY <1>2
  <2>2. \A e \in E : e[2] \in V
    BY <1>1
  <2>3. \A y, z \in V : pi[y] = pi[z] => z \in ReachedFrom(y, V, E)
    BY <1>6
  <2>4. \A e \in F : \E y, z \in V : pi[y] = e[1] /\ pi[z] = e[2] /\ z \in ReachedFrom(y, V, E)
    BY <1>7
  <2> QED
    BY <1>8, <2>1, <2>2, <2>3, <2>4, ReachMappedBack
<1> QED
  BY <1>4, <1>9, <1>10 DEF W, F, pi

-----------------------------------------------------------------------------
\* The includes of the files are edges between paths.
LEMMA IncludesTyped ==
  ASSUME InputRight
  PROVE  /\ Paths \subseteq Files /\ files \subseteq Paths /\ IsFiniteSet(Paths)
         /\ \A e : e \in Includes <=> \E h \in files : \E i \in direct[h] : e = <<h, i>>
         /\ \A h \in files : \A i \in direct[h] : h \in Paths /\ i \in Paths
         /\ Includes \subseteq Paths \X Paths
<1>1. Paths \subseteq Files /\ files \subseteq Paths
  BY DEF InputRight, Paths
<1>2. IsFiniteSet(Paths)
  BY <1>1, IncludeAssumption, FS_Subset
<1>3. \A e : e \in Includes <=> \E h \in files : \E i \in direct[h] : e = <<h, i>>
  BY DEF Includes
<1>4. \A h \in files : \A i \in direct[h] : h \in Paths /\ i \in Paths
  BY DEF Paths
<1>5. Includes \subseteq Paths \X Paths
  BY <1>3, <1>4
<1> QED
  BY <1>1, <1>2, <1>3, <1>4, <1>5

\* What a path includes is a matter of the paths alone.
LEMMA IncludedAmongPaths ==
  ASSUME InputRight, NEW p \in Paths
  PROVE  /\ IncludedBy(p) = ReachedFrom(p, Paths, Includes)
         /\ IncludedBy(p) \subseteq Paths /\ p \in IncludedBy(p)
<1>1. /\ Paths \subseteq Files /\ Includes \subseteq Paths \X Paths
      /\ \A e \in Includes : e[2] \in Paths
  BY IncludesTyped
<1>2. IncludedBy(p) = ReachedFrom(p, Files, Includes)
  BY DEF IncludedBy, Includes
<1>3. ReachedFrom(p, Files, Includes) = ReachedFrom(p, Paths, Includes)
  BY <1>1, ReachWithin
<1>4. ReachedFrom(p, Paths, Includes) \subseteq Paths /\ p \in ReachedFrom(p, Paths, Includes)
  BY <1>1, ReachFacts
<1> QED
  BY <1>2, <1>3, <1>4

\* The input never changes, nor what is defined by it.
LEMMA InputStays ==
  ASSUME InputRight, [Next]_vars
  PROVE  /\ InputRight' /\ files' = files /\ direct' = direct /\ Paths' = Paths
         /\ \A p : IncludedBy(p)' = IncludedBy(p) /\ CycleOf(p)' = CycleOf(p)
         /\ InCycle' = InCycle
<1>1. files' = files /\ direct' = direct
  BY DEF Next, Build, Collapse, Collapsed, Close, Record, Done, vars
<1>2. pc' \in {"collapse", "close", "done"} \/ UNCHANGED vars
  BY DEF Next, Build, Collapse, Collapsed, Close, Record, Done, vars
<1>3. InputRight'
  BY <1>1, <1>2 DEF InputRight, ReportedCycles, vars
<1>4. Paths' = Paths
  BY <1>1 DEF Paths
<1>5. \A p : IncludedBy(p)' = IncludedBy(p)
  BY <1>1 DEF IncludedBy
<1>6. \A p : CycleOf(p)' = CycleOf(p)
  BY <1>5 DEF CycleOf
<1>7. InCycle' = InCycle
  BY <1>4, <1>5 DEF InCycle
<1> QED
  BY <1>1, <1>3, <1>4, <1>5, <1>6, <1>7

\* What a node stands for: the paths that lead to it, but for the undecodable
\* ones of a cycle.
LEMMA StandsFor ==
  InputRight /\ NodesRight =>
    \A i \in Living : /\ contribution(i) \subseteq {p \in Paths : nodes[p] = i}
                      /\ {p \in Paths : nodes[p] = i} \ Undecodable \subseteq contribution(i)
                      /\ g.weight[i] # NoPath => contribution(i) = {p \in Paths : nodes[p] = i}
<1> SUFFICES ASSUME InputRight, NodesRight, NEW i \in Living
             PROVE  /\ contribution(i) \subseteq {p \in Paths : nodes[p] = i}
                    /\ {p \in Paths : nodes[p] = i} \ Undecodable \subseteq contribution(i)
                    /\ g.weight[i] # NoPath => contribution(i) = {p \in Paths : nodes[p] = i}
  OBVIOUS
<1>1. CASE g.weight[i] = NoPath
  BY <1>1 DEF NodesRight, contribution
<1>2. CASE g.weight[i] # NoPath
  BY <1>2 DEF NodesRight, contribution
<1> QED
  BY <1>1, <1>2

\* Reach over the living nodes is reflexive, transitive and step by step.
LEMMA ReachTyped ==
  InputRight /\ NodesRight =>
    /\ \A i \in Living : /\ Reach(i) \subseteq Living /\ i \in Reach(i)
                         /\ \A j \in Reach(i) : Reach(j) \subseteq Reach(i)
                         /\ Successors(i) \subseteq Living
                         /\ Reach(i) = {i} \cup UNION {Reach(s) : s \in Successors(i)}
    /\ \A e \in g.edges : e[1] \in Living /\ e[2] \in Living /\ e = <<e[1], e[2]>>
<1> SUFFICES ASSUME InputRight, NodesRight
             PROVE  /\ \A i \in Living : /\ Reach(i) \subseteq Living /\ i \in Reach(i)
                                         /\ \A j \in Reach(i) : Reach(j) \subseteq Reach(i)
                                         /\ Successors(i) \subseteq Living
                                         /\ Reach(i) = {i} \cup UNION {Reach(s) : s \in Successors(i)}
                    /\ \A e \in g.edges : e[1] \in Living /\ e[2] \in Living /\ e = <<e[1], e[2]>>
  OBVIOUS
<1>1. \A e \in g.edges : e[1] \in Living /\ e[2] \in Living /\ e = <<e[1], e[2]>>
  BY DEF NodesRight
<1>2. ASSUME NEW i \in Living PROVE Successors(i) \subseteq Living
  BY <1>1 DEF Successors
<1>3. ASSUME NEW i \in Living
      PROVE  Reach(i) \subseteq Living /\ i \in Reach(i)
  BY <1>1, ReachFacts DEF Reach
<1>4. ASSUME NEW i \in Living, NEW j \in Reach(i) PROVE Reach(j) \subseteq Reach(i)
  BY <1>1, ReachTrans DEF Reach
<1>5. ASSUME NEW i \in Living
      PROVE  Reach(i) = {i} \cup UNION {Reach(s) : s \in Successors(i)}
  BY <1>1, ReachUnrolls DEF Reach, Successors
<1> QED
  BY <1>1, <1>2, <1>3, <1>4, <1>5

\* What a path leads to is what its file includes.
LEMMA LeadsToIncluded ==
  InputRight /\ NodesRight /\ ReachRight =>
    \A p \in Paths : /\ UNION {contribution(j) : j \in Reach(nodes[p])} \subseteq IncludedBy(p)
                     /\ IncludedBy(p) \ Undecodable \subseteq UNION {contribution(j) : j \in Reach(nodes[p])}
<1> SUFFICES ASSUME InputRight, NodesRight, ReachRight, NEW p \in Paths
             PROVE  /\ UNION {contribution(j) : j \in Reach(nodes[p])} \subseteq IncludedBy(p)
                    /\ IncludedBy(p) \ Undecodable \subseteq UNION {contribution(j) : j \in Reach(nodes[p])}
  OBVIOUS
<1>1. nodes[p] \in Living /\ Reach(nodes[p]) \subseteq Living /\ \A q \in Paths : nodes[q] \in Living
  BY ReachTyped DEF NodesRight
<1>2. ASSUME NEW j \in Reach(nodes[p]), NEW q \in contribution(j) PROVE q \in IncludedBy(p)
  <2>1. q \in Paths /\ nodes[q] = j
    BY <1>1, StandsFor
  <2> QED
    BY <2>1 DEF ReachRight
<1>3. ASSUME NEW q \in IncludedBy(p) \ Undecodable
      PROVE  q \in UNION {contribution(j) : j \in Reach(nodes[p])}
  <2>1. q \in Paths
    BY IncludedAmongPaths
  <2>2. nodes[q] \in Reach(nodes[p]) /\ q \in contribution(nodes[q])
    BY <1>1, <2>1, StandsFor DEF ReachRight
  <2> QED
    BY <2>2
<1> QED
  BY <1>2, <1>3

\* The members of a cycle that waits are the files that include each other.
LEMMA MembersAreCycle ==
  InputRight /\ NodesRight /\ ReachRight /\ CyclesRight =>
    \A c \in components : \A p \in Paths : nodes[p] \in c => Members(c) = CycleOf(p)
<1> SUFFICES ASSUME InputRight, NodesRight, ReachRight, CyclesRight,
                    NEW c \in components, NEW p \in Paths, nodes[p] \in c
             PROVE  Members(c) = CycleOf(p)
  OBVIOUS
<1>1. c \subseteq Living /\ \A q \in Paths : nodes[q] \in Living
  BY DEF NodesRight, CyclesRight
<1>2. \A i \in c : g.weight[i] \in Paths /\ nodes[g.weight[i]] = i
  BY <1>1 DEF NodesRight, CyclesRight
<1>3. \A q \in Paths : nodes[q] \in c <=> q \in CycleOf(p)
  BY <1>1 DEF CyclesRight, ReachRight, CycleOf
<1>4. CycleOf(p) \subseteq Paths
  BY IncludedAmongPaths DEF CycleOf
<1>5. \A q \in Paths : nodes[q] \in c => g.weight[nodes[q]] = q
  <2>1. \A q \in Paths : g.weight[nodes[q]] \in {q, NoPath}
    BY DEF NodesRight
  <2>2. \A i \in c : g.weight[i] # NoPath
    BY DEF CyclesRight
  <2> QED
    BY <2>1, <2>2
<1> QED
  BY <1>2, <1>3, <1>4, <1>5 DEF Members

-----------------------------------------------------------------------------
\* The graph that is built has a node for every path and an edge for every
\* include.
LEMMA BuiltGraph ==
  ASSUME InputRight, Build
  PROVE  /\ bound' = Cardinality(Paths) /\ bound' \in Nat
         /\ Living' = 1..bound' /\ IsFiniteSet(Living')
         /\ nodes' \in [Paths -> Living']
         /\ \A p, q \in Paths : nodes'[p] = nodes'[q] => p = q
         /\ \A i \in Living' : g'.weight[i] \in Paths /\ nodes'[g'.weight[i]] = i
         /\ \A p \in Paths : g'.weight[nodes'[p]] = p
         /\ \A e : e \in g'.edges <=> \E h \in files : \E i \in direct[h] :
                                        i # h /\ e = <<nodes'[h], nodes'[i]>>
<1> DEFINE n == Cardinality(Paths)
<1>1. /\ bound' = n /\ n \in Nat
      /\ nodes' = CHOOSE index \in Bijection(Paths, 1..n) : TRUE
      /\ g'.weight = Inverse(nodes', Paths, 1..n)
      /\ g'.edges = UNION {{<<nodes'[f], nodes'[i]>> : i \in direct[f] \ {f}} : f \in files}
  BY IncludesTyped, FS_CardinalityType DEF Build
<1>2. nodes' \in Bijection(Paths, 1..n)
  <2>1. IsFiniteSet(1..n) /\ Cardinality(1..n) = n
    BY <1>1, FS_Interval
  <2>2. ExistsBijection(Paths, 1..n)
    BY <2>1, IncludesTyped, FS_SameCardinalityBij
  <2> QED
    BY <1>1, <2>2 DEF ExistsBijection
<1>3. /\ nodes' \in [Paths -> 1..n]
      /\ \A p, q \in Paths : nodes'[p] = nodes'[q] => p = q
      /\ \A i \in 1..n : \E p \in Paths : nodes'[p] = i
  BY <1>2 DEF Bijection, Injection, Surjection, IsInjective
<1>4. g'.weight = [i \in 1..n |-> CHOOSE p \in Paths : i \in Range(nodes') => nodes'[p] = i]
  BY <1>1 DEF Inverse
<1> HIDE DEF n
<1>5. \A i \in 1..n : g'.weight[i] \in Paths /\ nodes'[g'.weight[i]] = i
  <2> TAKE i \in 1..n
  <2>1. i \in Range(nodes')
    BY <1>3 DEF Range
  <2>2. \E p \in Paths : i \in Range(nodes') => nodes'[p] = i
    BY <1>3
  <2> QED
    BY <1>4, <2>1, <2>2
<1>6. Living' = 1..n
  BY <1>4 DEF Living
<1>7. IsFiniteSet(1..n)
  BY <1>1, FS_Interval
<1>8. \A e : e \in g'.edges <=> \E h \in files : \E i \in direct[h] :
                                  i # h /\ e = <<nodes'[h], nodes'[i]>>
  BY <1>1
<1>9. \A p \in Paths : g'.weight[nodes'[p]] = p
  <2> TAKE p \in Paths
  <2>1. nodes'[p] \in 1..n
    BY <1>3
  <2> QED
    BY <1>3, <1>5, <2>1
<1>10. Living' = 1..bound' /\ IsFiniteSet(Living') /\ bound' = Cardinality(Paths) /\ bound' \in Nat
  BY <1>1, <1>6, <1>7 DEF n
<1>11. nodes' \in [Paths -> Living'] /\ \A i \in Living' : g'.weight[i] \in Paths /\ nodes'[g'.weight[i]] = i
  BY <1>3, <1>5, <1>6
<1> QED
  BY <1>3, <1>8, <1>9, <1>10, <1>11

\* Its nodes reach each other just when their files include each other.
LEMMA BuiltReach ==
  ASSUME InputRight, Build
  PROVE  \A p, q \in Paths : (nodes[q] \in Reach(nodes[p]))' <=> q \in IncludedBy(p)
<1> DEFINE V == Living'
           E == g'.edges
           pi == nodes'
<1>1. /\ pi \in [Paths -> V]
      /\ \A p, q \in Paths : pi[p] = pi[q] => p = q
      /\ \A e : e \in E <=> \E h \in files : \E i \in direct[h] : i # h /\ e = <<pi[h], pi[i]>>
  BY BuiltGraph
<1>2. /\ \A e : e \in Includes <=> \E h \in files : \E i \in direct[h] : e = <<h, i>>
      /\ \A h \in files : \A i \in direct[h] : h \in Paths /\ i \in Paths
  BY IncludesTyped
<1>3. \A p \in Paths : IncludedBy(p) = ReachedFrom(p, Paths, Includes) /\ IncludedBy(p) \subseteq Paths
  BY IncludedAmongPaths
<1> HIDE DEF V, E, pi
<1>4. \A e \in Includes : e[1] \in Paths /\ e[2] \in Paths
  BY <1>2
<1>5. \A e \in E : e[2] \in V
  BY <1>1, <1>2
<1>6. \A p \in Paths : \A q \in ReachedFrom(p, Paths, Includes) : pi[q] \in ReachedFrom(pi[p], V, E)
  <2>1. \A e \in Includes : pi[e[1]] = pi[e[2]] \/ <<pi[e[1]], pi[e[2]]>> \in E
    BY <1>1, <1>2
  <2> QED
    BY <1>1, <1>4, <1>5, <2>1, ReachMapped
<1>7. \A p, q \in Paths : pi[q] \in ReachedFrom(pi[p], V, E) => q \in ReachedFrom(p, Paths, Includes)
  <2>1. \A e \in Includes : e[2] \in Paths
    BY <1>4
  <2>2. \A y, z \in Paths : pi[y] = pi[z] => z \in ReachedFrom(y, Paths, Includes)
    BY <1>1, <2>1, ReachFacts
  <2>3. \A e \in E : \E y, z \in Paths : /\ pi[y] = e[1] /\ pi[z] = e[2]
                                         /\ z \in ReachedFrom(y, Paths, Includes)
    <3> TAKE e \in E
    <3> PICK h \in files : \E i \in direct[h] : e = <<pi[h], pi[i]>>
      BY <1>1
    <3>1. PICK i \in direct[h] : e = <<pi[h], pi[i]>>
      OBVIOUS
    <3>2. h \in Paths /\ i \in Paths /\ <<h, i>> \in Includes
      BY <1>2
    <3>3. h \in ReachedFrom(h, Paths, Includes) /\ i \in ReachedFrom(h, Paths, Includes)
      BY <2>1, <3>2, ReachFacts
    <3> QED
      BY <3>1, <3>2, <3>3
  <2> QED
    BY <1>1, <1>5, <2>1, <2>2, <2>3, ReachMappedBack
<1>8. ASSUME NEW p \in Paths, NEW q \in Paths
      PROVE  pi[q] \in ReachedFrom(pi[p], V, E) <=> q \in IncludedBy(p)
  BY <1>3, <1>6, <1>7
<1> QED
  BY <1>8 DEF V, E, pi, Reach, Living

\* A set has two members just when it is no singleton and not empty.
LEMMA Plural ==
  ASSUME NEW S, IsFiniteSet(S)
  PROVE  \A x \in S : Cardinality(S) > 1 <=> \E y \in S : y # x
<1> TAKE x \in S
<1>1. CASE S = {x}
  <2>1. Cardinality(S) = 1
    BY <1>1, FS_Singleton
  <2> QED
    BY <1>1, <2>1
<1>2. CASE \E y \in S : y # x
  <2>1. Cardinality(S) \in Nat /\ Cardinality(S) # 0
    BY FS_CardinalityType, FS_EmptySet
  <2>2. Cardinality(S) # 1
    BY <1>2, FS_Singleton
  <2> QED
    BY <1>2, <2>1, <2>2
<1> QED
  BY <1>1, <1>2

\* The components are those of several nodes, and they are all the cycles.
LEMMA BuiltCycles ==
  ASSUME InputRight, Build, NodesRight', InputRight'
  PROVE  CyclesRight'
<1> DEFINE V == Living'
           R(i) == Reach(i)'
           scc(x) == {y \in R(x) : x \in R(y)}
<1>1. /\ components' = {c \in kosaraju_scc(V, g'.edges) : Cardinality(c) > 1}
      /\ pc' = "collapse" /\ IsFiniteSet(V)
      /\ \A i \in V : g'.weight[i] # NoPath
  <2>1. \A i \in V : g'.weight[i] \in Files
    BY BuiltGraph, IncludesTyped
  <2> QED
    BY <2>1, BuiltGraph, IncludeAssumption DEF Build, Living
<1>2. /\ \A i \in V : R(i) \subseteq V /\ i \in R(i)
      /\ \A i \in V : \A j \in R(i) : R(j) \subseteq R(i)
  <2>1. (InputRight /\ NodesRight =>
           /\ \A i \in Living : /\ Reach(i) \subseteq Living /\ i \in Reach(i)
                                /\ \A j \in Reach(i) : Reach(j) \subseteq Reach(i)
                                /\ Successors(i) \subseteq Living
                                /\ Reach(i) = {i} \cup UNION {Reach(s) : s \in Successors(i)}
           /\ \A e \in g.edges : e[1] \in Living /\ e[2] \in Living /\ e = <<e[1], e[2]>>)'
    BY ReachTyped, PTL
  <2> QED
    BY <2>1
<1>3. kosaraju_scc(V, g'.edges) = {scc(x) : x \in V}
  BY <1>2 DEF kosaraju_scc, Reach, Living
<1> HIDE DEF V, R
<1>4. \A x \in V : /\ scc(x) \subseteq V /\ x \in scc(x)
                   /\ \A i \in scc(x) : \A j \in V : j \in scc(x) <=> j \in R(i) /\ i \in R(j)
  BY <1>2
<1>5. \A x \in V : Cardinality(scc(x)) > 1 <=> \E y \in scc(x) : y # x
  <2> TAKE x \in V
  <2>1. IsFiniteSet(scc(x)) /\ x \in scc(x)
    BY <1>1, <1>4, FS_Subset
  <2> HIDE DEF scc
  <2> QED
    BY <2>1, Plural
<1>6. ASSUME NEW c \in components'
      PROVE  /\ c \subseteq V /\ c # {}
             /\ \A i \in c : /\ g'.weight[i] # NoPath
                             /\ \E j \in c : j # i
                             /\ \A j \in V : j \in c <=> j \in R(i) /\ i \in R(j)
  <2>1. PICK x \in V : c = scc(x)
    BY <1>1, <1>3
  <2>2. Cardinality(c) > 1 /\ x \in c
    BY <1>1, <1>4, <2>1
  <2> HIDE DEF scc
  <2>3. \E y \in c : y # x
    BY <1>5, <2>1, <2>2
  <2>4. \A i \in c : \E j \in c : j # i
    BY <2>2, <2>3
  <2> QED
    BY <1>1, <1>4, <2>1, <2>4
<1>7. ASSUME NEW i \in V, NEW j \in V, i # j, j \in R(i), i \in R(j)
      PROVE  \E c \in components' : i \in c
  <2>1. Cardinality(scc(i)) > 1 /\ i \in scc(i)
    BY <1>4, <1>5, <1>7
  <2> HIDE DEF scc
  <2>2. scc(i) \in components'
    BY <1>1, <1>3, <2>1
  <2> QED
    BY <2>1, <2>2
<1> QED
  BY <1>1, <1>6, <1>7 DEF CyclesRight, V, R

\* The graph as it is built is right.
LEMMA BuildStep ==
  ASSUME InputRight, InputRight', Build
  PROVE  NodesRight' /\ ReachRight' /\ CyclesRight' /\ ClosuresRight' /\ ReportRight'
<1>1. /\ pc = "build" /\ pc' = "collapse" /\ scc_map' = scc_map /\ closures' = closures
      /\ DOMAIN scc_map = {} /\ DOMAIN closures = {}
      /\ files' = files /\ direct' = direct
  BY DEF Build, InputRight
<1>2. /\ Paths' = Paths /\ InCycle' = InCycle
      /\ \A p : IncludedBy(p)' = IncludedBy(p) /\ CycleOf(p)' = CycleOf(p)
  BY InputStays DEF Next
<1>3. /\ bound' \in Nat /\ Living' = 1..bound'
      /\ nodes' \in [Paths -> Living']
      /\ \A p, q \in Paths : nodes'[p] = nodes'[q] => p = q
      /\ \A i \in Living' : g'.weight[i] \in Paths /\ nodes'[g'.weight[i]] = i
      /\ \A p \in Paths : g'.weight[nodes'[p]] = p
  BY BuiltGraph
<1>4. NoPath \notin Paths
  BY IncludesTyped, IncludeAssumption
<1>5. NodesRight'
  <2>1. g'.edges \subseteq Living' \X Living'
    <3>1. \A e \in g'.edges : \E h \in files : \E i \in direct[h] : e = <<nodes'[h], nodes'[i]>>
      BY BuiltGraph
    <3> QED
      BY <1>3, <3>1, IncludesTyped
  <2>2. {i \in Living' : g'.weight[i] = NoPath} = {}
    BY <1>3, <1>4
  <2>3. \A i \in Living' : \E p \in Paths : nodes'[p] = i
    BY <1>3
  <2> QED
    BY <1>1, <1>2, <1>3, <2>1, <2>2, <2>3 DEF NodesRight
<1>6. ReachRight'
  BY <1>2, BuiltReach DEF ReachRight
<1>7. CyclesRight'
  BY <1>5, BuiltCycles
<1>8. ClosuresRight'
  BY <1>1 DEF ClosuresRight
<1>9. ReportedCycles' = {}
  BY DEF Build, ReportedCycles
<1>10. {Members(c)' \ Undecodable : c \in components'} = {CycleOf(p) \ Undecodable : p \in InCycle}
  <2>1. (InputRight /\ NodesRight /\ ReachRight /\ CyclesRight =>
           \A c \in components : \A p \in Paths : nodes[p] \in c => Members(c) = CycleOf(p))'
    BY MembersAreCycle, PTL
  <2>2. \A c \in components' : \A p \in Paths : nodes'[p] \in c => Members(c)' = CycleOf(p)
    BY <1>2, <1>5, <1>6, <1>7, <2>1
  <2>3. ASSUME NEW c \in components' PROVE \E p \in InCycle : nodes'[p] \in c
    <3>1. PICK i \in c, j \in c : /\ i \in Living' /\ j \in Living' /\ i # j
                                  /\ (j \in Reach(i))' /\ (i \in Reach(j))'
      BY <1>7 DEF CyclesRight
    <3>2. PICK p \in Paths, q \in Paths : nodes'[p] = i /\ nodes'[q] = j
      BY <1>3, <3>1
    <3>3. q \in IncludedBy(p) \ {p} /\ p \in IncludedBy(q)
      BY <1>2, <1>6, <3>1, <3>2 DEF ReachRight
    <3> QED
      BY <3>2, <3>3 DEF InCycle
  <2>4. ASSUME NEW p \in InCycle PROVE \E c \in components' : nodes'[p] \in c
    <3>1. PICK q \in IncludedBy(p) \ {p} : p \in IncludedBy(q)
      BY DEF InCycle
    <3>2. p \in Paths /\ q \in Paths
      BY IncludedAmongPaths DEF InCycle
    <3>3. nodes'[p] # nodes'[q] /\ nodes'[p] \in Living' /\ nodes'[q] \in Living'
      BY <1>3, <3>1, <3>2
    <3>4. (nodes[q] \in Reach(nodes[p]))' /\ (nodes[p] \in Reach(nodes[q]))'
      BY <3>1, <3>2, BuiltReach
    <3> QED
      BY <1>7, <3>3, <3>4 DEF CyclesRight
  <2>5. \A c \in components' : \E p \in InCycle : Members(c)' = CycleOf(p)
    BY <2>2, <2>3 DEF InCycle
  <2>6. \A p \in InCycle : \E c \in components' : Members(c)' = CycleOf(p)
    BY <2>2, <2>4 DEF InCycle
  <2> QED
    BY <2>5, <2>6
<1>11. ReportRight'
  <2>1. {CycleOf(p)' \ Undecodable : p \in InCycle'} = {CycleOf(p) \ Undecodable : p \in InCycle}
    BY <1>2
  <2>2. \A p \in Paths : g'.weight[nodes'[p]] # NoPath
    BY <1>3, <1>4
  <2>3. \A p \in Paths' \cap Undecodable : g'.weight[nodes'[p]] # NoPath
    BY <1>2, <2>2
  <2>4. ReportedCycles' \cup {Members(c)' \ Undecodable : c \in components'}
          = {CycleOf(p)' \ Undecodable : p \in InCycle'}
    BY <1>9, <1>10, <2>1
  <2> QED
    BY <2>3, <2>4 DEF ReportRight
<1> QED
  BY <1>5, <1>6, <1>7, <1>8, <1>11

-----------------------------------------------------------------------------
\* The cycles that wait have no node in common.
LEMMA CyclesApart ==
  ASSUME CyclesRight, NEW c \in components, NEW d \in components, c # d
  PROVE  c \cap d = {}
<1> SUFFICES ASSUME NEW i \in c \cap d PROVE FALSE
  OBVIOUS
<1>1. c \subseteq Living /\ d \subseteq Living
  BY DEF CyclesRight
<1>2. \A j \in Living : j \in c <=> j \in Reach(i) /\ i \in Reach(j)
  BY DEF CyclesRight
<1>3. \A j \in Living : j \in d <=> j \in Reach(i) /\ i \in Reach(j)
  BY DEF CyclesRight
<1> QED
  BY <1>1, <1>2, <1>3

\* A replacement takes a vacant place.
LEMMA VacantIsFree ==
  ASSUME NodesRight, NEW r \in Vacant
  PROVE  /\ r \in Nat \ {0} /\ r \notin Living
         /\ \A b : b = (IF r > bound THEN r ELSE bound) => b \in Nat /\ r \in 1..b /\ 1..bound \subseteq 1..b
<1>1. r = bound + 1 \/ r \in (1..bound) \ Living
  BY DEF Vacant, Living
<1>2. bound \in Nat /\ Living \subseteq 1..bound
  BY DEF NodesRight
<1> QED
  BY <1>1, <1>2

\* The collapse of c into r, seen from the nodes: a contraction of the graph that
\* `nodes` follows.
LEMMA CollapsedGraph ==
  ASSUME InputRight, NodesRight, CyclesRight, NEW c \in components, NEW r \in Vacant,
         g' = [weight |-> [i \in ((DOMAIN g.weight) \ c) \cup {r} |-> IF i = r THEN NoPath ELSE g.weight[i]],
               edges |-> {e \in g.edges : {e[1], e[2]} \subseteq (DOMAIN g.weight) \ c}
                           \cup (incoming(c) \X {r}) \cup ({r} \X outgoing(c))],
         nodes' = Repointed({g.weight[i] : i \in c}, r)
  PROVE  /\ Living' = (Living \ c) \cup {r}
         /\ g'.weight[r] = NoPath /\ \A i \in Living \ c : g'.weight[i] = g.weight[i]
         /\ g'.edges \subseteq Living' \X Living'
         /\ \A p \in Paths : nodes[p] \in c <=> p \in Members(c)
         /\ nodes' \in [Paths -> Living']
         /\ \A p \in Paths : nodes'[p] = Contraction(Living, c, r)[nodes[p]]
         /\ \A x, y \in Living : \A u, v :
              u = Contraction(Living, c, r)[x] /\ v = Contraction(Living, c, r)[y]
                => (v \in Reach(u)' <=> y \in Reach(x))
<1>1. /\ Living' = Contracted(Living, c, r)
      /\ g'.edges = ContractedEdges(Living, g.edges, c, r)
      /\ \A i \in Living' : g'.weight[i] = IF i = r THEN NoPath ELSE g.weight[i]
  BY DEF Living, Contracted, ContractedEdges, incoming, outgoing
<1>2. r \notin Living
  BY VacantIsFree
<1>3. /\ c \subseteq Living /\ c # {} /\ \A i \in c : g.weight[i] # NoPath
      /\ \A i, j \in c : j \in Reach(i)
  BY DEF CyclesRight
<1>4. /\ nodes \in [Paths -> Living] /\ g.edges \subseteq Living \X Living
      /\ \A p \in Paths : g.weight[nodes[p]] \in {p, NoPath}
      /\ \A i \in Living : g.weight[i] # NoPath => g.weight[i] \in Paths /\ nodes[g.weight[i]] = i
  BY DEF NodesRight
<1>5. \A p \in Paths : nodes[p] \in c <=> p \in Members(c)
  BY <1>3, <1>4 DEF Members
<1>6. \A i \in Living : Contraction(Living, c, r)[i] = IF i \in c THEN r ELSE i
  BY DEF Contraction
<1>7. /\ nodes' \in [Paths -> Living']
      /\ \A p \in Paths : nodes'[p] = Contraction(Living, c, r)[nodes[p]]
  <2>1. nodes' = [p \in Paths |-> IF p \in Members(c) THEN r ELSE nodes[p]]
    BY <1>4 DEF Repointed, Members
  <2>2. \A p \in Paths : (IF p \in Members(c) THEN r ELSE nodes[p]) \in Living'
    BY <1>1, <1>4, <1>5 DEF Contracted
  <2>3. \A p \in Paths : nodes'[p] = IF nodes[p] \in c THEN r ELSE nodes[p]
    BY <1>5, <2>1
  <2> QED
    BY <1>4, <1>6, <2>1, <2>2, <2>3
<1>8. /\ g'.edges \subseteq Living' \X Living'
      /\ \A x, y \in Living : Contraction(Living, c, r)[y] \in ReachedFrom(Contraction(Living, c, r)[x],
                                 Contracted(Living, c, r), ContractedEdges(Living, g.edges, c, r))
                                <=> y \in Reach(x)
  BY <1>1, <1>2, <1>3, <1>4, ReachContracted DEF Reach
<1>9. \A i : Reach(i)' = ReachedFrom(i, Contracted(Living, c, r), ContractedEdges(Living, g.edges, c, r))
  BY <1>1 DEF Reach
<1>10. Living' = (Living \ c) \cup {r}
  BY <1>1 DEF Contracted
<1>11. g'.weight[r] = NoPath /\ \A i \in Living \ c : g'.weight[i] = g.weight[i]
  BY <1>1, <1>2, <1>10
<1>12. \A x, y \in Living : \A u, v :
         u = Contraction(Living, c, r)[x] /\ v = Contraction(Living, c, r)[y]
           => (v \in Reach(u)' <=> y \in Reach(x))
  BY <1>8, <1>9
<1> QED
  BY <1>5, <1>7, <1>8, <1>10, <1>11, <1>12

\* Collapsing one cycle keeps what every file reaches.
LEMMA CollapseStep ==
  ASSUME InputRight, NodesRight, ReachRight, CyclesRight, ClosuresRight, ReportRight, Collapse
  PROVE  NodesRight' /\ ReachRight' /\ CyclesRight' /\ ClosuresRight' /\ ReportRight'
<1>1. PICK c \in components, r \in Vacant :
        /\ components' = components \ {c}
        /\ g' = [weight |-> [i \in ((DOMAIN g.weight) \ c) \cup {r} |-> IF i = r THEN NoPath ELSE g.weight[i]],
                 edges |-> {e \in g.edges : {e[1], e[2]} \subseteq (DOMAIN g.weight) \ c}
                             \cup (incoming(c) \X {r}) \cup ({r} \X outgoing(c))]
        /\ bound' = IF r > bound THEN r ELSE bound
        /\ nodes' = Repointed({g.weight[i] : i \in c}, r)
        /\ scc_map' = [i \in DOMAIN scc_map \cup {r} |->
                         IF i = r THEN Members(c) \ Undecodable ELSE scc_map[i]]
        /\ diagnostics' = diagnostics
             \cup {[kind |-> "NonUtf8CyclePath", path |-> p] : p \in Members(c) \cap Undecodable}
             \cup {[kind |-> "IncludeCycle", members |-> Members(c) \ Undecodable]}
  BY DEF Collapse, Members
<1>2. pc = "collapse" /\ pc' = "collapse" /\ files' = files /\ direct' = direct /\ closures' = closures
  BY DEF Collapse
<1>3. /\ Paths' = Paths /\ InCycle' = InCycle
      /\ \A p : IncludedBy(p)' = IncludedBy(p) /\ CycleOf(p)' = CycleOf(p)
  BY InputStays DEF Next
<1> DEFINE pi == Contraction(Living, c, r)
<1>4. /\ Living' = (Living \ c) \cup {r}
      /\ g'.weight[r] = NoPath /\ \A i \in Living \ c : g'.weight[i] = g.weight[i]
      /\ g'.edges \subseteq Living' \X Living'
      /\ \A p \in Paths : nodes[p] \in c <=> p \in Members(c)
      /\ nodes' \in [Paths -> Living']
      /\ \A p \in Paths : nodes'[p] = pi[nodes[p]]
      /\ \A x, y \in Living : \A u, v : u = pi[x] /\ v = pi[y] => (v \in Reach(u)' <=> y \in Reach(x))
  BY <1>1, CollapsedGraph
<1>5. /\ r \notin Living /\ r \in Nat
      /\ bound' \in Nat /\ r \in 1..bound' /\ 1..bound \subseteq 1..bound'
  BY <1>1, VacantIsFree
<1>6. /\ c \subseteq Living /\ c # {}
      /\ \A i \in c : /\ g.weight[i] # NoPath
                      /\ \A j \in Living : j \in c <=> j \in Reach(i) /\ i \in Reach(j)
  BY DEF CyclesRight
<1>7. /\ \A i \in c : pi[i] = r
      /\ \A i \in Living \ c : pi[i] = i
      /\ \A i \in Living' : \E x \in Living : pi[x] = i
  BY <1>4, <1>6 DEF Contraction
<1> HIDE DEF pi
<1>8. nodes \in [Paths -> Living] /\ \A p \in Paths : nodes[p] \in Living
  BY DEF NodesRight
<1>9. NodesRight'
  <2>1. Living' \subseteq 1..bound'
    BY <1>4, <1>5 DEF NodesRight
  <2>2. \A p \in Paths : g'.weight[nodes'[p]] \in {p, NoPath}
    BY <1>4, <1>7, <1>8 DEF NodesRight
  <2>3. ASSUME NEW i \in Living'
        PROVE  /\ \E p \in Paths : nodes'[p] = i
               /\ g'.weight[i] # NoPath => g'.weight[i] \in Paths /\ nodes'[g'.weight[i]] = i
    <3>1. PICK x \in Living : pi[x] = i
      BY <1>7
    <3>2. \E p \in Paths : nodes[p] = x
      BY DEF NodesRight
    <3>3. ASSUME g'.weight[i] # NoPath
          PROVE  g'.weight[i] \in Paths /\ nodes'[g'.weight[i]] = i
      <4>1. i \in Living \ c /\ g'.weight[i] = g.weight[i]
        BY <1>4, <3>3
      <4>2. g.weight[i] \in Paths /\ nodes[g.weight[i]] = i
        BY <3>3, <4>1 DEF NodesRight
      <4> QED
        BY <1>4, <1>7, <4>1, <4>2
    <3> QED
      BY <1>4, <3>1, <3>2, <3>3
  <2>4. DOMAIN scc_map' = {i \in Living' : g'.weight[i] = NoPath}
    <3>1. DOMAIN scc_map' = DOMAIN scc_map \cup {r}
      BY <1>1
    <3>2. DOMAIN scc_map = {i \in Living : g.weight[i] = NoPath}
      BY DEF NodesRight
    <3> QED
      BY <1>4, <1>6, <3>1, <3>2
  <2>5. ASSUME NEW i \in DOMAIN scc_map'
        PROVE  scc_map'[i] = {p \in Paths : nodes'[p] = i} \ Undecodable
    <3>1. CASE i = r
      <4>1. scc_map'[i] = Members(c) \ Undecodable
        BY <1>1, <3>1
      <4>2. \A p \in Paths : nodes'[p] = r <=> p \in Members(c)
        BY <1>4, <1>5, <1>7, <1>8
      <4>3. Members(c) \subseteq Paths
        BY <1>6 DEF Members, NodesRight
      <4> QED
        BY <3>1, <4>1, <4>2, <4>3
    <3>2. CASE i # r
      <4>1. i \in DOMAIN scc_map /\ scc_map'[i] = scc_map[i]
        BY <1>1, <3>2
      <4>2. i \in Living \ c /\ scc_map[i] = {p \in Paths : nodes[p] = i} \ Undecodable
        BY <1>6, <4>1 DEF NodesRight
      <4>3. \A p \in Paths : nodes'[p] = i <=> nodes[p] = i
        BY <1>4, <1>7, <1>8, <3>2, <4>2
      <4> QED
        BY <4>1, <4>2, <4>3
    <3> QED
      BY <3>1, <3>2
  <2> QED
    BY <1>3, <1>4, <1>5, <2>1, <2>2, <2>3, <2>4, <2>5 DEF NodesRight
<1>10. ReachRight'
  <2>1. ASSUME NEW p \in Paths, NEW q \in Paths
        PROVE  (nodes[q] \in Reach(nodes[p]))' <=> q \in IncludedBy(p)
    <3>1. \A u, v : u = nodes'[p] /\ v = nodes'[q] => (v \in Reach(u)' <=> nodes[q] \in Reach(nodes[p]))
      BY <1>4, <1>8
    <3>2. nodes[q] \in Reach(nodes[p]) <=> q \in IncludedBy(p)
      BY DEF ReachRight
    <3> QED
      BY <3>1, <3>2 DEF Reach
  <2> QED
    BY <1>3, <2>1 DEF ReachRight
<1>11. \A d \in components' : /\ d \in components /\ d # c /\ d \cap c = {} /\ d \subseteq Living
                              /\ d \subseteq Living' /\ r \notin d
                              /\ \A i \in d : g'.weight[i] = g.weight[i] /\ pi[i] = i
  <2> TAKE d \in components'
  <2>1. d \in components /\ d # c
    BY <1>1
  <2>2. d \cap c = {} /\ d \subseteq Living
    BY <2>1, CyclesApart DEF CyclesRight
  <2> QED
    BY <1>4, <1>5, <1>7, <2>1, <2>2
<1>12. CyclesRight'
  <2>1. ASSUME NEW d \in components', NEW i \in d
        PROVE  \A j \in Living' : j \in d <=> j \in Reach(i)' /\ i \in Reach(j)'
    <3> TAKE j \in Living'
    <3>1. PICK x \in Living : pi[x] = j
      BY <1>7
    <3>2. i \in Living /\ pi[i] = i
      BY <1>11
    <3>3. (j \in Reach(i)' <=> x \in Reach(i)) /\ (i \in Reach(j)' <=> i \in Reach(x))
      BY <1>4, <3>1, <3>2
    <3>4. x \in d <=> x \in Reach(i) /\ i \in Reach(x)
      BY <1>11 DEF CyclesRight
    <3>5. x \in d <=> j \in d
      BY <1>7, <1>11, <3>1
    <3> QED
      BY <3>3, <3>4, <3>5
  <2>2. ASSUME NEW i \in Living', NEW j \in Living', i # j, j \in Reach(i)', i \in Reach(j)'
        PROVE  \E d \in components' : i \in d
    <3>1. PICK x \in Living, y \in Living : pi[x] = i /\ pi[y] = j
      BY <1>7
    <3>2. x # y /\ y \in Reach(x) /\ x \in Reach(y)
      BY <1>4, <2>2, <3>1
    <3>3. PICK d \in components : x \in d
      BY <3>2 DEF CyclesRight
    <3>4. x \notin c
      <4>1. x \in c => y \in c
        BY <1>6, <3>2
      <4> QED
        BY <1>7, <2>2, <3>1, <4>1
    <3> QED
      BY <1>1, <1>7, <3>1, <3>3, <3>4
  <2>3. ASSUME NEW d \in components'
        PROVE  /\ d \subseteq Living' /\ d # {}
               /\ \A i \in d : g'.weight[i] # NoPath /\ \E j \in d : j # i
    <3>1. d \in components /\ d \subseteq Living' /\ \A i \in d : g'.weight[i] = g.weight[i]
      BY <1>11
    <3>2. d # {} /\ \A i \in d : g.weight[i] # NoPath /\ \E j \in d : j # i
      BY <3>1 DEF CyclesRight
    <3> QED
      BY <3>1, <3>2
  <2> QED
    BY <1>2, <2>1, <2>2, <2>3 DEF CyclesRight
<1>13. ClosuresRight'
  BY <1>2 DEF ClosuresRight
<1>14. ReportRight'
  <2>1. ASSUME NEW p \in Paths \cap Undecodable, g'.weight[nodes'[p]] = NoPath
        PROVE  CyclePath(p) \in diagnostics'
    <3>1. CASE nodes[p] \in c
      BY <1>1, <1>4, <3>1 DEF CyclePath
    <3>2. CASE nodes[p] \notin c
      <4>1. g.weight[nodes[p]] = NoPath
        BY <1>4, <1>7, <1>8, <2>1, <3>2
      <4> QED
        BY <1>1, <4>1 DEF ReportRight
    <3> QED
      BY <3>1, <3>2
  <2>2. ReportedCycles' = ReportedCycles \cup {Members(c) \ Undecodable}
    <3> DEFINE new == [kind |-> "IncludeCycle", members |-> Members(c) \ Undecodable]
               paths == {[kind |-> "NonUtf8CyclePath", path |-> p] : p \in Members(c) \cap Undecodable}
    <3>1. diagnostics' = diagnostics \cup paths \cup {new}
      BY <1>1
    <3>2. \A d \in paths : d.kind # "IncludeCycle"
      OBVIOUS
    <3>3. new.kind = "IncludeCycle" /\ new.members = Members(c) \ Undecodable
      OBVIOUS
    <3> HIDE DEF new, paths
    <3> QED
      BY <3>1, <3>2, <3>3 DEF ReportedCycles
  <2>3. \A d \in components' : Members(d)' = Members(d)
    BY <1>11 DEF Members
  <2>4. ReportedCycles' \cup {Members(d)' \ Undecodable : d \in components'}
          = ReportedCycles \cup {Members(d) \ Undecodable : d \in components}
    BY <1>1, <2>2, <2>3
  <2>5. {CycleOf(p)' \ Undecodable : p \in InCycle'} = {CycleOf(p) \ Undecodable : p \in InCycle}
    BY <1>3
  <2>6. ReportedCycles' \cup {Members(d)' \ Undecodable : d \in components'}
          = {CycleOf(p)' \ Undecodable : p \in InCycle'}
    BY <2>4, <2>5 DEF ReportRight
  <2> QED
    BY <1>3, <2>1, <2>6 DEF ReportRight, CyclePath
<1> QED
  BY <1>9, <1>10, <1>12, <1>13, <1>14

-----------------------------------------------------------------------------
GraphRight == NodesRight /\ ReachRight /\ CyclesRight /\ ClosuresRight /\ ReportRight

\* Steps that leave the graph alone leave the report of its cycles right.
LEMMA ReportStays ==
  ASSUME ReportRight, UNCHANGED <<files, direct, g, nodes, components>>,
         ReportedCycles' = ReportedCycles, diagnostics \subseteq diagnostics'
  PROVE  ReportRight'
<1>1. Paths' = Paths
  BY DEF Paths
<1>2. \A p : IncludedBy(p)' = IncludedBy(p)
  BY DEF IncludedBy
<1>3. \A p : CycleOf(p)' = CycleOf(p)
  BY <1>2 DEF CycleOf
<1>4. InCycle' = InCycle
  BY <1>1, <1>2 DEF InCycle
<1>5. {CycleOf(p)' \ Undecodable : p \in InCycle'} = {CycleOf(p) \ Undecodable : p \in InCycle}
  BY <1>3, <1>4
<1>6. {Members(c)' \ Undecodable : c \in components'} = {Members(c) \ Undecodable : c \in components}
  BY DEF Members
<1>7. \A p \in Paths \cap Undecodable : g.weight[nodes[p]] = NoPath => CyclePath(p) \in diagnostics'
  BY DEF ReportRight
<1>8. ReportedCycles' \cup {Members(c)' \ Undecodable : c \in components'}
        = {CycleOf(p)' \ Undecodable : p \in InCycle'}
  BY <1>5, <1>6 DEF ReportRight
<1> QED
  BY <1>1, <1>7, <1>8 DEF ReportRight, CyclePath

\* Once every cycle is collapsed the graph stays.
LEMMA CollapsedStep ==
  ASSUME GraphRight, Collapsed
  PROVE  GraphRight' /\ pc' # "done"
<1> USE DEF GraphRight
<1>1. /\ pc' = "close" /\ components = {} /\ pc = "collapse"
      /\ UNCHANGED <<files, direct, g, bound, nodes, components, scc_map, closures, diagnostics>>
  BY DEF Collapsed
<1>2. NodesRight' /\ ReachRight'
  <2>1. Paths' = Paths /\ Living' = Living
    BY <1>1 DEF Paths, Living
  <2>2. NodesRight'
    BY <1>1, <2>1 DEF NodesRight
  <2>3. \A p : IncludedBy(p)' = IncludedBy(p)
    BY <1>1 DEF IncludedBy
  <2>4. \A k : Reach(k)' = Reach(k)
    BY <1>1, <2>1 DEF Reach
  <2> QED
    BY <1>1, <2>1, <2>2, <2>3, <2>4 DEF ReachRight
<1>3. CyclesRight'
  BY <1>1 DEF CyclesRight, Living, Reach
<1>4. ClosuresRight'
  BY <1>1 DEF ClosuresRight, Living, Reach, contribution
<1>5. ReportRight'
  <2>1. ReportedCycles' = ReportedCycles
    BY <1>1 DEF ReportedCycles
  <2> QED
    BY <1>1, <2>1, ReportStays
<1> QED
  BY <1>1, <1>2, <1>3, <1>4, <1>5

\* A node whose successors are closed merges them with what it stands for.
LEMMA CloseStep ==
  ASSUME InputRight, GraphRight, Close
  PROVE  GraphRight' /\ pc' # "done"
<1> USE DEF GraphRight
<1>1. /\ pc' = "close" /\ pc = "close"
      /\ UNCHANGED <<files, direct, g, bound, nodes, components, scc_map, diagnostics>>
  BY DEF Close
<1>2. NodesRight' /\ ReachRight'
  <2>1. Paths' = Paths /\ Living' = Living
    BY <1>1 DEF Paths, Living
  <2>2. NodesRight'
    BY <1>1, <2>1 DEF NodesRight
  <2>3. \A p : IncludedBy(p)' = IncludedBy(p)
    BY <1>1 DEF IncludedBy
  <2>4. \A k : Reach(k)' = Reach(k)
    BY <1>1, <2>1 DEF Reach
  <2> QED
    BY <1>1, <2>1, <2>2, <2>3, <2>4 DEF ReachRight
<1>3. CyclesRight'
  BY <1>1 DEF CyclesRight, Living, Reach
<1>4. ReportRight'
  <2>1. ReportedCycles' = ReportedCycles
    BY <1>1 DEF ReportedCycles
  <2> QED
    BY <1>1, <2>1, ReportStays
<1>5. PICK i \in Living \ DOMAIN closures :
        /\ Successors(i) \subseteq DOMAIN closures
        /\ closures' = [j \in DOMAIN closures \cup {i} |->
              IF j = i THEN contribution(i) \cup UNION {closures[s] : s \in Successors(i)}
                       ELSE closures[j]]
  BY DEF Close, Living, Successors
<1>6. closures'[i] = UNION {contribution(j) : j \in Reach(i)}
  <2>1. Reach(i) = {i} \cup UNION {Reach(s) : s \in Successors(i)}
    BY ReachTyped
  <2>2. \A s \in Successors(i) : closures[s] = UNION {contribution(j) : j \in Reach(s)}
    BY <1>5 DEF ClosuresRight
  <2>3. closures'[i] = contribution(i) \cup UNION {closures[s] : s \in Successors(i)}
    BY <1>5
  <2>4. ASSUME NEW q \in closures'[i] PROVE q \in UNION {contribution(j) : j \in Reach(i)}
    BY <2>1, <2>2, <2>3, <2>4
  <2>5. ASSUME NEW j \in Reach(i), NEW q \in contribution(j) PROVE q \in closures'[i]
    <3>1. CASE j = i
      BY <2>3, <2>5, <3>1
    <3>2. CASE j # i
      <4>1. PICK s \in Successors(i) : j \in Reach(s)
        BY <2>1, <2>5, <3>2
      <4>2. q \in closures[s]
        BY <2>2, <2>5, <4>1
      <4> QED
        BY <2>3, <4>2
    <3> QED
      BY <3>1, <3>2
  <2> QED
    BY <2>4, <2>5
<1>7. /\ \A j \in Living : contribution(j)' = contribution(j) /\ Reach(j)' = Reach(j)
      /\ Living' = Living
  BY <1>1 DEF contribution, Reach, Living
<1>8. ClosuresRight'
  <2>1. DOMAIN closures' = DOMAIN closures \cup {i} /\ DOMAIN closures' \subseteq Living
    BY <1>5 DEF ClosuresRight
  <2>2. ASSUME NEW j \in DOMAIN closures'
        PROVE  closures'[j] = UNION {contribution(k) : k \in Reach(j)}
    BY <1>5, <1>6, <2>1, <2>2 DEF ClosuresRight
  <2>3. \A j \in Living : Reach(j) \subseteq Living
    BY ReachTyped
  <2>4. ASSUME NEW j \in DOMAIN closures'
        PROVE  closures'[j] = UNION {contribution(k)' : k \in Reach(j)'}
    BY <1>7, <2>1, <2>2, <2>3, <2>4
  <2> QED
    BY <1>1, <1>7, <2>1, <2>4 DEF ClosuresRight
<1> QED
  BY <1>1, <1>2, <1>3, <1>4, <1>8

\* When none waits, the cycles there are were reported.
LEMMA NoneWaits ==
  (ReportRight /\ components = {} =>
     ReportedCycles = {CycleOf(p) \ Undecodable : p \in InCycle})'
BY DEF ReportRight

\* What is recorded of a file is what it includes, and what is not is reported.
LEMMA RecordStep ==
  ASSUME InputRight, GraphRight, Record
  PROVE  GraphRight' /\ MacrosAreThoseIncluded' /\ LeftOutIsReported'
<1> USE DEF GraphRight
<1>1. /\ pc' = "done" /\ pc = "close" /\ DOMAIN closures = Living
      /\ UNCHANGED <<files, direct, g, bound, nodes, components, scc_map, closures>>
      /\ indirect' = [f \in files |-> closures[nodes[f]] \ Undecodable]
  BY DEF Record, Living
<1> DEFINE missing == {[kind |-> "NotPreprocessed", path |-> p] : p \in (DOMAIN nodes) \ files}
           unnamed == {[kind |-> "NonUtf8IndirectInclude", path |-> p] :
                         p \in (UNION {closures[nodes[f]] : f \in files}) \cap Undecodable}
<1>2. diagnostics' = diagnostics \cup missing \cup unnamed
  BY DEF Record
<1>3. components = {}
  BY <1>1 DEF CyclesRight
<1>4. ReportedCycles' = ReportedCycles
  <2>1. \A d \in missing : d.kind # "IncludeCycle"
    OBVIOUS
  <2>2. \A d \in unnamed : d.kind # "IncludeCycle"
    OBVIOUS
  <2> HIDE DEF missing, unnamed
  <2>3. \A d : d \in diagnostics' /\ d.kind = "IncludeCycle"
               <=> d \in diagnostics /\ d.kind = "IncludeCycle"
    BY <1>2, <2>1, <2>2
  <2> QED
    BY <2>3 DEF ReportedCycles
<1> HIDE DEF missing, unnamed
<1>5. NodesRight' /\ ReachRight'
  <2>1. NodesRight'
    BY <1>1 DEF NodesRight, Living, Paths
  <2>2. ReachRight'
    BY <1>1 DEF ReachRight, Living, Reach, Paths, IncludedBy
  <2> QED
    BY <2>1, <2>2
<1>6. CyclesRight'
  BY <1>1, <1>3 DEF CyclesRight, Living, Reach
<1>7. ClosuresRight'
  BY <1>1 DEF ClosuresRight, Living, Reach, contribution
<1>8. ReportRight'
  <2>1. diagnostics \subseteq diagnostics'
    BY <1>2
  <2> QED
    BY <1>1, <1>4, <2>1, ReportStays
<1>9. files \subseteq Paths /\ DOMAIN nodes = Paths /\ \A p \in Paths : nodes[p] \in Living
  BY IncludesTyped DEF NodesRight
<1>10. \A f \in files : closures[nodes[f]] = UNION {contribution(j) : j \in Reach(nodes[f])}
  BY <1>1, <1>9 DEF ClosuresRight
<1>11. \A f \in files : closures[nodes[f]] \ Undecodable = IncludedBy(f) \ Undecodable
  BY <1>9, <1>10, LeadsToIncluded
<1>12. MacrosAreThoseIncluded'
  <2>1. \A f \in files : indirect'[f] = IncludedBy(f) \ Undecodable
    BY <1>1, <1>11
  <2>2. \A f : IncludedBy(f)' = IncludedBy(f)
    BY <1>1 DEF IncludedBy
  <2>3. \A f \in files : visible_macros(f)' = {f} \cup ((IncludedBy(f) \ Undecodable) \cap files)
    BY <1>1, <2>1 DEF visible_macros
  <2> QED
    BY <1>1, <2>1, <2>2, <2>3 DEF MacrosAreThoseIncluded
<1>13. LeftOutIsReported'
  <2>1. \A p \in Paths \ files : [kind |-> "NotPreprocessed", path |-> p] \in diagnostics'
    BY <1>2, <1>9 DEF missing
  <2>2. ASSUME NEW f \in files, NEW p \in IncludedBy(f) \cap Undecodable
        PROVE  \E k \in {"NonUtf8CyclePath", "NonUtf8IndirectInclude"} :
                 [kind |-> k, path |-> p] \in diagnostics'
    <3>1. p \in Paths /\ f \in Paths
      BY <1>9, IncludedAmongPaths
    <3>2. CASE g.weight[nodes[p]] = NoPath
      BY <1>2, <3>1, <3>2 DEF ReportRight, CyclePath
    <3>3. CASE g.weight[nodes[p]] # NoPath
      <4>1. p \in contribution(nodes[p])
        BY <1>9, <3>1, <3>3, StandsFor
      <4>2. nodes[p] \in Reach(nodes[f])
        BY <3>1 DEF ReachRight
      <4>3. p \in closures[nodes[f]]
        BY <1>10, <4>1, <4>2
      <4>4. p \in (UNION {closures[nodes[h]] : h \in files}) \cap Undecodable
        BY <4>3
      <4>5. [kind |-> "NonUtf8IndirectInclude", path |-> p] \in unnamed
        BY <4>4 DEF unnamed
      <4> QED
        BY <1>2, <4>5
    <3> QED
      BY <3>2, <3>3
  <2>4. (ReportedCycles = {CycleOf(p) \ Undecodable : p \in InCycle})'
    BY <1>1, <1>3, <1>8, NoneWaits
  <2>5. Paths' = Paths
    BY <1>1 DEF Paths
  <2>6. \A p : IncludedBy(p)' = IncludedBy(p)
    BY <1>1 DEF IncludedBy
  <2>7. \A p \in (Paths \ files)' : [kind |-> "NotPreprocessed", path |-> p] \in diagnostics'
    BY <1>1, <2>1, <2>5
  <2>8. \A f \in files' : \A p \in IncludedBy(f)' \cap Undecodable :
          \E k \in {"NonUtf8CyclePath", "NonUtf8IndirectInclude"} :
            [kind |-> k, path |-> p] \in diagnostics'
    BY <1>1, <2>2, <2>6
  <2> QED
    BY <2>4, <2>7, <2>8 DEF LeftOutIsReported, ReportedCycles, CycleOf, InCycle
<1> QED
  BY <1>5, <1>6, <1>7, <1>8, <1>12, <1>13

-----------------------------------------------------------------------------
\* The invariant holds before the graph is built.
LEMMA IncludeInit == Init => IncludeInvariant
<1> SUFFICES ASSUME Init PROVE IncludeInvariant
  OBVIOUS
<1>1. /\ pc = "build" /\ scc_map = <<>> /\ closures = <<>> /\ diagnostics = {}
      /\ files \subseteq Files /\ direct \in [files -> SUBSET Files]
  BY DEF Init
<1>2. ReportedCycles = {}
  BY <1>1 DEF ReportedCycles
<1>3. InputRight
  BY <1>1, <1>2 DEF InputRight
<1>4. MacrosAreThoseIncluded /\ LeftOutIsReported
  BY <1>1 DEF MacrosAreThoseIncluded, LeftOutIsReported
<1> QED
  BY <1>1, <1>3, <1>4 DEF IncludeInvariant

\* A step that changes nothing keeps the invariant.
LEMMA IncludeStutters ==
  ASSUME IncludeInvariant, UNCHANGED vars
  PROVE  IncludeInvariant'
<1>1. /\ files' = files /\ direct' = direct /\ pc' = pc /\ g' = g /\ bound' = bound
      /\ nodes' = nodes /\ components' = components /\ scc_map' = scc_map
      /\ closures' = closures /\ indirect' = indirect /\ diagnostics' = diagnostics
  BY DEF vars
<1>2. InputRight'
  BY <1>1 DEF IncludeInvariant, InputRight, ReportedCycles
<1>3. ReportedCycles' = ReportedCycles
  BY <1>1 DEF ReportedCycles
<1>4. ASSUME pc # "build"
      PROVE  NodesRight' /\ ReachRight' /\ CyclesRight' /\ ClosuresRight' /\ ReportRight'
  <2>1. NodesRight /\ ReachRight /\ CyclesRight /\ ClosuresRight /\ ReportRight
    BY <1>4 DEF IncludeInvariant
  <2>2. NodesRight'
    BY <1>1, <2>1 DEF NodesRight, Living, Paths
  <2>3. ReachRight'
    BY <1>1, <2>1 DEF ReachRight, Living, Reach, Paths, IncludedBy
  <2>4. CyclesRight'
    BY <1>1, <2>1 DEF CyclesRight, Living, Reach
  <2>5. ClosuresRight'
    BY <1>1, <2>1 DEF ClosuresRight, Living, Reach, contribution
  <2>6. ReportRight'
    BY <1>1, <1>3, <2>1, ReportStays
  <2> QED
    BY <2>2, <2>3, <2>4, <2>5, <2>6
<1>5. MacrosAreThoseIncluded'
  BY <1>1 DEF IncludeInvariant, MacrosAreThoseIncluded, visible_macros, IncludedBy
<1>6. LeftOutIsReported'
  <2>1. /\ Paths' = Paths /\ (\A p : IncludedBy(p)' = IncludedBy(p) /\ CycleOf(p)' = CycleOf(p))
        /\ InCycle' = InCycle
    BY InputStays DEF IncludeInvariant
  <2>2. {CycleOf(p)' \ Undecodable : p \in InCycle'} = {CycleOf(p) \ Undecodable : p \in InCycle}
    BY <2>1
  <2>3. ASSUME pc = "done"
        PROVE  (ReportedCycles = {CycleOf(p) \ Undecodable : p \in InCycle})'
    BY <1>3, <2>2, <2>3 DEF IncludeInvariant, LeftOutIsReported, ReportedCycles, CycleOf, InCycle
  <2>4. ASSUME pc = "done"
        PROVE  /\ \A p \in (Paths \ files)' : [kind |-> "NotPreprocessed", path |-> p] \in diagnostics'
               /\ \A f \in files' : \A p \in IncludedBy(f)' \cap Undecodable :
                    \E k \in {"NonUtf8CyclePath", "NonUtf8IndirectInclude"} :
                      [kind |-> k, path |-> p] \in diagnostics'
    BY <1>1, <2>1, <2>4 DEF IncludeInvariant, LeftOutIsReported
  <2> QED
    BY <1>1, <2>3, <2>4 DEF LeftOutIsReported, ReportedCycles, CycleOf, InCycle
<1> QED
  BY <1>1, <1>2, <1>4, <1>5, <1>6 DEF IncludeInvariant

\* Every step keeps the invariant.
LEMMA IncludeStep == IncludeInvariant /\ [Next]_vars => IncludeInvariant'
<1> SUFFICES ASSUME IncludeInvariant, [Next]_vars PROVE IncludeInvariant'
  OBVIOUS
<1>1. InputRight /\ InputRight' /\ (pc # "build" => GraphRight)
  BY InputStays DEF IncludeInvariant, GraphRight
<1>2. CASE Build
  <2>1. GraphRight' /\ pc' = "collapse"
    BY <1>1, <1>2, BuildStep DEF Build, GraphRight
  <2> QED
    BY <1>1, <2>1 DEF IncludeInvariant, GraphRight, MacrosAreThoseIncluded, LeftOutIsReported
<1>3. CASE Collapse
  <2>1. pc = "collapse" /\ pc' = "collapse"
    BY <1>3 DEF Collapse
  <2>2. GraphRight'
    BY <1>1, <1>3, <2>1, CollapseStep DEF GraphRight
  <2> QED
    BY <1>1, <2>1, <2>2 DEF IncludeInvariant, GraphRight, MacrosAreThoseIncluded, LeftOutIsReported
<1>4. CASE Collapsed
  <2>1. GraphRight' /\ pc' # "done"
    BY <1>1, <1>4, CollapsedStep DEF Collapsed
  <2> QED
    BY <1>1, <2>1 DEF IncludeInvariant, GraphRight, MacrosAreThoseIncluded, LeftOutIsReported
<1>5. CASE Close
  <2>1. GraphRight' /\ pc' # "done"
    BY <1>1, <1>5, CloseStep DEF Close
  <2> QED
    BY <1>1, <2>1 DEF IncludeInvariant, GraphRight, MacrosAreThoseIncluded, LeftOutIsReported
<1>6. CASE Record
  <2>1. GraphRight' /\ MacrosAreThoseIncluded' /\ LeftOutIsReported'
    BY <1>1, <1>6, RecordStep DEF Record
  <2> QED
    BY <1>1, <2>1 DEF IncludeInvariant, GraphRight
<1>7. CASE Done
  BY <1>7, IncludeStutters DEF Done
<1>8. CASE UNCHANGED vars
  BY <1>8, IncludeStutters
<1> QED
  BY <1>2, <1>3, <1>4, <1>5, <1>6, <1>7, <1>8 DEF Next

\* The invariant holds of every set of files and whatever they include.
LEMMA IncludeInvariantHolds == Spec => []IncludeInvariant
BY IncludeInit, IncludeStep, PTL DEF Spec

-----------------------------------------------------------------------------
\* The graph, `nodes` and `scc_map` change in lockstep in `collapse_one_component`
\* (preproc.rs), whatever the cycles and in whatever order they are collapsed.
THEOREM GraphInLockstep == Spec => []Lockstep
<1>1. IncludeInvariant => Lockstep
  <2> SUFFICES ASSUME IncludeInvariant, pc # "build" PROVE Lockstep
    BY DEF Lockstep
  <2>1. NodesRight /\ CyclesRight
    BY DEF IncludeInvariant
  <2>2. DOMAIN nodes = Paths /\ \A p \in Paths : nodes[p] \in DOMAIN g.weight
    BY <2>1 DEF NodesRight, Living
  <2>3. \A i \in DOMAIN g.weight :
          IF g.weight[i] = NoPath THEN i \in DOMAIN scc_map ELSE nodes[g.weight[i]] = i
    BY <2>1 DEF NodesRight, Living
  <2>4. \A i \in DOMAIN scc_map : i \in DOMAIN g.weight /\ g.weight[i] = NoPath
    BY <2>1 DEF NodesRight, Living
  <2>5. \A e \in g.edges : {e[1], e[2]} \subseteq DOMAIN g.weight
    BY <2>1 DEF NodesRight, Living
  <2>6. \A c \in components : \A i \in c : i \in DOMAIN g.weight /\ g.weight[i] # NoPath
    BY <2>1 DEF CyclesRight, Living
  <2> QED
    BY <2>2, <2>3, <2>4, <2>5, <2>6 DEF Lockstep
<1> QED
  BY <1>1, IncludeInvariantHolds, PTL

\* Replacing a cycle by one node (`collapse_scc`, preproc.rs) changes nothing
\* about what any file includes.
THEOREM CollapseIsExact == Spec => []CollapseKeepsReach
<1>1. IncludeInvariant => CollapseKeepsReach
  <2> SUFFICES ASSUME IncludeInvariant, pc \in {"collapse", "close"}, NEW p \in Paths
               PROVE  LeadsTo(nodes[p]) = IncludedBy(p) \ Undecodable
    BY DEF CollapseKeepsReach
  <2>1. InputRight /\ NodesRight /\ ReachRight
    BY DEF IncludeInvariant
  <2>2. LeadsTo(nodes[p]) = (UNION {contribution(j) : j \in Reach(nodes[p])}) \ Undecodable
    BY DEF LeadsTo, Reach, Living
  <2> QED
    BY <2>1, <2>2, LeadsToIncluded
<1> QED
  BY <1>1, IncludeInvariantHolds, PTL

\* After the collapse the graph has no cycle, so `compute_include_closures`
\* (preproc.rs) can order it and its fallback is never taken.
THEOREM CollapseIsComplete == Spec => []NoCycleLeft
<1>1. IncludeInvariant => NoCycleLeft
  <2> SUFFICES ASSUME IncludeInvariant, pc = "close" PROVE NoCycleLeft
    BY DEF NoCycleLeft
  <2>1. \A x \in Living : Reach(x) \subseteq Living /\ x \in Reach(x)
    BY ReachTyped DEF IncludeInvariant
  <2>2. kosaraju_scc(DOMAIN g.weight, g.edges) = {{y \in Reach(x) : x \in Reach(y)} : x \in Living}
    BY <2>1 DEF kosaraju_scc, Reach, Living
  <2>3. ASSUME NEW x \in Living
        PROVE  Cardinality({y \in Reach(x) : x \in Reach(y)}) = 1
    <3>1. ASSUME NEW y \in Reach(x), x \in Reach(y) PROVE y = x
      BY <2>1, <3>1 DEF IncludeInvariant, CyclesRight
    <3>2. {y \in Reach(x) : x \in Reach(y)} = {x}
      BY <2>1, <3>1
    <3> QED
      BY <3>2, FS_Singleton
  <2> QED
    BY <2>2, <2>3 DEF NoCycleLeft
<1> QED
  BY <1>1, IncludeInvariantHolds, PTL

\* `record_indirect_includes` (preproc.rs) gives a parse the macros of exactly
\* the files that are included, directly or not.
THEOREM MacrosAreRight == Spec => []MacrosAreThoseIncluded
BY IncludeInvariantHolds, PTL DEF IncludeInvariant

\* Every file the pass leaves out and every cycle is reported (the diagnostics
\* of `fix_includes`, preproc.rs).
THEOREM NothingLeftOutSilently == Spec => []LeftOutIsReported
BY IncludeInvariantHolds, PTL DEF IncludeInvariant
=============================================================================
