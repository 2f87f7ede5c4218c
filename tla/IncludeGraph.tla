---------------------------- MODULE IncludeGraph ----------------------------
(***************************************************************************)
(* The include graph of the C/C++ preprocessor pass                         *)
(* (big-code-analysis-ast/src/preproc.rs, `fix_includes`): one node per     *)
(* file, every include cycle replaced by one node that stands for its       *)
(* members, then the closure of every node, merged from the closures of     *)
(* its successors.                                                          *)
(*                                                                          *)
(* A node index is a number that the graph hands out again after its node   *)
(* was removed.  Every choice that a hash map or the library makes (which   *)
(* cycle is collapsed next, which vacant index a new node gets, which node  *)
(* is closed next) is left open.  A file stands for the macros it defines.  *)
(***************************************************************************)
EXTENDS Naturals, FiniteSets, Functions

CONSTANTS Files,         \* paths that may be preprocessed or included
          Unread,        \* those of them that may be missing from `files`
          SelfIncluding, \* those of them that may include themselves
          Undecodable,   \* those of them that are not valid UTF-8
          NoPath         \* the empty path of a replacement node

ASSUME IncludeAssumption ==
    /\ IsFiniteSet(Files)
    /\ Unread \cup SelfIncluding \cup Undecodable \subseteq Files
    /\ NoPath \notin Files

VARIABLES files,       \* the preprocessed files
          direct,      \* direct[f]: what the includes of f resolve to
          pc,          \* "build", "collapse", "close" or "done"
          g,           \* the stable graph: weights and edges
          bound,       \* how many indices were ever handed out
          nodes,       \* path -> index
          components,  \* the cycles still to be collapsed
          scc_map,     \* replacement node -> the member paths it stands for
          closures,    \* node -> what it contributes to whoever reaches it
          indirect,    \* f -> indirect_includes of f
          diagnostics

vars == <<files, direct, pc, g, bound, nodes, components, scc_map, closures,
          indirect, diagnostics>>

NoGraph == [weight |-> <<>>, edges |-> {}]

(***************************************************************************)
(* Graph notions: the least set that contains a vertex and is closed under  *)
(* the edges, and the strongly connected components.                        *)
(***************************************************************************)
ReachedFrom(x, V, E) ==
    {y \in V : \A S \in SUBSET V :
        x \in S /\ (\A e \in E : e[1] \in S => e[2] \in S) => y \in S}

kosaraju_scc(V, E) ==
    LET reach == [x \in V |-> ReachedFrom(x, V, E)]
    IN  {{y \in reach[x] : x \in reach[y]} : x \in V}

Init ==
    /\ \E missing \in SUBSET Unread : files = Files \ missing
    /\ direct \in [files -> SUBSET Files]
    /\ \A f \in files \ SelfIncluding : f \notin direct[f]
    /\ pc = "build"
    /\ g = NoGraph
    /\ bound = 0
    /\ nodes = <<>>
    /\ components = {}
    /\ scc_map = <<>>
    /\ closures = <<>>
    /\ indirect = [f \in files |-> {}]
    /\ diagnostics = {}

Paths == files \cup UNION {direct[f] : f \in files}

\* Mutant: only components of three files or more count as cycles.
Build_pairs_kept ==
    /\ pc = "build"
    /\ pc' = "collapse"
    /\ bound' = Cardinality(Paths)
    /\ nodes' = CHOOSE index \in Bijection(Paths, 1..bound') : TRUE
    /\ g' = [weight |-> Inverse(nodes', Paths, 1..bound'),
             edges |-> UNION {{<<nodes'[f], nodes'[i]>> : i \in direct[f] \ {f}}
                              : f \in files}]
    /\ components' = {c \in kosaraju_scc(DOMAIN g'.weight, g'.edges) :
                        Cardinality(c) > 2}
    /\ diagnostics' = {}
    /\ UNCHANGED <<files, direct, scc_map, closures, indirect>>

(***************************************************************************)
(* `build_include_graph`, and the components `collapse_scc` starts from.    *)
(* The order of the files decides only which number a node gets; numbers    *)
(* are compared for equality.                                               *)
(***************************************************************************)
Build ==
    /\ pc = "build"
    /\ pc' = "collapse"
    /\ bound' = Cardinality(Paths)
    /\ nodes' = CHOOSE index \in Bijection(Paths, 1..bound') : TRUE
    /\ g' = [weight |-> Inverse(nodes', Paths, 1..bound'),
             edges |-> UNION {{<<nodes'[f], nodes'[i]>> : i \in direct[f] \ {f}}
                              : f \in files}]
    /\ components' = {c \in kosaraju_scc(DOMAIN g'.weight, g'.edges) :
                        Cardinality(c) > 1}
    /\ diagnostics' = {[kind |-> "SelfInclusion", path |-> f] :
                         f \in {f \in files : f \in direct[f]}}
    /\ UNCHANGED <<files, direct, scc_map, closures, indirect>>

\* Mutant: the boundary of one member is taken for that of the component.
outgoing_of_one(c) ==
    {e[2] : e \in {e \in g.edges : e[1] = CHOOSE i \in c : TRUE}} \ c

\* The neighbours of component c that lie outside it, in either direction.
incoming(c) == {e[1] : e \in {e \in g.edges : e[2] \in c}} \ c
outgoing(c) == {e[2] : e \in {e \in g.edges : e[1] \in c}} \ c

\* Where `add_node` may put a node: in a vacant place, or in a new one.
Vacant ==
    LET vacated == (1..bound) \ DOMAIN g.weight
    IN  IF vacated = {} THEN {bound + 1} ELSE vacated

\* Mutant: only a member that can be decoded is repointed.
Repointed_decodable(members, replacement) ==
    [p \in DOMAIN nodes |->
       IF p \in members \ Undecodable THEN replacement ELSE nodes[p]]

\* `nodes` once every member leads to the replacement.
Repointed(members, replacement) ==
    [p \in DOMAIN nodes |-> IF p \in members THEN replacement ELSE nodes[p]]

\* `collapse_one_component`.  The replacement is added before the members go,
\* so it never takes the place of one of them.
Collapse ==
    /\ pc = "collapse"
    /\ \E c \in components, replacement \in Vacant :
         LET kept    == (DOMAIN g.weight) \ c
             members == {g.weight[i] : i \in c}
             paths   == members \ Undecodable
         IN  /\ components' = components \ {c}
             /\ g' = [weight |-> [i \in kept \cup {replacement} |->
                                    IF i = replacement THEN NoPath ELSE g.weight[i]],
                      edges |-> {e \in g.edges : {e[1], e[2]} \subseteq kept}
                                  \cup (incoming(c) \X {replacement})
                                  \cup ({replacement} \X outgoing(c))]
             /\ bound' = IF replacement > bound THEN replacement ELSE bound
             /\ nodes' = Repointed(members, replacement)
             /\ scc_map' = [i \in DOMAIN scc_map \cup {replacement} |->
                              IF i = replacement THEN paths ELSE scc_map[i]]
             /\ diagnostics' = diagnostics
                  \cup {[kind |-> "NonUtf8CyclePath", path |-> p] :
                          p \in members \cap Undecodable}
                  \cup {[kind |-> "IncludeCycle", members |-> paths]}
    /\ UNCHANGED <<files, direct, pc, closures, indirect>>

Collapsed ==
    /\ pc = "collapse"
    /\ components = {}
    /\ pc' = "close"
    /\ UNCHANGED <<files, direct, g, bound, nodes, components, scc_map,
                   closures, indirect, diagnostics>>

\* `index_node_contributions`: what a node stands for, decodable or not.
contribution(i) == IF g.weight[i] = NoPath THEN scc_map[i] ELSE {g.weight[i]}

\* Mutant: a node merges what its successors stand for, not their closures.
Close_one_level ==
    /\ pc = "close"
    /\ \E i \in (DOMAIN g.weight) \ DOMAIN closures :
         LET successors == {e[2] : e \in {e \in g.edges : e[1] = i}}
         IN  /\ successors \subseteq DOMAIN closures
             /\ closures' = [j \in DOMAIN closures \cup {i} |->
                   IF j = i
                   THEN contribution(i) \cup UNION {contribution(s) : s \in successors}
                   ELSE closures[j]]
    /\ UNCHANGED <<files, direct, pc, g, bound, nodes, components, scc_map,
                   indirect, diagnostics>>

\* `compute_include_closures`: a node whose successors all have their closure
\* merges them with its own contribution.
Close ==
    /\ pc = "close"
    /\ \E i \in (DOMAIN g.weight) \ DOMAIN closures :
         LET successors == {e[2] : e \in {e \in g.edges : e[1] = i}}
         IN  /\ successors \subseteq DOMAIN closures
             /\ closures' = [j \in DOMAIN closures \cup {i} |->
                   IF j = i
                   THEN contribution(i) \cup UNION {closures[s] : s \in successors}
                   ELSE closures[j]]
    /\ UNCHANGED <<files, direct, pc, g, bound, nodes, components, scc_map,
                   indirect, diagnostics>>

\* Mutant: an undecodable path is left out without a word.
Record_quietly ==
    /\ pc = "close"
    /\ DOMAIN closures = DOMAIN g.weight
    /\ pc' = "done"
    /\ indirect' = [f \in files |-> closures[nodes[f]] \ Undecodable]
    /\ diagnostics' = diagnostics
         \cup {[kind |-> "NotPreprocessed", path |-> p] : p \in (DOMAIN nodes) \ files}
    /\ UNCHANGED <<files, direct, g, bound, nodes, components, scc_map, closures>>

\* `record_indirect_includes`: every path of `nodes` writes its own file only.
Record ==
    /\ pc = "close"
    /\ DOMAIN closures = DOMAIN g.weight
    /\ pc' = "done"
    /\ indirect' = [f \in files |-> closures[nodes[f]] \ Undecodable]
    /\ diagnostics' = diagnostics
         \cup {[kind |-> "NotPreprocessed", path |-> p] : p \in (DOMAIN nodes) \ files}
         \cup {[kind |-> "NonUtf8IndirectInclude", path |-> p] :
                 p \in (UNION {closures[nodes[f]] : f \in files}) \cap Undecodable}
    /\ UNCHANGED <<files, direct, g, bound, nodes, components, scc_map, closures>>

Done == pc = "done" /\ UNCHANGED vars

Next == Build \/ Collapse \/ Collapsed \/ Close \/ Record \/ Done

Spec == Init /\ [][Next]_vars

\* `visible_macros`: the files whose macros a parse of f sees.
visible_macros(f) == {f} \cup (indirect[f] \cap files)

-----------------------------------------------------------------------------
(***************************************************************************)
(* Properties.                                                              *)
(***************************************************************************)
IncludedBy(f) ==
    ReachedFrom(f, Files, UNION {{<<h, i>> : i \in direct[h]} : h \in files})

\* What node i leads to, in decodable paths.
LeadsTo(i) ==
    (UNION {contribution(j) : j \in ReachedFrom(i, DOMAIN g.weight, g.edges)})
       \ Undecodable

\* The graph, `nodes` and `scc_map` change in lockstep, which the `expect`s of
\* `collapse_one_component` and of the fallback walk rely on: every path has a
\* living node, a node that bears a path is the node of that path, exactly the
\* empty nodes are in `scc_map`, and no cycle that waits was touched.
Lockstep ==
    pc # "build" =>
      /\ DOMAIN nodes = Paths
      /\ \A p \in Paths : nodes[p] \in DOMAIN g.weight
      /\ \A i \in DOMAIN g.weight :
           IF g.weight[i] = NoPath THEN i \in DOMAIN scc_map
                                   ELSE nodes[g.weight[i]] = i
      /\ \A i \in DOMAIN scc_map : i \in DOMAIN g.weight /\ g.weight[i] = NoPath
      /\ \A e \in g.edges : {e[1], e[2]} \subseteq DOMAIN g.weight
      /\ \A c \in components : \A i \in c :
           i \in DOMAIN g.weight /\ g.weight[i] # NoPath

\* Collapsing one cycle changes nothing about what any file includes, so the
\* next cycle (computed before the first was replaced) can be collapsed as if
\* it were the first.
CollapseKeepsReach ==
    pc \in {"collapse", "close"} =>
      \A p \in Paths : LeadsTo(nodes[p]) = IncludedBy(p) \ Undecodable

\* Once the cycles are collapsed the graph can be ordered, so the closures are
\* computed in one pass and never by the walk per file (`toposort` succeeds).
NoCycleLeft ==
    pc = "close" =>
      \A c \in kosaraju_scc(DOMAIN g.weight, g.edges) : Cardinality(c) = 1

\* A parse sees the macros of exactly the files it includes, directly or not:
\* none leaks from a file that is not included, none is lost in a cycle.
MacrosAreThoseIncluded ==
    pc = "done" =>
      \A f \in files :
        /\ indirect[f] = IncludedBy(f) \ Undecodable
        /\ visible_macros(f) = {f} \cup ((IncludedBy(f) \ Undecodable) \cap files)

\* What the pass leaves out it reports: a file that was not preprocessed, and
\* a path that some file includes but whose name cannot be recorded.  A cycle
\* is reported with exactly the files that include each other.
LeftOutIsReported ==
    pc = "done" =>
      /\ \A p \in Paths \ files :
           [kind |-> "NotPreprocessed", path |-> p] \in diagnostics
      /\ \A f \in files : \A p \in IncludedBy(f) \cap Undecodable :
           \E k \in {"NonUtf8CyclePath", "NonUtf8IndirectInclude"} :
             [kind |-> k, path |-> p] \in diagnostics
      /\ {d.members : d \in {d \in diagnostics : d.kind = "IncludeCycle"}}
           = {{q \in IncludedBy(p) : p \in IncludedBy(q)} \ Undecodable :
                p \in {p \in Paths : \E q \in IncludedBy(p) \ {p} : p \in IncludedBy(q)}}
=============================================================================
