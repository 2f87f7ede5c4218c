----------------------------- MODULE SpaceStack -----------------------------
(***************************************************************************)
(* The metric walk over one syntax tree (src/spaces/compute.rs,             *)
(* `metrics_inner`): a stack of nodes still to be visited, a stack of open  *)
(* function spaces, the ancestors of the node in hand, the cognitive        *)
(* nesting that nodes inherit, and the verdict about test code that one     *)
(* attribute row passes on to the rest of its run.                          *)
(*                                                                          *)
(* The trees are all ordered trees of N nodes, numbered in source order, so *)
(* that an ancestor has a smaller number than its descendants.  What a      *)
(* metric computes from a node is left out: a space counts the nodes it was *)
(* given, each with what cognitive complexity charges for it.               *)
(***************************************************************************)
EXTENDS Naturals, Sequences, SequencesExt, FiniteSetsExt

CONSTANTS N,      \* nodes of the tree
          Kinds   \* kinds of the nodes below the root

\* Only the root of a syntax tree is a unit.
ASSUME SpaceAssumption == N \in Nat \ {0} /\ "unit" \notin Kinds

Node == 1..N
Synthetic == 0    \* the unit that is pushed around a root that is none

VARIABLES parent, kind, exclude_tests,     \* the input
          pc, stack, chain, open, last_level, nesting_map, run_verdict,
          finalized,  \* the spaces that were finalised, in that order
          spaces      \* the finished spaces, as their parents received them

input == <<parent, kind, exclude_tests>>
vars == <<parent, kind, exclude_tests, pc, stack, chain, open, last_level,
          nesting_map, run_verdict, finalized, spaces>>

(***************************************************************************)
(* The tree.                                                                *)
(***************************************************************************)
ancestors[n \in Node] ==
    IF n = 1 THEN {} ELSE {parent[n]} \cup ancestors[parent[n]]
below(n) == {m \in Node : n \in ancestors[m]}
Kids(n) == {m \in Node \ {1} : parent[m] = n}
children(n) ==    \* in source order
    CHOOSE s \in [1..Cardinality(Kids(n)) -> Kids(n)] :
      \A i, j \in DOMAIN s : i < j => s[i] < s[j]
siblings(n) == IF n = 1 THEN {1} ELSE {m \in Node \ {1} : parent[m] = parent[n]}

\* A leaf is one byte long, so that a node and its first child start together.
leaves(S) == Cardinality({n \in S : below(n) = {}})
start_byte(n) == leaves(1..(n - 1))
end_byte(n) == start_byte(n) + leaves({n} \cup below(n))

AttributeRow == {"attr", "test"}                  \* `#[...]`, `#[cfg(test)]`
Marker == {"marker", "file_marker"}               \* a comment with a directive
RunMember == AttributeRow \cup Marker
Prunable == {"function", "class", "item"}
Function == {"function", "closure"}               \* SpaceKind::Function
Space == Function \cup {"class", "unit"}

Init ==
    /\ parent \in {p \in [Node \ {1} -> Node] : \A n \in Node \ {1} : p[n] < n}
    /\ \A n \in Node \ {1, 2} : parent[n] \in {n - 1} \cup ancestors[n - 1]
    /\ \E root \in {"unit", "error"}, inner \in [Node \ {1} -> Kinds] :
         kind = [n \in Node |-> IF n = 1 THEN root ELSE inner[n]]
    /\ \A n \in Node : kind[n] \in RunMember => below(n) = {}
    /\ exclude_tests \in BOOLEAN
    /\ pc = "walk"
    /\ stack = <<[node |-> 1, level |-> 0, depth |-> 0]>>
    /\ chain = <<>>
    \* push_synthetic_unit_root
    /\ open = IF kind[1] = "unit" THEN <<>>
              ELSE <<[space |-> Synthetic, kind |-> "unit", counted |-> <<>>,
                      excluded |-> {}, suppressed |-> {}]>>
    /\ last_level = 0
    /\ nesting_map = <<>>
    /\ run_verdict = [skipped |-> FALSE, through |-> 0, node |-> 0]
    /\ finalized = <<>>
    /\ spaces = {}

(***************************************************************************)
(* `finalize`: close the innermost spaces, each merged into its parent, and *)
(* stop at the last one, which is finalised where it stands.                *)
(***************************************************************************)
merge(into, frame) ==
    [into EXCEPT !.counted = @ \o frame.counted,
                 !.excluded = @ \cup frame.excluded]

\* Mutant: the last space is left as it is instead of being finalised.
CloseInnermost_but_last(w) ==
    LET frame == Last(w.open)
        rest  == Front(w.open)
    IN  IF rest = <<>> THEN w
        ELSE [open |-> Append(Front(rest), merge(Last(rest), frame)),
              finalized |-> Append(w.finalized, frame.space),
              spaces |-> w.spaces \cup {[frame |-> frame, into |-> Last(rest).space]}]

CloseInnermost(w) ==
    LET frame == Last(w.open)
        rest  == Front(w.open)
    IN  IF rest = <<>>
        THEN [w EXCEPT !.finalized = Append(@, frame.space)]
        ELSE [open |-> Append(Front(rest), merge(Last(rest), frame)),
              finalized |-> Append(w.finalized, frame.space),
              spaces |-> w.spaces \cup {[frame |-> frame, into |-> Last(rest).space]}]

finalize(diff_level) ==
    LET times == Min({diff_level, Len(open)})
        closed[k \in 0..times] ==
          IF k = 0 THEN [open |-> open, finalized |-> finalized, spaces |-> spaces]
                   ELSE CloseInnermost(closed[k - 1])
    IN  closed[times]

(***************************************************************************)
(* Test code (checker.rs, checker/rust.rs): the verdict about an attribute  *)
(* row is that of the item its run decorates, and answers for every node    *)
(* before that item and for the item itself.                                *)
(***************************************************************************)
run_before(n) ==
    {m \in siblings(n) : m < n /\
        \A k \in siblings(n) : m <= k /\ k < n => kind[k] \in RunMember}

\* Mutant: only the last row of the run is looked at.
rust_item_is_test_only_last_row(n) ==
    \E m \in run_before(n) : kind[m] = "test" /\ \A k \in run_before(n) : k <= m

rust_item_is_test_only(n) == \E m \in run_before(n) : kind[m] = "test"

rust_attributed_item(n) ==
    {m \in siblings(n) : m > n /\ kind[m] \notin RunMember}

\* Mutant: the verdict reaches over the body of the item, too.
rust_attribute_run_verdict_over_body(n) ==
    IF rust_attributed_item(n) = {}
    THEN [skipped |-> FALSE, through |-> end_byte(parent[n]), node |-> 0]
    ELSE LET item == Min(rust_attributed_item(n))
         IN  [skipped |-> kind[item] \in Prunable /\ rust_item_is_test_only(item),
              through |-> end_byte(item),
              node |-> item]

rust_attribute_run_verdict(n) ==
    IF rust_attributed_item(n) = {}
    THEN [skipped |-> FALSE, through |-> end_byte(parent[n]), node |-> 0]
    ELSE LET item == Min(rust_attributed_item(n))
         IN  [skipped |-> kind[item] \in Prunable /\ rust_item_is_test_only(item),
              through |-> start_byte(item),
              node |-> item]

should_skip_subtree(n) ==
    IF kind[n] \in AttributeRow THEN rust_attribute_run_verdict(n)
    ELSE [skipped |-> kind[n] \in Prunable /\ rust_item_is_test_only(n),
          through |-> 0, node |-> 0]

answers_for(verdict, n) == n = verdict.node \/ start_byte(n) < verdict.through

(***************************************************************************)
(* The walk.  Here is the node that is popped, its tag, its ancestors, what *)
(* is open once deeper spaces are closed, and the verdict about it.         *)
(***************************************************************************)
Top == Last(stack)
Here == SubSeq(chain, 1, Top.depth)
Returned == Top.level < last_level
Closed == finalize(IF Returned THEN last_level - Top.level ELSE 0)
\* Mutant: the level is not noted when spaces are closed.
LevelHere_kept == last_level
LevelHere == IF Returned THEN Top.level ELSE last_level
Verdict == IF exclude_tests /\ ~answers_for(run_verdict, Top.node)
           THEN should_skip_subtree(Top.node) ELSE run_verdict
prunes_subtree == exclude_tests /\ Verdict.skipped

\* The innermost frame with its new contents.
WithInnermost(frames, frame) == Append(Front(frames), frame)

prune_node(frames) ==
    WithInnermost(frames, [Last(frames) EXCEPT !.excluded = @ \cup {Top.node}])

\* Mutant: a pruned node keeps its slot (issue #1375 once more).
SlotFreed_never == nesting_map
SlotFreed == [m \in DOMAIN nesting_map \ {Top.node} |-> nesting_map[m]]

Prune ==
    /\ pc = "walk" /\ stack # <<>>
    /\ prunes_subtree
    /\ chain' = Here
    /\ open' = prune_node(Closed.open)
    /\ finalized' = Closed.finalized
    /\ spaces' = Closed.spaces
    /\ last_level' = LevelHere
    /\ run_verdict' = Verdict
    /\ nesting_map' = SlotFreed
    /\ stack' = Front(stack)
    /\ UNCHANGED <<input, pc>>

open_func_space(frames) ==
    Append(frames, [space |-> Top.node, kind |-> kind[Top.node], counted |-> <<>>,
                    excluded |-> {}, suppressed |-> {}])

\* Mutant: a marker goes to the innermost space of any kind.
marker_target_any(frames) ==
    CASE kind[Top.node] = "marker" -> {Len(frames)}
      [] kind[Top.node] = "file_marker" -> {1}
      [] OTHER -> {}

\* A marker goes to the innermost function, or to the first unit.
marker_target(frames) ==
    LET functions == {i \in DOMAIN frames : frames[i].kind \in Function}
        units     == {i \in DOMAIN frames : frames[i].kind = "unit"}
    IN  CASE kind[Top.node] = "marker" /\ functions # {} -> {Max(functions)}
          [] kind[Top.node] = "file_marker" /\ units # {} -> {Min(units)}
          [] OTHER -> {}

apply_suppression(frames) ==
    [i \in DOMAIN frames |->
       IF i \in marker_target(frames)
       THEN [frames[i] EXCEPT !.suppressed = @ \cup {Top.node}] ELSE frames[i]]

\* Cognitive::compute: what a node pays, and what it hands down.
Nesting(c, f, l) == [conditional |-> c, function_depth |-> f, lambda |-> l]
Inherited == IF Top.node \in DOMAIN nesting_map THEN nesting_map[Top.node]
             ELSE Nesting(0, 0, 0)
Charge == IF kind[Top.node] = "branch"
          THEN Inherited.conditional + Inherited.function_depth + Inherited.lambda + 1
          ELSE 0
HandedDown ==
    CASE kind[Top.node] = "branch" -> [Inherited EXCEPT !.conditional = @ + 1]
      [] kind[Top.node] = "closure" -> [Inherited EXCEPT !.lambda = @ + 1]
      [] kind[Top.node] = "function" ->
           Nesting(0, Inherited.function_depth
                        + (IF \E n \in ToSet(Here) : kind[n] = "function" THEN 1 ELSE 0), 0)
      [] OTHER -> Inherited

compute_per_node(frames) ==
    IF frames = <<>> THEN frames
    ELSE WithInnermost(frames, [Last(frames) EXCEPT
                                  !.counted = Append(@, <<Top.node, Charge>>)])

propagate_nesting_to_children ==
    LET kept == DOMAIN nesting_map \ {Top.node}
    IN  [m \in kept \cup Kids(Top.node) |-> IF m \in kept THEN nesting_map[m] ELSE HandedDown]

Visit ==
    /\ pc = "walk" /\ stack # <<>>
    /\ ~prunes_subtree
    /\ LET func_space == kind[Top.node] \in Space
           new_level  == IF func_space THEN Top.level + 1 ELSE Top.level
           frames     == IF func_space THEN open_func_space(Closed.open) ELSE Closed.open
           kids       == children(Top.node)
       IN  /\ open' = compute_per_node(apply_suppression(frames))
           /\ last_level' = IF func_space THEN new_level ELSE LevelHere
           /\ stack' = Front(stack) \o
                Reverse([i \in DOMAIN kids |->
                           [node |-> kids[i], level |-> new_level, depth |-> Top.depth + 1]])
    /\ chain' = Append(Here, Top.node)
    /\ finalized' = Closed.finalized
    /\ spaces' = Closed.spaces
    /\ run_verdict' = Verdict
    /\ nesting_map' = propagate_nesting_to_children
    /\ UNCHANGED <<input, pc>>

\* After the walk: everything still open is closed and the root is taken.
Finish ==
    /\ pc = "walk" /\ stack = <<>>
    /\ LET all == finalize(Len(open))
       IN  /\ open' = <<>>
           /\ finalized' = all.finalized
           /\ spaces' = all.spaces \cup {[frame |-> f, into |-> f.space] : f \in ToSet(all.open)}
    /\ pc' = "done"
    /\ UNCHANGED <<input, stack, chain, last_level, nesting_map, run_verdict>>

Done == pc = "done" /\ UNCHANGED vars

Next == Prune \/ Visit \/ Finish \/ Done

Spec == Init /\ [][Next]_vars

-----------------------------------------------------------------------------
(***************************************************************************)
(* Reference definitions, on the tree alone.                                *)
(***************************************************************************)
\* An item goes when an attribute of its run marks it; a row or comment of a
\* run goes with its item once an attribute row of the run precedes it.
MarkedTest(n) == kind[n] \in Prunable /\ \E m \in run_before(n) : kind[m] = "test"
Goes(n) ==
    \/ MarkedTest(n)
    \/ \E item \in siblings(n) :
         /\ MarkedTest(item)
         /\ n \in run_before(item)
         /\ \E m \in run_before(item) : m <= n /\ kind[m] \in AttributeRow
Gone == IF exclude_tests THEN {n \in Node : Goes(n)} ELSE {}
Kept == {n \in Node : ({n} \cup ancestors[n]) \cap Gone = {}}
Excluded == {n \in Gone : ancestors[n] \cap Gone = {}}

SpacesOf(S) == {m \in S : kind[m] \in Space} \cup
               (IF kind[1] = "unit" THEN {} ELSE {Synthetic})
Opened == SpacesOf(Kept)
Enclosing(n) == SpacesOf({n} \cup ancestors[n])

\* What a branch pays: one, and one for every branch and closure around it
\* within its function, and one for every function around that function.
Pays(n) ==
    LET around == {m \in ancestors[n] : kind[m] = "function"}
        inside == {m \in ancestors[n] : kind[m] \in {"branch", "closure"}
                                         /\ \A f \in around : f < m}
    IN  IF kind[n] # "branch" THEN 0
        ELSE 1 + Cardinality(inside) + (IF around = {} THEN 0 ELSE Cardinality(around) - 1)

(***************************************************************************)
(* Properties.                                                              *)
(***************************************************************************)
\* The open spaces are those around the last visited node, outermost first,
\* although a space is closed only when a later node is popped.
OpenSpacesFollowChain ==
    pc = "walk" /\ chain # <<>> =>
      /\ ToSet(chain) = {Last(chain)} \cup ancestors[Last(chain)]
      /\ {open[i].space : i \in DOMAIN open} = Enclosing(Last(chain))
      /\ \A i, j \in DOMAIN open : i < j => open[i].space < open[j].space

\* Exactly the test code is pruned, although an attribute row answers for the
\* rest of its run: a pruned node goes with none around it, a visited one stays.
ExactlyTestCodeIsPruned == [][ /\ Prune => Top.node \in Excluded
                               /\ Visit => Top.node \in Kept ]_vars

\* Every space is finalised once, after all the spaces inside it, and handed
\* to the space that encloses it in the source.
ClosedOnceInsideOut ==
    pc = "done" =>
      /\ ToSet(finalized) = Opened /\ Len(finalized) = Cardinality(Opened)
      /\ \A i, j \in DOMAIN finalized :
           i < j /\ finalized[i] # Synthetic =>
             finalized[j] \notin below(finalized[i])
      /\ \A s \in spaces : s.frame.space \notin {1, Synthetic} =>
           s.into = Max(Enclosing(parent[s.frame.space]))

\* A space counts every retained node inside it once, whichever inner space
\* counted it first, and leaves out the rows of every pruned subtree inside it.
CountedWhereItStands ==
    pc = "done" => \A s \in spaces :
      LET counted == [i \in DOMAIN s.frame.counted |-> s.frame.counted[i][1]]
          within  == {n \in Kept : s.frame.space \in Enclosing(n)}
      IN  /\ ToSet(counted) = within /\ Len(counted) = Cardinality(within)
          /\ s.frame.excluded = {n \in Excluded : s.frame.space \in Enclosing(parent[n])}

\* A marker silences the innermost function around it, however many functions
\* start on its line, and a file marker silences the file.
MarkersLandInnermost ==
    pc = "done" => \A s \in spaces :
      LET k == s.frame.kind
          functions(n) == {m \in Enclosing(n) \ {Synthetic} : kind[m] \in Function}
      IN  s.frame.suppressed =
            {n \in Kept : \/ kind[n] = "marker" /\ functions(n) # {}
                               /\ s.frame.space = Max(functions(n))
                          \/ kind[n] = "file_marker" /\ k = "unit"}

\* A branch pays for the nesting it stands in, no more and no less, and the map
\* that hands the nesting down is empty when the walk ends.
NestingIsInherited ==
    pc = "done" =>
      /\ DOMAIN nesting_map = {}
      /\ \A s \in spaces : \A e \in ToSet(s.frame.counted) : e[2] = Pays(e[1])
=============================================================================
