---------------------------- MODULE RenameReplay ----------------------------
(***************************************************************************)
(* To which file the replay of a commit log attributes a change             *)
(* (src/vcs/replay.rs, `replay`, `resolve_alias`, `fold_commit`; the events *)
(* as src/vcs/git/history.rs, `process_commit` and `diff_collect`, record   *)
(* them).                                                                   *)
(*                                                                          *)
(* A repository grows by one change per commit while a file keeps its       *)
(* identity across renames.  The log holds paths only, newest commit first; *)
(* the replay rebuilds the aliases from the rename edges as it folds.  The  *)
(* file behind a touched path is carried along as a witness.                *)
(***************************************************************************)
EXTENDS Naturals, Sequences, SequencesExt, FiniteSetsExt

CONSTANTS Path,
          File,         \* identities, each created once
          MaxCommits,   \* bound on the history
          MAX_ALIAS_DEPTH,  \* how far a chain of aliases is followed
          PathsReused,  \* may a path that was in use before be used again?
          Droppable     \* kinds of commits that may be by bots only

ASSUME ReplayAssumption == MaxCommits \in Nat /\ MAX_ALIAS_DEPTH \in Nat

VARIABLES tree,      \* path -> file, at the head of the history
          log,       \* one event per recorded commit, newest first
          made,      \* how many commits there are
          created,   \* the files that ever existed
          lastPath,  \* file -> the path it has, or had when it was deleted
          used,      \* the paths that ever were in use
          phase,     \* "history" or "replay"
          deleted,   \* options.include_deleted
          todo,      \* events still to be folded
          alias,
          credited   \* who was credited with which touched path of which commit

\* A map of one entry, and one map written over another.
Only(key, value) == [k \in {key} |-> value]
Over(f, map) ==
    [k \in DOMAIN f \cup DOMAIN map |-> IF k \in DOMAIN f THEN f[k] ELSE map[k]]

history == <<tree, log, made, created, lastPath, used, deleted>>
vars == <<history, phase, todo, alias, credited>>

Init ==
    /\ tree = <<>> /\ log = <<>> /\ made = 0
    /\ created = {} /\ lastPath = <<>> /\ used = {}
    /\ deleted \in BOOLEAN
    /\ phase = "history"
    /\ todo = <<>> /\ alias = <<>> /\ credited = {}

-----------------------------------------------------------------------------
(***************************************************************************)
(* The history.  A commit whose participants are all bots is dropped before *)
(* it is diffed, its rename edges with it.                                  *)
(***************************************************************************)
Free == {p \in Path \ DOMAIN tree : PathsReused \/ p \notin used}

Commit(op, renames, path, file) ==
    /\ phase = "history"
    /\ made < MaxCommits
    /\ made' = made + 1
    /\ \E recorded \in {TRUE} \cup (IF op \in Droppable THEN {FALSE} ELSE {}) :
         log' = IF recorded
                THEN <<[oid |-> made', renames |-> renames,
                        touched |-> path, file |-> file]>> \o log
                ELSE log
    /\ UNCHANGED <<phase, deleted, todo, alias, credited>>

Put(f, path, from) ==
    /\ tree' = Over(Only(path, f), [p \in DOMAIN tree \ from |-> tree[p]])
    /\ lastPath' = Over(Only(f, path), lastPath)
    /\ used' = used \cup {path}

Create == \E f \in File \ created, p \in Free :
    /\ Commit("create", <<>>, p, f)
    /\ Put(f, p, {})
    /\ created' = created \cup {f}

Edit == \E p \in DOMAIN tree :
    /\ Commit("edit", <<>>, p, tree[p])
    /\ UNCHANGED <<tree, created, lastPath, used>>

\* The location of a rewrite is its destination.
Rename == \E source \in DOMAIN tree, dest \in Free :
    /\ Commit("rename", Only(source, dest), dest, tree[source])
    /\ Put(tree[source], dest, {source})
    /\ UNCHANGED created

Delete == \E p \in DOMAIN tree :
    /\ Commit("delete", <<>>, p, tree[p])
    /\ tree' = [q \in DOMAIN tree \ {p} |-> tree[q]]
    /\ UNCHANGED <<created, lastPath, used>>

(***************************************************************************)
(* The replay.                                                              *)
(***************************************************************************)
StartReplay ==
    /\ phase = "history"
    /\ phase' = "replay"
    /\ todo' = log
    /\ UNCHANGED <<history, alias, credited>>

\* Mutant: one alias is looked up, not a chain of them.
resolve_alias_once(aliases, path) ==
    IF path \in DOMAIN aliases THEN aliases[path] ELSE path

\* The chain from path, up to the first path that has no alias or that the
\* chain has met before, or as far as a chain is followed.
resolve_alias(aliases, path) ==
    LET chain[k \in Nat] ==
          IF k = 0 THEN path
          ELSE IF chain[k - 1] \in DOMAIN aliases THEN aliases[chain[k - 1]]
          ELSE chain[k - 1]
        ends(k) == \/ chain[k] \notin DOMAIN aliases
                   \/ \E j \in 0..(k - 1) : chain[j] = chain[k]
                   \/ k = MAX_ALIAS_DEPTH
    IN  chain[Min({k \in 0..(Cardinality(DOMAIN aliases) + 1) : ends(k)})]

\* The accumulator a resolved path is recorded in, if there is one.
fold_commit(event, path) ==
    IF path \in DOMAIN tree \/ deleted
    THEN {[oid |-> event.oid, file |-> event.file, path |-> path]} ELSE {}

Fold ==
    /\ phase = "replay" /\ todo # <<>>
    /\ LET event == Head(todo)
           aliases == Over(event.renames, alias)
       IN  /\ alias' = aliases
           /\ credited' = credited \cup fold_commit(event, resolve_alias(aliases, event.touched))
    /\ todo' = Tail(todo)
    /\ UNCHANGED <<history, phase>>

Replayed == phase = "replay" /\ todo = <<>> /\ UNCHANGED vars

Next == Create \/ Edit \/ Rename \/ Delete \/ StartReplay \/ Fold \/ Replayed

Spec == Init /\ [][Next]_vars

-----------------------------------------------------------------------------
(***************************************************************************)
(* Properties.                                                              *)
(***************************************************************************)
Folded == {e \in ToSet(log) : e \notin ToSet(todo)}
Existing == {tree[p] : p \in DOMAIN tree}
CreditedFor(e) == {c.path : c \in {c \in credited : c.oid = e.oid}}

\* A replay credits every change of a file that exists at the target to the
\* path the file carries there and to no other, whatever names it had; a change
\* of a deleted file is credited to nobody or, with include_deleted, to the path
\* it was deleted under.
HomedAtTarget ==
    phase = "replay" =>
      \A e \in Folded :
        CreditedFor(e) = IF e.file \in Existing \/ deleted
                         THEN {lastPath[e.file]} ELSE {}

\* The path a chain of aliases leads to is the one "the file carries at the
\* target ref" (the comment on `resolve_alias`): of two files that exist there
\* neither is credited with a change of the other.
NoOtherFilesChange ==
    phase = "replay" =>
      \A c \in credited :
        c.file \in Existing /\ c.path \in DOMAIN tree => tree[c.path] = c.file
=============================================================================
