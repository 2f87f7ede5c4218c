---------------------------- MODULE HistoryWalk ----------------------------
(***************************************************************************)
(* The history walk and the replay that every build of a history index is  *)
(* made of (src/src/vcs/git/history.rs, src/src/vcs/replay.rs).  A commit  *)
(* graph is a set of commits with a parent relation and committer times;   *)
(* the walk is the set of commits gix visits, and an event is what         *)
(* process_commit records of one of them.                                  *)
(*                                                                         *)
(* An event log is a SET of events: first-parent order is determined by    *)
(* the commits, and no log holds a commit twice.                           *)
(***************************************************************************)
EXTENDS Integers, FiniteSets

CONSTANTS
  Commit,      \* object ids the repository may hold
  Parents,     \* Parents[full_history][c]: the parents the walk follows
  Time,        \* Time[c]: raw committer time, in the unit of the clock
  Option,      \* the walk-affecting options of a run (fields of Options)
  Config,      \* values of the mailmap, diff config, attributes, rename limit
  Recorded,    \* Recorded[opt][cfg]: commits process_commit does not drop
  MaxDepth,    \* how often the shallow boundary can be pushed back
  Graft,       \* Graft[depth]: the commits .git/shallow lists at that depth
  NoTime,      \* Options::as_of left unset
  MinTime      \* the smallest time, i64::MIN

Depth == 0..MaxDepth

\* Times: an i64, of which only the lower end matters.
Seconds == {t \in Int : t >= MinTime}

\* The reference time of a run and the options that change which commits the
\* walk visits.  NoTime is not a time.
ASSUME WalkAssumption ==
  /\ MaxDepth \in Nat
  /\ NoTime \notin Int
  /\ MinTime \in Int
  /\ Parents \in [BOOLEAN -> [Commit -> SUBSET Commit]]
  /\ \A c \in Commit : \A q1, q2 \in Parents[FALSE][c] : q1 = q2
  /\ Time \in [Commit -> Seconds]
  /\ \A o \in Option : /\ o.full_history \in BOOLEAN
                       /\ o.long_window_secs \in Nat
                       /\ o.as_of \in Seconds \cup {NoTime}
  /\ Recorded \in [Option -> [Config -> SUBSET Commit]]
  /\ Graft \in [Depth -> SUBSET Commit]

\* Without clock skew a commit is never older than its parents.
MonotoneTime ==
  \A full \in BOOLEAN, c \in Commit :
    \A q \in Parents[full][c] : Time[q] <= Time[c]

-----------------------------------------------------------------------------
\* saturating_sub: a window longer than time itself starts at MinTime.
window_boundary(reference, window_secs) ==
  IF reference - window_secs < MinTime THEN MinTime ELSE reference - window_secs

\* A commit older than the cutoff is not queued (so nothing behind it is reached
\* through it), and no parent of a shallow or a stop commit is followed.
Reached(S, tip, full, cutoff, grafts, stops) ==
  /\ Time[tip] >= cutoff => tip \in S
  /\ \A x \in S \ (grafts \cup stops) :
       \A q \in Parents[full][x] : Time[q] >= cutoff => q \in S

\* What gix's rev-walk visits from tip: the least set that is so reached.
Visited(tip, full, cutoff, grafts, stops) ==
  {c \in Commit : \A S \in SUBSET Commit :
     Reached(S, tip, full, cutoff, grafts, stops) => c \in S}

\* One CommitEvent: whose it is, the recipe it was recorded under (the options
\* and inputs that decide participants, churn and renames) and whether its
\* diff base was the empty tree because the parent lies behind the boundary.
Event == [oid : Commit, opt : Option, cfg : Config, grafted : BOOLEAN]

process_commits(commits, opt, cfg, grafts) ==
  {[oid |-> c, opt |-> opt, cfg |-> cfg, grafted |-> c \in grafts] :
     c \in commits \cap Recorded[opt][cfg]}

\* collect_events: the events of the visited commits, the stop commit left
\* out, and the stop commit itself when the walk reached one.
collect_events(tip, opt, cfg, cutoff, grafts, stops) ==
  LET visited == Visited(tip, opt.full_history, cutoff, grafts, stops)
  IN  [events  |-> process_commits(visited \ stops, opt, cfg, grafts),
       stopped |-> visited \cap stops]

\* New events first: an event the tail repeats is dropped from the tail.
splice(new, tail) == new \cup {e \in tail : \A n \in new : n.oid # e.oid}

\* The in-window part of a log, a future-dated commit read as "now".
InWindow(events, now, boundary) ==
  {e \in events : (IF Time[e.oid] < now THEN Time[e.oid] ELSE now) >= boundary}

\* What a walk with an empty cache records: the yardstick of every cached path.
FreshLog(tip, opt, cfg, cutoff, depth) ==
  collect_events(tip, opt, cfg, cutoff, Graft[depth], {}).events
=============================================================================
