------------------------- MODULE HistoryCacheProofs -------------------------
(***************************************************************************)
(* What a walk visits, for every commit graph, and the history cache built *)
(* on it, for any number of processes and any values of the constants: its *)
(* types, that without clock skew a cached build replays the log of a      *)
(* fresh walk, and that no truncation goes unreported.                     *)
(*                                                                         *)
(* First the facts that make a cached log interchangeable with a fresh     *)
(* one.  Re-windowing a longer log gives the shorter one, and in a         *)
(* first-parent history a log walked down to a cached commit continues     *)
(* with the log cached there.                                              *)
(***************************************************************************)
EXTENDS HistoryCache, TLAPS

\* Times are integers and parents are commits.
LEMMA GraphTypes ==
  ASSUME NEW full \in BOOLEAN, NEW d \in Commit
  PROVE  Time[d] \in Int /\ Parents[full][d] \subseteq Commit
BY WalkAssumption DEF WalkAssumption, Seconds

\* What the walk visits is reached, and is in every set of commits reached.
LEMMA VisitedReached ==
  ASSUME NEW tip \in Commit, NEW full \in BOOLEAN, NEW cutoff \in Int,
         NEW grafts, NEW stops
  PROVE  LET V == Visited(tip, full, cutoff, grafts, stops)
         IN  /\ V \subseteq Commit
             /\ Reached(V, tip, full, cutoff, grafts, stops)
<1> DEFINE V == Visited(tip, full, cutoff, grafts, stops)
<1>1. V \subseteq Commit
  BY DEF Visited
<1>2. Time[tip] >= cutoff => tip \in V
  BY DEF Visited, Reached
<1>3. ASSUME NEW x \in V \ (grafts \cup stops), NEW q \in Parents[full][x],
             Time[q] >= cutoff
      PROVE  q \in V
  <2>1. q \in Commit
    BY <1>1, GraphTypes
  <2>2. ASSUME NEW S \in SUBSET Commit, Reached(S, tip, full, cutoff, grafts, stops)
        PROVE  q \in S
    <3>1. x \in S
      BY <2>2 DEF Visited
    <3> QED
      BY <2>2, <3>1, <1>3 DEF Reached
  <2> QED
    BY <2>1, <2>2 DEF Visited
<1> QED
  BY <1>1, <1>2, <1>3 DEF Reached

\* The walk visits only what every set that is so reached contains.
LEMMA VisitedLeast ==
  ASSUME NEW tip \in Commit, NEW full \in BOOLEAN, NEW cutoff \in Int,
         NEW grafts, NEW stops, NEW S,
         Reached(S \cap Commit, tip, full, cutoff, grafts, stops)
  PROVE  Visited(tip, full, cutoff, grafts, stops) \subseteq S
<1>1. S \cap Commit \in SUBSET Commit
  OBVIOUS
<1> QED
  BY <1>1 DEF Visited

\* No visited commit is older than the cutoff.
LEMMA VisitedInWindow ==
  ASSUME NEW tip \in Commit, NEW full \in BOOLEAN, NEW cutoff \in Int,
         NEW grafts, NEW stops,
         NEW c \in Visited(tip, full, cutoff, grafts, stops)
  PROVE  Time[c] >= cutoff
<1> DEFINE S == {d \in Commit : Time[d] >= cutoff}
<1>1. Reached(S \cap Commit, tip, full, cutoff, grafts, stops)
  BY GraphTypes DEF Reached
<1>2. Visited(tip, full, cutoff, grafts, stops) \subseteq S
  BY <1>1, VisitedLeast
<1> QED
  BY <1>2

\* Re-windowing: the part of a longer walk that is in a shorter window is the
\* shorter walk.  It is here that committer times must be monotone.
LEMMA VisitedRewindowed ==
  ASSUME MonotoneTime,
         NEW tip \in Commit, NEW full \in BOOLEAN, NEW grafts,
         NEW long \in Int, NEW cutoff \in Int, long <= cutoff
  PROVE  {c \in Visited(tip, full, long, grafts, {}) : Time[c] >= cutoff}
           = Visited(tip, full, cutoff, grafts, {})
<1> DEFINE L == Visited(tip, full, long, grafts, {})
           V == Visited(tip, full, cutoff, grafts, {})
           Old == {c \in Commit : Time[c] < cutoff}
<1>1. L \subseteq Commit /\ Reached(L, tip, full, long, grafts, {})
  BY VisitedReached
<1>2. V \subseteq Commit /\ Reached(V, tip, full, cutoff, grafts, {})
  BY VisitedReached
<1>3. V \subseteq L
  <2>1. Reached(L \cap Commit, tip, full, cutoff, grafts, {})
    <3>1. \A d \in Commit : Time[d] \in Int /\ Parents[full][d] \subseteq Commit
      BY GraphTypes
    <3>2. Time[tip] >= cutoff => tip \in L \cap Commit
      BY <1>1, <3>1 DEF Reached
    <3>3. \A x \in (L \cap Commit) \ (grafts \cup {}) : \A q \in Parents[full][x] :
            Time[q] >= cutoff => q \in L \cap Commit
      BY <1>1, <3>1 DEF Reached
    <3> QED
      BY <3>2, <3>3 DEF Reached
  <2> QED
    BY <2>1, VisitedLeast
<1>4. L \subseteq Old \cup V
  <2> DEFINE S == Old \cup V
  <2>1. \A d \in Commit : Time[d] \in Int /\ Parents[full][d] \subseteq Commit
    BY GraphTypes
  <2>2. Time[tip] >= long => tip \in S
    BY <1>2, <2>1 DEF Reached
  <2>3. ASSUME NEW x \in S \ grafts, NEW q \in Parents[full][x]
        PROVE  q \in S
    <3>1. x \in Commit /\ q \in Commit /\ Time[q] \in Int /\ Time[x] \in Int
      BY <1>2, <2>1
    <3>2. Time[q] <= Time[x]
      BY <3>1 DEF MonotoneTime
    <3> QED
      BY <1>2, <3>1, <3>2 DEF Reached
  <2>4. S \cap Commit = S
    BY <1>2
  <2>5. Reached(S \cap Commit, tip, full, long, grafts, {})
    BY <2>2, <2>3, <2>4 DEF Reached
  <2> QED
    BY <2>5, VisitedLeast
<1>5. \A c \in V : Time[c] >= cutoff
  BY VisitedInWindow
<1>6. \A c \in Old : ~(Time[c] >= cutoff)
  BY GraphTypes
<1> QED
  BY <1>3, <1>4, <1>5, <1>6

\* A walk that meets no stop commit is the walk without any.
LEMMA VisitedWithoutStop ==
  ASSUME NEW tip \in Commit, NEW full \in BOOLEAN, NEW cutoff \in Int,
         NEW grafts, NEW stops,
         Visited(tip, full, cutoff, grafts, stops) \cap stops = {}
  PROVE  Visited(tip, full, cutoff, grafts, stops)
           = Visited(tip, full, cutoff, grafts, {})
<1> DEFINE W == Visited(tip, full, cutoff, grafts, stops)
           V == Visited(tip, full, cutoff, grafts, {})
<1>1. W \subseteq Commit /\ Reached(W, tip, full, cutoff, grafts, stops)
  BY VisitedReached
<1>2. V \subseteq Commit /\ Reached(V, tip, full, cutoff, grafts, {})
  BY VisitedReached
<1>3. W \subseteq V
  <2>1. Reached(V \cap Commit, tip, full, cutoff, grafts, stops)
    BY <1>2 DEF Reached
  <2> QED
    BY <2>1, VisitedLeast
<1>4. V \subseteq W
  <2>1. Reached(W \cap Commit, tip, full, cutoff, grafts, {})
    BY <1>1 DEF Reached
  <2> QED
    BY <2>1, VisitedLeast
<1> QED
  BY <1>3, <1>4

\* A walk from a visited commit stays inside the visited set.
LEMMA VisitedFromVisited ==
  ASSUME NEW tip \in Commit, NEW full \in BOOLEAN, NEW cutoff \in Int,
         NEW grafts, NEW stops,
         NEW s \in Visited(tip, full, cutoff, grafts, stops)
  PROVE  Visited(s, full, cutoff, grafts, stops)
           \subseteq Visited(tip, full, cutoff, grafts, stops)
<1> DEFINE W == Visited(tip, full, cutoff, grafts, stops)
<1>1. W \subseteq Commit /\ Reached(W, tip, full, cutoff, grafts, stops)
  BY VisitedReached
<1>2. Reached(W \cap Commit, s, full, cutoff, grafts, stops)
  BY <1>1 DEF Reached
<1> QED
  BY <1>1, <1>2, VisitedLeast

\* A first-parent walk meets at most one of the commits it would stop at.
LEMMA OneStop ==
  ASSUME NEW tip \in Commit, NEW cutoff \in Int, NEW grafts, NEW stops,
         NEW s \in Visited(tip, FALSE, cutoff, grafts, stops) \cap stops,
         NEW t \in Visited(tip, FALSE, cutoff, grafts, stops) \cap stops
  PROVE  s = t
<1> DEFINE From(d) == Visited(d, FALSE, cutoff, grafts, stops)
           W == From(tip)
           Before == {d \in W : s \in From(d)}  \* the commits that lead to s
<1>1. \A d \in Commit : From(d) \subseteq Commit
                        /\ Reached(From(d), d, FALSE, cutoff, grafts, stops)
  BY VisitedReached
<1>2. \A d \in Commit : Parents[FALSE][d] \subseteq Commit
  BY FALSE \in BOOLEAN, GraphTypes
<1>3. ASSUME NEW x \in Before \ (grafts \cup stops), NEW q \in Parents[FALSE][x],
             Time[q] >= cutoff
      PROVE  q \in Before
  <2>1. x \in Commit /\ q \in Commit /\ q \in W
    BY <1>1, <1>2, <1>3 DEF Reached
  <2>2. \A r \in Parents[FALSE][x] : r = q
    BY <2>1, WalkAssumption DEF WalkAssumption
  <2> DEFINE S == {x} \cup From(q)
  <2>3. S \subseteq Commit
    BY <1>1, <2>1
  <2>4. Reached(S \cap Commit, x, FALSE, cutoff, grafts, stops)
    <3>1. q \in From(q)
      BY <1>1, <1>3, <2>1 DEF Reached
    <3>2. Reached(From(q), q, FALSE, cutoff, grafts, stops)
      BY <1>1, <2>1
    <3>3. \A y \in S \ (grafts \cup stops) : \A r \in Parents[FALSE][y] :
            Time[r] >= cutoff => r \in S
      BY <2>2, <3>1, <3>2 DEF Reached
    <3> QED
      BY <2>3, <3>3 DEF Reached
  <2>5. From(x) \subseteq S
    BY <2>1, <2>4, VisitedLeast
  <2>6. s \in From(x) /\ s # x
    OBVIOUS
  <2> QED
    BY <2>1, <2>5, <2>6
<1>4. s \in From(tip)
  OBVIOUS
<1>5. Reached(Before \cap Commit, tip, FALSE, cutoff, grafts, stops)
  <2>1. Time[tip] >= cutoff => tip \in Before \cap Commit
    BY <1>1, <1>4 DEF Reached
  <2>2. Before \cap Commit = Before
    BY <1>1
  <2>3. \A x \in Before \ (grafts \cup stops) : \A q \in Parents[FALSE][x] :
          Time[q] >= cutoff => q \in Before
    BY <1>3
  <2> QED
    BY <2>1, <2>2, <2>3 DEF Reached
<1>6. t \in Before
  BY <1>5, VisitedLeast
<1>7. s \in From(t) /\ t \in Commit
  BY <1>1, <1>6
<1>8. From(t) \subseteq {t}
  <2>1. Reached({t} \cap Commit, t, FALSE, cutoff, grafts, stops)
    BY <1>7 DEF Reached
  <2> QED
    BY <1>7, <2>1, VisitedLeast, FALSE \in BOOLEAN
<1> QED
  BY <1>7, <1>8

\* Splicing: what a first-parent walk visits before the stop commit, and what a
\* walk from there visits, is what the walk visits without stopping.
LEMMA VisitedSpliced ==
  ASSUME NEW tip \in Commit, NEW cutoff \in Int, NEW grafts, NEW stops,
         NEW s \in Visited(tip, FALSE, cutoff, grafts, stops) \cap stops
  PROVE  (Visited(tip, FALSE, cutoff, grafts, stops) \ stops)
            \cup Visited(s, FALSE, cutoff, grafts, {})
          = Visited(tip, FALSE, cutoff, grafts, {})
<1> DEFINE W == Visited(tip, FALSE, cutoff, grafts, stops)
           V == Visited(tip, FALSE, cutoff, grafts, {})
           T == Visited(s, FALSE, cutoff, grafts, {})
           S == (W \ stops) \cup T
<1>1. W \subseteq Commit /\ Reached(W, tip, FALSE, cutoff, grafts, stops)
  BY VisitedReached
<1>2. V \subseteq Commit /\ Reached(V, tip, FALSE, cutoff, grafts, {})
  BY VisitedReached
<1>3. s \in Commit /\ T \subseteq Commit /\ Reached(T, s, FALSE, cutoff, grafts, {})
  BY <1>1, VisitedReached
<1>4. W \subseteq V
  <2>1. Reached(V \cap Commit, tip, FALSE, cutoff, grafts, stops)
    BY <1>2 DEF Reached
  <2> QED
    BY <2>1, VisitedLeast
<1>5. T \subseteq V
  BY <1>4, VisitedFromVisited
<1>6. s \in T
  BY <1>3, VisitedInWindow DEF Reached
<1>7. ASSUME NEW t \in W \cap stops
      PROVE  t \in S
  <2>1. s = t
    BY OneStop
  <2> QED
    BY <1>6, <2>1
<1>8. Reached(S \cap Commit, tip, FALSE, cutoff, grafts, {})
  <2>1. S \cap Commit = S
    BY <1>1, <1>3
  <2>2. Time[tip] >= cutoff => tip \in S
    BY <1>1, <1>7 DEF Reached
  <2>3. ASSUME NEW x \in S \ grafts, NEW q \in Parents[FALSE][x], Time[q] >= cutoff
        PROVE  q \in S
    <3>1. CASE x \in T
      BY <1>3, <2>3, <3>1 DEF Reached
    <3>2. CASE x \in W \ stops
      <4>1. q \in W
        BY <1>1, <2>3, <3>2 DEF Reached
      <4> QED
        BY <1>7, <4>1
    <3> QED
      BY <3>1, <3>2
  <2> QED
    BY <2>1, <2>2, <2>3 DEF Reached
<1>9. V \subseteq S
  BY <1>8, VisitedLeast
<1> QED
  BY <1>4, <1>5, <1>9

-----------------------------------------------------------------------------
\* Logs: the events of a set of commits under one recipe.

\* A log is a set of events.
LEMMA LogTyped ==
  ASSUME NEW opt \in Option, NEW cfg \in Config, NEW grafts, NEW C \in SUBSET Commit
  PROVE  process_commits(C, opt, cfg, grafts) \subseteq Event
<1>1. ASSUME NEW c \in C
      PROVE  [oid |-> c, opt |-> opt, cfg |-> cfg, grafted |-> c \in grafts] \in Event
  <2>1. (c \in grafts) \in BOOLEAN
    OBVIOUS
  <2> QED
    BY <2>1 DEF Event
<1> QED
  BY <1>1 DEF process_commits

\* The in-window part of a log is the log of the in-window commits.
LEMMA LogInWindow ==
  ASSUME NEW opt, NEW cfg, NEW grafts, NEW C \in SUBSET Commit,
         NEW now \in Int, NEW boundary \in Int, boundary <= now
  PROVE  InWindow(process_commits(C, opt, cfg, grafts), now, boundary)
           = process_commits({c \in C : Time[c] >= boundary}, opt, cfg, grafts)
<1>1. \A c \in C : ((IF Time[c] < now THEN Time[c] ELSE now) >= boundary)
                    <=> (Time[c] >= boundary)
  <2>1. \A c \in C : Time[c] \in Int
    BY TRUE \in BOOLEAN, GraphTypes
  <2> QED
    BY <2>1
<1>2. \A e \in process_commits(C, opt, cfg, grafts) : e.oid \in C
  BY DEF process_commits
<1>3. InWindow(process_commits(C, opt, cfg, grafts), now, boundary)
        = {e \in process_commits(C, opt, cfg, grafts) : Time[e.oid] >= boundary}
  BY <1>1, <1>2 DEF InWindow
<1> QED
  BY <1>3 DEF process_commits

\* Two logs under one recipe splice to the log of the commits of both.
LEMMA LogSpliced ==
  ASSUME NEW opt, NEW cfg, NEW grafts, NEW C, NEW D
  PROVE  splice(process_commits(C, opt, cfg, grafts),
                process_commits(D, opt, cfg, grafts))
           = process_commits(C \cup D, opt, cfg, grafts)
<1> DEFINE L(X) == process_commits(X, opt, cfg, grafts)
<1>1. \A e \in L(D) : e \in L(C) \/ \A n \in L(C) : n.oid # e.oid
  BY DEF process_commits
<1>2. L(C \cup D) = L(C) \cup L(D)
  BY DEF process_commits
<1> QED
  BY <1>1, <1>2 DEF splice

\* What a build walks with: its tip, recipe and boundary depth, and the time
\* and the window boundary of its replay.
BuildInput(tip, opt, cfg, d, now, boundary) ==
  /\ tip \in Commit /\ opt \in Option /\ cfg \in Config /\ d \in Depth
  /\ now \in Int /\ boundary \in Int /\ boundary <= now

\* A hit: replaying a log that reaches back far enough is a fresh walk.
LEMMA ReplayOfEntry ==
  ASSUME MonotoneTime,
         NEW tip, NEW opt, NEW cfg, NEW d, NEW now, NEW boundary,
         BuildInput(tip, opt, cfg, d, now, boundary),
         NEW long \in Int, long <= boundary
  PROVE  InWindow(FreshLog(tip, opt, cfg, long, d), now, boundary)
           = FreshLog(tip, opt, cfg, boundary, d)
<1> USE DEF BuildInput
<1>1. opt.full_history \in BOOLEAN
  BY WalkAssumption DEF WalkAssumption
<1> DEFINE L == Visited(tip, opt.full_history, long, Graft[d], {})
           V == Visited(tip, opt.full_history, boundary, Graft[d], {})
<1>2. FreshLog(tip, opt, cfg, long, d) = process_commits(L, opt, cfg, Graft[d])
  <2>1. L \ {} = L
    OBVIOUS
  <2> QED
    BY <2>1 DEF FreshLog, collect_events
<1>3. FreshLog(tip, opt, cfg, boundary, d) = process_commits(V, opt, cfg, Graft[d])
  <2>1. V \ {} = V
    OBVIOUS
  <2> QED
    BY <2>1 DEF FreshLog, collect_events
<1>4. L \in SUBSET Commit
  BY <1>1, VisitedReached
<1>5. {c \in L : Time[c] >= boundary} = V
  BY <1>1, VisitedRewindowed
<1> QED
  BY <1>2, <1>3, <1>4, <1>5, LogInWindow

\* A miss: a walk that meets no cached head is a fresh walk.
LEMMA ReplayOfWalk ==
  ASSUME NEW tip, NEW opt, NEW cfg, NEW d, NEW now, NEW boundary,
         BuildInput(tip, opt, cfg, d, now, boundary), NEW stops,
         collect_events(tip, opt, cfg, boundary, Graft[d], stops).stopped = {}
  PROVE  InWindow(collect_events(tip, opt, cfg, boundary, Graft[d], stops).events,
                  now, boundary)
           = FreshLog(tip, opt, cfg, boundary, d)
<1> USE DEF BuildInput
<1>1. opt.full_history \in BOOLEAN
  BY WalkAssumption DEF WalkAssumption
<1> DEFINE W == Visited(tip, opt.full_history, boundary, Graft[d], stops)
           V == Visited(tip, opt.full_history, boundary, Graft[d], {})
<1>2. W \cap stops = {}
  BY DEF collect_events
<1>3. W = V
  BY <1>1, <1>2, VisitedWithoutStop
<1>4. collect_events(tip, opt, cfg, boundary, Graft[d], stops).events
        = process_commits(V, opt, cfg, Graft[d])
  <2>1. W \ stops = V
    BY <1>2, <1>3
  <2> QED
    BY <2>1 DEF collect_events
<1>5. FreshLog(tip, opt, cfg, boundary, d) = process_commits(V, opt, cfg, Graft[d])
  <2>1. V \ {} = V
    OBVIOUS
  <2> QED
    BY <2>1 DEF FreshLog, collect_events
<1>6. V \in SUBSET Commit
  BY <1>1, VisitedReached
<1>7. {c \in V : Time[c] >= boundary} = V
  BY <1>1, VisitedInWindow
<1> QED
  BY <1>4, <1>5, <1>6, <1>7, LogInWindow

\* A splice: the new events and the cached tail are a fresh walk.
LEMMA ReplayOfSplice ==
  ASSUME MonotoneTime,
         NEW tip, NEW opt, NEW cfg, NEW d, NEW now, NEW boundary,
         BuildInput(tip, opt, cfg, d, now, boundary),
         ~opt.full_history,
         NEW long \in Int, long <= boundary, NEW stops,
         NEW s \in collect_events(tip, opt, cfg, boundary, Graft[d], stops).stopped
  PROVE  InWindow(splice(collect_events(tip, opt, cfg, boundary, Graft[d], stops).events,
                         FreshLog(s, opt, cfg, long, d)),
                  now, boundary)
           = FreshLog(tip, opt, cfg, boundary, d)
<1> DEFINE W == Visited(tip, FALSE, boundary, Graft[d], stops)
           V == Visited(tip, FALSE, boundary, Graft[d], {})
           L == Visited(s, FALSE, long, Graft[d], {})
           T == Visited(s, FALSE, boundary, Graft[d], {})
<1> USE DEF BuildInput
<1>0. opt.full_history = FALSE /\ FALSE \in BOOLEAN
  BY WalkAssumption DEF WalkAssumption
<1>1. W \in SUBSET Commit /\ V \in SUBSET Commit
  BY <1>0, VisitedReached
<1>2. s \in W \cap stops /\ s \in Commit
  BY <1>0, <1>1 DEF collect_events
<1>3. L \in SUBSET Commit
  BY <1>0, <1>2, VisitedReached
<1>4. collect_events(tip, opt, cfg, boundary, Graft[d], stops).events
        = process_commits(W \ stops, opt, cfg, Graft[d])
  BY <1>0 DEF collect_events
<1>5. FreshLog(s, opt, cfg, long, d) = process_commits(L, opt, cfg, Graft[d])
  <2>1. L \ {} = L
    OBVIOUS
  <2> QED
    BY <1>0, <2>1 DEF FreshLog, collect_events
<1>6. FreshLog(tip, opt, cfg, boundary, d) = process_commits(V, opt, cfg, Graft[d])
  <2>1. V \ {} = V
    OBVIOUS
  <2> QED
    BY <1>0, <2>1 DEF FreshLog, collect_events
<1>7. {c \in (W \ stops) \cup L : Time[c] >= boundary} = V
  <2>1. {c \in L : Time[c] >= boundary} = T
    <3>1. ASSUME NEW full \in BOOLEAN
          PROVE  {c \in Visited(s, full, long, Graft[d], {}) : Time[c] >= boundary}
                   = Visited(s, full, boundary, Graft[d], {})
      BY <1>2, VisitedRewindowed
    <3> QED
      BY <1>0, <3>1
  <2>2. \A c \in W : Time[c] >= boundary
    BY <1>0, VisitedInWindow
  <2>3. (W \ stops) \cup T = V
    BY <1>2, VisitedSpliced
  <2> QED
    BY <2>1, <2>2, <2>3
<1>8. (W \ stops) \cup L \in SUBSET Commit
  BY <1>1, <1>3
<1>9. splice(process_commits(W \ stops, opt, cfg, Graft[d]),
             process_commits(L, opt, cfg, Graft[d]))
        = process_commits((W \ stops) \cup L, opt, cfg, Graft[d])
  <2>1. ASSUME NEW C, NEW D
        PROVE  splice(process_commits(C, opt, cfg, Graft[d]),
                      process_commits(D, opt, cfg, Graft[d]))
                 = process_commits(C \cup D, opt, cfg, Graft[d])
    BY LogSpliced
  <2> HIDE DEF L
  <2> QED
    BY <2>1, Zenon
<1>10. InWindow(process_commits((W \ stops) \cup L, opt, cfg, Graft[d]), now, boundary)
        = process_commits(V, opt, cfg, Graft[d])
  <2>1. ASSUME NEW C \in SUBSET Commit
        PROVE  InWindow(process_commits(C, opt, cfg, Graft[d]), now, boundary)
                 = process_commits({c \in C : Time[c] >= boundary}, opt, cfg, Graft[d])
    BY LogInWindow
  <2> QED
    BY <1>7, <1>8, <2>1
<1> QED
  BY <1>4, <1>5, <1>6, <1>9, <1>10

-----------------------------------------------------------------------------
\* The window of a run starts at a time, never after its reference time.
LEMMA BoundaryTyped ==
  ASSUME NEW p \in Proc, run[p] \in Run, at[p] \in [head : Commit, now : Seconds]
  PROVE  /\ long_boundary(p) \in Int
         /\ long_boundary(p) <= at[p].now
         /\ run[p].opt \in Option
         /\ run[p].opt.full_history \in BOOLEAN
<1>1. run[p].opt \in Option /\ at[p].now \in Seconds
  BY DEF Run
<1>2. run[p].opt.long_window_secs \in Nat /\ run[p].opt.full_history \in BOOLEAN
  BY <1>1, WalkAssumption DEF WalkAssumption
<1> QED
  BY <1>1, <1>2, WalkAssumption DEF long_boundary, window_boundary, Seconds, WalkAssumption

\* What a build replays is an index.
LEMMA AssembleTyped ==
  ASSUME NEW p \in Proc, shallow[p] \in BOOLEAN, NEW events \in SUBSET Event
  PROVE  assemble(p, events) \in Index
BY DEF assemble, Index, InWindow

\* A walk records events of commits of the repository.
LEMMA EventsTyped ==
  ASSUME NEW tip \in Commit, NEW opt \in Option, NEW cfg \in Config,
         NEW cutoff \in Int, NEW grafts, NEW stops
  PROVE  /\ collect_events(tip, opt, cfg, cutoff, grafts, stops).events \in SUBSET Event
         /\ collect_events(tip, opt, cfg, cutoff, grafts, stops).stopped \in SUBSET Commit
<1> DEFINE V == Visited(tip, opt.full_history, cutoff, grafts, stops)
<1>1. V \subseteq Commit
  BY DEF Visited
<1>2. V \ stops \in SUBSET Commit
  BY <1>1
<1>3. process_commits(V \ stops, opt, cfg, grafts) \subseteq Event
  BY <1>2, LogTyped
<1> QED
  BY <1>1, <1>3 DEF collect_events

\* An empty cache and idle processes are well typed.
LEMMA InitTyped == Init => TypeOK
<1> SUFFICES ASSUME Init PROVE TypeOK
  OBVIOUS
<1> USE DEF Init
<1>1. entry \in Files /\ candidates \in [Proc -> Files]
  BY DEF Files, NoFiles
<1>2. depth \in Depth
  BY WalkAssumption DEF WalkAssumption, Depth
<1>3. budget \in 0..Changes
  BY CacheAssumption DEF CacheAssumption
<1>4. \A p \in Proc : pc[p] = "idle"
  OBVIOUS
<1> QED
  BY <1>1, <1>2, <1>3, <1>4 DEF TypeOK, PCLabel, HasContext, HasIndex

\* Commits, fetches, edits and the clock keep the types.
LEMMA EnvironmentTyped == TypeOK /\ Environment => TypeOK'
<1> SUFFICES ASSUME TypeOK, Environment PROVE TypeOK'
  OBVIOUS
<1> USE DEF TypeOK, Change, local
<1>1. budget > 0 /\ budget' = budget - 1 => budget' \in 0..Changes
  BY CacheAssumption DEF CacheAssumption
<1>2. CASE MoveHead
  BY <1>1, <1>2 DEF MoveHead
<1>3. CASE EditConfig
  BY <1>1, <1>3 DEF EditConfig
<1>4. CASE Deepen
  <2>1. depth' \in Depth
    BY <1>4, WalkAssumption DEF Deepen, Depth, WalkAssumption
  <2> QED
    BY <1>1, <1>4, <2>1 DEF Deepen
<1>5. CASE SetClock
  BY <1>1, <1>5 DEF SetClock
<1>6. CASE LoseFile
  <2>1. entry' \in Files
    BY <1>6 DEF LoseFile, Files
  <2> QED
    BY <1>1, <1>6, <2>1 DEF LoseFile
<1> QED
  BY <1>2, <1>3, <1>4, <1>5, <1>6 DEF Environment

\* A build that ends leaves the types alone, whatever it did to the files.
LEMMA ForgetTyped ==
  ASSUME TypeOK, NEW p \in Proc, Forget(p), UNCHANGED env, entry' \in Files
  PROVE  TypeOK'
<1> USE DEF TypeOK, Forget, env
<1>1. candidates' \in [Proc -> Files]
  BY DEF Files, NoFiles
<1>2. pc' \in [Proc -> PCLabel]
  BY DEF PCLabel
<1>3. \A r \in Proc \ {p} : /\ pc'[r] = pc[r] /\ run'[r] = run[r] /\ at'[r] = at[r]
                           /\ ctx'[r] = ctx[r] /\ index'[r] = index[r]
  OBVIOUS
<1>4. pc'[p] = "idle"
  OBVIOUS
<1>5. run' \in [Proc -> Run \cup {Absent}] /\ shallow' \in [Proc -> BOOLEAN]
  OBVIOUS
<1>6. at' \in [Proc -> [head : Commit, now : Seconds] \cup {Absent}]
  OBVIOUS
<1>7. ctx' \in [Proc -> Context \cup {Absent}] /\ toScan' \in [Proc -> SUBSET Commit]
  OBVIOUS
<1>8. superseded' \in [Proc -> Commit \cup {Absent}]
  OBVIOUS
<1>9. index' \in [Proc -> Index \cup {Absent}]
  OBVIOUS
<1> QED
  BY <1>1, <1>2, <1>3, <1>4, <1>5, <1>6, <1>7, <1>8, <1>9 DEF HasContext, HasIndex

\* The steps before there is an index.
LEMMA PreparationTyped ==
  ASSUME TypeOK, NEW p \in Proc,
         \/ Start(p) \/ Resolve(p) \/ ClearRepo(p) \/ OpenContext(p)
         \/ Miss(p) \/ LoadCandidate(p)
  PROVE  TypeOK'
<1> USE DEF TypeOK, Step, env, local, HasContext, HasIndex, PCLabel
<1>1. CASE Start(p)
  <2>1. PICK v \in Version, o \in Option, c \in CacheConfig :
          run' = [run EXCEPT ![p] = [version |-> v, opt |-> o, cache |-> c]]
    BY <1>1 DEF Start
  <2>2. [version |-> v, opt |-> o, cache |-> c] \in Run
    BY DEF Run
  <2>3. is_shallow \in BOOLEAN
    BY DEF is_shallow
  <2>4. shallow' \in [Proc -> BOOLEAN]
    BY <1>1, <2>3 DEF Start
  <2> QED
    BY <1>1, <2>1, <2>2, <2>4 DEF Start
<1>2. CASE Resolve(p)
  <2>1. run[p].opt.as_of \in Seconds \cup {NoTime}
    BY <1>2, WalkAssumption DEF Resolve, Run, WalkAssumption
  <2>2. at'[p] \in [head : Commit, now : Seconds]
    BY <1>2, <2>1, CacheAssumption DEF Resolve, CacheAssumption
  <2>3. at' = [at EXCEPT ![p] = at'[p]]
    BY <1>2 DEF Resolve
  <2>4. at' \in [Proc -> [head : Commit, now : Seconds] \cup {Absent}]
    BY <2>2, <2>3
  <2>5. \A r \in Proc \ {p} : at'[r] = at[r] /\ pc'[r] = pc[r]
    BY <1>2, <2>3 DEF Resolve
  <2>6. pc'[p] \in {"clear", "open"} /\ pc' \in [Proc -> PCLabel]
    BY <1>2 DEF Resolve
  <2> QED
    BY <1>2, <2>2, <2>4, <2>5, <2>6 DEF Resolve
<1>3. CASE ClearRepo(p)
  BY <1>3 DEF ClearRepo, Files, NoFiles
<1>4. CASE OpenContext(p)
  BY <1>4 DEF OpenContext, Context
<1>5. CASE Miss(p)
  BY <1>5 DEF Miss
<1>6. CASE LoadCandidate(p)
  <2>1. PICK h \in toScan[p] :
          /\ toScan' = [toScan EXCEPT ![p] = @ \ {h}]
          /\ candidates' = [candidates EXCEPT ![p][h] =
               IF Usable(entry[h], p) THEN entry[h] ELSE Absent]
    BY <1>6 DEF LoadCandidate
  <2>2. candidates' \in [Proc -> Files]
    BY <2>1 DEF Files
  <2> QED
    BY <1>6, <2>1, <2>2 DEF LoadCandidate
<1> QED
  BY <1>1, <1>2, <1>3, <1>4, <1>5, <1>6

\* The index a step sets, and the step sets nothing else but these.
LEMMA IndexTyped ==
  ASSUME TypeOK, NEW p \in Proc, NEW i \in Index, NEW to \in HasIndex,
         pc[p] \in {"load", "scan", "walk"},
         pc' = [pc EXCEPT ![p] = to], index' = [index EXCEPT ![p] = i],
         superseded' \in [Proc -> Commit \cup {Absent}], candidates' \in [Proc -> Files],
         UNCHANGED <<env, entry, run, shallow, at, ctx, toScan>>
  PROVE  TypeOK'
BY DEF TypeOK, env, HasContext, HasIndex, PCLabel

\* The three steps that make an index (a hit, a walk, a plain walk) keep the types.
LEMMA IndexingTyped ==
  ASSUME TypeOK, NEW p \in Proc, Hit(p) \/ Walk(p) \/ PlainWalk(p)
  PROVE  TypeOK'
<1>1. pc[p] \in {"load", "scan", "walk"}
  BY DEF Hit, Walk, PlainWalk, Step
<1>2. run[p] \in Run /\ at[p] \in [head : Commit, now : Seconds] /\ ctx[p] \in Context
  BY <1>1 DEF TypeOK, HasContext
<1>3. /\ long_boundary(p) \in Int /\ at[p].head \in Commit
      /\ run[p].opt \in Option /\ ctx[p].cfg \in Config /\ shallow[p] \in BOOLEAN
  BY <1>2, BoundaryTyped DEF TypeOK, Context
<1>4. \A events \in SUBSET Event : assemble(p, events) \in Index
  BY <1>3, AssembleTyped
<1>5. /\ candidates \in [Proc -> Files] /\ entry \in Files
      /\ superseded \in [Proc -> Commit \cup {Absent}]
  BY DEF TypeOK
<1>6. \A e \in Entry : e.events \in SUBSET Event
  BY DEF Entry
<1>7. CASE Hit(p)
  <2>1. entry[at[p].head] \in Entry
    BY <1>3, <1>5, <1>7 DEF Hit, Usable, Files
  <2>2. assemble(p, entry[at[p].head].events) \in Index
    BY <1>4, <1>6, <2>1
  <2> QED
    BY <1>1, <1>5, <1>7, <2>2, IndexTyped DEF Hit, Step, HasIndex
<1>8. CASE PlainWalk(p)
  <2> DEFINE log == FreshLog(at[p].head, run[p].opt, ctx[p].cfg, long_boundary(p), depth)
  <2>1. log \in SUBSET Event
    BY <1>3, EventsTyped DEF FreshLog
  <2>2. assemble(p, log) \in Index
    BY <1>4, <2>1
  <2> QED
    BY <1>1, <1>5, <1>8, <2>2, IndexTyped DEF PlainWalk, Step, HasIndex
<1>9. CASE Walk(p)
  <2> DEFINE tails == {h \in Commit : candidates[p][h] # Absent}
             stops == {candidates[p][h].head_sha : h \in tails}
             walked == collect_events(at[p].head, run[p].opt, ctx[p].cfg,
                                      long_boundary(p), Graft[depth], stops)
  <2>1. walked.events \in SUBSET Event
    BY <1>3, EventsTyped
  <2>2. candidates' \in [Proc -> Files]
    BY <1>5, <1>9 DEF Walk, Files, NoFiles
  <2>3. CASE /\ index' = [index EXCEPT ![p] = assemble(p, walked.events)]
             /\ UNCHANGED superseded
    <3>1. assemble(p, walked.events) \in Index
      BY <1>4, <2>1
    <3> HIDE DEF walked
    <3> QED
      BY <1>1, <1>5, <1>9, <2>2, <2>3, <3>1, IndexTyped DEF Walk, Step, HasIndex
  <2>4. CASE \E h \in tails :
               /\ index' = [index EXCEPT ![p] =
                    assemble(p, splice(walked.events, candidates[p][h].events))]
               /\ superseded' = [superseded EXCEPT ![p] = Supersedes(p, h)]
    <3>1. PICK h \in tails :
            /\ index' = [index EXCEPT ![p] =
                 assemble(p, splice(walked.events, candidates[p][h].events))]
            /\ superseded' = [superseded EXCEPT ![p] = Supersedes(p, h)]
      BY <2>4
    <3>2. h \in Commit /\ candidates[p][h] \in Entry
      BY <1>5 DEF Files
    <3>3. splice(walked.events, candidates[p][h].events) \in SUBSET Event
      BY <1>6, <2>1, <3>2 DEF splice
    <3>4. assemble(p, splice(walked.events, candidates[p][h].events)) \in Index
      BY <1>4, <3>3
    <3>5. superseded' \in [Proc -> Commit \cup {Absent}]
      BY <1>5, <3>1, <3>2 DEF Supersedes
    <3> HIDE DEF walked
    <3> QED
      BY <1>1, <1>9, <2>2, <3>1, <3>4, <3>5, IndexTyped DEF Walk, Step, HasIndex
  <2> HIDE DEF walked
  <2> QED
    BY <1>9, <2>3, <2>4 DEF Walk, walked
<1> QED
  BY <1>7, <1>8, <1>9

\* What is written under a head is an entry.
LEMMA NewEntryTyped ==
  ASSUME TypeOK, NEW p \in Proc, pc[p] = "persist"
  PROVE  new_entry(p) \in Entry
<1>1. /\ run[p] \in Run /\ at[p] \in [head : Commit, now : Seconds]
      /\ ctx[p] \in Context /\ index[p] \in Index /\ shallow[p] \in BOOLEAN
  BY DEF TypeOK, HasContext, HasIndex
<1>2. long_boundary(p) \in Int /\ run[p].opt \in Option
  BY <1>1, BoundaryTyped
<1>3. fingerprint(p) \in Fingerprint
  BY <1>1, <1>2 DEF fingerprint, Fingerprint, Context
<1>4. run[p].version \in Version /\ at[p].head \in Commit /\ index[p].events \in SUBSET Event
  BY <1>1 DEF Run, Index
<1> QED
  BY <1>1, <1>2, <1>3, <1>4 DEF new_entry, Entry

\* The steps after the walk (persist, its failure, the removal) keep the types.
LEMMA FilesTyped ==
  ASSUME TypeOK, NEW p \in Proc,
         \/ Persist(p) \/ PersistFails(p) \/ RemoveSuperseded(p)
  PROVE  TypeOK'
<1> USE DEF TypeOK, Step, env, local, HasContext, HasIndex, PCLabel
<1>1. CASE Persist(p)
  <2>1. new_entry(p) \in Entry
    BY <1>1, NewEntryTyped DEF Persist
  <2>2. entry' \in Files
    BY <1>1, <2>1 DEF Persist, Files
  <2> QED
    BY <1>1, <2>2 DEF Persist
<1>2. CASE PersistFails(p)
  BY <1>2 DEF PersistFails
<1>3. CASE RemoveSuperseded(p)
  <2>1. entry' \in Files
    BY <1>3 DEF RemoveSuperseded, Files
  <2> QED
    BY <1>3, <2>1 DEF RemoveSuperseded
<1> QED
  BY <1>1, <1>2, <1>3

\* The steps that end a build keep the types.
LEMMA EndingTyped ==
  ASSUME TypeOK, NEW p \in Proc,
         Bypass(p) \/ ClearRepoFails(p) \/ Return(p) \/ Abort(p)
  PROVE  TypeOK'
<1>1. entry \in Files
  BY DEF TypeOK
<1>2. entry' \in Files
  BY <1>1 DEF Bypass, ClearRepoFails, Return, Abort, Files
<1>3. Forget(p) /\ UNCHANGED env
  BY DEF Bypass, ClearRepoFails, Return, Abort, env
<1> QED
  BY <1>2, <1>3, ForgetTyped

\* Every step keeps the types.
LEMMA StepTyped == TypeOK /\ [Next]_vars => TypeOK'
<1> SUFFICES ASSUME TypeOK, [Next]_vars PROVE TypeOK'
  OBVIOUS
<1>1. CASE Environment
  BY <1>1, EnvironmentTyped
<1>2. ASSUME NEW p \in Proc, Build(p) PROVE TypeOK'
  BY <1>2, PreparationTyped, IndexingTyped, FilesTyped, EndingTyped DEF Build
<1>3. ASSUME NEW p \in Proc, Fault(p) PROVE TypeOK'
  BY <1>3, FilesTyped, EndingTyped DEF Fault
<1>4. CASE UNCHANGED vars
  BY <1>4 DEF TypeOK, vars, env, local
<1> QED
  BY <1>1, <1>2, <1>3, <1>4 DEF Next

\* The variables keep their types, and each step of a build has the locals that
\* the steps before it set.
THEOREM TypeCorrect == Spec => []TypeOK
<1> QED
  BY InitTyped, StepTyped, PTL DEF Spec

-----------------------------------------------------------------------------
\* Freshness.  The steps of one build disturb no other build: what holds of it
\* depends on its own locals and on the shallow boundary alone.
BuildOK(p) ==
  CandidatesSound(p) /\ FullHistoryWalksAll(p) /\ BoundaryPast(p) /\ IndexIsFresh(p)

SameLocals(p) ==
  /\ pc'[p] = pc[p] /\ run'[p] = run[p] /\ shallow'[p] = shallow[p]
  /\ at'[p] = at[p] /\ ctx'[p] = ctx[p] /\ toScan'[p] = toScan[p]
  /\ candidates'[p] = candidates[p] /\ index'[p] = index[p]

\* A step that only removes entries keeps those that are left sound.
LEMMA FilesStay ==
  ASSUME EntriesSound, depth' = depth,
         \A h \in Commit : entry'[h] \in {entry[h], Absent}
  PROVE  EntriesSound'
BY DEF EntriesSound, SoundAt

\* A build is not disturbed by a step that leaves its locals and the boundary alone.
LEMMA OtherBuild ==
  ASSUME NEW r \in Proc, BuildOK(r), SameLocals(r), depth' = depth
  PROVE  BuildOK(r)'
<1>1. CandidatesSound(r)'
  <2> SUFFICES ASSUME NEW h \in Commit, candidates'[r][h] # Absent
               PROVE  /\ pc'[r] = "scan"
                      /\ Usable(candidates[r][h], r)'
                      /\ SoundAt(candidates[r][h], h)'
    BY DEF CandidatesSound, SameLocals
  <2>1. /\ pc[r] = "scan"
        /\ Usable(candidates[r][h], r)
        /\ SoundAt(candidates[r][h], h)
    BY DEF BuildOK, CandidatesSound, SameLocals
  <2> QED
    BY <2>1 DEF SameLocals, Usable, is_compatible, fingerprint, long_boundary, SoundAt
<1>2. FullHistoryWalksAll(r)'
  BY DEF BuildOK, FullHistoryWalksAll, SameLocals
<1>3. BoundaryPast(r)'
  BY DEF BuildOK, BoundaryPast, SameLocals
<1>4. IndexIsFresh(r)'
  BY DEF BuildOK, IndexIsFresh, Expected, SameLocals, long_boundary
<1> QED
  BY <1>1, <1>2, <1>3, <1>4 DEF BuildOK

\* A step of one process leaves the boundary and the locals of the others alone.
LEMMA OtherLocals ==
  ASSUME TypeOK, NEW p \in Proc, Build(p) \/ Fault(p)
  PROVE  depth' = depth /\ \A r \in Proc \ {p} : SameLocals(r)
<1> USE DEF TypeOK, Step, Forget, env, local, SameLocals
<1>1. CASE Start(p) \/ Resolve(p) \/ ClearRepo(p) \/ OpenContext(p) \/ Miss(p)
  BY <1>1 DEF Start, Resolve, ClearRepo, OpenContext, Miss
<1>2. CASE Hit(p) \/ LoadCandidate(p) \/ PlainWalk(p)
  BY <1>2 DEF Hit, LoadCandidate, PlainWalk
<1>3. CASE Walk(p)
  BY <1>3 DEF Walk
<1>4. CASE Persist(p) \/ PersistFails(p) \/ RemoveSuperseded(p)
  BY <1>4 DEF Persist, PersistFails, RemoveSuperseded
<1>5. CASE Bypass(p) \/ Return(p) \/ ClearRepoFails(p) \/ Abort(p)
  BY <1>5 DEF Bypass, Return, ClearRepoFails, Abort
<1> QED
  BY <1>1, <1>2, <1>3, <1>4, <1>5 DEF Build, Fault

\* A step that leaves its build without candidates and without an index.
LEMMA EmptyHanded ==
  ASSUME NEW p \in Proc, \A h \in Commit : candidates'[p][h] = Absent,
         pc'[p] \notin HasIndex,
         pc'[p] = "scan" /\ run'[p].opt.full_history => toScan'[p] = {},
         pc'[p] \in HasContext => ctx'[p].depth <= depth'
  PROVE  BuildOK(p)'
BY DEF BuildOK, CandidatesSound, FullHistoryWalksAll, BoundaryPast, IndexIsFresh

\* A step that leaves its build without candidates and with an index.
LEMMA WithIndex ==
  ASSUME NEW p \in Proc, \A h \in Commit : candidates'[p][h] = Absent,
         pc'[p] \in HasIndex, IndexIsFresh(p)', ctx'[p].depth <= depth'
  PROVE  BuildOK(p)'
BY DEF BuildOK, CandidatesSound, FullHistoryWalksAll, BoundaryPast, HasIndex

\* Splice candidates exist only while the directory is scanned.
LEMMA OnlyScanHasCandidates ==
  ASSUME NEW p \in Proc, BuildOK(p), pc[p] # "scan"
  PROVE  \A h \in Commit : candidates[p][h] = Absent
BY DEF BuildOK, CandidatesSound

\* The steps before the directory is read keep the invariant.
LEMMA PreparationSound ==
  ASSUME CacheInvariant, NEW p \in Proc,
         \/ Start(p) \/ Resolve(p) \/ ClearRepo(p) \/ OpenContext(p) \/ Miss(p)
  PROVE  BuildOK(p)' /\ EntriesSound'
<1>1. TypeOK /\ EntriesSound /\ BuildOK(p)
  BY DEF CacheInvariant, BuildOK
<1>2. pc[p] # "scan" /\ candidates' = candidates
  BY DEF Start, Resolve, ClearRepo, OpenContext, Miss, Step, local
<1>3. \A h \in Commit : candidates'[p][h] = Absent
  BY <1>1, <1>2, OnlyScanHasCandidates
<1>4. depth' = depth /\ \A h \in Commit : entry'[h] \in {entry[h], Absent}
  BY DEF Start, Resolve, ClearRepo, OpenContext, Miss, env, NoFiles
<1>5. EntriesSound'
  BY <1>1, <1>4, FilesStay
<1>6. CASE Start(p) \/ Resolve(p) \/ ClearRepo(p)
  <2>1. pc'[p] \in {"resolve", "clear", "open"}
    BY <1>1, <1>6 DEF TypeOK, Start, Resolve, ClearRepo, Step
  <2> QED
    BY <1>3, <1>5, <2>1, EmptyHanded DEF HasContext, HasIndex
<1>7. CASE OpenContext(p)
  <2>1. pc'[p] \in {"load", "walk"} /\ ctx'[p].depth = depth /\ depth \in Int
    BY <1>1, <1>7, WalkAssumption
    DEF TypeOK, OpenContext, Step, Depth, WalkAssumption
  <2> QED
    BY <1>3, <1>4, <1>5, <2>1, EmptyHanded DEF HasContext, HasIndex
<1>8. CASE Miss(p)
  <2>1. pc'[p] = "scan" /\ (run'[p].opt.full_history => toScan'[p] = {})
    BY <1>1, <1>8 DEF TypeOK, Miss, Step
  <2>2. ctx'[p].depth <= depth'
    BY <1>1, <1>4, <1>8 DEF Miss, Step, BuildOK, BoundaryPast, HasContext
  <2> QED
    BY <1>3, <1>5, <2>1, <2>2, EmptyHanded DEF HasContext, HasIndex
<1> QED
  BY <1>6, <1>7, <1>8

\* The steps that end a build, a failed clear included, keep the invariant.
LEMMA EndingSound ==
  ASSUME CacheInvariant, NEW p \in Proc,
         Bypass(p) \/ ClearRepoFails(p) \/ Return(p) \/ Abort(p)
  PROVE  BuildOK(p)' /\ EntriesSound'
<1>1. TypeOK /\ EntriesSound
  BY DEF CacheInvariant
<1>2. depth' = depth /\ \A h \in Commit : entry'[h] \in {entry[h], Absent}
  BY DEF Bypass, ClearRepoFails, Return, Abort, env
<1>3. Forget(p)
  BY DEF Bypass, ClearRepoFails, Return, Abort
<1>4. pc'[p] = "idle" /\ \A h \in Commit : candidates'[p][h] = Absent
  BY <1>1, <1>3 DEF Forget, TypeOK, NoFiles
<1> QED
  BY <1>1, <1>2, <1>4, FilesStay, EmptyHanded DEF HasContext, HasIndex

\* A loaded candidate is as sound as the entry it was loaded from.
LEMMA LoadCandidateSound ==
  ASSUME CacheInvariant, NEW p \in Proc, LoadCandidate(p)
  PROVE  BuildOK(p)' /\ EntriesSound'
<1>1. TypeOK /\ EntriesSound /\ BuildOK(p)
  BY DEF CacheInvariant, BuildOK
<1>2. PICK h \in toScan[p] :
        /\ toScan' = [toScan EXCEPT ![p] = @ \ {h}]
        /\ candidates' = [candidates EXCEPT ![p][h] =
             IF Usable(entry[h], p) THEN entry[h] ELSE Absent]
  BY DEF LoadCandidate
<1>3. /\ pc[p] = "scan" /\ pc' = pc /\ entry' = entry /\ depth' = depth
      /\ run' = run /\ shallow' = shallow /\ at' = at /\ ctx' = ctx
  BY DEF LoadCandidate, env
<1>4. candidates' \in [Proc -> Files] /\ h \in Commit /\ candidates \in [Proc -> Files]
  BY <1>1, <1>2 DEF TypeOK, Files
<1>5. EntriesSound'
  BY <1>1, <1>3, FilesStay
<1>6. CandidatesSound(p)'
  <2> SUFFICES ASSUME NEW g \in Commit, candidates'[p][g] # Absent
               PROVE  /\ pc'[p] = "scan"
                      /\ Usable(candidates[p][g], p)'
                      /\ SoundAt(candidates[p][g], g)'
    BY DEF CandidatesSound
  <2>1. CASE g # h
    <3>1. candidates'[p][g] = candidates[p][g]
      BY <1>2, <1>4, <2>1 DEF Files
    <3>2. Usable(candidates[p][g], p) /\ SoundAt(candidates[p][g], g)
      BY <1>1, <3>1 DEF BuildOK, CandidatesSound
    <3> QED
      BY <1>3, <3>1, <3>2
      DEF Usable, is_compatible, fingerprint, long_boundary, SoundAt
  <2>2. CASE g = h
    <3>1. candidates'[p][g] = IF Usable(entry[h], p) THEN entry[h] ELSE Absent
      BY <1>2, <1>4, <2>2 DEF Files
    <3>2. Usable(entry[g], p) /\ candidates'[p][g] = entry[g] /\ SoundAt(entry[g], g)
      BY <1>1, <2>2, <3>1 DEF EntriesSound, Usable
    <3> QED
      BY <1>3, <3>2
      DEF Usable, is_compatible, fingerprint, long_boundary, SoundAt
  <2> QED
    BY <2>1, <2>2
<1>7. ~run[p].opt.full_history
  BY <1>1, <1>2, <1>3 DEF BuildOK, FullHistoryWalksAll
<1>8. FullHistoryWalksAll(p)' /\ BoundaryPast(p)' /\ IndexIsFresh(p)'
  BY <1>1, <1>3, <1>7
  DEF FullHistoryWalksAll, BuildOK, BoundaryPast, IndexIsFresh, HasIndex, HasContext
<1> QED
  BY <1>5, <1>6, <1>8 DEF BuildOK

\* The locals of a build that is about to have an index.
LEMMA BuildTyped ==
  ASSUME TypeOK, NEW p \in Proc, pc[p] \in {"load", "scan", "walk", "persist"}
  PROVE  /\ at[p].head \in Commit /\ at[p].now \in Int
         /\ long_boundary(p) \in Int /\ long_boundary(p) <= at[p].now
         /\ run[p].opt \in Option /\ run[p].opt.full_history \in BOOLEAN
         /\ ctx[p].cfg \in Config /\ ctx[p].depth \in Depth
         /\ BuildInput(at[p].head, run[p].opt, ctx[p].cfg, depth, at[p].now, long_boundary(p))
BY BoundaryTyped DEF TypeOK, HasContext, Context, BuildInput, Seconds

\* The log that a step replays, when it is the log of a fresh walk.
LEMMA FreshIndex ==
  ASSUME TypeOK, NEW p \in Proc, NEW log,
         ctx[p].depth = depth =>
           InWindow(log, at[p].now, long_boundary(p)) = Expected(p),
         index' = [index EXCEPT ![p] = assemble(p, log)],
         UNCHANGED <<depth, run, at, ctx>>
  PROVE  IndexIsFresh(p)'
<1>1. index'[p].events = InWindow(log, at[p].now, long_boundary(p))
  BY DEF TypeOK, assemble
<1> QED
  BY <1>1 DEF IndexIsFresh, Expected, long_boundary

\* A pure hit replays the log of a fresh walk.
LEMMA HitSound ==
  ASSUME MonotoneTime, CacheInvariant, NEW p \in Proc, Hit(p)
  PROVE  BuildOK(p)' /\ EntriesSound'
<1>1. TypeOK /\ EntriesSound /\ BuildOK(p)
  BY DEF CacheInvariant, BuildOK
<1>2. /\ pc[p] = "load" /\ pc'[p] = "done" /\ entry' = entry /\ candidates' = candidates
      /\ UNCHANGED <<depth, run, at, ctx>>
  BY <1>1 DEF Hit, Step, env, TypeOK
<1> DEFINE e == entry[at[p].head]
<1>3. Usable(e, p) /\ index' = [index EXCEPT ![p] = assemble(p, e.events)]
  BY DEF Hit
<1>4. e \in Entry /\ SoundAt(e, at[p].head)
  BY <1>1, <1>2, <1>3, BuildTyped DEF Usable, EntriesSound, TypeOK, Files
<1>5. ctx[p].depth = depth =>
        InWindow(e.events, at[p].now, long_boundary(p)) = Expected(p)
  <2> SUFFICES ASSUME ctx[p].depth = depth
               PROVE  InWindow(e.events, at[p].now, long_boundary(p)) = Expected(p)
    OBVIOUS
  <2>1. e.options_fingerprint = fingerprint(p) /\ e.walk_long_boundary <= long_boundary(p)
    BY <1>3 DEF Usable, is_compatible
  <2>2. e.events = FreshLog(at[p].head, run[p].opt, ctx[p].cfg, e.walk_long_boundary, depth)
    BY <1>4, <2>1 DEF SoundAt, fingerprint
  <2>3. e.walk_long_boundary \in Int
    BY <1>4 DEF Entry
  <2> QED
    BY <1>1, <1>2, <2>1, <2>2, <2>3, BuildTyped, ReplayOfEntry DEF Expected
<1>6. IndexIsFresh(p)'
  BY <1>1, <1>2, <1>3, <1>5, FreshIndex
<1>7. \A h \in Commit : candidates'[p][h] = Absent
  BY <1>1, <1>2, OnlyScanHasCandidates
<1>8. EntriesSound'
  BY <1>1, <1>2, FilesStay
<1>9. ctx'[p].depth <= depth'
  BY <1>1, <1>2 DEF BuildOK, BoundaryPast, HasContext
<1> QED
  BY <1>2, <1>6, <1>7, <1>8, <1>9, WithIndex DEF HasIndex

\* A build without a cache replays the log of a fresh walk.
LEMMA PlainWalkSound ==
  ASSUME MonotoneTime, CacheInvariant, NEW p \in Proc, PlainWalk(p)
  PROVE  BuildOK(p)' /\ EntriesSound'
<1>1. TypeOK /\ EntriesSound /\ BuildOK(p)
  BY DEF CacheInvariant, BuildOK
<1>2. /\ pc[p] = "walk" /\ pc'[p] = "done" /\ entry' = entry /\ candidates' = candidates
      /\ UNCHANGED <<depth, run, at, ctx>>
  BY <1>1 DEF PlainWalk, Step, env, TypeOK
<1> DEFINE log == FreshLog(at[p].head, run[p].opt, ctx[p].cfg, long_boundary(p), depth)
<1>3. index' = [index EXCEPT ![p] = assemble(p, log)]
  BY DEF PlainWalk
<1>4. ctx[p].depth = depth =>
        InWindow(log, at[p].now, long_boundary(p)) = Expected(p)
  BY <1>1, <1>2, BuildTyped, ReplayOfEntry DEF Expected
<1>5. IndexIsFresh(p)'
  <2> HIDE DEF log
  <2> QED
    BY <1>1, <1>2, <1>3, <1>4, FreshIndex
<1>6. \A h \in Commit : candidates'[p][h] = Absent
  BY <1>1, <1>2, OnlyScanHasCandidates
<1>7. EntriesSound'
  BY <1>1, <1>2, FilesStay
<1>8. ctx'[p].depth <= depth'
  BY <1>1, <1>2 DEF BuildOK, BoundaryPast, HasContext
<1> QED
  BY <1>2, <1>5, <1>6, <1>7, <1>8, WithIndex DEF HasIndex

\* A walk, whether or not it is spliced onto a candidate, replays the log of a fresh walk.
LEMMA WalkSound ==
  ASSUME MonotoneTime, CacheInvariant, NEW p \in Proc, Walk(p)
  PROVE  BuildOK(p)' /\ EntriesSound'
<1>1. TypeOK /\ EntriesSound /\ BuildOK(p)
  BY DEF CacheInvariant, BuildOK
<1>2. /\ pc[p] = "scan" /\ pc'[p] = "persist" /\ entry' = entry
      /\ UNCHANGED <<depth, run, at, ctx>>
  BY <1>1 DEF Walk, Step, env, TypeOK
<1> DEFINE tails == {h \in Commit : candidates[p][h] # Absent}
           stops == {candidates[p][h].head_sha : h \in tails}
           walked == collect_events(at[p].head, run[p].opt, ctx[p].cfg,
                                    long_boundary(p), Graft[depth], stops)
<1>3. /\ at[p].head \in Commit /\ run[p].opt \in Option /\ ctx[p].cfg \in Config
      /\ run[p].opt.full_history \in BOOLEAN
      /\ BuildInput(at[p].head, run[p].opt, ctx[p].cfg, depth, at[p].now, long_boundary(p))
  BY <1>1, <1>2, BuildTyped
<1>4. \A h \in tails : /\ candidates[p][h] \in Entry
                       /\ Usable(candidates[p][h], p)
                       /\ SoundAt(candidates[p][h], h)
  BY <1>1 DEF BuildOK, CandidatesSound, TypeOK, Files
<1>5. \A h \in Commit : candidates'[p][h] = Absent
  BY <1>1 DEF Walk, TypeOK, NoFiles
<1>6. ASSUME walked.stopped = {}, index' = [index EXCEPT ![p] = assemble(p, walked.events)]
      PROVE  IndexIsFresh(p)'
  <2>1. ctx[p].depth = depth =>
          InWindow(walked.events, at[p].now, long_boundary(p)) = Expected(p)
    <3> HIDE DEF stops
    <3>1. InWindow(walked.events, at[p].now, long_boundary(p))
            = FreshLog(at[p].head, run[p].opt, ctx[p].cfg, long_boundary(p), depth)
      BY <1>3, <1>6, ReplayOfWalk
    <3> QED
      BY <3>1 DEF Expected
  <2> HIDE DEF walked
  <2> QED
    BY <1>1, <1>2, <1>6, <2>1, FreshIndex
<1>7. ASSUME NEW h \in tails, candidates[p][h].head_sha \in walked.stopped,
             index' = [index EXCEPT ![p] =
               assemble(p, splice(walked.events, candidates[p][h].events))]
      PROVE  IndexIsFresh(p)'
  <2> DEFINE e == candidates[p][h]
             log == splice(walked.events, e.events)
  <2>1. ctx[p].depth = depth =>
          InWindow(log, at[p].now, long_boundary(p)) = Expected(p)
    <3> SUFFICES ASSUME ctx[p].depth = depth
                 PROVE  InWindow(log, at[p].now, long_boundary(p)) = Expected(p)
      OBVIOUS
    <3>1. e \in Entry /\ Usable(e, p) /\ SoundAt(e, h) /\ h \in walked.stopped
      BY <1>4, <1>7 DEF SoundAt
    <3>2. e.options_fingerprint = fingerprint(p) /\ e.walk_long_boundary <= long_boundary(p)
      BY <3>1 DEF Usable, is_compatible
    <3>3. e.walk_long_boundary \in Int
      BY <3>1 DEF Entry
    <3>4. e.events = FreshLog(h, run[p].opt, ctx[p].cfg, e.walk_long_boundary, depth)
      BY <3>1, <3>2 DEF SoundAt, fingerprint
    <3>5. ~run[p].opt.full_history
      BY <1>1, <1>2, <1>3, <1>7 DEF BuildOK, FullHistoryWalksAll
    <3>6. h \in walked.stopped /\ e.walk_long_boundary <= long_boundary(p)
      BY <3>1, <3>2
    <3> HIDE DEF e, stops
    <3>7. InWindow(splice(walked.events,
                     FreshLog(h, run[p].opt, ctx[p].cfg, e.walk_long_boundary, depth)),
                   at[p].now, long_boundary(p))
            = FreshLog(at[p].head, run[p].opt, ctx[p].cfg, long_boundary(p), depth)
      BY <1>3, <3>3, <3>5, <3>6, ReplayOfSplice
    <3> QED
      BY <3>4, <3>7 DEF Expected
  <2>2. index' = [index EXCEPT ![p] = assemble(p, log)]
    BY <1>7
  <2> HIDE DEF log
  <2> QED
    BY <1>1, <1>2, <2>1, <2>2, FreshIndex
<1>8. \/ walked.stopped = {} /\ index' = [index EXCEPT ![p] = assemble(p, walked.events)]
      \/ \E h \in tails :
           /\ candidates[p][h].head_sha \in walked.stopped
           /\ index' = [index EXCEPT ![p] =
                assemble(p, splice(walked.events, candidates[p][h].events))]
  <2> HIDE DEF walked, stops
  <2> QED
    BY DEF Walk, walked, stops
<1>9. IndexIsFresh(p)'
  <2> HIDE DEF walked
  <2> QED
    BY <1>1, <1>2, <1>6, <1>7, <1>8
<1>10. EntriesSound'
  BY <1>1, <1>2, FilesStay
<1>11. ctx'[p].depth <= depth'
  BY <1>1, <1>2 DEF BuildOK, BoundaryPast, HasContext
<1> QED
  BY <1>2, <1>5, <1>9, <1>10, <1>11, WithIndex DEF HasIndex

\* A build that has its index keeps it, whatever becomes of its files.
LEMMA IndexKept ==
  ASSUME TypeOK, NEW p \in Proc, BuildOK(p), pc[p] \in {"persist", "remove"},
         NEW to \in HasIndex, pc' = [pc EXCEPT ![p] = to],
         UNCHANGED <<depth, run, at, ctx, candidates, index>>
  PROVE  BuildOK(p)'
<1>1. \A h \in Commit : candidates'[p][h] = Absent
  BY OnlyScanHasCandidates
<1>2. pc'[p] \in HasIndex
  BY DEF TypeOK
<1>3. IndexIsFresh(p)'
  BY <1>2 DEF BuildOK, IndexIsFresh, Expected, long_boundary, HasIndex
<1>4. ctx'[p].depth <= depth'
  BY DEF BuildOK, BoundaryPast, HasContext
<1> QED
  BY <1>1, <1>2, <1>3, <1>4, WithIndex

\* Writing the entry and removing the superseded one keep every entry sound.
LEMMA FilesSound ==
  ASSUME CacheInvariant, NEW p \in Proc,
         \/ Persist(p) \/ PersistFails(p) \/ RemoveSuperseded(p)
  PROVE  BuildOK(p)' /\ EntriesSound'
<1>1. TypeOK /\ EntriesSound /\ BuildOK(p)
  BY DEF CacheInvariant, BuildOK
<1>2. BuildOK(p)'
  <2>1. PICK to \in HasIndex : pc' = [pc EXCEPT ![p] = to]
    BY DEF Persist, PersistFails, RemoveSuperseded, Step, HasIndex
  <2>2. /\ pc[p] \in {"persist", "remove"}
        /\ UNCHANGED <<depth, run, at, ctx, candidates, index>>
    BY DEF Persist, PersistFails, RemoveSuperseded, Step, env, local
  <2> QED
    BY <1>1, <2>1, <2>2, IndexKept
<1>3. CASE Persist(p)
  <2> DEFINE e == new_entry(p)
  <2>1. pc[p] = "persist" /\ depth' = depth
    BY <1>3 DEF Persist, Step, env
  <2>2. ctx[p].depth <= depth /\ IndexIsFresh(p)
    BY <1>1, <2>1 DEF BuildOK, BoundaryPast, HasContext
  <2>3. ctx[p].depth = depth => index[p].events = Expected(p)
    BY <2>1, <2>2 DEF IndexIsFresh, HasIndex
  <2>4. /\ e.head_sha = at[p].head /\ e.events = index[p].events
        /\ e.options_fingerprint.depth = ctx[p].depth
        /\ e.options_fingerprint.opt = run[p].opt
        /\ e.options_fingerprint.cfg = ctx[p].cfg
        /\ e.walk_long_boundary = long_boundary(p)
    BY DEF new_entry, fingerprint
  <2>5. SoundAt(e, at[p].head) /\ e.options_fingerprint.depth <= depth
    <3> HIDE DEF e
    <3> QED
      BY <2>2, <2>3, <2>4 DEF SoundAt, Expected
  <2>6. entry' = [entry EXCEPT ![at[p].head] = e] /\ entry \in Files
    BY <1>1, <1>3 DEF Persist, TypeOK
  <2> HIDE DEF e
  <2> SUFFICES ASSUME NEW h \in Commit, entry'[h] # Absent
               PROVE  /\ SoundAt(entry[h], h)'
                      /\ entry'[h].options_fingerprint.depth <= depth'
    BY <1>2 DEF EntriesSound
  <2>7. CASE h = at[p].head
    <3>1. entry'[h] = e
      BY <2>6, <2>7 DEF Files
    <3> QED
      BY <2>1, <2>5, <2>7, <3>1 DEF SoundAt
  <2>8. CASE h # at[p].head
    <3>1. entry'[h] = entry[h]
      BY <2>6, <2>8 DEF Files
    <3>2. SoundAt(entry[h], h) /\ entry[h].options_fingerprint.depth <= depth
      BY <1>1, <3>1 DEF EntriesSound
    <3> QED
      BY <2>1, <3>1, <3>2 DEF SoundAt
  <2> QED
    BY <2>7, <2>8
<1>4. CASE PersistFails(p) \/ RemoveSuperseded(p)
  <2>1. depth' = depth /\ \A h \in Commit : entry'[h] \in {entry[h], Absent}
    BY <1>4 DEF PersistFails, RemoveSuperseded, env
  <2> QED
    BY <1>1, <1>2, <2>1, FilesStay
<1> QED
  BY <1>2, <1>3, <1>4

\* A deepened clone makes every stamp a former one; nothing else matters.
LEMMA EnvironmentSound ==
  ASSUME CacheInvariant, Environment
  PROVE  EntriesSound' /\ \A r \in Proc : BuildOK(r)'
<1>1. TypeOK /\ EntriesSound /\ \A r \in Proc : BuildOK(r)
  BY DEF CacheInvariant, BuildOK
<1>2. \A r \in Proc : SameLocals(r)
  BY DEF Environment, MoveHead, EditConfig, Deepen, SetClock, LoseFile, Change, local,
         SameLocals
<1>3. CASE Deepen
  <2>1. /\ depth' = depth + 1 /\ depth \in Int /\ entry' = entry
    BY <1>1, <1>3, WalkAssumption DEF Deepen, TypeOK, Depth, WalkAssumption
  <2>2. EntriesSound'
    <3> SUFFICES ASSUME NEW h \in Commit, entry[h] # Absent
                 PROVE  /\ SoundAt(entry[h], h)'
                        /\ entry[h].options_fingerprint.depth <= depth'
      BY <2>1 DEF EntriesSound
    <3>1. SoundAt(entry[h], h) /\ entry[h].options_fingerprint.depth <= depth
      BY <1>1 DEF EntriesSound
    <3>2. entry[h].options_fingerprint.depth \in Int
      BY <1>1, WalkAssumption
      DEF TypeOK, Files, Entry, Fingerprint, Depth, WalkAssumption
    <3> QED
      BY <2>1, <3>1, <3>2 DEF SoundAt
  <2>3. ASSUME NEW r \in Proc PROVE BuildOK(r)'
    <3>1. SameLocals(r) /\ BuildOK(r)
      BY <1>1, <1>2
    <3>2. pc[r] \in HasContext => ctx[r].depth \in Int /\ ctx[r].depth <= depth
      BY <1>1, <3>1, WalkAssumption
      DEF TypeOK, Context, Depth, WalkAssumption, BuildOK, BoundaryPast
    <3>3. FullHistoryWalksAll(r)' /\ BoundaryPast(r)'
      BY <2>1, <3>1, <3>2
      DEF BuildOK, FullHistoryWalksAll, BoundaryPast, SameLocals
    <3>4. IndexIsFresh(r)'
      BY <2>1, <3>1, <3>2 DEF IndexIsFresh, SameLocals, HasIndex, HasContext
    <3>5. CandidatesSound(r)'
      <4> SUFFICES ASSUME NEW h \in Commit, candidates[r][h] # Absent
                   PROVE  /\ pc[r] = "scan"
                          /\ Usable(candidates[r][h], r)'
                          /\ SoundAt(candidates[r][h], h)'
        BY <3>1 DEF CandidatesSound, SameLocals
      <4>1. /\ pc[r] = "scan" /\ Usable(candidates[r][h], r)
            /\ SoundAt(candidates[r][h], h)
        BY <3>1 DEF BuildOK, CandidatesSound
      <4>2. candidates[r][h].options_fingerprint.depth = ctx[r].depth
        BY <4>1 DEF Usable, is_compatible, fingerprint
      <4>3. Usable(candidates[r][h], r)'
        BY <3>1, <4>1
        DEF SameLocals, Usable, is_compatible, fingerprint, long_boundary
      <4> QED
        BY <2>1, <3>1, <3>2, <4>1, <4>2, <4>3 DEF SoundAt, SameLocals, HasContext
    <3> QED
      BY <3>3, <3>4, <3>5 DEF BuildOK
  <2> QED
    BY <2>2, <2>3
<1>4. CASE MoveHead \/ EditConfig \/ SetClock \/ LoseFile
  <2>1. depth' = depth /\ \A h \in Commit : entry'[h] \in {entry[h], Absent}
    BY <1>1, <1>4 DEF MoveHead, EditConfig, SetClock, LoseFile, TypeOK, Files
  <2> QED
    BY <1>1, <1>2, <2>1, FilesStay, OtherBuild
<1> QED
  BY <1>3, <1>4 DEF Environment

\* An empty cache satisfies the invariant.
LEMMA InitSound == Init => CacheInvariant
<1> SUFFICES ASSUME Init PROVE CacheInvariant
  OBVIOUS
<1>1. TypeOK
  BY InitTyped
<1>2. EntriesSound
  BY DEF Init, EntriesSound, NoFiles
<1>3. ASSUME NEW p \in Proc PROVE BuildOK(p)
  BY DEF Init, NoFiles, BuildOK, CandidatesSound, FullHistoryWalksAll, BoundaryPast,
         IndexIsFresh, HasIndex, HasContext
<1> QED
  BY <1>1, <1>2, <1>3 DEF CacheInvariant, BuildOK

\* Every step keeps the invariant, when committer times are monotone.
LEMMA StepSound == MonotoneTime /\ CacheInvariant /\ [Next]_vars => CacheInvariant'
<1> SUFFICES ASSUME MonotoneTime, CacheInvariant, [Next]_vars PROVE CacheInvariant'
  OBVIOUS
<1>1. TypeOK /\ EntriesSound /\ \A r \in Proc : BuildOK(r)
  BY DEF CacheInvariant, BuildOK
<1>2. TypeOK'
  BY <1>1, StepTyped
<1>3. EntriesSound' /\ \A r \in Proc : BuildOK(r)'
  <2>1. CASE Environment
    BY <2>1, EnvironmentSound
  <2>2. ASSUME NEW p \in Proc, Build(p) \/ Fault(p)
        PROVE  EntriesSound' /\ \A r \in Proc : BuildOK(r)'
    <3>1. BuildOK(p)' /\ EntriesSound'
      BY <2>2, PreparationSound, LoadCandidateSound, HitSound, WalkSound,
         PlainWalkSound, FilesSound, EndingSound
      DEF Build, Fault
    <3>2. \A r \in Proc \ {p} : BuildOK(r)'
      BY <1>1, <2>2, OtherLocals, OtherBuild
    <3> QED
      BY <3>1, <3>2
  <2>3. CASE UNCHANGED vars
    <3>1. depth' = depth /\ entry' = entry /\ \A r \in Proc : SameLocals(r)
      BY <2>3 DEF vars, env, local, SameLocals
    <3> QED
      BY <1>1, <3>1, FilesStay, OtherBuild
  <2> QED
    BY <2>1, <2>2, <2>3 DEF Next
<1> QED
  BY <1>2, <1>3 DEF CacheInvariant, BuildOK

\* Without clock skew every stored entry stays the log its stamp promises,
\* whatever builds, faults and environment changes are interleaved.
THEOREM EntriesStaySound == MonotoneTime => (Spec => []EntriesSound)
<1> SUFFICES ASSUME MonotoneTime PROVE Spec => []EntriesSound
  OBVIOUS
<1>1. CacheInvariant /\ [Next]_vars => CacheInvariant'
  BY StepSound
<1>2. CacheInvariant => EntriesSound
  BY DEF CacheInvariant
<1> QED
  BY <1>1, <1>2, InitSound, PTL DEF Spec

\* "A cache hit is bit-identical to a fresh walk": without clock skew the log a
\* build replays is that of a fresh walk, on every path of build_cached.
THEOREM CachedBuildsAreFresh == MonotoneTime => (Spec => []HitIsFresh)
<1> SUFFICES ASSUME MonotoneTime PROVE Spec => []HitIsFresh
  OBVIOUS
<1>1. CacheInvariant /\ [Next]_vars => CacheInvariant'
  BY StepSound
<1>2. CacheInvariant => HitIsFresh
  BY DEF CacheInvariant, HitIsFresh
<1> QED
  BY <1>1, <1>2, InitSound, PTL DEF Spec

-----------------------------------------------------------------------------
\* Completeness.  A clone that is complete stays complete when it is deepened.
CompleteStays ==
  \A d, e \in Depth : d <= e /\ Graft[d] = {} => Graft[e] = {}

\* The log of a window of the full history.
WholeLog(tip, opt, cfg, cutoff) == collect_events(tip, opt, cfg, cutoff, {}, {}).events

\* What an entry that does not report a shallow clone holds.
WholeAt(e, h) ==
  e # Absent /\ ~e.truncated_shallow_clone =>
    e.events = WholeLog(h, e.options_fingerprint.opt, e.options_fingerprint.cfg,
                        e.walk_long_boundary)

EntriesWhole == \A h \in Commit : WholeAt(entry[h], h)

\* A build that found the clone complete finds it so to its end, ...
StaysComplete(p) == pc[p] # "idle" /\ ~shallow[p] => Graft[depth] = {}

\* ... loads nothing but whole logs and makes one.
IndexIsWhole(p) ==
  pc[p] \in HasIndex =>
    /\ index[p].truncated = shallow[p]
    /\ ~shallow[p] => index[p].events =
         WholeLog(at[p].head, run[p].opt, ctx[p].cfg, long_boundary(p))

\* The locals that are not set yet.
NotYet(p) ==
  /\ pc[p] = "idle" => run[p] = Absent
  /\ pc[p] \in {"idle", "resolve"} => at[p] = Absent
  /\ pc[p] \notin HasContext => ctx[p] = Absent
  /\ pc[p] \notin HasIndex => index[p] = Absent

BuildWhole(p) ==
  /\ StaysComplete(p)
  /\ \A h \in Commit : WholeAt(candidates[p][h], h)
  /\ IndexIsWhole(p)
  /\ NotYet(p)

WholeInvariant == CacheInvariant /\ EntriesWhole /\ \A p \in Proc : BuildWhole(p)

\* In a complete clone the log of a fresh walk is the whole log.
LEMMA WholeWhenComplete ==
  ASSUME Graft[depth] = {}
  PROVE  \A tip, opt, cfg, cutoff :
           FreshLog(tip, opt, cfg, cutoff, depth) = WholeLog(tip, opt, cfg, cutoff)
BY DEF FreshLog, WholeLog

\* A step that only removes entries keeps those that are left whole.
LEMMA WholeFilesStay ==
  ASSUME EntriesWhole, \A h \in Commit : entry'[h] \in {entry[h], Absent}
  PROVE  EntriesWhole'
BY DEF EntriesWhole, WholeAt

\* A build is not disturbed by a step that leaves its locals alone and a complete
\* clone complete.
LEMMA OtherWhole ==
  ASSUME NEW r \in Proc, BuildWhole(r), SameLocals(r), Graft[depth] = {} => Graft[depth'] = {}
  PROVE  BuildWhole(r)'
<1>1. StaysComplete(r)'
  BY DEF BuildWhole, StaysComplete, SameLocals
<1>2. \A h \in Commit : WholeAt(candidates[r][h], h)'
  BY DEF BuildWhole, SameLocals, WholeAt
<1>3. IndexIsWhole(r)'
  BY DEF BuildWhole, IndexIsWhole, SameLocals, long_boundary
<1>4. NotYet(r)'
  BY DEF BuildWhole, NotYet, SameLocals
<1> QED
  BY <1>1, <1>2, <1>3, <1>4 DEF BuildWhole

\* The steps before the directory is read.
LEMMA PreparationWhole ==
  ASSUME WholeInvariant, NEW p \in Proc,
         \/ Start(p) \/ Resolve(p) \/ ClearRepo(p) \/ OpenContext(p) \/ Miss(p)
  PROVE  BuildWhole(p)' /\ EntriesWhole'
<1>1. TypeOK /\ EntriesWhole /\ BuildWhole(p)
  BY DEF WholeInvariant, CacheInvariant
<1> USE DEF Start, Resolve, ClearRepo, OpenContext, Miss, Step, local, env
<1>2. /\ \A h \in Commit : entry'[h] \in {entry[h], Absent}
      /\ candidates' = candidates /\ depth' = depth /\ index' = index
  BY DEF NoFiles
<1>3. EntriesWhole'
  BY <1>1, <1>2, WholeFilesStay
<1>4. \A h \in Commit : WholeAt(candidates[p][h], h)'
  BY <1>1, <1>2 DEF BuildWhole, WholeAt
<1>5. /\ pc[p] \in {"idle", "resolve", "clear", "open", "load"}
      /\ pc'[p] \in {"resolve", "clear", "open", "load", "walk", "scan"}
  BY <1>1 DEF TypeOK
<1>6. IndexIsWhole(p)'
  BY <1>5 DEF IndexIsWhole, HasIndex
<1>7. StaysComplete(p)'
  <2>1. CASE Start(p)
    <3>1. shallow'[p] = is_shallow
      BY <1>1, <2>1 DEF TypeOK
    <3> QED
      BY <1>2, <3>1 DEF StaysComplete, is_shallow
  <2>2. CASE ~Start(p)
    <3>1. pc[p] # "idle" /\ shallow' = shallow
      BY <2>2
    <3> QED
      BY <1>1, <1>2, <3>1 DEF BuildWhole, StaysComplete
  <2> QED
    BY <2>1, <2>2
<1>8. NotYet(p)'
  <2>1. index'[p] = Absent
    BY <1>1, <1>2, <1>5 DEF BuildWhole, NotYet, HasIndex
  <2>2. CASE Start(p)
    <3>1. pc[p] = "idle" /\ pc'[p] = "resolve" /\ at' = at /\ ctx' = ctx
      BY <1>1, <2>2 DEF TypeOK
    <3> QED
      BY <1>1, <2>1, <3>1 DEF BuildWhole, NotYet, HasContext
  <2>3. CASE Resolve(p)
    <3>1. pc[p] = "resolve" /\ pc'[p] \in {"clear", "open"} /\ ctx' = ctx
      BY <1>1, <2>3 DEF TypeOK
    <3> QED
      BY <1>1, <2>1, <3>1 DEF BuildWhole, NotYet, HasContext
  <2>4. CASE ClearRepo(p)
    <3>1. pc[p] = "clear" /\ pc'[p] = "open" /\ ctx' = ctx
      BY <1>1, <2>4 DEF TypeOK
    <3> QED
      BY <1>1, <2>1, <3>1 DEF BuildWhole, NotYet, HasContext
  <2>5. CASE OpenContext(p) \/ Miss(p)
    <3>1. pc'[p] \in {"load", "walk", "scan"}
      BY <1>1, <2>5 DEF TypeOK
    <3> QED
      BY <2>1, <3>1 DEF NotYet, HasContext
  <2> QED
    BY <2>2, <2>3, <2>4, <2>5
<1> QED
  BY <1>3, <1>4, <1>6, <1>7, <1>8 DEF BuildWhole

\* A candidate is as whole as the entry it was loaded from.
LEMMA LoadCandidateWhole ==
  ASSUME WholeInvariant, NEW p \in Proc, LoadCandidate(p)
  PROVE  BuildWhole(p)' /\ EntriesWhole'
<1>1. TypeOK /\ EntriesWhole /\ BuildWhole(p)
  BY DEF WholeInvariant, CacheInvariant
<1>2. PICK h \in toScan[p] :
        candidates' = [candidates EXCEPT ![p][h] =
          IF Usable(entry[h], p) THEN entry[h] ELSE Absent]
  BY DEF LoadCandidate
<1>3. /\ pc[p] = "scan" /\ UNCHANGED <<pc, entry, depth, run, shallow, at, ctx, index>>
  BY DEF LoadCandidate, env
<1>4. h \in Commit /\ candidates \in [Proc -> Files]
  BY <1>1, <1>2 DEF TypeOK
<1>5. EntriesWhole'
  BY <1>1, <1>3, WholeFilesStay
<1>6. \A i \in Commit : candidates'[p][i] \in {candidates[p][i], entry[i], Absent}
  BY <1>2, <1>4 DEF Files
<1>7. \A i \in Commit : WholeAt(candidates'[p][i], i)
  BY <1>1, <1>6 DEF BuildWhole, EntriesWhole, WholeAt
<1>8. \A i \in Commit : WholeAt(candidates[p][i], i)'
  BY <1>7 DEF WholeAt
<1>9. StaysComplete(p)' /\ IndexIsWhole(p)' /\ NotYet(p)'
  BY <1>1, <1>3 DEF BuildWhole, StaysComplete, IndexIsWhole, NotYet, HasIndex, HasContext
<1> QED
  BY <1>5, <1>8, <1>9 DEF BuildWhole

\* A step that replays a log, when it is the whole log of a complete clone.
LEMMA WholeIndex ==
  ASSUME TypeOK, NEW p \in Proc, BuildWhole(p), pc[p] # "idle", NEW log,
         ~shallow[p] => InWindow(log, at[p].now, long_boundary(p))
                          = WholeLog(at[p].head, run[p].opt, ctx[p].cfg, long_boundary(p)),
         index' = [index EXCEPT ![p] = assemble(p, log)],
         pc'[p] \in HasIndex,
         \A h \in Commit : candidates'[p][h] \in {candidates[p][h], Absent},
         UNCHANGED <<depth, run, shallow, at, ctx>>
  PROVE  BuildWhole(p)'
<1>1. index'[p] = [events |-> InWindow(log, at[p].now, long_boundary(p)), truncated |-> shallow[p]]
  BY DEF TypeOK, assemble
<1>2. IndexIsWhole(p)'
  BY <1>1 DEF IndexIsWhole, long_boundary
<1>3. NotYet(p)'
  BY DEF NotYet, HasIndex, HasContext
<1>4. StaysComplete(p)'
  BY DEF BuildWhole, StaysComplete
<1>5. \A h \in Commit : WholeAt(candidates[p][h], h)'
  BY DEF BuildWhole, WholeAt
<1> QED
  BY <1>2, <1>3, <1>4, <1>5 DEF BuildWhole

\* A hit on an entry that does not report a shallow clone replays a whole log.
LEMMA HitWhole ==
  ASSUME MonotoneTime, WholeInvariant, NEW p \in Proc, Hit(p)
  PROVE  BuildWhole(p)' /\ EntriesWhole'
<1>1. TypeOK /\ EntriesWhole /\ BuildWhole(p)
  BY DEF WholeInvariant, CacheInvariant
<1>2. /\ pc[p] = "load" /\ pc'[p] = "done" /\ entry' = entry /\ candidates' = candidates
      /\ UNCHANGED <<depth, run, shallow, at, ctx>>
  BY <1>1 DEF Hit, Step, env, TypeOK
<1> DEFINE e == entry[at[p].head]
<1>3. Usable(e, p) /\ index' = [index EXCEPT ![p] = assemble(p, e.events)]
  BY DEF Hit
<1>4. e \in Entry /\ WholeAt(e, at[p].head)
  BY <1>1, <1>2, <1>3, BuildTyped DEF Usable, EntriesWhole, TypeOK, Files
<1>5. ASSUME ~shallow[p]
      PROVE  InWindow(e.events, at[p].now, long_boundary(p))
               = WholeLog(at[p].head, run[p].opt, ctx[p].cfg, long_boundary(p))
  <2>1. Graft[depth] = {}
    BY <1>1, <1>2, <1>5 DEF BuildWhole, StaysComplete
  <2>2. /\ e # Absent /\ ~e.truncated_shallow_clone
        /\ e.options_fingerprint = fingerprint(p) /\ e.walk_long_boundary <= long_boundary(p)
    BY <1>3, <1>5 DEF Usable, is_compatible
  <2>3. e.events = WholeLog(at[p].head, run[p].opt, ctx[p].cfg, e.walk_long_boundary)
    BY <1>4, <2>2 DEF WholeAt, fingerprint
  <2>4. e.walk_long_boundary \in Int
    BY <1>4 DEF Entry
  <2>5. e.events = FreshLog(at[p].head, run[p].opt, ctx[p].cfg, e.walk_long_boundary, depth)
    BY <2>1, <2>3, WholeWhenComplete
  <2>6. InWindow(FreshLog(at[p].head, run[p].opt, ctx[p].cfg, e.walk_long_boundary, depth),
                 at[p].now, long_boundary(p))
          = FreshLog(at[p].head, run[p].opt, ctx[p].cfg, long_boundary(p), depth)
    <3> HIDE DEF e
    <3> QED
      BY <1>1, <1>2, <2>2, <2>4, BuildTyped, ReplayOfEntry
  <2> HIDE DEF e
  <2> QED
    BY <2>1, <2>5, <2>6, WholeWhenComplete
<1> HIDE DEF e
<1>6. BuildWhole(p)'
  BY <1>1, <1>2, <1>3, <1>5, WholeIndex DEF HasIndex
<1> QED
  BY <1>1, <1>2, <1>6, WholeFilesStay

\* So does a walk without a cache, ...
LEMMA PlainWalkWhole ==
  ASSUME MonotoneTime, WholeInvariant, NEW p \in Proc, PlainWalk(p)
  PROVE  BuildWhole(p)' /\ EntriesWhole'
<1>1. TypeOK /\ EntriesWhole /\ BuildWhole(p)
  BY DEF WholeInvariant, CacheInvariant
<1>2. /\ pc[p] = "walk" /\ pc'[p] = "done" /\ entry' = entry /\ candidates' = candidates
      /\ UNCHANGED <<depth, run, shallow, at, ctx>>
  BY <1>1 DEF PlainWalk, Step, env, TypeOK
<1> DEFINE log == FreshLog(at[p].head, run[p].opt, ctx[p].cfg, long_boundary(p), depth)
<1>3. index' = [index EXCEPT ![p] = assemble(p, log)]
  BY DEF PlainWalk
<1>4. InWindow(log, at[p].now, long_boundary(p)) = log
  BY <1>1, <1>2, BuildTyped, ReplayOfEntry
<1>5. ASSUME ~shallow[p]
      PROVE  log = WholeLog(at[p].head, run[p].opt, ctx[p].cfg, long_boundary(p))
  <2>1. Graft[depth] = {}
    BY <1>1, <1>2, <1>5 DEF BuildWhole, StaysComplete
  <2> QED
    BY <2>1, WholeWhenComplete
<1> HIDE DEF log
<1>6. BuildWhole(p)'
  BY <1>1, <1>2, <1>3, <1>4, <1>5, WholeIndex DEF HasIndex
<1> QED
  BY <1>1, <1>2, <1>6, WholeFilesStay

\* ... and a walk with one, spliced or not.
LEMMA WalkWhole ==
  ASSUME MonotoneTime, WholeInvariant, NEW p \in Proc, Walk(p)
  PROVE  BuildWhole(p)' /\ EntriesWhole'
<1>1. TypeOK /\ EntriesWhole /\ BuildWhole(p) /\ BuildOK(p)
  BY DEF WholeInvariant, CacheInvariant, BuildOK
<1>2. /\ pc[p] = "scan" /\ pc'[p] = "persist" /\ entry' = entry
      /\ UNCHANGED <<depth, run, shallow, at, ctx>>
  BY <1>1 DEF Walk, Step, env, TypeOK
<1> DEFINE tails == {h \in Commit : candidates[p][h] # Absent}
           stops == {candidates[p][h].head_sha : h \in tails}
           walked == collect_events(at[p].head, run[p].opt, ctx[p].cfg,
                                    long_boundary(p), Graft[depth], stops)
           whole == WholeLog(at[p].head, run[p].opt, ctx[p].cfg, long_boundary(p))
<1>3. BuildInput(at[p].head, run[p].opt, ctx[p].cfg, depth, at[p].now, long_boundary(p))
  BY <1>1, <1>2, BuildTyped
<1>4. \A h \in tails : /\ candidates[p][h] \in Entry /\ candidates[p][h] # Absent
                       /\ Usable(candidates[p][h], p) /\ candidates[p][h].head_sha = h
                       /\ WholeAt(candidates[p][h], h)
  BY <1>1 DEF BuildOK, BuildWhole, CandidatesSound, SoundAt, TypeOK, Files
<1>5. \A h \in Commit : candidates'[p][h] = Absent
  BY <1>1 DEF Walk, TypeOK, NoFiles
<1>6. ~shallow[p] => /\ Graft[depth] = {}
                     /\ FreshLog(at[p].head, run[p].opt, ctx[p].cfg, long_boundary(p), depth) = whole
  <2>1. ~shallow[p] => Graft[depth] = {}
    BY <1>1, <1>2 DEF BuildWhole, StaysComplete
  <2> QED
    BY <2>1, WholeWhenComplete
<1>7. ASSUME walked.stopped = {}, index' = [index EXCEPT ![p] = assemble(p, walked.events)]
      PROVE  BuildWhole(p)'
  <2>1. InWindow(walked.events, at[p].now, long_boundary(p))
          = FreshLog(at[p].head, run[p].opt, ctx[p].cfg, long_boundary(p), depth)
    <3> HIDE DEF stops
    <3> QED
      BY <1>3, <1>7, ReplayOfWalk
  <2> HIDE DEF walked, whole
  <2>2. ~shallow[p] => InWindow(walked.events, at[p].now, long_boundary(p)) = whole
    BY <1>6, <2>1
  <2> QED
    BY <1>1, <1>2, <1>5, <1>7, <2>2, WholeIndex DEF HasIndex, whole
<1>8. ASSUME NEW h \in tails, candidates[p][h].head_sha \in walked.stopped,
             index' = [index EXCEPT ![p] =
               assemble(p, splice(walked.events, candidates[p][h].events))]
      PROVE  BuildWhole(p)'
  <2> DEFINE e == candidates[p][h]
             log == splice(walked.events, e.events)
  <2>1. ASSUME ~shallow[p]
        PROVE  InWindow(log, at[p].now, long_boundary(p)) = whole
    <3>1. /\ e \in Entry /\ e # Absent /\ ~e.truncated_shallow_clone
          /\ e.options_fingerprint = fingerprint(p) /\ e.walk_long_boundary <= long_boundary(p)
          /\ h \in walked.stopped
      BY <1>4, <1>8, <2>1 DEF Usable, is_compatible
    <3>2. e.walk_long_boundary \in Int
      BY <3>1 DEF Entry
    <3>3. e.events = WholeLog(h, run[p].opt, ctx[p].cfg, e.walk_long_boundary)
      BY <1>4, <3>1 DEF WholeAt, fingerprint
    <3>4. e.events = FreshLog(h, run[p].opt, ctx[p].cfg, e.walk_long_boundary, depth)
      BY <1>6, <2>1, <3>3, WholeWhenComplete
    <3>5. ~run[p].opt.full_history
      BY <1>1, <1>2, <1>8, BuildTyped DEF BuildOK, FullHistoryWalksAll
    <3>6. h \in walked.stopped /\ e.walk_long_boundary <= long_boundary(p)
      BY <3>1
    <3> HIDE DEF e, stops
    <3>7. InWindow(splice(walked.events,
                     FreshLog(h, run[p].opt, ctx[p].cfg, e.walk_long_boundary, depth)),
                   at[p].now, long_boundary(p))
            = FreshLog(at[p].head, run[p].opt, ctx[p].cfg, long_boundary(p), depth)
      BY <1>3, <3>2, <3>5, <3>6, ReplayOfSplice
    <3> HIDE DEF walked, whole
    <3> QED
      BY <1>6, <2>1, <3>4, <3>7
  <2>2. index' = [index EXCEPT ![p] = assemble(p, log)]
    BY <1>8
  <2> HIDE DEF log, whole
  <2> QED
    BY <1>1, <1>2, <1>5, <2>1, <2>2, WholeIndex DEF HasIndex, whole
<1>9. \/ walked.stopped = {} /\ index' = [index EXCEPT ![p] = assemble(p, walked.events)]
      \/ \E h \in tails :
           /\ candidates[p][h].head_sha \in walked.stopped
           /\ index' = [index EXCEPT ![p] =
                assemble(p, splice(walked.events, candidates[p][h].events))]
  <2> HIDE DEF walked, stops
  <2> QED
    BY DEF Walk, walked, stops
<1>10. BuildWhole(p)'
  <2> HIDE DEF walked
  <2> QED
    BY <1>7, <1>8, <1>9
<1> QED
  BY <1>1, <1>2, <1>10, WholeFilesStay

\* A build that ends has nothing left.
LEMMA EndingWhole ==
  ASSUME WholeInvariant, NEW p \in Proc,
         Bypass(p) \/ ClearRepoFails(p) \/ Return(p) \/ Abort(p)
  PROVE  BuildWhole(p)' /\ EntriesWhole'
<1>1. TypeOK /\ EntriesWhole
  BY DEF WholeInvariant, CacheInvariant
<1>2. \A h \in Commit : entry'[h] \in {entry[h], Absent}
  BY DEF Bypass, ClearRepoFails, Return, Abort
<1>3. Forget(p)
  BY DEF Bypass, ClearRepoFails, Return, Abort
<1>4. /\ pc'[p] = "idle" /\ run'[p] = Absent /\ at'[p] = Absent /\ ctx'[p] = Absent
      /\ index'[p] = Absent /\ \A h \in Commit : candidates'[p][h] = Absent
  BY <1>1, <1>3 DEF Forget, TypeOK, NoFiles
<1>5. BuildWhole(p)'
  BY <1>4 DEF BuildWhole, StaysComplete, WholeAt, IndexIsWhole, NotYet, HasIndex
<1> QED
  BY <1>1, <1>2, <1>5, WholeFilesStay

\* What is written from a whole index is a whole entry.
LEMMA FilesWhole ==
  ASSUME WholeInvariant, NEW p \in Proc,
         \/ Persist(p) \/ PersistFails(p) \/ RemoveSuperseded(p)
  PROVE  BuildWhole(p)' /\ EntriesWhole'
<1>1. TypeOK /\ EntriesWhole /\ BuildWhole(p)
  BY DEF WholeInvariant, CacheInvariant
<1>2. /\ pc[p] \in {"persist", "remove"} /\ pc'[p] \in {"remove", "done"}
      /\ UNCHANGED <<depth, run, shallow, at, ctx, candidates, index>>
  BY <1>1 DEF Persist, PersistFails, RemoveSuperseded, Step, env, local, TypeOK
<1>3. BuildWhole(p)'
  <2>1. StaysComplete(p)' /\ NotYet(p)'
    BY <1>1, <1>2 DEF BuildWhole, StaysComplete, NotYet, HasContext, HasIndex
  <2>2. \A h \in Commit : WholeAt(candidates[p][h], h)'
    BY <1>1, <1>2 DEF BuildWhole, WholeAt
  <2>3. IndexIsWhole(p)'
    BY <1>1, <1>2 DEF BuildWhole, IndexIsWhole, HasIndex, long_boundary
  <2> QED
    BY <2>1, <2>2, <2>3 DEF BuildWhole
<1>4. CASE Persist(p)
  <2> DEFINE e == new_entry(p)
  <2>1. IndexIsWhole(p) /\ pc[p] = "persist"
    BY <1>1, <1>4 DEF BuildWhole, Persist, Step
  <2>2. WholeAt(e, at[p].head)
    BY <2>1 DEF WholeAt, new_entry, fingerprint, IndexIsWhole, HasIndex
  <2>3. entry' = [entry EXCEPT ![at[p].head] = e] /\ entry \in Files
    BY <1>1, <1>4 DEF Persist, TypeOK
  <2> HIDE DEF e
  <2>4. ASSUME NEW h \in Commit PROVE WholeAt(entry'[h], h)
    <3>1. CASE h = at[p].head
      BY <2>2, <2>3, <3>1 DEF Files
    <3>2. CASE h # at[p].head
      BY <1>1, <2>3, <3>2 DEF Files, EntriesWhole
    <3> QED
      BY <3>1, <3>2
  <2> QED
    BY <1>3, <2>4 DEF EntriesWhole, WholeAt
<1>5. CASE PersistFails(p) \/ RemoveSuperseded(p)
  <2>1. \A h \in Commit : entry'[h] \in {entry[h], Absent}
    BY <1>5 DEF PersistFails, RemoveSuperseded
  <2> QED
    BY <1>1, <1>3, <2>1, WholeFilesStay
<1> QED
  BY <1>4, <1>5

\* An empty cache and idle processes.
LEMMA InitWhole == Init => WholeInvariant
<1> SUFFICES ASSUME Init PROVE WholeInvariant
  OBVIOUS
<1>1. CacheInvariant
  BY InitSound
<1>2. EntriesWhole
  BY DEF Init, EntriesWhole, WholeAt, NoFiles
<1>3. ASSUME NEW p \in Proc PROVE BuildWhole(p)
  BY DEF Init, NoFiles, BuildWhole, StaysComplete, WholeAt, IndexIsWhole, NotYet, HasIndex
<1> QED
  BY <1>1, <1>2, <1>3 DEF WholeInvariant

\* Every step keeps the invariant, when committer times are monotone and a
\* complete clone stays complete.
LEMMA StepWhole ==
  MonotoneTime /\ CompleteStays /\ WholeInvariant /\ [Next]_vars => WholeInvariant'
<1> SUFFICES ASSUME MonotoneTime, CompleteStays, WholeInvariant, [Next]_vars
             PROVE  WholeInvariant'
  OBVIOUS
<1>1. TypeOK /\ EntriesWhole /\ CacheInvariant /\ \A r \in Proc : BuildWhole(r)
  BY DEF WholeInvariant, CacheInvariant
<1>2. CacheInvariant'
  BY <1>1, StepSound
<1>3. EntriesWhole' /\ \A r \in Proc : BuildWhole(r)'
  <2>1. CASE Environment
    <3>1. \A r \in Proc : SameLocals(r)
      BY <2>1 DEF Environment, MoveHead, EditConfig, Deepen, SetClock, LoseFile, Change,
                  local, SameLocals
    <3>2. \A h \in Commit : entry'[h] \in {entry[h], Absent}
      BY <1>1, <2>1 DEF Environment, MoveHead, EditConfig, Deepen, SetClock, LoseFile,
                        TypeOK, Files
    <3>3. Graft[depth] = {} => Graft[depth'] = {}
      <4>1. CASE Deepen
        <5>1. depth \in Depth /\ depth' \in Depth /\ depth <= depth'
          BY <1>1, <4>1, WalkAssumption DEF TypeOK, Deepen, Depth, WalkAssumption
        <5> QED
          BY <5>1 DEF CompleteStays
      <4>2. CASE ~Deepen
        BY <2>1, <4>2 DEF Environment, MoveHead, EditConfig, SetClock, LoseFile
      <4> QED
        BY <4>1, <4>2
    <3> QED
      BY <1>1, <3>1, <3>2, <3>3, WholeFilesStay, OtherWhole
  <2>2. ASSUME NEW p \in Proc, Build(p) \/ Fault(p)
        PROVE  EntriesWhole' /\ \A r \in Proc : BuildWhole(r)'
    <3>1. BuildWhole(p)' /\ EntriesWhole'
      BY <2>2, PreparationWhole, LoadCandidateWhole, HitWhole, WalkWhole,
         PlainWalkWhole, FilesWhole, EndingWhole
      DEF Build, Fault
    <3>2. \A r \in Proc \ {p} : BuildWhole(r)'
      BY <1>1, <2>2, OtherLocals, OtherWhole
    <3> QED
      BY <3>1, <3>2
  <2>3. CASE UNCHANGED vars
    <3>1. depth' = depth /\ entry' = entry /\ \A r \in Proc : SameLocals(r)
      BY <2>3 DEF vars, env, local, SameLocals
    <3> QED
      BY <1>1, <3>1, WholeFilesStay, OtherWhole
  <2> QED
    BY <2>1, <2>2, <2>3 DEF Next
<1> QED
  BY <1>2, <1>3 DEF WholeInvariant

\* Whatever the boundary does during a build, an index of build_cached
\* (cached.rs) that does not report truncated_shallow_clone lacks no commit of
\* its window.
THEOREM TruncationIsReported ==
  MonotoneTime /\ CompleteStays => (Spec => []NoSilentTruncation)
<1> SUFFICES ASSUME MonotoneTime, CompleteStays PROVE Spec => []NoSilentTruncation
  OBVIOUS
<1>1. WholeInvariant /\ [Next]_vars => WholeInvariant'
  BY StepWhole
<1>2. WholeInvariant => NoSilentTruncation
  <2> SUFFICES ASSUME WholeInvariant, NEW p \in Proc, index[p] # Absent, ~index[p].truncated
               PROVE  index[p].events = WholeLog(at[p].head, run[p].opt, ctx[p].cfg, long_boundary(p))
    BY DEF NoSilentTruncation, WholeLog
  <2> QED
    BY DEF WholeInvariant, BuildWhole, NotYet, IndexIsWhole
<1> QED
  BY <1>1, <1>2, InitWhole, PTL DEF Spec

-----------------------------------------------------------------------------
\* Refinement.  Every step of a cached build is a step of the service or none.
request == [p \in Proc |-> IF run[p] = Absent THEN Absent ELSE run[p].opt]

\* The files of the cache and the steps between are not seen.
Hidden == UNCHANGED <<HEAD, config, depth, clock, run, at, ctx, index>>

\* What no reader can see leaves the service as it was.
LEMMA HiddenStutters == Hidden => UNCHANGED Service!vars
BY DEF Hidden, Service!vars, Service!repository, Service!build

\* The service walks as the builds do.
LEMMA SameWalk ==
  /\ Service!Event = Event /\ Service!Seconds = Seconds /\ Service!Depth = Depth
  /\ \A t, w : Service!window_boundary(t, w) = window_boundary(t, w)
  /\ \A tip, opt, cfg, cutoff, grafts, stops :
       Service!collect_events(tip, opt, cfg, cutoff, grafts, stops)
         = collect_events(tip, opt, cfg, cutoff, grafts, stops)
<1>1. Service!Event = Event /\ Service!Seconds = Seconds /\ Service!Depth = Depth
  BY DEF Service!Event, Event, Service!Seconds, Seconds, Service!Depth, Depth
<1>2. \A t, w : Service!window_boundary(t, w) = window_boundary(t, w)
  BY DEF Service!window_boundary, window_boundary
<1>3. \A S, tip, full, cutoff, grafts, stops :
        Service!Reached(S, tip, full, cutoff, grafts, stops)
          <=> Reached(S, tip, full, cutoff, grafts, stops)
  BY DEF Service!Reached, Reached
<1>4. \A tip, full, cutoff, grafts, stops :
        Service!Visited(tip, full, cutoff, grafts, stops) = Visited(tip, full, cutoff, grafts, stops)
  BY <1>3 DEF Service!Visited, Visited
<1>5. \A commits, opt, cfg, grafts :
        Service!process_commits(commits, opt, cfg, grafts) = process_commits(commits, opt, cfg, grafts)
  BY DEF Service!process_commits, process_commits
<1>6. \A tip, opt, cfg, cutoff, grafts, stops :
        Service!collect_events(tip, opt, cfg, cutoff, grafts, stops)
          = collect_events(tip, opt, cfg, cutoff, grafts, stops)
  BY <1>4, <1>5 DEF Service!collect_events, collect_events
<1> QED
  BY <1>1, <1>2, <1>6

\* A build that made its index is told what the service delivers.
LEMMA IndexDelivers ==
  ASSUME WholeInvariant, WholeInvariant', NEW p \in Proc, Hit(p) \/ Walk(p) \/ PlainWalk(p)
  PROVE  Service!Deliver(p)
<1>1. /\ TypeOK /\ BuildWhole(p) /\ TypeOK' /\ BuildWhole(p)' /\ IndexIsFresh(p)'
  BY DEF WholeInvariant, CacheInvariant
<1>2. /\ pc[p] \in {"load", "scan", "walk"} /\ pc'[p] \in {"persist", "done"}
      /\ UNCHANGED <<HEAD, config, depth, clock, run, shallow, at, ctx>>
      /\ index' = [index EXCEPT ![p] = index'[p]]
  <2>1. CASE Hit(p)
    BY <1>1, <2>1 DEF TypeOK, Hit, Step, env
  <2>2. CASE PlainWalk(p)
    BY <1>1, <2>2 DEF TypeOK, PlainWalk, Step, env
  <2>3. CASE Walk(p)
    <3>1. \E i : index' = [index EXCEPT ![p] = i]
      BY <2>3 DEF Walk
    <3>2. index' = [index EXCEPT ![p] = index'[p]]
      BY <1>1, <3>1 DEF TypeOK
    <3> QED
      BY <1>1, <2>3, <3>2 DEF TypeOK, Walk, Step, env
  <2> QED
    BY <2>1, <2>2, <2>3
<1>3. ctx[p] # Absent /\ run[p] # Absent /\ index[p] = Absent /\ index'[p] \in Index
  BY <1>1, <1>2, AbsentAssumption DEF TypeOK, HasContext, HasIndex, BuildWhole, NotYet
<1>4. request' = request /\ request[p] = run[p].opt
  BY <1>2, <1>3 DEF request
<1>5. index'[p].truncated = shallow[p] /\ index'[p] \in [events : SUBSET Event, truncated : BOOLEAN]
  BY <1>1, <1>2, <1>3 DEF BuildWhole, IndexIsWhole, HasIndex, Index
<1>6. ctx[p].depth = depth =>
        index'[p].events = collect_events(at[p].head, request[p], ctx[p].cfg,
          window_boundary(at[p].now, request[p].long_window_secs), Graft[depth], {}).events
  BY <1>1, <1>2, <1>4
  DEF IndexIsFresh, HasIndex, Expected, FreshLog, long_boundary
<1>7. ~index'[p].truncated =>
        index'[p].events = collect_events(at[p].head, request[p], ctx[p].cfg,
          window_boundary(at[p].now, request[p].long_window_secs), {}, {}).events
  BY <1>1, <1>2, <1>4, <1>5
  DEF BuildWhole, IndexIsWhole, HasIndex, WholeLog, long_boundary
<1>8. UNCHANGED <<Service!repository, request, at, ctx>>
  BY <1>2, <1>4 DEF Service!repository
<1> QED
  BY <1>2, <1>3, <1>5, <1>6, <1>7, <1>8, SameWalk DEF Service!Deliver, request

\* A step of a build that changes what its caller gave it: request follows run.
LEMMA RequestFollows ==
  ASSUME TypeOK, NEW p \in Proc, NEW v, run' = [run EXCEPT ![p] = v]
  PROVE  request' = [request EXCEPT ![p] = IF v = Absent THEN Absent ELSE v.opt]
BY DEF TypeOK, request

\* A build starts where the service begins a request.
LEMMA BeginMaps ==
  ASSUME WholeInvariant, NEW p \in Proc, Start(p)
  PROVE  Service!Begin(p)
<1>1. TypeOK /\ BuildWhole(p) /\ pc[p] = "idle"
  BY DEF WholeInvariant, CacheInvariant, Start, Step
<1>2. request[p] = Absent
  BY <1>1 DEF request, BuildWhole, NotYet
<1>3. PICK v \in Version, o \in Option, c \in CacheConfig :
        run' = [run EXCEPT ![p] = [version |-> v, opt |-> o, cache |-> c]]
  BY DEF Start
<1> DEFINE r == [version |-> v, opt |-> o, cache |-> c]
<1>4. r # Absent /\ r.opt = o /\ run' = [run EXCEPT ![p] = r]
  BY <1>3, AbsentAssumption DEF Run
<1> HIDE DEF r
<1>5. request' = [request EXCEPT ![p] = o]
  BY <1>1, <1>4, RequestFollows
<1>6. UNCHANGED <<Service!repository, at, ctx, index>>
  BY DEF Start, env, Service!repository
<1> QED
  BY <1>2, <1>5, <1>6 DEF Service!Begin, request

\* Resolving HEAD is the step by which the service does.
LEMMA ResolveMaps ==
  ASSUME WholeInvariant, NEW p \in Proc, Resolve(p)
  PROVE  Service!Resolve(p)
<1>1. TypeOK /\ BuildWhole(p) /\ pc[p] = "resolve"
  BY DEF WholeInvariant, CacheInvariant, Resolve, Step
<1>2. at[p] = Absent
  BY <1>1 DEF BuildWhole, NotYet
<1>3. run[p] # Absent /\ run[p].opt # Absent
  BY <1>1, AbsentAssumption DEF TypeOK, Run
<1>4. request[p] = run[p].opt
  BY <1>3 DEF request
<1>5. at' = [at EXCEPT ![p] =
         [head |-> HEAD, now |-> IF request[p].as_of = NoTime THEN clock ELSE request[p].as_of]]
  BY <1>4 DEF Resolve
<1>6. UNCHANGED <<Service!repository, request, ctx, index>>
  BY DEF Resolve, env, Service!repository, request
<1> QED
  BY <1>2, <1>3, <1>4, <1>5, <1>6 DEF Service!Resolve, request

\* Opening the context is where the service reads its inputs.
LEMMA OpenMaps ==
  ASSUME WholeInvariant, NEW p \in Proc, OpenContext(p)
  PROVE  Service!ReadInputs(p)
<1>1. TypeOK /\ BuildWhole(p) /\ pc[p] = "open"
  BY DEF WholeInvariant, CacheInvariant, OpenContext, Step
<1>2. at[p] # Absent /\ ctx[p] = Absent
  BY <1>1, AbsentAssumption DEF TypeOK, BuildWhole, NotYet, HasContext
<1>3. UNCHANGED <<Service!repository, request, at, index>>
  BY DEF OpenContext, env, Service!repository, request
<1> QED
  BY <1>2, <1>3 DEF Service!ReadInputs, OpenContext, request

\* However a build ends, the service ends its request.
LEMMA EndMaps ==
  ASSUME WholeInvariant, NEW p \in Proc,
         Bypass(p) \/ ClearRepoFails(p) \/ Return(p) \/ Abort(p)
  PROVE  Service!End(p)
<1>1. TypeOK /\ pc[p] # "idle" /\ Forget(p)
  BY DEF WholeInvariant, CacheInvariant, Bypass, ClearRepoFails, Return, Abort
<1>2. request[p] # Absent
  BY <1>1, AbsentAssumption DEF TypeOK, Run, request
<1>3. request' = [request EXCEPT ![p] = Absent]
  BY <1>1, RequestFollows DEF Forget
<1>4. UNCHANGED Service!repository
  BY DEF Bypass, ClearRepoFails, Return, Abort, env, Service!repository
<1> QED
  BY <1>1, <1>2, <1>3, <1>4 DEF Service!End, Forget, request

\* The world changes for both alike, or where the service has no eyes.
LEMMA EnvironmentMaps ==
  ASSUME WholeInvariant, WholeInvariant', Environment
  PROVE  Hidden \/ Service!Environment
<1>1. TypeOK /\ TypeOK'
  BY DEF WholeInvariant, CacheInvariant
<1>2. UNCHANGED <<run, at, ctx, index>>
  BY DEF Environment, MoveHead, EditConfig, Deepen, SetClock, LoseFile, Change, local
<1>3. CASE LoseFile
  BY <1>2, <1>3 DEF LoseFile, Hidden
<1>4. CASE ~LoseFile
  <2>1. depth' = depth \/ depth' = depth + 1
    BY <1>4 DEF Environment, MoveHead, EditConfig, Deepen, SetClock
  <2>2. depth \in Int /\ depth' \in Depth /\ depth' >= depth
    BY <1>1, <2>1, WalkAssumption DEF TypeOK, Depth, WalkAssumption
  <2>3. HEAD' \in Commit /\ config' \in Config /\ clock' \in Clock
    BY <1>1 DEF TypeOK
  <2>4. UNCHANGED Service!build
    BY <1>2 DEF Service!build
  <2> QED
    BY <2>2, <2>3, <2>4, SameWalk DEF Service!Environment
<1> QED
  BY <1>3, <1>4

\* Every step of the builds and their environment is one of the service, or none.
LEMMA ServiceStep ==
  WholeInvariant /\ WholeInvariant' /\ [Next]_vars => [Service!Next]_(Service!vars)
<1> SUFFICES ASSUME WholeInvariant, WholeInvariant', [Next]_vars
             PROVE  Service!Next \/ UNCHANGED Service!vars
  OBVIOUS
<1>1. CASE Environment
  BY <1>1, EnvironmentMaps, HiddenStutters DEF Service!Next
<1>2. ASSUME NEW p \in Proc, Start(p) \/ Resolve(p) \/ OpenContext(p)
      PROVE  Service!Next
  BY <1>2, BeginMaps, ResolveMaps, OpenMaps DEF Service!Next
<1>3. ASSUME NEW p \in Proc, Hit(p) \/ Walk(p) \/ PlainWalk(p)
      PROVE  Service!Next
  BY <1>3, IndexDelivers DEF Service!Next
<1>4. ASSUME NEW p \in Proc, Bypass(p) \/ ClearRepoFails(p) \/ Return(p) \/ Abort(p)
      PROVE  Service!Next
  BY <1>4, EndMaps DEF Service!Next
<1>5. ASSUME NEW p \in Proc,
             \/ ClearRepo(p) \/ Miss(p) \/ LoadCandidate(p)
             \/ Persist(p) \/ PersistFails(p) \/ RemoveSuperseded(p)
      PROVE  UNCHANGED Service!vars
  <2>1. Hidden
    BY <1>5 DEF ClearRepo, Miss, LoadCandidate, Persist, PersistFails, RemoveSuperseded,
                env, local, Hidden
  <2> QED
    BY <2>1, HiddenStutters
<1>6. CASE UNCHANGED vars
  <2>1. Hidden
    BY <1>6 DEF vars, env, local, Hidden
  <2> QED
    BY <2>1, HiddenStutters
<1> QED
  BY <1>1, <1>2, <1>3, <1>4, <1>5, <1>6 DEF Next, Build, Fault

\* A cached build (build_cached, cached.rs) cannot be told from one without a
\* cache: the builds implement HistoryService, whatever they share and in whatever
\* order they and the repository take their steps.
THEOREM CachedBuildsAreBuilds ==
  MonotoneTime /\ CompleteStays => (Spec => ServiceSpec)
<1> SUFFICES ASSUME MonotoneTime, CompleteStays PROVE Spec => ServiceSpec
  OBVIOUS
<1>1. WholeInvariant /\ [Next]_vars => WholeInvariant'
  BY StepWhole
<1>2. Init => Service!Init
  BY DEF Init, Service!Init, Service!None
<1>3. WholeInvariant /\ WholeInvariant' /\ [Next]_vars => [Service!Next]_(Service!vars)
  BY ServiceStep
<1> QED
  BY <1>1, <1>2, <1>3, InitWhole, PTL DEF Spec, ServiceSpec, Service!Spec
=============================================================================
