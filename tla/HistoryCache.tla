---------------------------- MODULE HistoryCache ----------------------------
(***************************************************************************)
(* Processes that build a history index of one repository through one      *)
(* shared cache directory (build_cached, src/src/vcs/git/cached.rs), while *)
(* the repository's branch, configuration, shallow boundary and the wall   *)
(* clock move between any two of their steps.                              *)
(*                                                                         *)
(* Writing an entry is one step here: module CacheFile shows that          *)
(* write_atomic makes it so.                                               *)
(***************************************************************************)
EXTENDS HistoryWalk

CONSTANTS
  Proc,         \* concurrent bca processes (CI jobs, a CLI and a server, ...)
  Version,      \* build versions: the three schema and formula constants
  CacheConfig,  \* how runs are configured: [enabled, clear]
  Clock,        \* values the wall clock may show
  Changes,      \* bound: how many times the environment may change something
  Faults,       \* the faults that may happen
  Absent        \* no (readable) file under that name; no value yet

FaultKind == {"abort", "write_error", "clear_error", "lost_file"}

ASSUME CacheAssumption ==
  /\ CacheConfig \subseteq [enabled : BOOLEAN, clear : BOOLEAN]
  /\ Clock \subseteq Seconds
  /\ Changes \in Nat
  /\ Faults \subseteq FaultKind

VARIABLES
  HEAD, config, depth, clock,  \* the repository's tip, inputs and boundary; time
  budget,      \* environment changes left
  entry,       \* entry[h]: what the file h.json holds, or Absent
  pc,          \* where each process is in build_cached
  run,         \* the build version, options and CacheConfig it runs with
  shallow,     \* the OpenRepo flag it read
  at,          \* the tip and the reference time it resolved
  ctx,         \* its WalkContext: inputs and boundary, each read once
  toScan,      \* cache files load_compatible has yet to read
  candidates,  \* candidates[p][h]: the entry loaded from h.json, or Absent
  superseded,  \* the file to remove once the new entry is written, or Absent
  index        \* the replayed log and the truncation flag, or Absent

env   == <<HEAD, config, depth, clock, budget>>
local == <<run, shallow, at, ctx, toScan, candidates, superseded, index>>
vars  == <<env, entry, pc, local>>

-----------------------------------------------------------------------------
\* The fingerprint is a hash of the options and the input digests; distinct
\* arguments are taken to have distinct hashes.
Fingerprint == [opt : Option, cfg : Config, depth : Depth]

\* Defect: the mailmap and diff configuration are not fingerprinted (#1262).
fingerprint_of_options(p) ==
  [opt |-> run[p].opt, cfg |-> CHOOSE c \in Config : TRUE, depth |-> ctx[p].depth]

fingerprint(p) ==
  [opt |-> run[p].opt, cfg |-> ctx[p].cfg, depth |-> ctx[p].depth]

Entry == [version : Version, options_fingerprint : Fingerprint,
          head_sha : Commit, walk_long_boundary : Int,
          truncated_shallow_clone : BOOLEAN, events : SUBSET Event]

is_shallow == Graft[depth] # {}

long_boundary(p) == window_boundary(at[p].now, run[p].opt.long_window_secs)

is_compatible(e, p) ==
  /\ e.version = run[p].version
  /\ e.options_fingerprint = fingerprint(p)
  /\ e.truncated_shallow_clone = shallow[p]

\* Defect: the reach of an entry is not compared with the window.
Usable_any_reach(e, p) == e # Absent /\ is_compatible(e, p)

\* The condition on a pure hit and on a splice candidate alike: compatible and
\* reaching back at least as far as this run's window.
Usable(e, p) ==
  /\ e # Absent
  /\ is_compatible(e, p)
  /\ e.walk_long_boundary <= long_boundary(p)

NoFiles == [h \in Commit |-> Absent]

\* Defect: the flag is read when the index is made, not with the boundary.
assemble_flag_late(p, events) ==
  [events |-> InWindow(events, at[p].now, long_boundary(p)),
   truncated |-> is_shallow]

\* The log folded by replay, pruned to the current window, and the flag.
assemble(p, events) ==
  [events |-> InWindow(events, at[p].now, long_boundary(p)),
   truncated |-> shallow[p]]

-----------------------------------------------------------------------------
Init ==
  /\ HEAD \in Commit
  /\ config \in Config
  /\ depth = 0
  /\ clock \in Clock
  /\ budget = Changes
  /\ entry = NoFiles
  /\ pc = [p \in Proc |-> "idle"]
  /\ run = [p \in Proc |-> Absent]
  /\ shallow = [p \in Proc |-> FALSE]
  /\ at = [p \in Proc |-> Absent]
  /\ ctx = [p \in Proc |-> Absent]
  /\ toScan = [p \in Proc |-> {}]
  /\ candidates = [p \in Proc |-> NoFiles]
  /\ superseded = [p \in Proc |-> Absent]
  /\ index = [p \in Proc |-> Absent]

Step(p, from, to) == pc[p] = from /\ pc' = [pc EXCEPT ![p] = to]

\* A build returned or died: its locals are gone.
Forget(p) ==
  /\ pc' = [pc EXCEPT ![p] = "idle"]
  /\ run' = [run EXCEPT ![p] = Absent]
  /\ shallow' = [shallow EXCEPT ![p] = FALSE]
  /\ at' = [at EXCEPT ![p] = Absent]
  /\ ctx' = [ctx EXCEPT ![p] = Absent]
  /\ toScan' = [toScan EXCEPT ![p] = {}]
  /\ candidates' = [candidates EXCEPT ![p] = NoFiles]
  /\ superseded' = [superseded EXCEPT ![p] = Absent]
  /\ index' = [index EXCEPT ![p] = Absent]

\* repo::open reads the shallow flag; the walk context reads the boundary later.
Start(p) ==
  /\ Step(p, "idle", "resolve")
  /\ \E v \in Version, o \in Option, c \in CacheConfig :
       run' = [run EXCEPT ![p] = [version |-> v, opt |-> o, cache |-> c]]
  /\ shallow' = [shallow EXCEPT ![p] = is_shallow]
  /\ UNCHANGED <<env, entry, at, ctx, toScan, candidates, superseded, index>>

\* The tip, and `now`: --as-of, else the wall clock.
Resolve(p) ==
  LET as_of == run[p].opt.as_of
  IN  /\ Step(p, "resolve", IF run[p].cache.clear THEN "clear" ELSE "open")
      /\ as_of # NoTime => as_of >= Time[HEAD]
      /\ at' = [at EXCEPT ![p] =
           [head |-> HEAD, now |-> IF as_of = NoTime THEN clock ELSE as_of]]
      /\ UNCHANGED <<env, entry, run, shallow, ctx, toScan, candidates,
                     superseded, index>>

\* An --as-of before the tip is routed to the plain build: the cache is neither
\* read nor written (what the plain build computes is not modelled).
Bypass(p) ==
  /\ pc[p] = "resolve"
  /\ run[p].opt.as_of # NoTime
  /\ run[p].opt.as_of < Time[HEAD]
  /\ Forget(p)
  /\ UNCHANGED <<env, entry>>

\* --clear-cache: the whole directory goes, whoever wrote the entries.
ClearRepo(p) ==
  /\ Step(p, "clear", "open")
  /\ entry' = NoFiles
  /\ UNCHANGED <<env, local>>

\* A failed removal has removed part of the directory, and the build fails.
ClearRepoFails(p) ==
  /\ "clear_error" \in Faults
  /\ pc[p] = "clear"
  /\ \E kept \in SUBSET Commit :
       entry' = [h \in Commit |-> IF h \in kept THEN entry[h] ELSE Absent]
  /\ Forget(p)
  /\ UNCHANGED env

\* WalkContext::open: the inputs the digests cover, each read once.
OpenContext(p) ==
  /\ Step(p, "open", IF run[p].cache.enabled THEN "load" ELSE "walk")
  /\ ctx' = [ctx EXCEPT ![p] = [cfg |-> config, depth |-> depth]]
  /\ UNCHANGED <<env, entry, run, shallow, at, toScan, candidates, superseded, index>>

\* Defect: a hit returns before the index is assembled.
Hit_unassembled(p) ==
  /\ Step(p, "load", "done")
  /\ Usable(entry[at[p].head], p)
  /\ UNCHANGED <<env, entry, run, shallow, at, ctx, toScan, candidates, superseded, index>>

\* Pure hit: replay the exact entry.
Hit(p) ==
  LET exact == entry[at[p].head]
  IN  /\ Step(p, "load", "done")
      /\ Usable(exact, p)
      /\ index' = [index EXCEPT ![p] = assemble(p, exact.events)]
      /\ UNCHANGED <<env, entry, run, shallow, at, ctx, toScan, candidates, superseded>>

\* Miss: list the directory for splice candidates; --full-history takes none.
Miss(p) ==
  /\ Step(p, "load", "scan")
  /\ ~Usable(entry[at[p].head], p)
  /\ toScan' = [toScan EXCEPT ![p] = IF run[p].opt.full_history THEN {} ELSE Commit]
  /\ UNCHANGED <<env, entry, run, shallow, at, ctx, candidates, superseded, index>>

\* load_compatible reads the files one at a time, in directory order.
LoadCandidate(p) ==
  /\ pc[p] = "scan"
  /\ \E h \in toScan[p] :
       /\ toScan' = [toScan EXCEPT ![p] = @ \ {h}]
       /\ candidates' = [candidates EXCEPT ![p][h] =
            IF Usable(entry[h], p) THEN entry[h] ELSE Absent]
  /\ UNCHANGED <<env, entry, pc, run, shallow, at, ctx, superseded, index>>

\* Defect: a build that splices onto its own head's entry removes it too.
Supersedes_always(p, h) == h

\* The file made superfluous by a splice onto the entry loaded from h.json.
Supersedes(p, h) == IF candidates[p][h].head_sha # at[p].head THEN h ELSE Absent

\* Walk to the nearest candidate head and splice its tail on.  gix reads
\* .git/shallow again here, so the boundary is the current one.
Walk(p) ==
  LET tails  == {h \in Commit : candidates[p][h] # Absent}
      stops  == {candidates[p][h].head_sha : h \in tails}
      walked == collect_events(at[p].head, run[p].opt, ctx[p].cfg,
                               long_boundary(p), Graft[depth], stops)
  IN  /\ toScan[p] = {}
      /\ Step(p, "scan", "persist")
      /\ \/ /\ walked.stopped = {}
            /\ index' = [index EXCEPT ![p] = assemble(p, walked.events)]
            /\ UNCHANGED superseded
         \/ \E h \in tails :
              /\ candidates[p][h].head_sha \in walked.stopped
              /\ index' = [index EXCEPT ![p] =
                   assemble(p, splice(walked.events, candidates[p][h].events))]
              /\ superseded' = [superseded EXCEPT ![p] = Supersedes(p, h)]
      /\ candidates' = [candidates EXCEPT ![p] = NoFiles]
      /\ UNCHANGED <<env, entry, run, shallow, at, ctx, toScan>>

\* --no-cache: walk the whole window and keep nothing.
PlainWalk(p) ==
  /\ Step(p, "walk", "done")
  /\ index' = [index EXCEPT ![p] = assemble(p,
       FreshLog(at[p].head, run[p].opt, ctx[p].cfg, long_boundary(p), depth))]
  /\ UNCHANGED <<env, entry, run, shallow, at, ctx, toScan, candidates, superseded>>

\* Defect: the boundary stamped on an entry is read again when it is written.
new_entry_restamped(p) ==
  [version |-> run[p].version,
   options_fingerprint |-> [fingerprint(p) EXCEPT !.depth = depth],
   head_sha |-> at[p].head,
   walk_long_boundary |-> long_boundary(p),
   truncated_shallow_clone |-> shallow[p],
   events |-> index[p].events]

\* The entry a build leaves behind: its stamp is the context's, its events are
\* the ones it has just replayed.
new_entry(p) ==
  [version |-> run[p].version,
   options_fingerprint |-> fingerprint(p),
   head_sha |-> at[p].head,
   walk_long_boundary |-> long_boundary(p),
   truncated_shallow_clone |-> shallow[p],
   events |-> index[p].events]

Persist(p) ==
  /\ Step(p, "persist", "remove")
  /\ entry' = [entry EXCEPT ![at[p].head] = new_entry(p)]
  /\ UNCHANGED <<env, local>>

\* A failed write is a warning; the build goes on as if it had succeeded.
PersistFails(p) ==
  /\ "write_error" \in Faults
  /\ Step(p, "persist", "remove")
  /\ UNCHANGED <<env, entry, local>>

\* Remove the spliced ancestor's file, whatever it holds by now.
RemoveSuperseded(p) ==
  /\ Step(p, "remove", "done")
  /\ entry' = [h \in Commit |-> IF h = superseded[p] THEN Absent ELSE entry[h]]
  /\ UNCHANGED <<env, local>>

\* The index is returned to the caller.
Return(p) ==
  /\ pc[p] = "done"
  /\ Forget(p)
  /\ UNCHANGED <<env, entry>>

\* The process is killed, or a step of the build returns an error.
Abort(p) ==
  /\ "abort" \in Faults
  /\ pc[p] # "idle"
  /\ Forget(p)
  /\ UNCHANGED <<env, entry>>

Build(p) ==
  \/ Start(p) \/ Resolve(p) \/ Bypass(p) \/ ClearRepo(p) \/ OpenContext(p)
  \/ Hit(p) \/ Miss(p) \/ LoadCandidate(p) \/ Walk(p) \/ PlainWalk(p)
  \/ Persist(p) \/ RemoveSuperseded(p) \/ Return(p)

Fault(p) == ClearRepoFails(p) \/ PersistFails(p) \/ Abort(p)

-----------------------------------------------------------------------------
\* The environment (git, the user, the clock, the file system).
Change ==
  /\ budget > 0
  /\ budget' = budget - 1
  /\ UNCHANGED <<pc, local>>

\* A commit, a checkout, a reset or a force-push.
MoveHead ==
  /\ Change
  /\ HEAD' \in Commit \ {HEAD}
  /\ UNCHANGED <<config, depth, clock, entry>>

\* An edit of the mailmap, the diff configuration or the attribute files.
EditConfig ==
  /\ Change
  /\ config' \in Config \ {config}
  /\ UNCHANGED <<HEAD, depth, clock, entry>>

\* git fetch --deepen / --unshallow: the boundary never returns to a former one.
Deepen ==
  /\ Change
  /\ depth < MaxDepth
  /\ depth' = depth + 1
  /\ UNCHANGED <<HEAD, config, clock, entry>>

\* The wall clock moves, backwards too.
SetClock ==
  /\ Change
  /\ clock' \in Clock \ {clock}
  /\ UNCHANGED <<HEAD, config, depth, entry>>

\* A file is deleted or becomes unreadable, which load treats alike.
LoseFile ==
  /\ "lost_file" \in Faults
  /\ Change
  /\ \E h \in Commit : entry' = [entry EXCEPT ![h] = Absent]
  /\ UNCHANGED <<HEAD, config, depth, clock>>

Environment == MoveHead \/ EditConfig \/ Deepen \/ SetClock \/ LoseFile

Next == Environment \/ \E p \in Proc : Build(p) \/ Fault(p)

Spec == Init /\ [][Next]_vars

\* The assumption on the users of EventuallyWarm: builds keep being run (a CI
\* job, a server), and one that is running goes on.
WarmSpec == Spec /\ \A p \in Proc : WF_vars(Build(p))

-----------------------------------------------------------------------------
Index == [events : SUBSET Event, truncated : BOOLEAN]
Run == [version : Version, opt : Option, cache : CacheConfig]
Context == [cfg : Config, depth : Depth]
Files == [Commit -> Entry \cup {Absent}]

\* Absent is none of the values it stands for the lack of.
ASSUME AbsentAssumption ==
  /\ Absent \notin Option /\ Absent \notin Run /\ Absent \notin Context
  /\ Absent \notin Index /\ Absent \notin [head : Commit, now : Seconds]

PCLabel == {"idle", "resolve", "clear", "open", "load", "scan", "walk",
            "persist", "remove", "done"}
HasContext == {"load", "scan", "walk", "persist", "remove", "done"}
HasIndex == {"persist", "remove", "done"}

\* The values of the variables, and which locals a build has at which step.
TypeOK ==
  /\ HEAD \in Commit
  /\ config \in Config
  /\ depth \in Depth
  /\ clock \in Clock
  /\ budget \in 0..Changes
  /\ entry \in Files
  /\ pc \in [Proc -> PCLabel]
  /\ run \in [Proc -> Run \cup {Absent}]
  /\ shallow \in [Proc -> BOOLEAN]
  /\ at \in [Proc -> [head : Commit, now : Seconds] \cup {Absent}]
  /\ ctx \in [Proc -> Context \cup {Absent}]
  /\ toScan \in [Proc -> SUBSET Commit]
  /\ candidates \in [Proc -> Files]
  /\ superseded \in [Proc -> Commit \cup {Absent}]
  /\ index \in [Proc -> Index \cup {Absent}]
  /\ \A p \in Proc :
       /\ pc[p] # "idle" => run[p] \in Run
       /\ pc[p] \notin {"idle", "resolve"} => at[p] \in [head : Commit, now : Seconds]
       /\ pc[p] \in HasContext => ctx[p] \in Context
       /\ pc[p] \in HasIndex => index[p] \in Index

\* The log a walk without any cache would record for the build of p.
Expected(p) ==
  FreshLog(at[p].head, run[p].opt, ctx[p].cfg, long_boundary(p), ctx[p].depth)

IndexIsFresh(p) ==
  pc[p] \in HasIndex /\ ctx[p].depth = depth => index[p].events = Expected(p)

\* "A cache hit is bit-identical to a fresh walk" (cached.rs:15): whichever path
\* a build takes, the log it replays is the log of a fresh walk under its own
\* inputs and window, unless the clone was deepened after it read them.
HitIsFresh == \A p \in Proc : IndexIsFresh(p)

\* An entry is what its stamp says: the full log of its head down to
\* walk_long_boundary under the stamped inputs, as long as the stamped shallow
\* boundary is still the repository's.
SoundAt(e, h) ==
  /\ e.head_sha = h
  /\ e.options_fingerprint.depth = depth =>
       e.events = FreshLog(h, e.options_fingerprint.opt, e.options_fingerprint.cfg,
                           e.walk_long_boundary, depth)

\* Every stored entry stays sound, whoever wrote it and in whatever order builds
\* persist, supersede and clear; none is stamped with a boundary yet to come.
EntriesSound ==
  \A h \in Commit :
    entry[h] # Absent => /\ SoundAt(entry[h], h)
                         /\ entry[h].options_fingerprint.depth <= depth

\* What a build knows: every candidate it loaded is one it may splice onto, none
\* for a full history, and the boundary it read is not one yet to come.
CandidatesSound(p) ==
  \A h \in Commit :
    candidates[p][h] # Absent => /\ pc[p] = "scan"
                                 /\ Usable(candidates[p][h], p)
                                 /\ SoundAt(candidates[p][h], h)

FullHistoryWalksAll(p) ==
  pc[p] = "scan" /\ run[p].opt.full_history
    => toScan[p] = {} /\ \A h \in Commit : candidates[p][h] = Absent

BoundaryPast(p) == pc[p] \in HasContext => ctx[p].depth <= depth

\* The inductive invariant that HitIsFresh rests on.
CacheInvariant ==
  /\ TypeOK
  /\ EntriesSound
  /\ \A p \in Proc : /\ CandidatesSound(p)
                      /\ FullHistoryWalksAll(p)
                      /\ BoundaryPast(p)
                      /\ IndexIsFresh(p)

\* An index that does not report truncated_shallow_clone holds every commit of
\* the full history's window, even when the clone is deepened during the build.
NoSilentTruncation ==
  \A p \in Proc :
    index[p] # Absent /\ ~index[p].truncated
      => index[p].events = collect_events(at[p].head, run[p].opt, ctx[p].cfg,
                                          long_boundary(p), {}, {}).events

\* The cache pays off: once the repository and the clock are at rest, the
\* builds that keep being run leave a usable entry of HEAD behind for good.
WarmFor(v, o) ==
  /\ entry[HEAD] # Absent
  /\ entry[HEAD].version = v
  /\ entry[HEAD].options_fingerprint = [opt |-> o, cfg |-> config, depth |-> depth]
  /\ entry[HEAD].truncated_shallow_clone = is_shallow
  /\ entry[HEAD].walk_long_boundary <= window_boundary(clock, o.long_window_secs)

EventuallyWarm == \A v \in Version, o \in Option : <>[]WarmFor(v, o)

\* A cached build is an uncached build: module HistoryService, whose request is
\* the options of a run and whose Deliver is a hit, a splice or a walk.
Service ==
  INSTANCE HistoryService WITH
    request <- [p \in Proc |-> IF run[p] = Absent THEN Absent ELSE run[p].opt]

ServiceSpec == Service!Spec
=============================================================================
