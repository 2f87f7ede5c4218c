# A TLA+ model of big-code-analysis

`big-code-analysis` computes source-code metrics (complexity, size, Halstead,
maintainability, ...) and change-history metrics for many languages. It is a
Rust library with a command line (`bca`), a REST server and Python bindings.
Most of the code is a function from a syntax tree to numbers. This directory
models the parts that are more than that: where processes, threads or requests
share state, where work is cached and reused, where something can fail half-way,
and where one pass over a tree, a graph, a log or a text carries state that a
later step relies on.

Paths below are relative to the repository root.

## 1. Inventory

### 1.1 Modelled

| Component | Code | State | Operations |
|---|---|---|---|
| History-cache builds | `src/vcs/git/cached.rs`, `src/vcs/git/repo.rs` | per build: shallow flag, resolved tip and `now`, walk context (input digests), candidates, the index, the entry to remove | `build_cached`: open, resolve, clear, open context, pure hit, miss, load candidates, walk and splice, persist, remove the superseded entry |
| History walk and replay window | `src/vcs/git/history.rs`, `src/vcs/replay.rs`, `src/vcs/options.rs` | the commit graph, committer times, the shallow boundary | `collect_events`, `process_commit`, `window_boundary`, `incremental_events`, `prune_and_dedup` |
| Rename replay | `src/vcs/replay.rs`, `src/vcs/git/history.rs` | the alias map, the accumulators per path | `replay`, `resolve_alias`, `fold_commit`; `diff_collect` for the events |
| Cache files | `src/vcs/cache.rs` | a directory shared by threads, processes, containers; a process-wide counter for temporary names | `write_atomic`, `load`, `load_compatible`, `clear_repo`, removal of an entry |
| Concurrent runner | `src/concurrent_files.rs` | an unbounded channel, N consumer threads, the first error | `run`: spawn, dispatch (`explore`), poison, join; `consumer` |
| Ordered stdout | `big-code-analysis-cli/src/ordered_stdout.rs` | `next`, a map of buffered documents, one mutex | `release`, `take_ready`, `flush_remaining`, `take_all`, `write_documents` |
| Streaming walk | `big-code-analysis-cli/src/dispatch.rs`, `big-code-analysis-cli/src/lib.rs` | the walk, read and write failure tallies | `act_on_file`, `flush_ordered_stdout`, `enforce_complete_walk` |
| Parse admission | `big-code-analysis-web/src/web/server.rs` | a fair semaphore, the count of orphaned blocking tasks, a deadline | `run_parse`: two checks, acquire, spawn, join or time out, orphan, give the permit back |
| Include graph | `big-code-analysis-ast/src/preproc.rs` | a graph whose node indices are used again, the map from path to node, the members of every collapsed cycle, the closures | `fix_includes`: build, collapse each cycle, close each node, record; `visible_macros` |
| Metric walker | `src/spaces/compute.rs`, `src/spaces.rs`, `big-code-analysis-ast/src/checker.rs` and `checker/rust.rs`, `src/metrics/cognitive.rs` and `cognitive/rust.rs` | the node stack, the ancestors, the open spaces, the verdict about a run of attributes, the nesting map | `metrics_inner`: finalize, prune, open a space, apply a suppression marker, compute, hand the nesting down |
| Macro masking | `big-code-analysis-ast/src/c_macro.rs`, `parser.rs` | the state of a byte scanner: literal kind, current name, number | `replace`: one step per byte or token; `get_fake_code` |
| Raw-string scanners | `tree-sitter-mozcpp/src/scanner.c`, `tree-sitter-ccomment/src/scanner.cc`, `tree-sitter-preproc/src/scanner.cc` | a delimiter that tree-sitter stores and restores between calls | `scan`, `serialize`, `deserialize` |

How they interact. The CLI resolves a file list and hands it to the concurrent
runner with `act_on_file` as the callback. The callback runs on the consumers
and, for `bca metrics` and `bca ops` on standard output, releases each result
into the ordered-stdout buffer they share. After the joins the main thread
flushes the buffer, then decides the exit code from the runner's result and the
tallies. `bca vcs`, the REST server and the Python bindings build history
indexes; concurrent builds meet only in the cache directory and in the
repository they read. The server runs every analysis through `run_parse` on
tokio's blocking pool. A `bca` run over C-family files first preprocesses all of
them and closes their includes (`fix_includes`); every later parse masks the
macros its file sees (`visible_macros`, `replace`) and gives the masked text to
tree-sitter, whose external scanner finds the raw strings; the metric walker
then runs over the tree. `bca vcs` replays the log that the history walk or the
cache delivered.

What is hard in them:

- *history cache*: HEAD, the mailmap, the git configuration, the shallow
  boundary and the clock may change between any two steps of a build; another
  build may replace or remove every file it is about to read; a log that was
  spliced is spliced again, so that a mistake would never go away; a failed
  write is only a warning. It is correct when a cached build delivers what a
  build without a cache could have delivered.
- *cache files*: a crash or an error between any two system calls, the directory
  removed under a writer, names that collide. Correct when an entry appears,
  changes and vanishes in one step.
- *runner*: a consumer may panic, a spawn may fail. Correct when `run` returns
  and does not report success when a file was lost.
- *ordered stdout and the streaming walk*: workers finish in any order; one that
  panics never releases its slot; the reader may close the pipe; the write that
  fails may belong to another file than the one that caused it. Correct when
  the output is in walk order, nothing is lost, and exit code 0 means complete.
- *admission*: a burst passes the first check on a count that is stale by the
  time a permit is free; a parse may hang for ever; a client may leave at any
  `await`. Correct when permits are conserved, orphans are bounded, clients are
  answered and the server recovers.
- *include graph*: the cycles are computed once and replaced one after the
  other in a graph that changes under them, and node indices are handed out
  again. Correct when a parse sees the macros of the files it includes,
  directly or not, whatever the order.
- *metric walker*: a space is closed only when a node outside it is popped; a
  verdict about one attribute answers for the nodes behind it; an entry of the
  nesting map must be freed by whoever reads it last, a pruned node included.
  Correct when every space counts what stands in it, once.
- *rename replay*: aliases are learnt while the log is folded from the newest
  commit back, and carry no time. Correct when a change is credited to the path
  its file carries at the target.
- *macro masking and raw strings*: one scanner state too long or too short shifts
  everything behind it; mask and parser find the end of a raw string each in its
  own way. Correct when exactly the names the preprocessor would expand are
  masked and the two agree about literals.

### 1.2 Not modelled

- *Metric formulas* (`src/metrics`), *languages and syntax trees*
  (`big-code-analysis-ast`, `enums`), *output formats* (`src/output`,
  `src/wire.rs`, the report renderers) and the request and response encoding of
  the server: functions from data to data, without shared state or protocol. Of
  the metrics only the nesting that cognitive complexity inherits is modelled,
  because it travels between nodes.
- *Baseline match* (`big-code-analysis-cli/src/baseline.rs`): which record covers
  a violation is a sequential choice over one sorted list, with its ties broken in
  a fixed order.
- *Batch repository cache* (`big-code-analysis-py/src/batch.rs`): one call owns
  it and nothing else writes it.
- *Walk seeds* (`walk.rs`, `walk_seed.rs`) delegate to the `ignore` crate; the
  model starts from the list they produce. *Trend, JIT and blame* read the
  repository sequentially.
- *The scanners of mozjs and tcl* keep nothing between calls.
- *Vendored and generated C*: more than 99 % of the C in the repository are the
  parser tables that tree-sitter generates (`tree-sitter-*/src/parser.c`) and
  example inputs (`tree-sitter-*/examples`). They hold no logic of this program,
  so that a model of the program covers hardly any of those lines. The
  hand-written C that keeps state (`scanner.c`, `scanner.cc`) is modelled.
- `xtask`, `fuzz` and `utils` are build-time code.

Parts of modelled components that are left out are named with the module in
section 3.

## 2. Plan

Done, in this order: HistoryWalk, HistoryCache, HistoryService (abstract),
CacheFile, EntryStore (abstract), the HistoryCache proofs, ConcurrentRunner,
OrderedStdout, StreamingWalk, ParseAdmission and its proofs, IncludeGraph,
SpaceStack, RenameReplay, MacroMask, RawString.

Then the proofs of the other history-cache properties and of its refinement, of
CacheFile, ConcurrentRunner, StreamingWalk, IncludeGraph, RenameReplay and
SpaceStack.

Left for later: `MaskIsExpansion` and the raw-string scanners, whose proofs are
inductions over the text; and the aggregate (`--output`) channel
next to StreamingWalk.

## 3. The modules

| Module | Models |
|---|---|
| `HistoryWalk` | the commit graph, the walk gix makes over it, `collect_events`, the splice and the window, as operators on sets |
| `HistoryService` | abstract: a build settles on a tip, reads its inputs once and delivers the log of a fresh walk, as if there were no cache |
| `HistoryCache` | `build_cached` by concurrent processes over a shared directory and a moving repository |
| `MCHistoryCache` | a repository of four commits with a merge, its option and configuration sets |
| `HistoryCacheProofs` | theorems about HistoryWalk and HistoryCache |
| `EntryStore` | abstract: a directory whose entries change in one step |
| `CacheFile`, `MCCacheFile` | names, inodes, open files; `write_atomic`, `load`, `clear_repo` call by call |
| `CacheFileProofs` | theorems about it |
| `ConcurrentRunner` | `run`, `explore`, `consumer` |
| `ConcurrentRunnerProofs` | theorems about it |
| `OrderedStdout` | the reorder buffer, as operations other modules use |
| `StreamingWalk` | composes the two: `act_on_file` as the callback, the flush, the exit code |
| `StreamingWalkProofs` | theorems about it; builds on those about the runner |
| `ParseAdmission` | `run_parse` by concurrent requests |
| `ParseAdmissionProofs` | theorems about it |
| `IncludeGraph` | `fix_includes`, against reachability |
| `IncludeGraphProofs` | theorems about it |
| `SpaceStack` | `metrics_inner` over one syntax tree, against definitions on the tree |
| `SpaceStackProofs` | theorems about it |
| `RenameReplay` | the events of a growing repository, and their replay |
| `RenameReplayProofs` | theorems about it |
| `MacroMask` | the masking of macro names, against the tokens of the text |
| `RawString`, `MCRawString` | the external scanners on the masked text; composes with MacroMask |

### HistoryWalk and HistoryCache

A commit has parents (all of them, or the first only), a committer time, and is
recorded or dropped depending on options and configuration. `Visited` is what
gix's rev-walk visits: the least set that contains the tip and, for each of its
commits that is neither a shallow boundary nor a stop commit, the parents that
are not older than the cutoff. A log is a set of events, because the commits
determine their order and no log holds a commit twice. An event carries the
recipe it was recorded under (options, configuration, and whether its diff base
was cut off) in place of participants, churn and renames: two events are equal
in the code exactly when commit and recipe are.

`HistoryCache` has one variable per local of `build_cached` and one action per
step between which something else can happen. Each read of the repository is a
step of its own: the shallow flag (`Start`), the tip and the clock (`Resolve`),
the inputs (`OpenContext`), each candidate file (`LoadCandidate`), the boundary
that gix reads again (`Walk`). `HEAD`, `config`, `depth`, `clock` belong to the
environment; `entry[h]` is the file `h.json`. The constant `Faults` says which of
a kill, a failed write, a failed clear and a lost file may happen.

Abstractions: the fingerprint is collision-free; a walk reads the object
database in one step (commits are immutable) together with `.git/shallow`; the
shallow boundary never returns to a former one; what an `--as-of` before the tip
computes is left out, since it neither reads nor writes the cache (`Bypass`);
repositories share no directory, because the directory is named by the
repository's path.

### CacheFile

A name leads to an inode, an open file is its inode. A write goes on to whatever
name the inode has by then, a reader keeps the inode it opened, an inode that is
neither linked nor open is freed. `fs::write` is two calls, `remove_dir_all` one
per file. `Crash` stops every thread of a process and a later process may have
the same pid. `seen` is an auxiliary variable: the values the file has had since
the load began, for the refinement of `EntryStore`.

### ConcurrentRunner, OrderedStdout, StreamingWalk

The caller's four loops (spawn, explore, poison, join) are `Iterate` and
`Leave`; a callback returns (`Finish`) or panics (`Panic`), and a panicking
consumer takes no pill. `ConcurrentErrors::Sender` has no transition: the caller
keeps a receiver of its own, so a send cannot fail. `StreamingWalk` refines the
callback: `Dispatch` (read, skip, render or fail), then `Release`, under the
mutex one step. A batch of writes may succeed, fail after a prefix, or meet a
closed pipe, which is counted as no failure. `Flush` and `Exit` are the main
thread's.

`ExitZeroIsComplete` cannot see every loss: a file that fails on its own makes the
exit code 1 whatever else happens. `LossIsTallied` closes that gap. It says that
the write set off by such a file's release is still tallied when it fails.

Standard output is the set of files whose document it has received, because one
batch is written in index order and `WalkOrder` speaks about the batches. The
tallies are kept as "something was counted", which is all the exit code asks.
The write-through of an index that was already drained past
(`ordered_stdout.rs`, `release`) is in the model but no run reaches it: only the
flush moves past a slot that was not released, and it follows the joins.

### ParseAdmission

A request is at `acquire`, `admitted` (permit held, second check ahead),
`passed`, `await`, `elapsed` (the timeout fired), `orphaned` (counted, permit not
yet returned) or `over`. Counting and returning the permit are two steps, as in
the code, and so are the second check and the spawn. A client may leave where its
handler is suspended, which drops the handler: the permit goes back, the task
runs on and is not counted (`LeaveTask`). So the cap bounds the tasks that timed
out, not all tasks that run; the model shows what is bounded.

### IncludeGraph

One action per step: build the graph, collapse one component, close one node,
record. A hash map or the library chooses the component, the vacant index and
the node; the model leaves every such choice open. `direct` is what the includes
of a file resolve to (`resolve_single_include`); how a target is guessed from a
name, and how directives and macros are collected from the syntax, is left out.
A file stands for its macros. `compute_include_closures` falls back to a walk per
file when the graph still has a cycle; `NoCycleLeft` shows that it never does, so
the walk is not modelled.

### SpaceStack

The input is any ordered tree of `N` nodes, each of some kind; kinds stand for
what the Rust checker asks of a node (opens a space, is an attribute that marks
a test, may be pruned, is a comment with a directive, ...). One action per popped
node: `Visit` or `Prune`, then `Finish`. A space counts the nodes it was given
and what cognitive complexity charges for each. The reference definitions say
the same of the tree alone: which nodes go, which spaces are open around a node,
what a branch pays. Left out: the other metrics, inner attributes
(`#![cfg(test)]`), doc comments as members of a run, the comment flag of a
subtree, and the rows a function's name writes.

### RenameReplay

A repository grows by one change per commit; a file has an identity that survives
renames and is carried in the log as a witness only. The replay sees paths. A
commit by bots, or a merge, is dropped with its rename edges (`process_commit`);
the run `renames` allows that for every kind of commit but a rename. Both ends of
`resolve_alias` are in the model, the loop check and the bound on the length of a
chain (10 000 in the code, three in the run, where four paths make three renames
the most). Commits behind the long window, which `replay` skips, are left out of
the log.

### MacroMask and RawString

A text is a sequence of fragments, each a few bytes that open, close, escape or
continue something. One action per step of `replace`. What the parser is given is
then scanned for raw strings. Tree-sitter itself is external: it restores the
scanner before every call, saves it after a call that recognised its token, and
asks for delimiter, content and delimiter. Where both tokens are valid (error
recovery) the scanner refuses, which is the literal being given up. The
reference cuts the text into tokens as the language does. The prefix `R` stands
for the five raw-string prefixes, and the buffer for the delimiter holds three
bytes instead of sixteen: the parser's scanner
refuses a delimiter of three, and one of two can be
met in part before it is met whole.

## 4. The runs

States are distinct states; the longest run takes up to four minutes, most a
minute or less.

| Run | Bounds | Shows |
|---|---|---|
| `builds` | 2 processes, 3 commits in a line, 1 configuration, 2 depths, 2 clock values, 2 changes; 877 k states | `EntriesSound`, `ServiceSpec`: interleaved builds leave only sound entries and implement HistoryService; `EventuallyWarm` |
| `history` | 1 process, 4 commits with a merge, 2 configurations, 3 depths, 3 option sets, cache on or off, cleared or not, all faults, 2 changes; 1.2 M states | `TypeOK`, `HitIsFresh`, `NoSilentTruncation` |
| `files` | 2 threads of one process and 1 of another, 2 writes each process, crashes that reset the counter, 1 head, 1 reader, 3 inodes; 846 k states | `TypeOK`, `EntriesComplete`, `NoTornRead`, `StoreSpec`: CacheFile implements EntryStore |
| `runner` | 3 consumers, 4 files, verification on; 15 k states | `RunnerTypeOK`, `OkMeansAllHandled`, `PoolEnds` |
| `streaming` | 3 consumers, 4 files; 909 k states | `TypeOK`, `WalkOrder`, `LateNotLost`, `LossIsTallied`, `ExitZeroIsComplete` |
| `admission` | 4 requests, 2 permits, cap 1, with and without a deadline; 310 k states | `TypeOK`, `SoftCap`, `EventuallyAnswered`, `Recovers` |
| `includes` | every include graph of 4 files: one may be missing, one may include itself, one is not UTF-8; 71 k states | `Lockstep`, `CollapseKeepsReach`, `NoCycleLeft`, `MacrosAreThoseIncluded`, `LeftOutIsReported` |
| `spaces` | every tree of 5 nodes of 9 kinds, test code pruned or not; 1.2 M states | `OpenSpacesFollowChain`, `ExactlyTestCodeIsPruned`, `ClosedOnceInsideOut`, `CountedWhereItStands`, `MarkersLandInnermost`, `NestingIsInherited` |
| `renames` | 6 commits, 2 files, 4 paths of which none is used twice, chains followed for 3 steps, deleted files included or not; 5.6 M states | `HomedAtTarget` |
| `masking` | every text of up to 4 of 21 fragments, 2 macros; 2.1 M states | `MaskIsExpansion`, `LiteralEndsAtItsDelimiter`, `ScannersAgree`, `MaskAgreesWithParser` |
| `skew`, `reuse` | small variants of the above | the first two disagreements of section 6 |

Why the bounds are enough. *History*: an entry can be wrong only relative to its
own stamp, and a wrong splice takes two builds and one or two changes between
them (grow, then rewind; edit, then commit; deepen during a build); a process
repeats builds without bound, so any number of splices on splices is reached,
and every combination of two changes is. Four commits hold a branch, a merge and
a boundary in the middle. *Builds*: the run is about interleaving, so it takes
the smaller repository; what configurations, faults and deeper boundaries do to
one build is run `history`, and `EntriesSound` and `HitIsFresh` are proved for
every number of processes. *Files*: a collision needs two writers and one reader;
entries of different heads share no name, so that one head is enough. *Streaming*: three workers
let one hold the slot that is next, one panic and one run ahead; with four files
there is one to dispatch after that. *Admission*: four requests
against `cap + permits - 1 = 2` leave two that must be refused. *Includes*: four
files make two cycles that an edge joins, or a cycle with a file before and one
behind it, and an index is used again as soon as the second cycle is collapsed.
*Spaces*: five nodes hold an attribute, a second one, the item they decorate, a
node in it and a sibling behind it; or three nested spaces and a node that closes
two of them at once. *Renames*: six commits are a chain of two renames of one file
with an edit before, between and behind. *Masking*: four fragments are two
literals, or one that is given up and one behind it with a macro name between.

### Fairness

- `WarmSpec`: builds keep being run and one that runs goes on. This is an
  assumption on the users of the cache (CI jobs, a server), not on the code. No
  fault happens and the repository comes to rest because `Changes` is finite.
- `FairRunnerSpec`: the operating system schedules the threads and the analysis
  of a file ends. A panic and a failed spawn are not fair: they need not happen.
- `FairSpec` (ParseAdmission): tokio polls a handler that can go on, fires its
  timer, and runs the spawned waiter. Nothing makes a parse end, and no client is
  made to leave. `Recovers` assumes in its premise that parses come to an end.

`CHECK_DEADLOCK FALSE` is set where the system really stops: the pool has
returned, the walk has exited, every request is answered.

## 5. What is proved

TLAPS proves these for every value of the constants.

| Theorem | Statement | Assumptions |
|---|---|---|
| `TypeCorrect` | `Spec => []TypeOK` (HistoryCache) | `WalkAssumption`, `CacheAssumption` |
| `EntriesStaySound` | `Spec => []EntriesSound` | the same, `MonotoneTime` |
| `CachedBuildsAreFresh` | `Spec => []HitIsFresh` | the same, `MonotoneTime` |
| `TruncationIsReported` | `Spec => []NoSilentTruncation` | the same, `MonotoneTime`, `CompleteStays` |
| `CachedBuildsAreBuilds` | `Spec => ServiceSpec` | the same, and `AbsentAssumption` |
| `FileTypes` | `Spec => []TypeOK` (CacheFile) | `NamesApart` |
| `EntriesStayComplete` | `Spec => []EntriesComplete` | `NamesApart`, `DistinctPids` |
| `NoLoadIsTorn` | `Spec => []NoTornRead` | the same |
| `FilesAreAStore` | `Spec => StoreSpec` | the same |
| `RunnerTypes` | `RunnerSpec => []RunnerTypeOK` | `RunnerAssumption` |
| `SuccessIsComplete` | `RunnerSpec => []OkMeansAllHandled` | `RunnerAssumption` |
| `WalkIsARun` | `Spec => RunnerSpec` (StreamingWalk) | none |
| `WalkTypes` | `Spec => []TypeOK` | `RunnerAssumption` |
| `DocumentsInOrder` | `Spec => WalkOrder` (about steps) | `RunnerAssumption` |
| `LateIsWritten` | `Spec => []LateNotLost` | `RunnerAssumption` |
| `LossesAreTallied` | `Spec => []LossIsTallied` | `RunnerAssumption` |
| `CleanExitIsComplete` | `Spec => []ExitZeroIsComplete` | `RunnerAssumption`, `~verify_paths` |
| `PermitsConserved` | `Spec => []TypeOK` (ParseAdmission) | `AdmissionAssumption` |
| `OrphansCapped` | `Spec => []SoftCap` | `AdmissionAssumption` |
| `GraphInLockstep` | `Spec => []Lockstep` | `IncludeAssumption` |
| `CollapseIsExact` | `Spec => []CollapseKeepsReach` | `IncludeAssumption` |
| `CollapseIsComplete` | `Spec => []NoCycleLeft` | `IncludeAssumption` |
| `MacrosAreRight` | `Spec => []MacrosAreThoseIncluded` | `IncludeAssumption` |
| `NothingLeftOutSilently` | `Spec => []LeftOutIsReported` | `IncludeAssumption` |
| `WalkIsRight` | `Spec => []WalkInv` (SpaceStack) | `SpaceAssumption` |
| `SpacesFollow` | `Spec => []OpenSpacesFollowChain` | `SpaceAssumption` |
| `NestingIsRight` | `Spec => []NestingIsInherited` | `SpaceAssumption` |
| `TestCodeGoes` | `Spec => ExactlyTestCodeIsPruned` (about steps) | `SpaceAssumption` |
| `SpacesCloseOnce` | `Spec => []ClosedOnceInsideOut` | `SpaceAssumption` |
| `NodesCountWhereTheyStand` | `Spec => []CountedWhereItStands` | `SpaceAssumption` |
| `MarkersSilenceInnermost` | `Spec => []MarkersLandInnermost` | `SpaceAssumption` |
| `ChangesFollowTheFile` | `Spec /\ []FewRenames => []HomedAtTarget` | `ReplayAssumption`, `~PathsReused`, `"rename" \notin Droppable` |

What the assumptions that are not mere types of constants say:

- `MonotoneTime`: no commit is older than its parent. Without it the cutoff of
  the traversal hides commits; run `skew` shows the property fail.
- `CompleteStays`: a clone without a shallow boundary does not get one when it is
  deepened. The environment of the model only ever deepens the clone; a
  `git fetch --depth` that cuts a complete clone during a build is not in the
  model, and the code could not see it, because it reads the flag once.
- `DistinctPids`: the processes that share a cache directory have different
  pids, which `write_atomic` relies on (section 6, number 5).
- `SpaceAssumption`: a tree has a node, and only its root can be a unit
  (`source_file`, `translation_unit`, ...), as in the grammars.
- `NamesApart`, `AbsentAssumption`: the model's null values, names of entries and
  names of temporary files differ.
- `~verify_paths`: the command line runs the pool `.without_path_verification()`
  (`big-code-analysis-cli/src/lib.rs:497`); with verification a path may be
  skipped, which is no failure of the walk.
- `~PathsReused` and the condition on `Droppable`: run `reuse` shows the property
  fail without the first; the second is number 6 of section 6.
- `FewRenames`: no file was renamed more often than `MAX_ALIAS_DEPTH`, the number
  of steps `resolve_alias` follows a chain.

*The history cache.* `HitIsFresh` is not inductive: a hit is fresh because the
entry it replays is sound, and the entry is sound because the build that wrote
it was fresh. `CacheInvariant` closes the circle. It says that every stored entry
is the log its stamp claims as long as the stamped boundary is current
(`EntriesSound`), that a build's candidates are such entries and usable
(`CandidatesSound`), that a full-history build takes none
(`FullHistoryWalksAll`), that no boundary read lies in the future
(`BoundaryPast`), and that an index in hand is fresh (`IndexIsFresh`). The steps
that make an index rest on three facts about walks, proved first, from the
definition of `Visited` as a least set: replaying an entry with a longer
reach gives the log of the shorter window (`ReplayOfEntry`), a walk's own log
loses nothing when it is pruned (`ReplayOfWalk`), and in a first-parent history a
walk that stops at a cached commit continues with the log cached there
(`ReplayOfSplice`).

`NoSilentTruncation` relates three readings of the shallow boundary: the flag
read when a build opens, the boundary its walk reads later, and the one stamped
on an entry by another build. `WholeInvariant` adds to `CacheInvariant` that a
build that found the clone complete still finds it so (`StaysComplete`), that an
entry that does not report a shallow clone holds the whole log of its window
whatever the boundary is now (`EntriesWhole`, and the same of the candidates), and
that an index in hand is whole or says so (`IndexIsWhole`). The refinement of
`HistoryService` follows: in the abstract system a build that has resolved and
read its inputs delivers a log, and a hit, a splice and a walk are each that one
step.

*Cache files.* That a file holds a complete entry is a fact about inodes:
`FileInvariant` says that two writes under way have different temporary names,
that there are no hard links, that the inode being written is reached by its
writer alone under that name or, after a clear, under none, and that a reader has
an entry open that never again has a temporary name. So what is renamed is
complete, and what a reader has open does not change. The refinement maps the
entry names to the files of the store; `seen` bounds what a load may return.

*Runner and walk.* Each file is in one slot of the channel, or with one consumer,
or done with, and none is lost but in a panic. Why success means that the channel
is empty is a count: as many pills are sent as consumers are joined, each that
exits took one, and the pills stand at the end of the channel; when the first is
taken nothing else is left. The walk is a run of the pool (`WalkIsARun`), so this
holds of it, and its own invariant relates the buffer to it: below `next`
everything was released, above it is buffered exactly what was, and what is
written lies below.

*Admission.* `SoftCap` is not inductive, because a task that passed the second
check may still time out. `AdmissionInvariant` charges those tasks in advance: the
count plus the requests that passed the check and are not over stays within
cap + permits - 1. Only `Pass` adds to that sum, and there the count is below the
cap while at most all permits are held. That the permits are exactly the holders
is part of it, and so is that the count is the number of waiters, which is why it
never goes below zero.

*Include graph.* The invariant says which node stands for which path and that the
nodes reach each other just as their files include each other (`NodesRight`,
`ReachRight`), and that the components that wait are the cycles of the graph as it
is now (`CyclesRight`). A collapse is a contraction of one strongly connected
component: the lemmas on `ReachedFrom`, a least closed set, show that a
contraction keeps reachability between all other vertices and merges no two
components, which is why cycles computed at the start may be replaced one after
the other. The closures follow in topological order, and each is the union over
what a node reaches.

*Rename replay.* The invariant of the history says that no path ever had two
files, that a path is renamed away once and after every change that touched it,
and that the paths a file had are its last one and those it was renamed from. When
an event is folded the aliases are the edges of that event and of every newer one
(`LeadsHome`). That the search of `resolve_alias` then ends at the file's last path
is `ChainEnds`: the edges get newer along a chain, so that no path comes twice,
and there are no more former paths than a chain is followed. This needs induction
over a chain, and that the recursive function in `resolve_alias` exists at all
(`Iterates`); both come from the principle of the least number, as facts about
sets, because the library's induction theorems take an operator as a parameter.

*Metric walker.* Four invariants, each on top of the one before. `WalkInv` is about
the stack: every node that waits has on the chain, up to its depth, its ancestors,
and among the open spaces, up to its level, the spaces around it; the nodes wait
in source order, the first on top. That is why closing by the difference of levels
closes exactly the spaces that do not enclose the node in hand, and why
`OpenSpacesFollowChain` holds. `NestRight` adds the nesting map: its keys are the
nodes that wait and no other (a pruned node frees its slot), and an entry is the
nesting its node stands in. `TestsRight` is about the verdict in hand: it belongs
to an attribute row that is done or answers for nothing, nothing waits below test
code, and every run that is under way has the verdict of a row in it. A verdict
answers by byte position, so that its lemmas count leaves (`BytesGrow`,
`BytesNest`); that the item of a run and no node in its body is answered for is
`AnsweredIs`. `SpacesRight` says what the spaces hold while others inside them are
open: an open space counts what is inside it and in no open space further in, once
(`Holds`); a closed one is whole (`Parted`), for the walk has left it
(`SettledClosing`); and what was opened is open or was finalised once, before all
spaces around it (`Ended`). When the walk ends every space is whole, which is what
the other properties say. Trees enter as sets of ancestors, and induction over them
is again the principle of the least number.

Model-checked only: the properties of MacroMask and RawString (inductions over
the text, with a scanner state at every byte), and all liveness, which like `ENABLED` is out of the prover's reach. No
module here has a `RECURSIVE` operator.

## 6. Disagreements with the documentation

1. *Clock skew* (`skew`). `cached.rs:15` says a cache hit is bit-identical to a
   fresh walk. With committer times that are not monotone the traversal's cutoff
   hides newer commits behind an older one, and which ones depends on where a
   walk starts and stops.
2. *A path that is used again* (`reuse`). `replay.rs:50` says that
   `resolve_alias` follows a chain to the path the file carries at the target.
   Aliases carry no time: when `b` was renamed to `a` after the file at `a` had
   been renamed to `c`, the chain leads an old change of `b` through `a` on to
   `c`, and the wrong one of two existing files is credited with it.

These were seen while modelling; no run here is about them:

3. *The ancestor is removed after a failed write.* `cached.rs:203` says the
   ancestor is wholly covered by the new entry; when `persist` failed there is no
   new entry. The cost is a longer walk, not a wrong result.
4. *Runs with other options evict each other.* `cache.rs:501` says nothing
   deletes an incompatible entry; the entry of the same head is replaced.
5. *Equal pids.* `cache.rs:545` relies on the pid for the uniqueness of temporary
   names; two containers that share a cache volume may have the same one.
   Run `files` assumes one pid namespace (`DistinctPids`). A partial entry is
   discarded as corrupt by whoever reads it.
6. *A rename in a commit that the walk drops* (bots only, or a merge) loses its
   edge, so that older changes stay with the old path; that is why `renames`
   lets every commit but a rename be dropped. A file that is renamed back to a
   former name closes a cycle, which `resolve_alias` leaves where it started.
7. *A macro name inside a number.* `c_macro.rs` starts a name inside a numeric
   token (`1.0f` with a macro `f`, `10L` with a macro `L`) and masks it; the
   preprocessor would not expand it. `MaskIsExpansion` leaves such texts aside.
8. *A delimiter of sixteen characters.* `scanner.c:10` cites the limit of the
   language, sixteen; `scanner.c:44` refuses it because the length is checked
   before the parenthesis, while `c_macro.rs` accepts it. The properties speak of
   shorter delimiters. `scanner.c:42` says a delimiter holds no parenthesis, but
   `)` is accepted.

Two remarks that are not disagreements: the comment in `run_parse` calls the
second check the hard gate while the documentation of `run_with_timeout` calls
the cap soft; the bound that holds is cap + permits - 1. And
`ConcurrentErrors::Sender` cannot be returned by `run`.
