--------------------------- MODULE StreamingWalk ---------------------------
(***************************************************************************)
(* `bca metrics` and `bca ops` streaming one document per file to standard *)
(* output: the pool of ConcurrentRunner with act_on_file (dispatch.rs) as  *)
(* its callback, the reorder buffer of OrderedStdout, and the end of the   *)
(* walk, which decides the exit code (src/big-code-analysis-cli/src/lib.rs)*)
(*                                                                         *)
(* A tally is TRUE once it counts something.                               *)
(***************************************************************************)
EXTENDS ConcurrentRunner

VARIABLES
  next, documents, written,  \* the reorder buffer and standard output
  document,       \* document[c]: what act_on_file_dispatch gave consumer c
  rendered,       \* files whose document was rendered
  walk_failures,  \* the seed expansion could not list something
  read_failures,
  write_failures,
  rejected,       \* a write was rejected, counted or not
  pipe_closed,    \* the reader of standard output is gone
  main            \* where the main thread is

\* The emission order is the resolved file list the runner is given.
INSTANCE OrderedStdout WITH NumPaths <- NumFiles

stdout == <<next, documents, written>>
tallies == <<walk_failures, read_failures, write_failures>>
vars == <<runner, stdout, document, rendered, tallies, rejected, pipe_closed, main>>

Pending == "pending"

Init ==
  /\ RunnerInit
  /\ OrderedInit
  /\ document = [c \in Consumer |-> Pending]
  /\ rendered = {}
  /\ walk_failures \in BOOLEAN
  /\ read_failures = FALSE /\ write_failures = FALSE
  /\ rejected = FALSE
  /\ pipe_closed = FALSE
  /\ main = "run"

-----------------------------------------------------------------------------
\* Once the reader is gone every write is rejected.
Attempt(outcome) ==
  /\ pipe_closed => written' = written /\ outcome # "error"
  /\ pipe_closed' = (pipe_closed \/ outcome = "broken_pipe")
  /\ rejected' = (rejected \/ outcome # "ok")

\* Defect: the writer is flushed when it is dropped, which discards the error.
note_flush_on_drop(outcome) == UNCHANGED write_failures

\* note_write_failure: a closed pipe is routine.
note_write_failure(outcome) ==
  write_failures' = (write_failures \/ outcome = "error")

\* act_on_file_dispatch: the file is read, parsed and rendered.
Dispatch(c) ==
  /\ state[c] = "busy"
  /\ document[c] = Pending
  /\ \/ /\ document' = [document EXCEPT ![c] = "document"]
        /\ rendered' = rendered \cup {job[c]}
        /\ UNCHANGED <<read_failures, write_failures>>
     \* Skipped: empty, generated, unknown language, no metrics.
     \/ /\ document' = [document EXCEPT ![c] = "none"]
        /\ UNCHANGED <<rendered, read_failures, write_failures>>
     \* The file cannot be read.
     \/ /\ document' = [document EXCEPT ![c] = "error"]
        /\ read_failures' = TRUE
        /\ UNCHANGED <<rendered, write_failures>>
     \* It was read, and dispatch_action failed: its result is not emitted.
     \/ /\ document' = [document EXCEPT ![c] = "error"]
        /\ write_failures' = TRUE
        /\ UNCHANGED <<rendered, read_failures>>
  /\ UNCHANGED <<runner, stdout, walk_failures, rejected, pipe_closed, main>>

\* Defect: the error of the dispatch hides that of the release.
Release_untallied(c) ==
  /\ document[c] # Pending
  /\ Finish(c)
  /\ \E outcome \in Outcome :
       /\ release(job[c], IF document[c] = "error" THEN "none" ELSE document[c], outcome)
       /\ Attempt(outcome)
       /\ IF document[c] = "error" THEN UNCHANGED write_failures ELSE note_write_failure(outcome)
  /\ document' = [document EXCEPT ![c] = Pending]
  /\ UNCHANGED <<rendered, walk_failures, read_failures, main>>

\* The end of act_on_file: every path out of the dispatch releases the slot.
Release(c) ==
  /\ document[c] # Pending
  /\ Finish(c)
  /\ \E outcome \in Outcome :
       /\ release(job[c], IF document[c] = "error" THEN "none" ELSE document[c], outcome)
       /\ Attempt(outcome)
       /\ note_write_failure(outcome)
  /\ document' = [document EXCEPT ![c] = Pending]
  /\ UNCHANGED <<rendered, walk_failures, read_failures, main>>

\* A worker panics while it analyzes a file: its slot is never released.
WorkerPanics(c) ==
  /\ document[c] = Pending
  /\ Panic(c)
  /\ UNCHANGED <<stdout, document, rendered, tallies, rejected, pipe_closed, main>>

\* The steps of the pool that run no callback.
Run ==
  /\ Caller \/ SpawnFails \/ \E c \in Consumer : Receive(c) \/ Disconnected(c)
  /\ UNCHANGED <<stdout, document, rendered, tallies, rejected, pipe_closed, main>>

\* Defect: the failure of the pool is reported first.
Flush_after_outcome ==
  /\ main = "run"
  /\ caller = "returned"
  /\ main' = "flushed"
  /\ \E outcome \in Outcome :
       /\ IF result = "Ok" THEN flush_remaining(outcome) ELSE outcome = "ok" /\ UNCHANGED stdout
       /\ Attempt(outcome)
       /\ note_write_failure(outcome)
  /\ UNCHANGED <<runner, document, rendered, walk_failures, read_failures>>

\* flush_ordered_stdout: what waits behind a slot that was never released.
Flush ==
  /\ main = "run"
  /\ caller = "returned"
  /\ main' = "flushed"
  /\ \E outcome \in Outcome :
       /\ flush_remaining(outcome)
       /\ Attempt(outcome)
       /\ note_write_failure(outcome)
  /\ UNCHANGED <<runner, document, rendered, walk_failures, read_failures>>

\* enforce_complete_walk lets the walk pass when nothing was tallied.
enforce_complete_walk == ~walk_failures /\ ~read_failures /\ ~write_failures

\* The runner's failure ends the process first.
Exit ==
  /\ main = "flushed"
  /\ main' = IF result = "Ok" /\ enforce_complete_walk THEN "exit 0" ELSE "exit 1"
  /\ UNCHANGED <<runner, stdout, document, rendered, tallies, rejected, pipe_closed>>

Next ==
  \/ Run \/ Flush \/ Exit
  \/ \E c \in Consumer : Dispatch(c) \/ Release(c) \/ WorkerPanics(c)

Spec == Init /\ [][Next]_vars

-----------------------------------------------------------------------------
\* The values of the variables, and the buffer's own invariant: nothing is
\* buffered below `next` or at it, and what was taken was released.
TypeOK ==
  /\ RunnerTypeOK
  /\ next \in 0..NumFiles
  /\ documents \in [Index -> Buffered]
  /\ \A k \in 0..next : k \in Index => documents[k] = "absent"
  /\ written \subseteq rendered
  /\ rendered \subseteq Index
  /\ document \in [Consumer -> {Pending, "document", "none", "error"}]
  /\ \A c \in Consumer : document[c] # Pending => state[c] = "busy"
  /\ <<walk_failures, read_failures, write_failures>> \in BOOLEAN \X BOOLEAN \X BOOLEAN
  /\ rejected \in BOOLEAN /\ pipe_closed \in BOOLEAN
  /\ main \in {"run", "flushed", "exit 0", "exit 1"}

\* The documents on standard output are in walk order, whichever worker
\* finishes first, panics or fails (ordered_stdout.rs:9-12).
WalkOrder ==
  [][\A f \in written' \ written, g \in written : g < f]_vars

\* A slot that is never released delays the documents behind it and loses none
\* (ordered_stdout.rs:21-26): unless a write was rejected, every document that
\* was rendered is on standard output when the process exits.
LateNotLost ==
  main \in {"exit 0", "exit 1"} /\ ~rejected => written = rendered

\* A document that is gone from the buffer is accounted for: if one was rendered
\* and never written, then the write that lost it was tallied or the reader had
\* closed the pipe, though the file whose release wrote it failed for a reason of
\* its own (act_on_file, dispatch.rs:126-134).
LossIsTallied ==
  main \in {"exit 0", "exit 1"} /\ written # rendered => write_failures \/ pipe_closed

\* Exit code 0 means a complete result (enforce_complete_walk): every file was
\* handled and, unless the reader closed the pipe, every document is out.
ExitZeroIsComplete ==
  main = "exit 0" => /\ handled = File
                     /\ pipe_closed \/ written = rendered
=============================================================================
