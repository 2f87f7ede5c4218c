--------------------------- MODULE OrderedStdout ---------------------------
(***************************************************************************)
(* The reorder buffer that makes a parallel walk write its documents in    *)
(* walk order (src/big-code-analysis-cli/src/ordered_stdout.rs).  Every    *)
(* operation runs under the mutex of `pending`, so each is one step.       *)
(*                                                                         *)
(* Standard output is the set of files whose document it has received:     *)
(* the documents of one batch are written in index order, and WalkOrder    *)
(* (module StreamingWalk) says that batches are.                           *)
(***************************************************************************)
EXTENDS Integers

CONSTANTS NumPaths  \* length of the resolved file list

VARIABLES
  next,       \* the index whose document is written next
  documents,  \* documents[k]: what is buffered for the file at index k
  written     \* files whose document reached standard output

Index == 0..NumPaths - 1

\* Some(document), None (a released slot that writes nothing), or no entry.
Buffered == {"document", "none", "absent"}

OrderedInit ==
  /\ next = 0
  /\ documents = [k \in Index |-> "absent"]
  /\ written = {}

\* What write_documents may report: success, an error, or a closed pipe.
Outcome == {"ok", "error", "broken_pipe"}

\* Write the documents of a batch in index order.  A failure lets a prefix of
\* them through; a batch without documents cannot fail.
write_documents(batch, outcome) ==
  IF outcome = "ok"
  THEN written' = written \cup batch
  ELSE /\ batch # {}
       /\ \E k \in Index : written' = written \cup {f \in batch : f < k}

\* Defect: a gap does not hold back what is behind it.
take_ready_past_gaps(buffer) == {k \in Index : buffer[k] # "absent"}

\* From `next` upwards, what is buffered without a gap.
take_ready(buffer) == {k \in Index : k >= next /\ \A j \in next..k : buffer[j] # "absent"}

\* Everything buffered, gaps included.
take_all(buffer) == {k \in Index : buffer[k] # "absent"}

Take(buffer, taken, outcome) ==
  /\ documents' = [k \in Index |-> IF k \in taken THEN "absent" ELSE buffer[k]]
  /\ next' \in next..NumPaths
  /\ IF taken = {} THEN next' = next
     ELSE next' - 1 \in taken /\ \A k \in taken : k < next'
  /\ write_documents({k \in taken : buffer[k] = "document"}, outcome)

\* Defect: a document whose turn has come is buffered all the same.
release_undrained(index, document, outcome) ==
  IF index < next
  THEN /\ write_documents(IF document = "document" THEN {index} ELSE {}, outcome)
       /\ UNCHANGED <<next, documents>>
  ELSE Take([documents EXCEPT ![index] = document], {}, outcome)

\* Release a slot: write it and what waited for it.  An index already drained
\* past is written straight through.
release(index, document, outcome) ==
  IF index < next
  THEN /\ write_documents(IF document = "document" THEN {index} ELSE {}, outcome)
       /\ UNCHANGED <<next, documents>>
  ELSE LET buffer == [documents EXCEPT ![index] = document]
       IN  Take(buffer, take_ready(buffer), outcome)

flush_remaining(outcome) == Take(documents, take_all(documents), outcome)
=============================================================================
