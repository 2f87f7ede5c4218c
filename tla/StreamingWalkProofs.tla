------------------------ MODULE StreamingWalkProofs ------------------------
(***************************************************************************)
(* Proofs about StreamingWalk: with any number of workers and files, the   *)
(* documents leave in walk order, a slot that is never released loses none *)
(* of them, and exit code 0 means that nothing is missing.                 *)
(***************************************************************************)
EXTENDS StreamingWalk, ConcurrentRunnerProofs

\* A rendered document is its worker's or was released; a worker has one just
\* when it rendered the file it has.
RenderedRight ==
  /\ \A f \in rendered : f \in handled \/ \E c \in Consumer : job[c] = f
  /\ \A c \in Consumer : job[c] # None => (job[c] \in rendered <=> document[c] = "document")

\* Until the flush, what is below `next` was released, what is buffered above
\* is what was released, and it is a document just when one was rendered.
BufferRight ==
  main = "run" =>
    /\ \A k \in Index : k < next => k \in handled
    /\ \A k \in Index : k >= next =>
         /\ documents[k] # "absent" <=> k \in handled
         /\ documents[k] = "document" <=> k \in handled \cap rendered

\* What is written is below `next`, and all of it as long as no write is
\* rejected.
WrittenRight ==
  /\ \A f \in written : f < next
  /\ ~rejected => \A f \in rendered : f < next => f \in written

\* The main thread goes on when `run` has returned, and after the flush the
\* buffer is behind it.
MainRight ==
  /\ main # "run" => /\ caller = "returned"
                     /\ \A f \in rendered : f < next
  /\ main = "exit 0" => result = "Ok" /\ ~read_failures /\ ~write_failures

\* A rejected write was counted, unless the pipe was closed.
RejectedRight == rejected => pipe_closed \/ write_failures

WalkInvariant ==
  /\ RunnerInvariant
  /\ TypeOK
  /\ RenderedRight
  /\ BufferRight
  /\ WrittenRight
  /\ MainRight
  /\ RejectedRight

-----------------------------------------------------------------------------
\* A step of the walk is one of the pool, or leaves the pool alone.
LEMMA WalkRuns ==
  ASSUME [Next]_vars
  PROVE  [RunnerNext]_runner
BY DEF Next, vars, Run, Flush, Exit, Dispatch, Release, WorkerPanics, RunnerNext, Consume

\* What reaches standard output is of the batch, and all of it is if that works.
LEMMA Writes ==
  ASSUME NEW batch, NEW outcome, write_documents(batch, outcome)
  PROVE  /\ written \subseteq written' /\ written' \subseteq written \cup batch
         /\ outcome = "ok" => written' = written \cup batch
BY DEF write_documents

\* The number before another.
LEMMA Before == \A m \in Int : \A S : m - 1 \in S => \E n \in S : n + 1 = m
<1> TAKE m \in Int
<1> TAKE S
<1> HAVE m - 1 \in S
<1>1. (m - 1) + 1 = m
  OBVIOUS
<1> QED
  BY <1>1

\* A release takes what stands in an unbroken row from `next`, up to the next gap.
LEMMA TakesRow ==
  ASSUME next \in 0..NumFiles, NEW buffer, NEW outcome, Take(buffer, take_ready(buffer), outcome)
  PROVE  /\ next' \in next..NumFiles
         /\ documents' = [k \in Index |-> IF next <= k /\ k < next' THEN "absent" ELSE buffer[k]]
         /\ \A k \in Index : next <= k /\ k < next' => buffer[k] # "absent"
         /\ next' \in Index => buffer[next'] = "absent"
         /\ write_documents({k \in Index : next <= k /\ k < next' /\ buffer[k] = "document"}, outcome)
<1> DEFINE taken == take_ready(buffer)
           row == {k \in Index : next <= k /\ k < next'}
<1> USE RunnerAssumption
<1>1. /\ next' \in next..NumFiles
      /\ documents' = [k \in Index |-> IF k \in taken THEN "absent" ELSE buffer[k]]
      /\ write_documents({k \in taken : buffer[k] = "document"}, outcome)
      /\ IF taken = {} THEN next' = next
         ELSE next' - 1 \in taken /\ \A k \in taken : k < next'
  BY DEF Take
<1>2. \A k \in Index : k \in taken <=> k >= next /\ \A j \in next..k : buffer[j] # "absent"
  BY DEF take_ready
<1>3. taken \subseteq Index /\ Index \subseteq Int
  BY DEF take_ready, Index
<1> HIDE DEF taken
<1>4. taken \subseteq row
  BY <1>1, <1>2, <1>3
<1>5. ASSUME NEW k \in row PROVE k \in taken
  <2>1. k \in Index /\ k \in Int /\ next \in Int /\ next' \in Int /\ next <= k /\ k < next'
    BY <1>1, <1>3
  <2>2. PICK last \in taken : last + 1 = next'
    <3>1. next' - 1 \in taken
      BY <1>1, <2>1
    <3> QED
      BY <2>1, <3>1, Before
  <2>3. last \in Int /\ k <= last /\ \A j \in next..last : buffer[j] # "absent"
    <3>1. last \in Int /\ last \in Index
      BY <1>3
    <3>2. k <= last
      BY <2>1, <2>2, <3>1
    <3>3. \A j \in next..last : buffer[j] # "absent"
      BY <1>2, <3>1
    <3> QED
      BY <3>1, <3>2, <3>3
  <2>4. \A j \in next..k : buffer[j] # "absent"
    BY <2>1, <2>3
  <2> QED
    BY <1>2, <2>1, <2>4
<1>6. taken = row
  BY <1>4, <1>5
<1>7. ASSUME next' \in Index PROVE buffer[next'] = "absent"
  <2>1. next' \notin taken
    BY <1>1, <1>6
  <2>2. PICK j \in next..next' : buffer[j] = "absent"
    BY <1>1, <1>2, <1>7, <2>1
  <2>3. j = next'
    <3> SUFFICES ASSUME j # next' PROVE FALSE
      OBVIOUS
    <3>1. j \in row
      BY <1>1, <1>3, <1>7, <2>2 DEF Index
    <3>2. \A n \in next..j : buffer[n] # "absent"
      BY <1>2, <1>5, <3>1
    <3> QED
      BY <1>1, <2>2, <3>2
  <2> QED
    BY <2>2, <2>3
<1>8. \A k \in Index : next <= k /\ k < next' => buffer[k] # "absent"
  BY <1>1, <1>2, <1>3, <1>5
<1> QED
  BY <1>1, <1>6, <1>7, <1>8

\* The flush takes all there is.
LEMMA TakesRest ==
  ASSUME next \in 0..NumFiles, documents \in [Index -> Buffered], NEW outcome, flush_remaining(outcome)
  PROVE  /\ next' \in next..NumFiles
         /\ documents' = [k \in Index |-> "absent"]
         /\ \A k \in Index : documents[k] # "absent" => k < next'
         /\ write_documents({k \in Index : documents[k] = "document"}, outcome)
<1>1. take_all(documents) = {k \in Index : documents[k] # "absent"}
  BY DEF take_all
<1>2. {k \in take_all(documents) : documents[k] = "document"} = {k \in Index : documents[k] = "document"}
  BY <1>1
<1>3. documents' = [k \in Index |-> IF k \in take_all(documents) THEN "absent" ELSE documents[k]]
  BY DEF flush_remaining, Take
<1>4. documents' = [k \in Index |-> "absent"]
  BY <1>1, <1>3
<1> QED
  BY <1>1, <1>2, <1>4 DEF flush_remaining, Take

\* When `run` has returned no consumer has a file.
LEMMA NoneBusy ==
  ASSUME RunnerInvariant, caller = "returned"
  PROVE  \A c \in Consumer : state[c] # "busy" /\ job[c] = None
<1>1. \A c \in Consumer : state[c] # "busy"
  BY DEF RunnerInvariant, Aftermath, Ended
<1> QED
  BY <1>1 DEF RunnerInvariant, RunnerTypeOK

-----------------------------------------------------------------------------
\* What the pool does between two callbacks.
LEMMA RunMoves ==
  ASSUME RunnerInvariant, Run
  PROVE  /\ handled' = handled
         /\ \A c \in Consumer : state[c] = "busy" => state'[c] = "busy" /\ job'[c] = job[c]
         /\ \A c \in Consumer : \/ job'[c] = job[c]
                                \/ /\ job[c] = None /\ job'[c] \in Unfinished
                                   /\ \A d \in Consumer : job[d] # job'[c]
         /\ caller = "returned" => caller' = "returned" /\ result' = result
<1> USE RunnerAssumption DEF RunnerInvariant, RunnerTypeOK
<1>1. ASSUME NEW c \in Consumer, Receive(c)
      PROVE  /\ handled' = handled /\ caller' = caller /\ result' = result
             /\ \A d \in Consumer : state[d] = "busy" => state'[d] = "busy" /\ job'[d] = job[d]
             /\ \A d \in Consumer : d # c => job'[d] = job[d]
             /\ \/ job'[c] = job[c]
                \/ /\ job[c] = None /\ job'[c] \in Unfinished
                   /\ \A d \in Consumer : job[d] # job'[c]
  <2>1. /\ handled' = handled /\ caller' = caller /\ result' = result
        /\ state[c] = "recv" /\ channel # <<>> /\ channel' = Tail(channel)
        /\ IF Head(channel) = Pill THEN job' = job ELSE job' = [job EXCEPT ![c] = Head(channel)]
    BY <1>1 DEF Receive, caller_vars
  <2>2. \A d \in Consumer : d # c => job'[d] = job[d] /\ state'[d] = state[d]
    BY <1>1 DEF Receive
  <2>3. job[c] = None
    BY <2>1
  <2>4. 1 \in Slot /\ Head(channel) = channel[1]
    BY <2>1, Receives
  <2>5. ASSUME Head(channel) # Pill
        PROVE job'[c] \in Unfinished /\ \A d \in Consumer : job[d] # job'[c]
    <3>1. job'[c] = channel[1] /\ channel[1] \in Unfinished
      BY <2>1, <2>4, <2>5 DEF FilesOnce, QueuedOnce
    <3>2. channel[1] # None
      BY <3>1, Kinds DEF Unfinished
    <3> QED
      BY <2>4, <3>1, <3>2 DEF FilesOnce, TakenOnce
  <2> QED
    BY <2>1, <2>2, <2>3, <2>5
<1>2. ASSUME NEW c \in Consumer, Disconnected(c)
      PROVE  /\ handled' = handled /\ job' = job /\ caller' = caller /\ result' = result
             /\ \A d \in Consumer : state[d] = "busy" => state'[d] = "busy"
  BY <1>2 DEF Disconnected, caller_vars
<1>3. ASSUME Caller \/ SpawnFails
      PROVE  /\ handled' = handled /\ job' = job /\ caller # "returned"
             /\ \A d \in Consumer : state[d] = "busy" => state'[d] = "busy"
  <2>1. CASE Spawn
    <3>1. state[i] = "unborn" /\ state' = [state EXCEPT ![i] = "recv"]
      BY <2>1, Loops DEF Spawn, Iterate, Progress, Consumer
    <3> QED
      BY <2>1, <3>1 DEF Spawn, Iterate
  <2>2. CASE \E loop \in Loop : Leave(loop)
    BY <2>2 DEF Leave, Loop, pool
  <2>3. CASE SendFile \/ SkipFile \/ Poison \/ Join \/ SpawnFails
    BY <2>3 DEF SendFile, SkipFile, Poison, Join, SpawnFails, Iterate, pool
  <2> QED
    BY <1>3, <2>1, <2>2, <2>3 DEF Caller
<1> QED
  BY <1>1, <1>2, <1>3 DEF Run

\* A step of the pool leaves the documents to their workers.
LEMMA RunStep ==
  ASSUME WalkInvariant, RunnerInvariant', Run
  PROVE  WalkInvariant'
<1> USE DEF WalkInvariant
<1>1. /\ handled' = handled
      /\ \A c \in Consumer : state[c] = "busy" => state'[c] = "busy" /\ job'[c] = job[c]
      /\ \A c \in Consumer : \/ job'[c] = job[c]
                             \/ /\ job[c] = None /\ job'[c] \in Unfinished
                                /\ \A d \in Consumer : job[d] # job'[c]
      /\ caller = "returned" => caller' = "returned" /\ result' = result
  BY RunMoves
<1>2. UNCHANGED <<stdout, document, rendered, tallies, rejected, pipe_closed, main>>
  BY DEF Run
<1>3. TypeOK'
  BY <1>1, <1>2 DEF TypeOK, RunnerInvariant, stdout, tallies
<1>4. RenderedRight'
  <2>1. \A f \in rendered : f # None
    <3>1. rendered \subseteq File
      BY DEF TypeOK, Index, File
    <3>2. None \notin File
      BY Kinds DEF RunnerInvariant
    <3> QED
      BY <3>1, <3>2
  <2>2. ASSUME NEW f \in rendered PROVE f \in handled \/ \E c \in Consumer : job'[c] = f
    BY <1>1, <2>1, <2>2 DEF RenderedRight
  <2>3. ASSUME NEW c \in Consumer, job'[c] # None
        PROVE job'[c] \in rendered <=> document[c] = "document"
    <3>1. CASE job'[c] = job[c]
      BY <2>3, <3>1 DEF RenderedRight
    <3>2. CASE job'[c] # job[c]
      <4>1. job[c] = None /\ job'[c] \in Unfinished /\ \A d \in Consumer : job[d] # job'[c]
        BY <1>1, <3>2
      <4>2. job'[c] \notin rendered
        BY <4>1 DEF RenderedRight, Unfinished
      <4>3. document[c] # "document"
        BY <4>1 DEF TypeOK, Pending, RunnerInvariant, RunnerTypeOK
      <4> QED
        BY <4>2, <4>3
    <3> QED
      BY <3>1, <3>2
  <2> QED
    BY <1>1, <1>2, <2>2, <2>3 DEF RenderedRight
<1>5. BufferRight' /\ WrittenRight' /\ RejectedRight'
  BY <1>1, <1>2 DEF BufferRight, WrittenRight, RejectedRight, stdout, tallies
<1>6. MainRight'
  BY <1>1, <1>2 DEF MainRight, stdout, tallies
<1> QED
  BY <1>3, <1>4, <1>5, <1>6

\* A document is rendered before its slot is released.
LEMMA DispatchStep ==
  ASSUME WalkInvariant, RunnerInvariant', NEW c \in Consumer, Dispatch(c)
  PROVE  WalkInvariant'
<1> USE DEF WalkInvariant
<1>1. /\ UNCHANGED <<runner, stdout, walk_failures, rejected, pipe_closed, main>>
      /\ state[c] = "busy" /\ document[c] = Pending
  BY DEF Dispatch
<1>2. /\ job[c] \in File /\ job[c] # None /\ job[c] \notin handled
      /\ \A d \in Consumer : job[d] = job[c] => d = c
  BY <1>1, Kinds DEF RunnerInvariant, RunnerTypeOK, FilesOnce, TakenOnce, Unfinished
<1>3. main = "run"
  BY <1>1, NoneBusy DEF MainRight
<1>4. ~(job[c] < next)
  BY <1>2, <1>3 DEF BufferRight, Index, File
<1>5. \E d \in {"document", "none", "error"} :
         /\ document' = [document EXCEPT ![c] = d]
         /\ rendered' = IF d = "document" THEN rendered \cup {job[c]} ELSE rendered
  BY DEF Dispatch
<1>6. /\ read_failures' \in BOOLEAN /\ write_failures' \in BOOLEAN
      /\ write_failures => write_failures'
  <2>1. read_failures \in BOOLEAN /\ write_failures \in BOOLEAN
    BY DEF TypeOK
  <2>2. /\ read_failures' = read_failures \/ read_failures' = TRUE
        /\ write_failures' = write_failures \/ write_failures' = TRUE
    BY DEF Dispatch
  <2>3. read_failures' \in BOOLEAN /\ write_failures' \in BOOLEAN
    BY <2>1, <2>2
  <2>4. write_failures => write_failures'
    BY <2>2, Zenon
  <2> QED
    BY <2>3, <2>4
<1>7. PICK d \in {"document", "none", "error"} :
         /\ document' = [document EXCEPT ![c] = d]
         /\ rendered' = IF d = "document" THEN rendered \cup {job[c]} ELSE rendered
  BY <1>5
<1>8. /\ document'[c] = d /\ \A e \in Consumer : e # c => document'[e] = document[e]
  BY <1>7 DEF TypeOK
<1>9. UNCHANGED <<caller, result, state, job, handled, next, documents, written, walk_failures, rejected, pipe_closed, main>>
  BY <1>1 DEF runner, caller_vars, pool, stdout
<1>10. TypeOK'
  BY <1>1, <1>2, <1>6, <1>7, <1>9 DEF TypeOK, RunnerInvariant, Pending, Index, File
<1>11. RenderedRight'
  BY <1>1, <1>2, <1>7, <1>8, <1>9 DEF RenderedRight, Pending
<1>12. BufferRight'
  BY <1>2, <1>7, <1>9 DEF BufferRight
<1>13. WrittenRight'
  BY <1>4, <1>7, <1>9 DEF WrittenRight
<1>14. MainRight'
  BY <1>3, <1>9 DEF MainRight
<1>15. RejectedRight'
  BY <1>6, <1>9 DEF RejectedRight
<1> QED
  BY <1>10, <1>11, <1>12, <1>13, <1>14, <1>15

\* What a write's outcome leaves in the tallies.
LEMMA Tallied ==
  ASSUME TypeOK, RejectedRight, NEW outcome \in Outcome,
         Attempt(outcome), note_write_failure(outcome)
  PROVE  /\ rejected' \in BOOLEAN /\ pipe_closed' \in BOOLEAN /\ write_failures' \in BOOLEAN
         /\ ~rejected' => ~rejected /\ outcome = "ok"
         /\ RejectedRight'
<1>1. /\ rejected' = (rejected \/ outcome # "ok")
      /\ pipe_closed' = (pipe_closed \/ outcome = "broken_pipe")
      /\ write_failures' = (write_failures \/ outcome = "error")
  BY DEF Attempt, note_write_failure
<1>2. outcome # "ok" => outcome = "broken_pipe" \/ outcome = "error"
  BY DEF Outcome
<1>3. rejected' \in BOOLEAN /\ pipe_closed' \in BOOLEAN /\ write_failures' \in BOOLEAN
  BY <1>1
<1>4. ~rejected' => ~rejected /\ outcome = "ok"
  BY <1>1, Zenon
<1>5. RejectedRight'
  BY <1>1, <1>2, Zenon DEF RejectedRight
<1> QED
  BY <1>3, <1>4, <1>5

\* A released slot is written with what waited for it, or waits.
LEMMA ReleaseStep ==
  ASSUME WalkInvariant, RunnerInvariant', NEW c \in Consumer, Release(c)
  PROVE  WalkInvariant'
<1> DEFINE f == job[c]
           d == IF document[c] = "error" THEN "none" ELSE document[c]
           buffer == [documents EXCEPT ![f] = d]
<1> USE DEF WalkInvariant
<1>1. /\ state[c] = "busy" /\ document[c] # Pending
      /\ state' = [state EXCEPT ![c] = "recv"]
      /\ job' = [job EXCEPT ![c] = None]
      /\ handled' = handled \cup {f}
      /\ document' = [document EXCEPT ![c] = Pending]
      /\ UNCHANGED <<caller, result, rendered, walk_failures, read_failures, main>>
  BY DEF Release, Finish, caller_vars
<1>2. /\ f \in Index /\ f # None /\ f \notin handled
      /\ \A e \in Consumer : job[e] = f => e = c
  BY <1>1, Kinds DEF RunnerInvariant, RunnerTypeOK, FilesOnce, TakenOnce, Unfinished, Index, File
<1>3. main = "run"
  BY <1>1, NoneBusy DEF MainRight
<1>4. /\ next \in 0..NumFiles /\ documents \in [Index -> Buffered] /\ Index \subseteq Int
      /\ \A k \in Index : k < next => k \in handled
      /\ \A k \in Index : k >= next => /\ documents[k] # "absent" <=> k \in handled
                                       /\ documents[k] = "document" <=> k \in handled \cap rendered
  BY <1>3 DEF TypeOK, BufferRight, Index
<1>5. ~(f < next) /\ f >= next
  <2>1. f \in Int /\ next \in Int
    <3>1. f \in Int
      BY <1>2 DEF Index
    <3>2. next \in Int
      BY RunnerAssumption, <1>4
    <3> QED
      BY <3>1, <3>2
  <2>2. ~(f < next)
    BY <1>2, <1>4
  <2> HIDE DEF f
  <2> QED
    BY <2>1, <2>2
<1>6. d \in {"document", "none"} /\ (d = "document" <=> f \in rendered)
  <2>1. document[c] \in {"document", "none", "error"}
    BY <1>1 DEF TypeOK
  <2>2. f \in rendered <=> document[c] = "document"
    BY <1>2 DEF RenderedRight
  <2> QED
    BY <2>1, <2>2
<1>7. PICK outcome \in Outcome : /\ Take(buffer, take_ready(buffer), outcome)
                                 /\ Attempt(outcome) /\ note_write_failure(outcome)
  BY <1>5 DEF Release, release
<1>8. /\ buffer[f] = d
      /\ \A k \in Index : k # f => buffer[k] = documents[k]
      /\ \A k \in Index : buffer[k] \in Buffered
  BY <1>2, <1>4, <1>6 DEF Buffered
<1> HIDE DEF f, d, buffer
<1>9. \A k \in Index : k >= next => /\ buffer[k] # "absent" <=> k \in handled'
                                    /\ buffer[k] = "document" <=> k \in handled' \cap rendered
  BY <1>1, <1>4, <1>5, <1>6, <1>8
<1>10. /\ next' \in next..NumFiles
       /\ documents' = [k \in Index |-> IF next <= k /\ k < next' THEN "absent" ELSE buffer[k]]
       /\ \A k \in Index : next <= k /\ k < next' => buffer[k] # "absent"
       /\ next' \in Index => buffer[next'] = "absent"
       /\ write_documents({k \in Index : next <= k /\ k < next' /\ buffer[k] = "document"}, outcome)
  BY <1>4, <1>7, TakesRow
<1> DEFINE batch == {k \in Index : next <= k /\ k < next' /\ buffer[k] = "document"}
<1>11. /\ written \subseteq written' /\ written' \subseteq written \cup batch
       /\ outcome = "ok" => written' = written \cup batch
  BY <1>10, Writes
<1>12. \A k \in Index : next <= k /\ k < next' => k \in handled' /\ (k \in rendered <=> k \in batch)
  BY <1>4, <1>9, <1>10
<1>13. batch \subseteq rendered /\ \A k \in batch : k < next'
  BY <1>4, <1>9
<1> HIDE DEF batch
<1>14. /\ rejected' \in BOOLEAN /\ pipe_closed' \in BOOLEAN /\ write_failures' \in BOOLEAN
       /\ ~rejected' => ~rejected /\ outcome = "ok"
       /\ RejectedRight'
  BY <1>7, Tallied
<1>15. TypeOK'
  <2>1. documents' \in [Index -> Buffered]
    BY <1>8, <1>10 DEF Buffered
  <2>2. ASSUME NEW k \in 0..next', k \in Index PROVE documents'[k] = "absent"
    <3>1. CASE k < next
      <4>1. k \in 0..next
        BY <1>4, <2>2, <3>1
      <4>2. documents[k] = "absent"
        BY <2>2, <4>1 DEF TypeOK
      <4>3. k # f
        BY <1>5, <3>1
      <4>4. ~(next <= k)
        BY <1>4, <2>2, <3>1
      <4> QED
        BY <1>8, <1>10, <2>2, <4>2, <4>3, <4>4
    <3>2. CASE k = next'
      BY <1>4, <1>10, <2>2, <3>2
    <3>3. CASE next <= k /\ k < next'
      BY <1>10, <2>2, <3>3
    <3> QED
      BY <1>4, <1>10, <2>2, <3>1, <3>2, <3>3
  <2>3. next' \in 0..NumFiles
    BY <1>4, <1>10
  <2>4. written' \subseteq rendered
    BY <1>11, <1>13 DEF TypeOK
  <2>5. /\ document' \in [Consumer -> {Pending, "document", "none", "error"}]
        /\ \A e \in Consumer : document'[e] # Pending => state'[e] = "busy"
    BY <1>1 DEF TypeOK, RunnerInvariant, RunnerTypeOK
  <2>6. <<walk_failures', read_failures', write_failures'>> \in BOOLEAN \X BOOLEAN \X BOOLEAN
    <3>1. walk_failures \in BOOLEAN /\ read_failures \in BOOLEAN
      BY DEF TypeOK
    <3> QED
      BY <1>1, <1>14, <3>1
  <2> QED
    BY <1>1, <1>14, <2>1, <2>2, <2>3, <2>4, <2>5, <2>6 DEF TypeOK, RunnerInvariant
<1>16. RenderedRight'
  <2>1. /\ job'[c] = None
        /\ \A e \in Consumer : e # c => job'[e] = job[e] /\ document'[e] = document[e]
    BY <1>1 DEF TypeOK, RunnerInvariant, RunnerTypeOK
  <2>2. ASSUME NEW g \in rendered PROVE g \in handled' \/ \E e \in Consumer : job'[e] = g
    BY <1>1, <2>1, <2>2 DEF RenderedRight, f
  <2> QED
    BY <1>1, <2>1, <2>2 DEF RenderedRight
<1>17. BufferRight'
  <2>1. ASSUME NEW k \in Index, k < next' PROVE k \in handled'
    BY <1>1, <1>4, <1>10, <1>12, <2>1
  <2>2. ASSUME NEW k \in Index, k >= next'
        PROVE  documents'[k] = buffer[k] /\ k >= next
    BY <1>4, <1>10, <2>2
  <2> QED
    BY <1>1, <1>9, <2>1, <2>2 DEF BufferRight
<1>18. WrittenRight'
  <2>1. \A g \in written' : g < next'
    <3>1. rendered \subseteq Index
      BY DEF TypeOK
    <3>2. \A g \in written : g < next /\ g \in Index
      BY <3>1 DEF WrittenRight, TypeOK
    <3>3. \A g \in Index : g < next => g < next'
      BY <1>4, <1>10
    <3> QED
      BY <1>11, <1>13, <3>2, <3>3
  <2>2. ASSUME ~rejected', NEW g \in rendered, g < next' PROVE g \in written'
    <3>1. g \in Index
      BY DEF TypeOK
    <3>2. CASE g < next
      BY <1>11, <1>14, <2>2, <3>2 DEF WrittenRight
    <3>3. CASE next <= g
      BY <1>11, <1>12, <1>14, <2>2, <3>1, <3>3
    <3> QED
      BY <1>4, <3>1, <3>2, <3>3
  <2> QED
    BY <1>1, <2>1, <2>2 DEF WrittenRight
<1>19. MainRight'
  BY <1>1, <1>3 DEF MainRight
<1> QED
  BY <1>14, <1>15, <1>16, <1>17, <1>18, <1>19

\* The slot of a worker that panics stays, and there is no document for it.
LEMMA PanicStep ==
  ASSUME WalkInvariant, RunnerInvariant', NEW c \in Consumer, WorkerPanics(c)
  PROVE  WalkInvariant'
<1> USE DEF WalkInvariant
<1>1. /\ state[c] = "busy" /\ document[c] = Pending
      /\ state' = [state EXCEPT ![c] = "panicked"]
      /\ job' = [job EXCEPT ![c] = None]
      /\ UNCHANGED <<caller, result, handled>>
      /\ UNCHANGED <<next, documents, written, document, rendered, tallies, rejected, pipe_closed, main>>
  BY DEF WorkerPanics, Panic, caller_vars, stdout
<1>2. /\ job[c] # None /\ job'[c] = None
      /\ \A e \in Consumer : e # c => job'[e] = job[e] /\ state'[e] = state[e]
  BY <1>1 DEF RunnerInvariant, RunnerTypeOK
<1>3. job[c] \notin rendered
  BY <1>1, <1>2 DEF RenderedRight, Pending
<1>4. TypeOK'
  BY <1>1, <1>2 DEF TypeOK, RunnerInvariant, tallies
<1>5. RenderedRight'
  BY <1>1, <1>2, <1>3 DEF RenderedRight
<1>6. BufferRight' /\ WrittenRight' /\ RejectedRight'
  BY <1>1 DEF BufferRight, WrittenRight, RejectedRight, tallies
<1>7. MainRight'
  BY <1>1 DEF MainRight, tallies
<1> QED
  BY <1>4, <1>5, <1>6, <1>7

\* The flush writes every document that waits.
LEMMA FlushStep ==
  ASSUME WalkInvariant, RunnerInvariant', Flush
  PROVE  WalkInvariant'
<1> USE DEF WalkInvariant
<1>1. /\ main = "run" /\ main' = "flushed" /\ caller = "returned"
      /\ UNCHANGED <<caller, result, state, job, handled, document, rendered, walk_failures, read_failures>>
  BY DEF Flush, runner, caller_vars, pool
<1>2. PICK outcome \in Outcome : /\ flush_remaining(outcome)
                                 /\ Attempt(outcome) /\ note_write_failure(outcome)
  BY DEF Flush
<1>3. /\ next \in 0..NumFiles /\ documents \in [Index -> Buffered] /\ Index \subseteq Int
      /\ rendered \subseteq Index /\ written \subseteq rendered
      /\ \A k \in 0..next : k \in Index => documents[k] = "absent"
  <2>1. Index \subseteq Int
    BY DEF Index
  <2> QED
    BY <2>1 DEF TypeOK
<1>4. rendered \subseteq handled
  <2>1. rendered \subseteq File /\ None \notin File
    BY <1>3, Kinds DEF RunnerInvariant, Index, File
  <2>2. \A c \in Consumer : job[c] = None
    BY <1>1, NoneBusy
  <2> QED
    BY <2>1, <2>2 DEF RenderedRight
<1>5. \A k \in Index : k >= next => (documents[k] = "document" <=> k \in rendered)
  BY <1>1, <1>4 DEF BufferRight
<1> DEFINE batch == {k \in Index : documents[k] = "document"}
<1>6. /\ next' \in next..NumFiles
      /\ documents' = [k \in Index |-> "absent"]
      /\ \A k \in Index : documents[k] # "absent" => k < next'
      /\ write_documents(batch, outcome)
  BY <1>2, <1>3, TakesRest
<1>7. \A k \in Index : k < next => k \in 0..next /\ k < next'
  BY <1>3, <1>6 DEF Index
<1>8. \A k \in Index : k < next \/ k >= next
  BY <1>3
<1>9. batch \subseteq rendered /\ \A k \in batch : k < next'
  BY <1>3, <1>5, <1>6, <1>7, <1>8
<1>10. \A k \in rendered : k < next' /\ (k < next \/ k \in batch)
  BY <1>3, <1>5, <1>6, <1>7, <1>8
<1>11. /\ written \subseteq written' /\ written' \subseteq written \cup batch
       /\ outcome = "ok" => written' = written \cup batch
  BY <1>6, Writes
<1> HIDE DEF batch
<1>12. /\ rejected' \in BOOLEAN /\ pipe_closed' \in BOOLEAN /\ write_failures' \in BOOLEAN
       /\ ~rejected' => ~rejected /\ outcome = "ok"
       /\ RejectedRight'
  BY <1>2, Tallied
<1>13. TypeOK'
  <2>1. documents' \in [Index -> Buffered] /\ \A k \in Index : documents'[k] = "absent"
    BY <1>6 DEF Buffered
  <2>2. next' \in 0..NumFiles
    BY <1>3, <1>6
  <2>3. written' \subseteq rendered
    BY <1>3, <1>9, <1>11
  <2>4. walk_failures \in BOOLEAN /\ read_failures \in BOOLEAN
    BY DEF TypeOK
  <2>5. <<walk_failures', read_failures', write_failures'>> \in BOOLEAN \X BOOLEAN \X BOOLEAN
    BY <1>1, <1>12, <2>4
  <2> QED
    BY <1>1, <1>12, <2>1, <2>2, <2>3, <2>5 DEF TypeOK, RunnerInvariant
<1>14. RenderedRight'
  BY <1>1 DEF RenderedRight
<1>15. BufferRight'
  BY <1>1 DEF BufferRight
<1>16. WrittenRight'
  <2>1. \A g \in written' : g < next'
    BY <1>3, <1>9, <1>10, <1>11
  <2>2. ASSUME ~rejected', NEW g \in rendered PROVE g \in written'
    BY <1>10, <1>11, <1>12, <2>2 DEF WrittenRight
  <2> QED
    BY <1>1, <2>1, <2>2 DEF WrittenRight
<1>17. MainRight'
  BY <1>1, <1>10 DEF MainRight
<1> QED
  BY <1>12, <1>13, <1>14, <1>15, <1>16, <1>17

\* The exit code is decided once the buffer is flushed.
LEMMA ExitStep ==
  ASSUME WalkInvariant, RunnerInvariant', Exit
  PROVE  WalkInvariant'
<1> USE DEF WalkInvariant
<1>1. /\ main = "flushed" /\ main' \in {"exit 0", "exit 1"}
      /\ main' = "exit 0" => result = "Ok" /\ ~read_failures /\ ~write_failures
      /\ UNCHANGED <<caller, result, state, job, handled, next, documents, written, document,
                     rendered, tallies, rejected, pipe_closed>>
  BY DEF Exit, enforce_complete_walk, runner, caller_vars, pool, stdout
<1>2. TypeOK'
  BY <1>1 DEF TypeOK, RunnerInvariant, tallies
<1>3. RenderedRight' /\ BufferRight' /\ WrittenRight' /\ RejectedRight'
  BY <1>1 DEF RenderedRight, BufferRight, WrittenRight, RejectedRight, tallies
<1>4. MainRight'
  BY <1>1 DEF MainRight, tallies
<1> QED
  BY <1>2, <1>3, <1>4

\* Every step keeps the invariant of the streaming walk.
LEMMA WalkInvariantStep ==
  ASSUME WalkInvariant, [Next]_vars
  PROVE  WalkInvariant'
<1>1. RunnerInvariant'
  BY WalkRuns, RunnerInvariantStep DEF WalkInvariant
<1>2. ASSUME NEW c \in Consumer, Dispatch(c) \/ Release(c) \/ WorkerPanics(c) PROVE WalkInvariant'
  BY <1>1, <1>2, DispatchStep, ReleaseStep, PanicStep
<1>3. CASE Run
  BY <1>1, <1>3, RunStep
<1>4. CASE Flush
  BY <1>1, <1>4, FlushStep
<1>5. CASE Exit
  BY <1>1, <1>5, ExitStep
<1>6. CASE UNCHANGED vars
  BY <1>1, <1>6 DEF vars, WalkInvariant, TypeOK, RunnerInvariant, RenderedRight, BufferRight, WrittenRight,
                    MainRight, RejectedRight, runner, caller_vars, pool, stdout, tallies
<1> QED
  BY <1>2, <1>3, <1>4, <1>5, <1>6 DEF Next

\* The invariant holds before anything is dispatched.
LEMMA WalkInvariantInit == Init => WalkInvariant
<1> SUFFICES ASSUME Init PROVE WalkInvariant
  OBVIOUS
<1> USE DEF Init
<1>1. RunnerInvariant
  BY RunnerInvariantInit
<1>2. /\ next = 0 /\ documents = [k \in Index |-> "absent"] /\ written = {} /\ rendered = {}
      /\ main = "run" /\ handled = {} /\ rejected = FALSE
      /\ \A c \in Consumer : document[c] = Pending /\ job[c] = None /\ state[c] = "unborn"
  BY DEF OrderedInit, RunnerInit
<1>3. 0 \in 0..NumFiles /\ \A k \in Index : ~(k < 0)
  BY RunnerAssumption DEF Index
<1>4. TypeOK
  BY <1>1, <1>2, <1>3 DEF TypeOK, RunnerInvariant, Buffered
<1>5. RenderedRight /\ WrittenRight /\ MainRight /\ RejectedRight
  BY <1>2 DEF RenderedRight, WrittenRight, MainRight, RejectedRight
<1>6. BufferRight
  BY <1>2, <1>3 DEF BufferRight
<1> QED
  BY <1>1, <1>4, <1>5, <1>6 DEF WalkInvariant

\* The invariant holds of every walk.
LEMMA WalkInvariantHolds == Spec => []WalkInvariant
<1>1. WalkInvariant /\ [Next]_vars => WalkInvariant'
  BY WalkInvariantStep
<1> QED
  BY <1>1, WalkInvariantInit, PTL DEF Spec

-----------------------------------------------------------------------------
\* The walk uses the pool as the pool is specified: no step of it touches the
\* channel, the workers or the files handled but by a step of the runner.
THEOREM WalkIsARun == Spec => RunnerSpec
<1>1. Init => RunnerInit
  BY DEF Init
<1> QED
  BY <1>1, WalkRuns, PTL DEF Spec, RunnerSpec

\* The values of the variables: nothing is buffered below `next`, and what
\* reached standard output was rendered.
THEOREM WalkTypes == Spec => []TypeOK
<1>1. WalkInvariant => TypeOK
  BY DEF WalkInvariant
<1> QED
  BY <1>1, WalkInvariantHolds, PTL

\* What a step writes is not below `next`.
LEMMA WritesAhead ==
  ASSUME WalkInvariant, [Next]_vars
  PROVE  \A f \in written' \ written : f \in Index /\ next <= f
<1> USE DEF WalkInvariant
<1>1. /\ next \in 0..NumFiles /\ documents \in [Index -> Buffered]
      /\ \A k \in 0..next : k \in Index => documents[k] = "absent"
  BY DEF TypeOK
<1>2. ASSUME NEW c \in Consumer, Release(c)
      PROVE  \A f \in written' \ written : f \in Index /\ next <= f
  <2> DEFINE d == IF document[c] = "error" THEN "none" ELSE document[c]
             buffer == [documents EXCEPT ![job[c]] = d]
  <2>1. state[c] = "busy"
    BY <1>2 DEF Release, Finish
  <2>2. main = "run"
    BY <2>1, NoneBusy DEF MainRight
  <2>3. job[c] \in Index /\ job[c] \notin handled
    BY <2>1, Kinds DEF RunnerInvariant, RunnerTypeOK, FilesOnce, TakenOnce, Unfinished, Index, File
  <2>4. ~(job[c] < next)
    BY <2>2, <2>3 DEF BufferRight
  <2>5. PICK outcome \in Outcome : Take(buffer, take_ready(buffer), outcome)
    BY <1>2, <2>4 DEF Release, release
  <2> HIDE DEF buffer
  <2>6. write_documents({k \in Index : next <= k /\ k < next' /\ buffer[k] = "document"}, outcome)
    BY <1>1, <2>5, TakesRow
  <2>7. written' \subseteq written \cup {k \in Index : next <= k /\ k < next' /\ buffer[k] = "document"}
    BY <2>6, Writes
  <2> QED
    BY <2>7
<1>3. ASSUME Flush
      PROVE  \A f \in written' \ written : f \in Index /\ next <= f
  <2>1. PICK outcome \in Outcome : flush_remaining(outcome)
    BY <1>3 DEF Flush
  <2>2. write_documents({k \in Index : documents[k] = "document"}, outcome)
    BY <1>1, <2>1, TakesRest
  <2>3. written' \subseteq written \cup {k \in Index : documents[k] = "document"}
    BY <2>2, Writes
  <2>4. \A k \in Index : k \in 0..next \/ next <= k
    BY <1>1 DEF Index
  <2> QED
    BY <1>1, <2>3, <2>4
<1>4. ASSUME NEW c \in Consumer, Dispatch(c) \/ WorkerPanics(c) PROVE written' = written
  BY <1>4 DEF Dispatch, WorkerPanics, stdout
<1>5. CASE Run \/ Exit \/ UNCHANGED vars
  BY <1>5 DEF Run, Exit, vars, stdout
<1> QED
  BY <1>2, <1>3, <1>4, <1>5 DEF Next

\* The documents leave in walk order, with any number of workers: what a step
\* writes stands behind all that was written before, whichever worker finishes
\* first, panics or fails.
THEOREM DocumentsInOrder == Spec => WalkOrder
<1>1. ASSUME WalkInvariant, [Next]_vars
      PROVE  [\A f \in written' \ written, g \in written : g < f]_vars
  <2>1. ASSUME NEW f \in written' \ written, NEW g \in written PROVE g < f
    <3>1. f \in Index /\ next <= f
      BY <1>1, <2>1, WritesAhead
    <3>2. g \in Index /\ g < next /\ next \in 0..NumFiles
      BY <1>1, <2>1 DEF WalkInvariant, WrittenRight, TypeOK
    <3>3. f \in Int /\ g \in Int /\ next \in Int
      BY <3>1, <3>2, RunnerAssumption DEF Index
    <3> QED
      BY <3>1, <3>2, <3>3
  <2> QED
    BY <2>1
<1> QED
  BY <1>1, WalkInvariantHolds, PTL DEF Spec, WalkOrder

\* Unless a write was rejected, all that was rendered is written at the exit.
LEMMA ExitWritten ==
  ASSUME WalkInvariant, main \in {"exit 0", "exit 1"}, ~rejected
  PROVE  written = rendered
<1>1. \A f \in rendered : f < next
  BY DEF WalkInvariant, MainRight
<1> QED
  BY <1>1 DEF WalkInvariant, WrittenRight, TypeOK

\* No document is lost behind a slot that was never released: unless a write
\* was rejected, all that was rendered is on standard output at the exit.
THEOREM LateIsWritten == Spec => []LateNotLost
<1>1. WalkInvariant => LateNotLost
  BY ExitWritten DEF LateNotLost
<1> QED
  BY <1>1, WalkInvariantHolds, PTL

\* A document is lost only to a write that was tallied or to a closed pipe,
\* whatever made the file fail whose release wrote it.
THEOREM LossesAreTallied == Spec => []LossIsTallied
<1>1. ASSUME WalkInvariant, main \in {"exit 0", "exit 1"}, written # rendered
      PROVE  write_failures \/ pipe_closed
  <2>1. ~rejected => written = rendered
    BY <1>1, ExitWritten
  <2> QED
    BY <1>1, <2>1 DEF WalkInvariant, RejectedRight
<1>2. WalkInvariant => LossIsTallied
  BY <1>1 DEF LossIsTallied
<1> QED
  BY <1>2, WalkInvariantHolds, PTL

\* Exit code 0 means a complete result.  The command line asks for no path to
\* be verified (lib.rs:497), so that no path is skipped.
THEOREM CleanExitIsComplete ==
  ASSUME ~verify_paths
  PROVE  Spec => []ExitZeroIsComplete
<1> DEFINE NoneSkipped == skipped = {}
<1>1. ASSUME NoneSkipped, [Next]_vars PROVE NoneSkipped'
  <2>1. [RunnerNext]_runner
    BY <1>1, WalkRuns
  <2> QED
    BY <1>1, <2>1 DEF RunnerNext, Caller, Leave, Spawn, SendFile, SkipFile, Poison, Join, SpawnFails,
                      Consume, Receive, Disconnected, Finish, Panic, runner, caller_vars
<1>2. Init => NoneSkipped
  BY DEF Init, RunnerInit
<1>3. Spec => []NoneSkipped
  BY <1>1, <1>2, PTL DEF Spec
<1>4. ASSUME WalkInvariant, NoneSkipped, main = "exit 0"
      PROVE  handled = File /\ (pipe_closed \/ written = rendered)
  <2>1. /\ caller = "returned" /\ result = "Ok" /\ ~write_failures
        /\ \A f \in rendered : f < next
    BY <1>4 DEF WalkInvariant, MainRight
  <2>2. handled \cup skipped = File
    BY <1>4, <2>1, ReturnedOk DEF WalkInvariant, OkMeansAllHandled
  <2>3. ASSUME ~pipe_closed PROVE written = rendered
    <3>1. ~rejected
      BY <1>4, <2>1, <2>3 DEF WalkInvariant, RejectedRight
    <3> QED
      BY <1>4, <2>1, <3>1 DEF WalkInvariant, WrittenRight, TypeOK
  <2> QED
    BY <1>4, <2>2, <2>3
<1>5. WalkInvariant /\ NoneSkipped => ExitZeroIsComplete
  BY <1>4 DEF ExitZeroIsComplete
<1> QED
  BY <1>3, <1>5, WalkInvariantHolds, PTL
=============================================================================
