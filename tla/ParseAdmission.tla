--------------------------- MODULE ParseAdmission ---------------------------
(***************************************************************************)
(* How the REST server admits parses to its blocking pool (run_parse,      *)
(* src/big-code-analysis-web/src/web/server.rs): a fair semaphore of       *)
(* n_threads permits, a deadline, and a count of the orphans, the parses   *)
(* that outlived the deadline and still run, that sheds load.              *)
(*                                                                         *)
(* A parse may run for ever.  A client may leave: its handler is then      *)
(* dropped at the await it is suspended at.                                *)
(***************************************************************************)
EXTENDS Integers, Sequences, FiniteSets

CONSTANTS
  Request,            \* requests, each made at most once
  n_threads,          \* permits of the semaphore
  max_orphaned_tasks  \* BCA_MAX_ORPHANED_TASKS, else max(2 * n_threads, 4)

ASSUME AdmissionAssumption ==
  /\ IsFiniteSet(Request)
  /\ n_threads \in Nat \ {0}
  /\ max_orphaned_tasks \in Nat \ {0}

VARIABLES
  deadline,        \* a parse timeout is configured
  permits,         \* free permits of the semaphore
  queue,           \* the requests that wait for one, first come first served
  orphaned_tasks,  \* the count
  pc,              \* where each request is in run_parse
  reply,           \* what its client was told
  task,            \* its blocking task
  waiter           \* the task that waits for its orphan

semaphore == <<permits, queue>>
vars == <<deadline, semaphore, orphaned_tasks, pc, reply, task, waiter>>

Init ==
  /\ deadline \in BOOLEAN
  /\ permits = n_threads
  /\ queue = <<>>
  /\ orphaned_tasks = 0
  /\ pc = [r \in Request |-> "idle"]
  /\ reply = [r \in Request |-> "none"]
  /\ task = [r \in Request |-> "none"]
  /\ waiter = [r \in Request |-> FALSE]

Step(r, from, to) == pc[r] = from /\ pc' = [pc EXCEPT ![r] = to]

Answer(r, from, answer) ==
  /\ Step(r, from, "over")
  /\ reply' = [reply EXCEPT ![r] = answer]

pool_saturated == orphaned_tasks >= max_orphaned_tasks

-----------------------------------------------------------------------------
\* The check before admission: 503, or into the queue of the semaphore.
Arrive(r) ==
  \/ /\ pool_saturated
     /\ Answer(r, "idle", "saturated")
     /\ UNCHANGED <<deadline, semaphore, orphaned_tasks, task, waiter>>
  \/ /\ ~pool_saturated
     /\ Step(r, "idle", "acquire")
     /\ queue' = Append(queue, r)
     /\ UNCHANGED <<deadline, permits, orphaned_tasks, reply, task, waiter>>

Acquire(r) ==
  /\ Step(r, "acquire", "admitted")
  /\ permits > 0
  /\ queue # <<>> /\ r = Head(queue)
  /\ permits' = permits - 1
  /\ queue' = Tail(queue)
  /\ UNCHANGED <<deadline, orphaned_tasks, reply, task, waiter>>

\* Defect: the permit is not dropped with the early return.
Reject_keeps_permit(r) ==
  /\ pool_saturated
  /\ Answer(r, "admitted", "saturated")
  /\ UNCHANGED <<deadline, semaphore, orphaned_tasks, task, waiter>>

\* The check after admission; the permit goes back by RAII.
Reject(r) ==
  /\ pool_saturated
  /\ Answer(r, "admitted", "saturated")
  /\ permits' = permits + 1
  /\ UNCHANGED <<deadline, queue, orphaned_tasks, task, waiter>>

\* Defect: there is no check after admission.
Pass_unchecked(r) ==
  /\ Step(r, "admitted", "passed")
  /\ UNCHANGED <<deadline, semaphore, orphaned_tasks, reply, task, waiter>>

Pass(r) ==
  /\ ~pool_saturated
  /\ Step(r, "admitted", "passed")
  /\ UNCHANGED <<deadline, semaphore, orphaned_tasks, reply, task, waiter>>

SpawnBlocking(r) ==
  /\ Step(r, "passed", "await")
  /\ task' = [task EXCEPT ![r] = "running"]
  /\ UNCHANGED <<deadline, semaphore, orphaned_tasks, reply, waiter>>

\* The task ended before the deadline: 200, or 500 when it panicked.
Join(r) ==
  /\ task[r] \in {"finished", "panicked"}
  /\ Answer(r, "await", IF task[r] = "finished" THEN "result" ELSE "internal")
  /\ permits' = permits + 1
  /\ UNCHANGED <<deadline, queue, orphaned_tasks, task, waiter>>

\* The deadline passes: the timeout has polled the task and found it running.
Elapse(r) ==
  /\ deadline
  /\ task[r] = "running"
  /\ Step(r, "await", "elapsed")
  /\ UNCHANGED <<deadline, semaphore, orphaned_tasks, reply, task, waiter>>

\* Defect: the waiter holds the permit for as long as the orphan runs.
Orphan_keeps_permit(r) ==
  /\ Answer(r, "elapsed", "timeout")
  /\ orphaned_tasks' = orphaned_tasks + 1
  /\ waiter' = [waiter EXCEPT ![r] = TRUE]
  /\ UNCHANGED <<deadline, semaphore, task>>

\* The task is counted and given a waiter ...
Orphan(r) ==
  /\ Step(r, "elapsed", "orphaned")
  /\ orphaned_tasks' = orphaned_tasks + 1
  /\ waiter' = [waiter EXCEPT ![r] = TRUE]
  /\ UNCHANGED <<deadline, semaphore, reply, task>>

\* ... before its permit is given to somebody else: 504.
DropPermit(r) ==
  /\ Answer(r, "orphaned", "timeout")
  /\ permits' = permits + 1
  /\ UNCHANGED <<deadline, queue, orphaned_tasks, task, waiter>>

\* Defect: the count goes down only when the orphan did not panic.
OrphanEnds_if_finished(r) ==
  /\ waiter[r]
  /\ task[r] = "finished"
  /\ waiter' = [waiter EXCEPT ![r] = FALSE]
  /\ orphaned_tasks' = orphaned_tasks - 1
  /\ UNCHANGED <<deadline, semaphore, pc, reply, task>>

\* The spawned waiter, whatever became of the orphan.
OrphanEnds(r) ==
  /\ waiter[r]
  /\ task[r] \in {"finished", "panicked"}
  /\ waiter' = [waiter EXCEPT ![r] = FALSE]
  /\ orphaned_tasks' = orphaned_tasks - 1
  /\ UNCHANGED <<deadline, semaphore, pc, reply, task>>

TaskEnds(r) ==
  /\ task[r] = "running"
  /\ \E end \in {"finished", "panicked"} : task' = [task EXCEPT ![r] = end]
  /\ UNCHANGED <<deadline, semaphore, orphaned_tasks, pc, reply, waiter>>

\* The client leaves while the handler waits for a permit ...
LeaveQueue(r) ==
  /\ Answer(r, "acquire", "none")
  /\ \E k \in 1..Len(queue) :
       queue[k] = r /\ queue' = SubSeq(queue, 1, k - 1) \o SubSeq(queue, k + 1, Len(queue))
  /\ UNCHANGED <<deadline, permits, orphaned_tasks, task, waiter>>

\* ... or for its task, which runs on: nobody counts it.
LeaveTask(r) ==
  /\ Answer(r, "await", "none")
  /\ permits' = permits + 1
  /\ UNCHANGED <<deadline, queue, orphaned_tasks, task, waiter>>

\* The steps of a handler once its request has arrived.
Handle(r) ==
  \/ Acquire(r) \/ Reject(r) \/ Pass(r) \/ SpawnBlocking(r)
  \/ Join(r) \/ Elapse(r) \/ Orphan(r) \/ DropPermit(r)

Next ==
  \E r \in Request :
    \/ Arrive(r) \/ Handle(r) \/ OrphanEnds(r)
    \/ TaskEnds(r) \/ LeaveQueue(r) \/ LeaveTask(r)

Spec == Init /\ [][Next]_vars

\* The runtime polls a handler and a waiter that can go on, and its timer
\* fires.  Nothing makes a parse come to an end.
FairSpec == Spec /\ \A r \in Request : WF_vars(Handle(r)) /\ WF_vars(OrphanEnds(r))

-----------------------------------------------------------------------------
Passed == {r \in Request : pc[r] \in {"passed", "await", "elapsed"}}
Holders == {r \in Request : pc[r] \in {"admitted", "orphaned"}} \cup Passed
Orphans == {r \in Request : waiter[r]}

\* The values of the variables; every permit is free or held by one handler.
TypeOK ==
  /\ deadline \in BOOLEAN
  /\ permits = n_threads - Cardinality(Holders) /\ permits >= 0
  /\ queue \in Seq(Request)
  /\ orphaned_tasks \in 0..Cardinality(Request)
  /\ pc \in [Request -> {"idle", "acquire", "admitted", "passed", "await", "elapsed", "orphaned", "over"}]
  /\ reply \in [Request -> {"none", "saturated", "result", "internal", "timeout"}]
  /\ task \in [Request -> {"none", "running", "finished", "panicked"}]
  /\ waiter \in [Request -> BOOLEAN]

\* The cap is soft (server.rs:247): the parses in flight when the count reaches
\* it may time out too, and no more than those, however many requests queue.
SoftCap == orphaned_tasks <= max_orphaned_tasks + n_threads - 1

\* A parse that never ends costs its own client an error and nobody else an
\* answer: with a deadline every request that arrives is answered or leaves.
EventuallyAnswered ==
  deadline => \A r \in Request : (pc[r] # "idle") ~> (pc[r] = "over")

\* When the parses come to an end the server recovers: the count goes back to
\* zero, so that no later request is shed, and every client has an answer.
Recovers ==
  <>[](\A r \in Request : task[r] # "running")
    => <>[](orphaned_tasks = 0 /\ \A r \in Request : pc[r] \in {"idle", "over"})
=============================================================================
