------------------------ MODULE ParseAdmissionProofs ------------------------
(***************************************************************************)
(* Proofs about ParseAdmission: permits are conserved and the orphans stay *)
(* below the soft cap, for any number of requests, permits and any cap.    *)
(***************************************************************************)
EXTENDS ParseAdmission, FiniteSetTheorems, TLAPS

\* The count is the number of waiters, a request has one only after it left
\* the region between the check and the permit's return, and whoever is in that
\* region is already charged to the cap: what holds a permit and has passed
\* the check may still become an orphan.
AdmissionInvariant ==
  /\ TypeOK
  /\ orphaned_tasks = Cardinality(Orphans)
  /\ \A r \in Request : waiter[r] => pc[r] \in {"orphaned", "over"}
  /\ orphaned_tasks + Cardinality(Passed) <= max_orphaned_tasks + n_threads - 1

\* Every set of requests the module counts is finite.
LEMMA Counts ==
  /\ \A S \in SUBSET Request : IsFiniteSet(S) /\ Cardinality(S) \in Nat
  /\ \A S \in SUBSET Request : \A T \in SUBSET S : Cardinality(T) <= Cardinality(S)
  /\ \A S \in SUBSET Request : \A r \in Request :
       /\ r \in S => Cardinality(S \ {r}) = Cardinality(S) - 1
       /\ r \notin S => Cardinality(S \cup {r}) = Cardinality(S) + 1
<1>1. ASSUME NEW S \in SUBSET Request PROVE IsFiniteSet(S) /\ Cardinality(S) \in Nat
  BY AdmissionAssumption, FS_Subset, FS_CardinalityType
<1>2. ASSUME NEW S \in SUBSET Request, NEW T \in SUBSET S PROVE Cardinality(T) <= Cardinality(S)
  BY <1>1, FS_Subset
<1>3. ASSUME NEW S \in SUBSET Request, NEW r \in Request
      PROVE  /\ r \in S => Cardinality(S \ {r}) = Cardinality(S) - 1
             /\ r \notin S => Cardinality(S \cup {r}) = Cardinality(S) + 1
  BY <1>1, FS_AddElement, FS_RemoveElement
<1>4. QED
  BY <1>1, <1>2, <1>3

\* The sets that are counted, after the program counter of a request moved.
LEMMA Moves ==
  ASSUME TypeOK, NEW r \in Request, NEW from, NEW to, Step(r, from, to)
  PROVE  /\ Passed' = IF to \in {"passed", "await", "elapsed"} THEN Passed \cup {r} ELSE Passed \ {r}
         /\ Holders' = IF to \in {"admitted", "orphaned", "passed", "await", "elapsed"}
                       THEN Holders \cup {r} ELSE Holders \ {r}
         /\ r \in Passed <=> from \in {"passed", "await", "elapsed"}
         /\ r \in Holders <=> from \in {"admitted", "orphaned", "passed", "await", "elapsed"}
BY DEF TypeOK, Step, Passed, Holders

\* When the server starts nothing is held, counted or orphaned.
LEMMA InitEstablishes == Init => AdmissionInvariant
<1> SUFFICES ASSUME Init PROVE AdmissionInvariant
  OBVIOUS
<1>1. Holders = {} /\ Passed = {} /\ Orphans = {}
  BY DEF Init, Holders, Passed, Orphans
<1>2. Cardinality({}) = 0
  BY FS_EmptySet
<1>3. Cardinality(Request) \in Nat
  BY Counts
<1> QED
  BY <1>1, <1>2, <1>3, AdmissionAssumption DEF Init, AdmissionInvariant, TypeOK

\* Every action keeps the invariant: the counted sets move as Moves says, and
\* the cap is charged in Pass, where the count is still below it.
LEMMA NextPreserves == AdmissionInvariant /\ [Next]_vars => AdmissionInvariant'
<1> SUFFICES ASSUME AdmissionInvariant, [Next]_vars PROVE AdmissionInvariant'
  OBVIOUS
<1> USE AdmissionAssumption
<1>0. TypeOK
  BY DEF AdmissionInvariant
<1>1. /\ Holders \in SUBSET Request /\ Passed \in SUBSET Holders /\ Orphans \in SUBSET Request
      /\ Holders' \in SUBSET Request /\ Passed' \in SUBSET Holders' /\ Orphans' \in SUBSET Request
  BY DEF Holders, Passed, Orphans
<1>2. /\ Cardinality(Holders) \in Nat /\ Cardinality(Passed) \in Nat /\ Cardinality(Orphans) \in Nat
      /\ Cardinality(Holders') \in Nat /\ Cardinality(Passed') \in Nat /\ Cardinality(Orphans') \in Nat
      /\ Cardinality(Passed') <= Cardinality(Holders')
      /\ Cardinality(Orphans') <= Cardinality(Request) /\ Cardinality(Request) \in Nat
  BY <1>1, Counts
<1>held. /\ permits = n_threads - Cardinality(Holders) /\ permits >= 0 /\ permits \in Int
         /\ orphaned_tasks = Cardinality(Orphans) /\ orphaned_tasks \in Nat
  BY <1>0, <1>2 DEF TypeOK, AdmissionInvariant
<1>3. ASSUME NEW r \in Request, Arrive(r) PROVE AdmissionInvariant'
  <2>1. Orphans' = Orphans
    BY <1>3 DEF Arrive, Orphans
  <2>2. CASE pool_saturated /\ Answer(r, "idle", "saturated") /\ UNCHANGED <<deadline, semaphore, orphaned_tasks, task, waiter>>
    <3>1. Passed' = Passed /\ Holders' = Holders
      BY <1>0, <2>2, Moves DEF Answer
    <3> QED
      BY <2>1, <2>2, <3>1, <1>2 DEF AdmissionInvariant, TypeOK, Answer, Step, semaphore
  <2>3. CASE Step(r, "idle", "acquire") /\ queue' = Append(queue, r) /\ UNCHANGED <<deadline, permits, orphaned_tasks, reply, task, waiter>>
    <3>1. Passed' = Passed /\ Holders' = Holders
      BY <1>0, <2>3 DEF TypeOK, Step, Passed, Holders
    <3> QED
      BY <2>1, <2>3, <3>1, <1>2 DEF AdmissionInvariant, TypeOK, Step
  <2> QED
    BY <1>3, <2>2, <2>3 DEF Arrive
<1>4. ASSUME NEW r \in Request, Acquire(r) PROVE AdmissionInvariant'
  <2>1. Orphans' = Orphans
    BY <1>4 DEF Acquire, Orphans
  <2>2. Passed' = Passed /\ Holders' = Holders \cup {r} /\ r \notin Holders
    BY <1>4, <1>0, Moves DEF Acquire
  <2>3. Cardinality(Holders') = Cardinality(Holders) + 1
    BY <2>2, <1>1, Counts
  <2>4. queue' \in Seq(Request)
    BY <1>4, <1>0 DEF Acquire, TypeOK
  <2>5. /\ Step(r, "acquire", "admitted")
        /\ permits > 0 /\ permits' = permits - 1
        /\ UNCHANGED <<deadline, orphaned_tasks, reply, task, waiter>>
    BY <1>4 DEF Acquire
  <2>6. permits' = n_threads - Cardinality(Holders') /\ permits' >= 0
    BY <2>3, <2>5, <1>held, <1>2
  <2>7. TypeOK'
    <3>1. /\ pc' \in [Request -> {"idle", "acquire", "admitted", "passed", "await", "elapsed", "orphaned", "over"}]
          /\ deadline' \in BOOLEAN /\ orphaned_tasks' \in 0..Cardinality(Request)
      BY <2>5, <1>0 DEF TypeOK, Step
    <3>2. /\ reply' \in [Request -> {"none", "saturated", "result", "internal", "timeout"}]
          /\ task' \in [Request -> {"none", "running", "finished", "panicked"}]
          /\ waiter' \in [Request -> BOOLEAN]
      BY <2>5, <1>0 DEF TypeOK
    <3> QED
      BY <2>4, <2>6, <3>1, <3>2 DEF TypeOK
  <2>8. \A q \in Request : waiter'[q] => pc'[q] \in {"orphaned", "over"}
    BY <2>5 DEF AdmissionInvariant, TypeOK, Step
  <2> QED
    BY <2>1, <2>2, <2>5, <2>7, <2>8 DEF AdmissionInvariant
<1>5. ASSUME NEW r \in Request, Reject(r) PROVE AdmissionInvariant'
  <2>1. Orphans' = Orphans
    BY <1>5 DEF Reject, Orphans
  <2>2. Passed' = Passed /\ Holders' = Holders \ {r} /\ r \in Holders
    BY <1>5, <1>0, Moves DEF Reject, Answer
  <2>3. Cardinality(Holders') = Cardinality(Holders) - 1
    BY <2>2, <1>1, Counts
  <2> QED
    BY <1>5, <2>1, <2>2, <2>3, <1>2 DEF AdmissionInvariant, TypeOK, Reject, Answer, Step
<1>6. ASSUME NEW r \in Request, Pass(r) PROVE AdmissionInvariant'
  <2>1. Orphans' = Orphans
    BY <1>6 DEF Pass, Orphans
  <2>2. Holders' = Holders
    BY <1>6, <1>0, Moves DEF Pass
  <2>3. orphaned_tasks <= max_orphaned_tasks - 1
    BY <1>6, <1>0 DEF Pass, pool_saturated, TypeOK
  <2>4. Cardinality(Passed') <= n_threads
    BY <2>2, <1>0, <1>2 DEF TypeOK
  <2> QED
    BY <1>6, <2>1, <2>2, <2>3, <2>4, <1>2 DEF AdmissionInvariant, TypeOK, Pass, Step, semaphore
<1>7. ASSUME NEW r \in Request, SpawnBlocking(r) PROVE AdmissionInvariant'
  <2>1. Orphans' = Orphans
    BY <1>7 DEF SpawnBlocking, Orphans
  <2>2. Passed' = Passed /\ Holders' = Holders
    BY <1>7, <1>0, Moves DEF SpawnBlocking
  <2> QED
    BY <1>7, <2>1, <2>2, <1>2 DEF AdmissionInvariant, TypeOK, SpawnBlocking, Step, semaphore
<1>8. ASSUME NEW r \in Request, Join(r) PROVE AdmissionInvariant'
  <2>1. Orphans' = Orphans
    BY <1>8 DEF Join, Orphans
  <2>2. Passed' = Passed \ {r} /\ r \in Passed /\ Holders' = Holders \ {r} /\ r \in Holders
    BY <1>8, <1>0, Moves DEF Join, Answer
  <2>3. Cardinality(Passed') = Cardinality(Passed) - 1
    BY <2>2, <1>1, Counts
  <2>4. Cardinality(Holders') = Cardinality(Holders) - 1
    BY <2>2, <1>1, Counts
  <2>5. TypeOK'
    BY <1>8, <2>1, <2>2, <2>3, <2>4, <1>0, <1>2 DEF TypeOK, Join, Answer, Step, semaphore
  <2>6. \A q \in Request : waiter'[q] => pc'[q] \in {"orphaned", "over"}
    BY <1>8, <1>0 DEF AdmissionInvariant, TypeOK, Join, Answer, Step
  <2>7. orphaned_tasks' + Cardinality(Passed') <= max_orphaned_tasks + n_threads - 1
    BY <1>8, <1>2, <2>1, <2>2, <2>3, <2>4 DEF AdmissionInvariant, Join
  <2> QED
    BY <2>1, <2>2, <2>3, <2>4, <2>5, <2>6, <2>7, <1>8 DEF AdmissionInvariant, Join
<1>9. ASSUME NEW r \in Request, Elapse(r) PROVE AdmissionInvariant'
  <2>1. Orphans' = Orphans
    BY <1>9 DEF Elapse, Orphans
  <2>2. Passed' = Passed /\ Holders' = Holders
    BY <1>9, <1>0, Moves DEF Elapse
  <2> QED
    BY <1>9, <2>1, <2>2, <1>2 DEF AdmissionInvariant, TypeOK, Elapse, Step, semaphore
<1>10. ASSUME NEW r \in Request, Orphan(r) PROVE AdmissionInvariant'
  <2>1. Orphans' = Orphans \cup {r} /\ r \notin Orphans
    BY <1>10 DEF AdmissionInvariant, TypeOK, Orphan, Step, Orphans
  <2>2. Passed' = Passed \ {r} /\ r \in Passed /\ Holders' = Holders
    BY <1>10, <1>0, Moves DEF Orphan
  <2>3. /\ Cardinality(Orphans') = Cardinality(Orphans) + 1
        /\ Cardinality(Passed') = Cardinality(Passed) - 1
    BY <2>1, <2>2, <1>1, Counts
  <2>4. /\ orphaned_tasks' = orphaned_tasks + 1 /\ waiter' = [waiter EXCEPT ![r] = TRUE]
        /\ pc[r] = "elapsed" /\ pc' = [pc EXCEPT ![r] = "orphaned"]
        /\ UNCHANGED <<deadline, permits, queue, reply, task>>
    BY <1>10 DEF Orphan, Step, semaphore
  <2>5. /\ orphaned_tasks' = Cardinality(Orphans') /\ orphaned_tasks' \in 0..Cardinality(Request)
        /\ orphaned_tasks' + Cardinality(Passed') = orphaned_tasks + Cardinality(Passed)
    BY <2>3, <2>4, <1>held, <1>2
  <2>6. TypeOK'
    <3>1. /\ pc' \in [Request -> {"idle", "acquire", "admitted", "passed", "await", "elapsed", "orphaned", "over"}]
          /\ waiter' \in [Request -> BOOLEAN]
      BY <2>4, <1>0 DEF TypeOK
    <3> QED
      BY <2>2, <2>4, <2>5, <3>1, <1>0 DEF TypeOK
  <2>7. \A q \in Request : waiter'[q] => pc'[q] \in {"orphaned", "over"}
    BY <2>4, <1>0 DEF AdmissionInvariant, TypeOK
  <2> QED
    BY <2>5, <2>6, <2>7 DEF AdmissionInvariant
<1>11. ASSUME NEW r \in Request, DropPermit(r) PROVE AdmissionInvariant'
  <2>1. Orphans' = Orphans
    BY <1>11 DEF DropPermit, Orphans
  <2>2. Passed' = Passed /\ Holders' = Holders \ {r} /\ r \in Holders
    BY <1>11, <1>0, Moves DEF DropPermit, Answer
  <2>3. Cardinality(Holders') = Cardinality(Holders) - 1
    BY <2>2, <1>1, Counts
  <2>4. TypeOK'
    BY <1>11, <2>1, <2>2, <2>3, <1>0, <1>2 DEF TypeOK, DropPermit, Answer, Step, semaphore
  <2>5. \A q \in Request : waiter'[q] => pc'[q] \in {"orphaned", "over"}
    BY <1>11, <1>0 DEF AdmissionInvariant, TypeOK, DropPermit, Answer, Step
  <2>6. orphaned_tasks' + Cardinality(Passed') <= max_orphaned_tasks + n_threads - 1
    BY <1>11, <1>2, <2>1, <2>2, <2>3 DEF AdmissionInvariant, DropPermit
  <2> QED
    BY <2>1, <2>2, <2>3, <2>4, <2>5, <2>6, <1>11 DEF AdmissionInvariant, DropPermit
<1>12. ASSUME NEW r \in Request, OrphanEnds(r) PROVE AdmissionInvariant'
  <2>1. Orphans' = Orphans \ {r} /\ r \in Orphans
    BY <1>12, <1>0 DEF TypeOK, OrphanEnds, Orphans
  <2>2. Cardinality(Orphans') = Cardinality(Orphans) - 1
    BY <2>1, <1>1, Counts
  <2>3. Passed' = Passed /\ Holders' = Holders
    BY <1>12 DEF OrphanEnds, Passed, Holders
  <2> QED
    BY <1>12, <2>2, <2>3, <1>2 DEF AdmissionInvariant, TypeOK, OrphanEnds, semaphore
<1>13. ASSUME NEW r \in Request, TaskEnds(r) PROVE AdmissionInvariant'
  <2>1. Orphans' = Orphans /\ Passed' = Passed /\ Holders' = Holders
    BY <1>13 DEF TaskEnds, Orphans, Passed, Holders
  <2> QED
    BY <1>13, <2>1, <1>2 DEF AdmissionInvariant, TypeOK, TaskEnds, semaphore
<1>14. ASSUME NEW r \in Request, LeaveQueue(r) PROVE AdmissionInvariant'
  <2>1. Orphans' = Orphans
    BY <1>14 DEF LeaveQueue, Orphans
  <2>2. Passed' = Passed /\ Holders' = Holders
    BY <1>14, <1>0 DEF TypeOK, LeaveQueue, Answer, Step, Passed, Holders
  <2>3. queue' \in Seq(Request)
    BY <1>14, <1>0 DEF LeaveQueue, TypeOK
  <2> QED
    BY <1>14, <2>1, <2>2, <2>3, <1>2 DEF AdmissionInvariant, TypeOK, LeaveQueue, Answer, Step
<1>15. ASSUME NEW r \in Request, LeaveTask(r) PROVE AdmissionInvariant'
  <2>1. Orphans' = Orphans
    BY <1>15 DEF LeaveTask, Orphans
  <2>2. Passed' = Passed \ {r} /\ r \in Passed /\ Holders' = Holders \ {r} /\ r \in Holders
    BY <1>15, <1>0, Moves DEF LeaveTask, Answer
  <2>3. Cardinality(Passed') = Cardinality(Passed) - 1
    BY <2>2, <1>1, Counts
  <2>4. Cardinality(Holders') = Cardinality(Holders) - 1
    BY <2>2, <1>1, Counts
  <2>5. TypeOK'
    BY <1>15, <2>1, <2>2, <2>3, <2>4, <1>0, <1>2 DEF TypeOK, LeaveTask, Answer, Step, semaphore
  <2>6. \A q \in Request : waiter'[q] => pc'[q] \in {"orphaned", "over"}
    BY <1>15, <1>0 DEF AdmissionInvariant, TypeOK, LeaveTask, Answer, Step
  <2>7. orphaned_tasks' + Cardinality(Passed') <= max_orphaned_tasks + n_threads - 1
    BY <1>15, <1>2, <2>1, <2>2, <2>3, <2>4 DEF AdmissionInvariant, LeaveTask
  <2> QED
    BY <2>1, <2>2, <2>3, <2>4, <2>5, <2>6, <2>7, <1>15 DEF AdmissionInvariant, LeaveTask
<1>16. CASE UNCHANGED vars
  <2>1. Orphans' = Orphans /\ Passed' = Passed /\ Holders' = Holders
    BY <1>16 DEF vars, Orphans, Passed, Holders
  <2> QED
    BY <1>16, <2>1 DEF vars, semaphore, AdmissionInvariant, TypeOK
<1> QED
  BY <1>3, <1>4, <1>5, <1>6, <1>7, <1>8, <1>9, <1>10, <1>11, <1>12, <1>13, <1>14, <1>15, <1>16
  DEF Next, Handle

\* The two facts above, along every behavior.
LEMMA Invariant == Spec => []AdmissionInvariant
  BY InitEstablishes, NextPreserves, PTL DEF Spec

\* Every reachable state is well typed and every permit is free or held by one
\* handler that gives it back (run_parse's RAII permit).
THEOREM PermitsConserved == Spec => []TypeOK
<1>1. AdmissionInvariant => TypeOK
  BY DEF AdmissionInvariant
<1> QED
  BY <1>1, Invariant, PTL

\* However many requests queue and however many parses hang, no more of them
\* are orphaned than the cap and the permits allow (run_parse's two checks).
THEOREM OrphansCapped == Spec => []SoftCap
<1>1. AdmissionInvariant => SoftCap
  <2> SUFFICES ASSUME AdmissionInvariant PROVE SoftCap
    OBVIOUS
  <2>1. Cardinality(Passed) \in Nat
    BY Counts DEF Passed
  <2> QED
    BY <2>1, AdmissionAssumption DEF AdmissionInvariant, TypeOK, SoftCap
<1> QED
  BY <1>1, Invariant, PTL
=============================================================================
