----------------------- MODULE ConcurrentRunnerProofs -----------------------
(***************************************************************************)
(* Proofs about ConcurrentRunner: for any number of consumers and files,   *)
(* `run` reports success only when every file was handled or skipped, each *)
(* once, and nothing is left in the channel.                               *)
(***************************************************************************)
EXTENDS ConcurrentRunner, FiniteSetTheorems, TLAPS

Exited == {c \in Consumer : state[c] = "exited"}

\* How many files the dispatch has reached, and how many pills it has sent.
Reached == CASE caller = "spawn" -> 0
             [] caller = "explore" -> i
             [] caller = "returned" /\ result = "Thread" -> 0
             [] OTHER -> NumFiles

PillsSent == CASE caller = "poison" -> i
               [] caller = "join" -> num_jobs
               [] OTHER -> 0

Dispatched == {f \in File : f < Reached}

Slot == 1..Len(channel)

Unfinished == Dispatched \ (handled \cup skipped)

\* A file is in one slot of the channel, or with one consumer, or done with.
QueuedOnce ==
  \A k \in Slot : channel[k] # Pill =>
    /\ channel[k] \in Unfinished
    /\ \A j \in Slot : channel[j] = channel[k] => j = k

TakenOnce ==
  \A c \in Consumer : job[c] # None =>
    /\ job[c] \in Unfinished
    /\ \A k \in Slot : channel[k] # job[c]
    /\ \A d \in Consumer : job[d] = job[c] => d = c

DoneOnce == handled \cup skipped \subseteq Dispatched /\ handled \cap skipped = {}

FilesOnce == QueuedOnce /\ TakenOnce /\ DoneOnce

\* No file is lost but in a panic.
NoneLost ==
  \/ \E c \in Consumer : state[c] = "panicked"
  \/ \A f \in Unfinished : \/ \E k \in Slot : channel[k] = f
                           \/ \E c \in Consumer : job[c] = f

\* The pills not yet taken are at the end of the channel, and are all there is
\* in it once the first has been taken.
PillsLeft == PillsSent - Cardinality(Exited)

PillsLast ==
  caller # "returned" =>
    /\ PillsLeft \in 0..Len(channel)
    /\ \A k \in Slot : channel[k] = Pill <=> k > Len(channel) - PillsLeft
    /\ Exited # {} => PillsLeft = Len(channel)

\* What the caller knows of the consumers in each of its loops.
Progress ==
  /\ caller = "spawn" => /\ channel = <<>>
                         /\ \A c \in Consumer : state[c] = IF c < i THEN "recv" ELSE "unborn"
  /\ caller \in {"spawn", "explore", "poison"} => result = "Ok"
  /\ caller = "join" =>
       /\ result # "Thread"
       /\ \A c \in Consumer : c < i => /\ state[c] \in Ended
                                       /\ result = "Ok" => state[c] = "exited"

\* What is left when `run` has returned.
Aftermath ==
  caller = "returned" =>
    IF result = "Thread"
    THEN channel = <<>> /\ \A c \in Consumer : state[c] \in {"unborn", "recv", "exited"}
    ELSE /\ \A c \in Consumer : state[c] \in Ended
         /\ result = "Ok" => channel = <<>> /\ \A c \in Consumer : state[c] = "exited"

RunnerInvariant ==
  /\ RunnerTypeOK
  /\ FilesOnce
  /\ NoneLost
  /\ PillsLast
  /\ Progress
  /\ Aftermath

\* What the loops of the caller run to, and where they lead.
LEMMA Loops ==
  /\ Bound["spawn"] = num_jobs /\ Bound["explore"] = NumFiles
  /\ Bound["poison"] = num_jobs /\ Bound["join"] = num_jobs
  /\ After["spawn"] = "explore" /\ After["explore"] = "poison"
  /\ After["poison"] = "join" /\ After["join"] = "returned"
BY DEF Bound, After

\* Append and Tail, slot by slot.
LEMMA Queues ==
  ASSUME NEW S, NEW s \in Seq(S)
  PROVE  /\ Len(s) \in Nat
         /\ \A k \in 1..Len(s) : s[k] \in S
         /\ \A e \in S : /\ Append(s, e) \in Seq(S)
                         /\ Len(Append(s, e)) = Len(s) + 1
                         /\ \A k \in 1..Len(s) : Append(s, e)[k] = s[k]
                         /\ Append(s, e)[Len(s) + 1] = e
         /\ s # <<>> => /\ Len(s) > 0
                        /\ Head(s) = s[1]
                        /\ Tail(s) \in Seq(S)
                        /\ Len(Tail(s)) = Len(s) - 1
                        /\ \A k \in 1..Len(s) - 1 : Tail(s)[k] = s[k + 1]
         /\ Len(s) = 0 => s = <<>>
  OBVIOUS

\* The values of the variables, for any numbers of consumers and files.
LEMMA RunnerTyping ==
  ASSUME RunnerTypeOK, Progress, [RunnerNext]_runner
  PROVE  RunnerTypeOK'
<1> USE RunnerAssumption, Loops
<1> USE DEF RunnerTypeOK, State, Ended, Loop
<1>1. ASSUME NEW loop \in Loop, Leave(loop) PROVE RunnerTypeOK'
  BY <1>1 DEF Leave, pool
<1>2. CASE Spawn
  <2>1. i \in Consumer /\ caller' = "spawn" /\ caller = "spawn" /\ i' = i + 1 /\ i' \in 0..num_jobs
    BY <1>2 DEF Spawn, Iterate, Consumer
  <2>2. state[i] = "unborn"
    BY <2>1 DEF Progress
  <2> QED
    BY <1>2, <2>1, <2>2 DEF Spawn
<1>3. CASE SpawnFails
  BY <1>3 DEF SpawnFails, pool
<1>4. CASE SendFile
  BY <1>4, Queues DEF SendFile, Iterate, File
<1>5. CASE SkipFile
  BY <1>5 DEF SkipFile, Iterate, File, pool
<1>6. CASE Poison
  BY <1>6, Queues DEF Poison, Iterate
<1>7. CASE Join
  BY <1>7 DEF Join, Iterate, pool
<1>8. ASSUME NEW c \in Consumer, Receive(c) PROVE RunnerTypeOK'
  <2>1. Head(channel) \in File \cup {Pill} /\ channel' \in Seq(File \cup {Pill})
    BY <1>8, Queues DEF Receive
  <2>2. Head(channel) # Pill => Head(channel) # None
    BY <2>1 DEF File
  <2> QED
    BY <1>8, <2>1, <2>2 DEF Receive, caller_vars
<1>9. ASSUME NEW c \in Consumer, Disconnected(c) PROVE RunnerTypeOK'
  BY <1>9 DEF Disconnected, caller_vars
<1>10. ASSUME NEW c \in Consumer, Finish(c) PROVE RunnerTypeOK'
  BY <1>10 DEF Finish, caller_vars
<1>11. ASSUME NEW c \in Consumer, Panic(c) PROVE RunnerTypeOK'
  BY <1>11 DEF Panic, caller_vars
<1>12. CASE UNCHANGED runner
  BY <1>12 DEF runner, caller_vars, pool
<1> QED
  BY <1>1, <1>2, <1>3, <1>4, <1>5, <1>6, <1>7, <1>8, <1>9, <1>10, <1>11, <1>12 DEF RunnerNext, Caller, Consume

-----------------------------------------------------------------------------
\* Sending or skipping a file dispatches it ...
LEMMA DispatchGoesOn ==
  ASSUME RunnerTypeOK, SendFile \/ SkipFile
  PROVE  i \in File /\ i \notin Dispatched /\ Dispatched' = Dispatched \cup {i}
<1>1. caller = "explore" /\ caller' = "explore" /\ i \in File /\ i' = i + 1
  BY RunnerAssumption, Loops DEF SendFile, SkipFile, Iterate, RunnerTypeOK, File
<1>2. Reached = i /\ Reached' = i + 1
  BY <1>1 DEF Reached
<1> QED
  BY <1>1, <1>2, RunnerAssumption DEF Dispatched, File

\* ... and no other step does.
LEMMA DispatchStays ==
  ASSUME RunnerTypeOK, Progress, [RunnerNext]_runner, ~SendFile, ~SkipFile
  PROVE  Dispatched' = Dispatched
<1> SUFFICES Reached' = Reached
  BY DEF Dispatched
<1> USE RunnerAssumption, Loops DEF Reached
<1>1. ASSUME NEW loop \in Loop, Leave(loop) PROVE Reached' = Reached
  <2>1. /\ caller' = After[caller] /\ i' = 0 /\ i = Bound[caller] /\ result' = result
        /\ caller \in {"spawn", "explore", "poison", "join"}
    BY <1>1 DEF Leave, Loop
  <2>2. CASE caller = "spawn"
    BY <2>1, <2>2
  <2>3. CASE caller = "explore"
    BY <2>1, <2>3
  <2>4. CASE caller = "poison"
    BY <2>1, <2>4
  <2>5. CASE caller = "join"
    BY <2>1, <2>5 DEF Progress
  <2> QED
    BY <2>1, <2>2, <2>3, <2>4, <2>5
<1>2. CASE Spawn
  BY <1>2 DEF Spawn, Iterate
<1>3. CASE SpawnFails
  BY <1>3 DEF SpawnFails
<1>4. CASE Poison
  BY <1>4 DEF Poison, Iterate
<1>5. CASE Join
  BY <1>5 DEF Join, Iterate
<1>6. ASSUME UNCHANGED <<caller_vars, result>> PROVE Reached' = Reached
  BY <1>6 DEF caller_vars
<1>7. ASSUME NEW c \in Consumer, Consume(c) \/ Panic(c) PROVE UNCHANGED <<caller_vars, result>>
  BY <1>7 DEF Consume, Receive, Disconnected, Finish, Panic
<1>8. CASE UNCHANGED runner
  BY <1>8 DEF runner, caller_vars
<1> QED
  BY <1>1, <1>2, <1>3, <1>4, <1>5, <1>6, <1>7, <1>8 DEF RunnerNext, Caller

\* Something is sent: there is one more slot, the last.
LEMMA Sends ==
  ASSUME RunnerTypeOK, NEW e \in File \cup {Pill}, channel' = Append(channel, e)
  PROVE  \E n \in Nat : /\ n = Len(channel) + 1 /\ n \notin Slot /\ Slot' = Slot \cup {n}
                        /\ channel'[n] = e /\ \A k \in Slot : channel'[k] = channel[k]
<1>1. channel \in Seq(File \cup {Pill})
  BY DEF RunnerTypeOK
<1> QED
  BY <1>1, Queues DEF Slot

\* Something is received: the first slot is gone and the others move up.
LEMMA Receives ==
  ASSUME RunnerTypeOK, channel # <<>>, channel' = Tail(channel)
  PROVE  /\ 1 \in Slot /\ Head(channel) = channel[1]
         /\ \A k \in Slot' : k + 1 \in Slot \ {1} /\ channel'[k] = channel[k + 1]
         /\ \A k \in Slot \ {1} : \E j \in Slot' : j + 1 = k
         /\ \A j, k \in Slot' : j + 1 = k + 1 => j = k
<1>1. channel \in Seq(File \cup {Pill})
  BY DEF RunnerTypeOK
<1>2. /\ Len(channel) \in Nat /\ Len(channel) > 0 /\ Len(channel') = Len(channel) - 1
      /\ Head(channel) = channel[1]
      /\ \A k \in 1..Len(channel) - 1 : channel'[k] = channel[k + 1]
  BY <1>1, Queues
<1>3. ASSUME NEW k \in Slot \ {1} PROVE \E j \in Slot' : j + 1 = k
  <2>1. k - 1 \in Slot' /\ (k - 1) + 1 = k
    BY <1>2 DEF Slot
  <2> QED
    BY <2>1
<1> QED
  BY <1>2, <1>3 DEF Slot

\* What a slot holds and what a consumer has; neither marker is a file.
LEMMA Kinds ==
  ASSUME RunnerTypeOK
  PROVE  /\ \A k \in Slot : channel[k] \in File \cup {Pill}
         /\ \A c \in Consumer : job[c] \in File \cup {None}
         /\ Pill \notin File /\ None \notin File
         /\ Pill \notin Dispatched /\ None \notin Dispatched
<1>1. channel \in Seq(File \cup {Pill})
  BY DEF RunnerTypeOK
<1> QED
  BY <1>1, Queues, RunnerAssumption DEF RunnerTypeOK, File, Dispatched, Slot

-----------------------------------------------------------------------------
\* A file that is sent was nowhere before.
LEMMA SendFileOnce ==
  ASSUME RunnerTypeOK, FilesOnce, SendFile
  PROVE  FilesOnce'
<1>1. /\ i \in File /\ i \notin Dispatched /\ Dispatched' = Dispatched \cup {i}
      /\ channel' = Append(channel, i) /\ job' = job /\ handled' = handled /\ skipped' = skipped
  BY DispatchGoesOn DEF SendFile
<1>2. PICK n \in Nat : /\ n \notin Slot /\ Slot' = Slot \cup {n}
                       /\ channel'[n] = i /\ \A k \in Slot : channel'[k] = channel[k]
  BY <1>1, Sends
<1>3. /\ handled \cup skipped \subseteq Dispatched /\ handled \cap skipped = {}
      /\ Unfinished' = Unfinished \cup {i} /\ i \notin Unfinished
  BY <1>1 DEF FilesOnce, DoneOnce, Unfinished
<1>4. QueuedOnce'
  <2>1. \A k \in Slot : channel[k] # Pill => channel[k] \in Unfinished /\ channel[k] # i
    BY <1>3 DEF FilesOnce, QueuedOnce
  <2>2. \A j, k \in Slot : channel[k] # Pill /\ channel[j] = channel[k] => j = k
    BY DEF FilesOnce, QueuedOnce
  <2>3. i # Pill
    BY <1>1, Kinds
  <2> QED
    BY <1>2, <1>3, <2>1, <2>2, <2>3 DEF QueuedOnce
<1>5. TakenOnce'
  <2> SUFFICES ASSUME NEW c \in Consumer, job[c] # None
               PROVE  /\ job[c] \in Unfinished' /\ \A k \in Slot' : channel'[k] # job[c]
                      /\ \A d \in Consumer : job[d] = job[c] => d = c
    BY <1>1 DEF TakenOnce
  <2>1. /\ job[c] \in Unfinished /\ \A k \in Slot : channel[k] # job[c]
        /\ \A d \in Consumer : job[d] = job[c] => d = c
    BY DEF FilesOnce, TakenOnce
  <2> QED
    BY <1>2, <1>3, <2>1
<1>6. DoneOnce'
  BY <1>1, <1>3 DEF DoneOnce
<1> QED
  BY <1>4, <1>5, <1>6 DEF FilesOnce

\* So was one that is skipped.
LEMMA SkipFileOnce ==
  ASSUME RunnerTypeOK, FilesOnce, SkipFile
  PROVE  FilesOnce'
<1>1. /\ i \in File /\ i \notin Dispatched /\ Dispatched' = Dispatched \cup {i}
      /\ skipped' = skipped \cup {i}
      /\ channel' = channel /\ job' = job /\ handled' = handled /\ Slot' = Slot
  BY DispatchGoesOn DEF SkipFile, pool, Slot
<1>2. handled \cup skipped \subseteq Dispatched /\ handled \cap skipped = {} /\ Unfinished' = Unfinished
  BY <1>1 DEF FilesOnce, DoneOnce, Unfinished
<1> QED
  BY <1>1, <1>2 DEF FilesOnce, QueuedOnce, TakenOnce, DoneOnce

\* A received file leaves the channel for one consumer.
LEMMA ReceiveOnce ==
  ASSUME RunnerTypeOK, FilesOnce, NEW c \in Consumer, Receive(c), Dispatched' = Dispatched
  PROVE  FilesOnce'
<1>1. /\ channel' = Tail(channel) /\ channel # <<>> /\ handled' = handled /\ skipped' = skipped
      /\ IF Head(channel) = Pill THEN job' = job ELSE job' = [job EXCEPT ![c] = Head(channel)]
  BY DEF Receive, caller_vars
<1>2. /\ 1 \in Slot /\ Head(channel) = channel[1]
      /\ \A k \in Slot' : k + 1 \in Slot \ {1} /\ channel'[k] = channel[k + 1]
      /\ \A j, k \in Slot' : j + 1 = k + 1 => j = k
  BY <1>1, Receives
<1>3. Unfinished' = Unfinished
  BY <1>1 DEF Unfinished
<1>4. QueuedOnce'
  BY <1>2, <1>3 DEF FilesOnce, QueuedOnce
<1>5. TakenOnce'
  <2>1. CASE Head(channel) = Pill
    <3> SUFFICES ASSUME NEW e \in Consumer, job[e] # None
                 PROVE  /\ job[e] \in Unfinished /\ \A k \in Slot' : channel'[k] # job[e]
                        /\ \A d \in Consumer : job[d] = job[e] => d = e
      BY <1>1, <1>3, <2>1 DEF TakenOnce
    <3>1. /\ job[e] \in Unfinished /\ \A k \in Slot : channel[k] # job[e]
          /\ \A d \in Consumer : job[d] = job[e] => d = e
      BY DEF FilesOnce, TakenOnce
    <3> QED
      BY <1>2, <3>1
  <2>2. CASE Head(channel) # Pill
    <3>1. /\ job'[c] = channel[1] /\ channel[1] # Pill
          /\ \A d \in Consumer : d # c => job'[d] = job[d]
      BY <1>1, <1>2, <2>2 DEF RunnerTypeOK
    <3>2. /\ channel[1] \in Unfinished
          /\ \A k \in Slot' : channel'[k] # channel[1]
      BY <1>2, <3>1 DEF FilesOnce, QueuedOnce
    <3>3. \A d \in Consumer : job[d] # None => /\ job[d] # channel[1]
                                               /\ \A k \in Slot' : channel'[k] # job[d]
      BY <1>2 DEF FilesOnce, TakenOnce
    <3>4. channel[1] # None
      BY <3>2, Kinds DEF Unfinished
    <3> QED
      BY <1>3, <3>1, <3>2, <3>3, <3>4 DEF FilesOnce, TakenOnce
  <2> QED
    BY <2>1, <2>2
<1> QED
  BY <1>1, <1>4, <1>5 DEF FilesOnce, DoneOnce

\* A file moves from the list to the channel or to `skipped`, from the channel
\* to one consumer and from it to `handled`: it is never in two places.
LEMMA FilesOnceStep ==
  ASSUME RunnerTypeOK, Progress, FilesOnce, [RunnerNext]_runner
  PROVE  FilesOnce'
<1>1. CASE SendFile
  BY <1>1, SendFileOnce
<1>2. CASE SkipFile
  BY <1>2, SkipFileOnce
<1>3. CASE ~SendFile /\ ~SkipFile
  <2>1. Dispatched' = Dispatched
    BY <1>3, DispatchStays
  <2>2. ASSUME UNCHANGED <<skipped, channel, job, handled>> PROVE FilesOnce'
    BY <2>1, <2>2 DEF FilesOnce, QueuedOnce, TakenOnce, DoneOnce, Unfinished, Slot
  <2>3. CASE Poison
    <3>1. /\ channel' = Append(channel, Pill) /\ job' = job /\ handled' = handled /\ skipped' = skipped
      BY <2>3 DEF Poison
    <3>2. PICK n \in Nat : /\ n \notin Slot /\ Slot' = Slot \cup {n}
                           /\ channel'[n] = Pill /\ \A k \in Slot : channel'[k] = channel[k]
      BY <3>1, Sends
    <3>3. Unfinished' = Unfinished /\ Pill \notin Unfinished
      BY <2>1, <3>1, Kinds DEF Unfinished
    <3>4. QueuedOnce'
      BY <3>2, <3>3 DEF FilesOnce, QueuedOnce
    <3>5. TakenOnce'
      <4>1. \A c \in Consumer : job[c] # None => \A k \in Slot' : channel'[k] # job[c]
        BY <3>2, <3>3 DEF FilesOnce, TakenOnce
      <4>2. job' = job
        BY <3>1
      <4> QED
        BY <3>3, <4>1, <4>2 DEF FilesOnce, TakenOnce
    <3>6. DoneOnce'
      BY <2>1, <3>1 DEF FilesOnce, DoneOnce
    <3> QED
      BY <3>4, <3>5, <3>6 DEF FilesOnce
  <2>4. ASSUME NEW c \in Consumer, Receive(c) PROVE FilesOnce'
    BY <2>1, <2>4, ReceiveOnce
  <2>5. ASSUME NEW c \in Consumer, Finish(c) PROVE FilesOnce'
    <3>1. /\ channel' = channel /\ Slot' = Slot /\ skipped' = skipped
          /\ handled' = handled \cup {job[c]} /\ job[c] # None /\ job'[c] = None
          /\ \A d \in Consumer : d # c => job'[d] = job[d]
      BY <2>5 DEF Finish, caller_vars, RunnerTypeOK, Slot
    <3>2. Unfinished' = Unfinished \ {job[c]} /\ job[c] \in Unfinished
      BY <2>1, <3>1 DEF FilesOnce, TakenOnce, Unfinished
    <3>3. QueuedOnce'
      BY <3>1, <3>2 DEF FilesOnce, QueuedOnce, TakenOnce
    <3>4. TakenOnce'
      BY <3>1, <3>2 DEF FilesOnce, TakenOnce
    <3>5. DoneOnce'
      BY <2>1, <3>1, <3>2 DEF FilesOnce, DoneOnce, Unfinished
    <3> QED
      BY <3>3, <3>4, <3>5 DEF FilesOnce
  <2>6. ASSUME NEW c \in Consumer, Panic(c) PROVE FilesOnce'
    <3>1. /\ channel' = channel /\ Slot' = Slot /\ skipped' = skipped /\ handled' = handled
          /\ job'[c] = None /\ \A d \in Consumer : d # c => job'[d] = job[d]
      BY <2>6 DEF Panic, caller_vars, RunnerTypeOK, Slot
    <3>2. Unfinished' = Unfinished
      BY <2>1, <3>1 DEF Unfinished
    <3>3. QueuedOnce' /\ DoneOnce'
      BY <2>1, <3>1, <3>2 DEF FilesOnce, QueuedOnce, DoneOnce
    <3>4. TakenOnce'
      BY <3>1, <3>2 DEF FilesOnce, TakenOnce
    <3> QED
      BY <3>3, <3>4 DEF FilesOnce
  <2>7. ASSUME NEW c \in Consumer, Disconnected(c) PROVE FilesOnce'
    BY <2>2, <2>7 DEF Disconnected, caller_vars
  <2>8. ASSUME NEW loop \in Loop, Leave(loop) PROVE FilesOnce'
    BY <2>2, <2>8 DEF Leave, pool
  <2>9. CASE Spawn \/ SpawnFails \/ Join
    BY <2>2, <2>9 DEF Spawn, SpawnFails, Join, pool
  <2>10. CASE UNCHANGED runner
    BY <2>2, <2>10 DEF runner, caller_vars, pool
  <2> QED
    BY <1>3, <2>3, <2>4, <2>5, <2>6, <2>7, <2>8, <2>9, <2>10 DEF RunnerNext, Caller, Consume
<1> QED
  BY <1>1, <1>2, <1>3

\* An unfinished file is in the channel or with a consumer, unless one panicked.
LEMMA NoneLostStep ==
  ASSUME RunnerTypeOK, Progress, FilesOnce, NoneLost, [RunnerNext]_runner
  PROVE  NoneLost'
<1>1. ASSUME NEW c \in Consumer, state[c] = "panicked" PROVE NoneLost'
  <2>1. state'[c] = "panicked"
    <3>1. ASSUME NEW d \in Consumer, Consume(d) \/ Panic(d) PROVE state'[c] = "panicked"
      BY <1>1, <3>1 DEF Consume, Receive, Disconnected, Finish, Panic, RunnerTypeOK
    <3>2. CASE Spawn
      BY <1>1, <3>2 DEF Spawn, Iterate, Progress, RunnerTypeOK
    <3>3. CASE UNCHANGED state
      BY <1>1, <3>3
    <3>4. ASSUME NEW loop \in Loop, Leave(loop) PROVE UNCHANGED state
      BY <3>4 DEF Leave, pool
    <3>5. CASE SendFile \/ SkipFile \/ Poison \/ Join \/ SpawnFails \/ UNCHANGED runner
      BY <1>1, <3>5 DEF SendFile, SkipFile, Poison, Join, SpawnFails, pool, runner
    <3> QED
      BY <3>1, <3>2, <3>3, <3>4, <3>5 DEF RunnerNext, Caller
  <2> QED
    BY <2>1 DEF NoneLost
<1>2. CASE \A c \in Consumer : state[c] # "panicked"
  <2>1. \A f \in Unfinished : \/ \E k \in Slot : channel[k] = f
                              \/ \E c \in Consumer : job[c] = f
    BY <1>2 DEF NoneLost
  <2>2. CASE SendFile
    <3>1. /\ i \in File /\ Dispatched' = Dispatched \cup {i} /\ channel' = Append(channel, i)
          /\ job' = job /\ handled' = handled /\ skipped' = skipped
      BY <2>2, DispatchGoesOn DEF SendFile
    <3>2. PICK n \in Nat : /\ Slot' = Slot \cup {n} /\ n \notin Slot
                           /\ channel'[n] = i /\ \A k \in Slot : channel'[k] = channel[k]
      BY <3>1, Sends
    <3>3. ASSUME NEW f \in Unfinished'
          PROVE (\E k \in Slot' : channel'[k] = f) \/ (\E c \in Consumer : job'[c] = f)
      <4>1. f \in Unfinished \/ f = i
        BY <3>1 DEF Unfinished
      <4>2. CASE f = i
        BY <3>2, <4>2
      <4>3. CASE f \in Unfinished
        BY <2>1, <3>1, <3>2, <4>3
      <4> QED
        BY <4>1, <4>2, <4>3
    <3> QED
      BY <3>3 DEF NoneLost
  <2>3. CASE SkipFile
    <3>1. /\ Dispatched' = Dispatched \cup {i} /\ skipped' = skipped \cup {i}
          /\ channel' = channel /\ job' = job /\ handled' = handled /\ Slot' = Slot
      BY <2>3, DispatchGoesOn DEF SkipFile, pool, Slot
    <3> QED
      BY <2>1, <3>1 DEF NoneLost, Unfinished
  <2>4. CASE ~SendFile /\ ~SkipFile
    <3>1. Dispatched' = Dispatched
      BY <2>4, DispatchStays
    <3>2. ASSUME UNCHANGED <<skipped, channel, job, handled>> PROVE NoneLost'
      BY <2>1, <3>1, <3>2 DEF NoneLost, Unfinished, Slot
    <3>3. CASE Poison
      <4>1. /\ channel' = Append(channel, Pill) /\ job' = job /\ handled' = handled /\ skipped' = skipped
        BY <3>3 DEF Poison
      <4>2. PICK n \in Nat : /\ Slot' = Slot \cup {n}
                             /\ \A k \in Slot : channel'[k] = channel[k]
        BY <4>1, Sends
      <4>3. Unfinished' = Unfinished
        BY <3>1, <4>1 DEF Unfinished
      <4>4. ASSUME NEW f \in Unfinished
            PROVE (\E k \in Slot' : channel'[k] = f) \/ (\E c \in Consumer : job'[c] = f)
        BY <2>1, <4>1, <4>2
      <4> QED
        BY <4>3, <4>4 DEF NoneLost
    <3>4. ASSUME NEW c \in Consumer, Receive(c) PROVE NoneLost'
      <4>1. /\ channel' = Tail(channel) /\ channel # <<>> /\ Unfinished' = Unfinished
            /\ state[c] = "recv"
            /\ IF Head(channel) = Pill THEN job' = job ELSE job' = [job EXCEPT ![c] = Head(channel)]
        BY <3>1, <3>4 DEF Receive, caller_vars, Unfinished
      <4>2. /\ 1 \in Slot /\ Head(channel) = channel[1]
            /\ \A k \in Slot' : channel'[k] = channel[k + 1]
            /\ \A k \in Slot \ {1} : \E j \in Slot' : j + 1 = k
        BY <4>1, Receives
      <4>3. job[c] = None
        BY <4>1 DEF RunnerTypeOK
      <4>4. \A d \in Consumer : job[d] # None => job'[d] = job[d]
        BY <4>1, <4>3 DEF RunnerTypeOK
      <4>5. channel[1] # Pill => job'[c] = channel[1]
        BY <4>1, <4>2 DEF RunnerTypeOK
      <4>6. \A f \in Unfinished : f # Pill /\ f # None
        BY Kinds DEF Unfinished
      <4>7. ASSUME NEW f \in Unfinished
            PROVE (\E k \in Slot' : channel'[k] = f) \/ (\E d \in Consumer : job'[d] = f)
        <5>1. CASE \E d \in Consumer : job[d] = f
          BY <4>4, <4>6, <5>1
        <5>2. CASE channel[1] = f
          BY <4>5, <4>6, <5>2
        <5>3. CASE \E k \in Slot \ {1} : channel[k] = f
          <6>1. PICK k \in Slot \ {1} : channel[k] = f
            BY <5>3
          <6>2. PICK j \in Slot' : j + 1 = k
            BY <4>2
          <6> QED
            BY <4>2, <6>1, <6>2
        <5> QED
          BY <2>1, <5>1, <5>2, <5>3
      <4> QED
        BY <4>1, <4>7 DEF NoneLost
    <3>5. ASSUME NEW c \in Consumer, Finish(c) PROVE NoneLost'
      <4>1. /\ channel' = channel /\ Slot' = Slot /\ skipped' = skipped
            /\ handled' = handled \cup {job[c]}
            /\ \A d \in Consumer : d # c => job'[d] = job[d]
        BY <3>5 DEF Finish, caller_vars, RunnerTypeOK, Slot
      <4> QED
        BY <2>1, <3>1, <4>1 DEF NoneLost, Unfinished
    <3>6. ASSUME NEW c \in Consumer, Panic(c) PROVE NoneLost'
      BY <3>6 DEF Panic, NoneLost, RunnerTypeOK
    <3>7. ASSUME NEW c \in Consumer, Disconnected(c) PROVE NoneLost'
      BY <3>2, <3>7 DEF Disconnected, caller_vars
    <3>8. ASSUME NEW loop \in Loop, Leave(loop) PROVE NoneLost'
      BY <3>2, <3>8 DEF Leave, pool
    <3>9. CASE Spawn \/ SpawnFails \/ Join
      BY <3>2, <3>9 DEF Spawn, SpawnFails, Join, pool
    <3>10. CASE UNCHANGED runner
      BY <3>2, <3>10 DEF runner, caller_vars, pool
    <3> QED
      BY <2>4, <3>3, <3>4, <3>5, <3>6, <3>7, <3>8, <3>9, <3>10 DEF RunnerNext, Caller, Consume
  <2> QED
    BY <2>2, <2>3, <2>4
<1> QED
  BY <1>1, <1>2

-----------------------------------------------------------------------------
\* A consumer that has ended stays as it ended.
LEMMA EndedStays ==
  ASSUME RunnerTypeOK, Progress, [RunnerNext]_runner,
         NEW c \in Consumer, state[c] \in Ended
  PROVE  state'[c] = state[c]
<1>1. ASSUME NEW d \in Consumer, Consume(d) \/ Panic(d) PROVE state'[c] = state[c]
  BY <1>1 DEF Consume, Receive, Disconnected, Finish, Panic, RunnerTypeOK, Ended
<1>2. CASE Spawn
  <2>1. state[i] = "unborn" /\ state' = [state EXCEPT ![i] = "recv"]
    BY <1>2, Loops, RunnerAssumption DEF Spawn, Iterate, Progress, RunnerTypeOK, Consumer
  <2> QED
    BY <2>1 DEF RunnerTypeOK, Ended
<1>3. ASSUME NEW loop \in Loop, Leave(loop) PROVE UNCHANGED state
  BY <1>3 DEF Leave, pool
<1>4. CASE SendFile \/ SkipFile \/ Poison \/ Join \/ SpawnFails \/ UNCHANGED runner
  BY <1>4 DEF SendFile, SkipFile, Poison, Join, SpawnFails, pool, runner
<1> QED
  BY <1>1, <1>2, <1>3, <1>4 DEF RunnerNext, Caller

\* The consumers are counted.
LEMMA Counted ==
  /\ \A S \in SUBSET Consumer : /\ IsFiniteSet(S) /\ Cardinality(S) \in Nat
                                /\ \A c \in Consumer \ S : Cardinality(S \cup {c}) = Cardinality(S) + 1
  /\ Cardinality({}) = 0
  /\ Cardinality(Consumer) = num_jobs /\ Consumer # {}
<1>1. IsFiniteSet(Consumer) /\ Cardinality(Consumer) = num_jobs
  <2>1. 0 \in Int /\ num_jobs - 1 \in Int /\ num_jobs \in Nat
    BY RunnerAssumption
  <2> QED
    BY <2>1, RunnerAssumption, FS_Interval DEF Consumer
<1>2. ASSUME NEW S \in SUBSET Consumer
      PROVE  /\ IsFiniteSet(S) /\ Cardinality(S) \in Nat
             /\ \A c \in Consumer \ S : Cardinality(S \cup {c}) = Cardinality(S) + 1
  BY <1>1, FS_Subset, FS_CardinalityType, FS_AddElement
<1>3. 0 \in Consumer
  BY RunnerAssumption DEF Consumer
<1> QED
  BY <1>1, <1>2, <1>3, FS_EmptySet

\* A consumer exits by taking a pill, as long as the caller holds the sender.
LEMMA ExitTakesPill ==
  ASSUME RunnerTypeOK, Progress, [RunnerNext]_runner, caller' # "returned"
  PROVE  \/ Exited' = Exited
         \/ \E c \in Consumer : Receive(c) /\ Head(channel) = Pill /\ c \notin Exited /\ Exited' = Exited \cup {c}
<1> USE DEF Exited
<1>1. ASSUME NEW c \in Consumer, Receive(c), Head(channel) = Pill
      PROVE  c \notin Exited /\ Exited' = Exited \cup {c}
  BY <1>1 DEF Receive, RunnerTypeOK
<1>2. ASSUME NEW c \in Consumer, Receive(c), Head(channel) # Pill PROVE Exited' = Exited
  BY <1>2 DEF Receive, RunnerTypeOK
<1>3. ASSUME NEW c \in Consumer, Finish(c) \/ Panic(c) PROVE Exited' = Exited
  BY <1>3 DEF Finish, Panic, RunnerTypeOK
<1>4. ASSUME NEW c \in Consumer PROVE ~Disconnected(c)
  BY DEF Disconnected, caller_vars
<1>5. CASE Spawn
  <2>1. state[i] = "unborn" /\ state' = [state EXCEPT ![i] = "recv"]
    BY <1>5, Loops, RunnerAssumption DEF Spawn, Iterate, Progress, RunnerTypeOK, Consumer
  <2> QED
    BY <2>1 DEF RunnerTypeOK
<1>6. ASSUME NEW loop \in Loop, Leave(loop) PROVE Exited' = Exited
  BY <1>6 DEF Leave, pool
<1>7. CASE SendFile \/ SkipFile \/ Poison \/ Join \/ SpawnFails \/ UNCHANGED runner
  BY <1>7 DEF SendFile, SkipFile, Poison, Join, SpawnFails, pool, runner
<1> QED
  BY <1>1, <1>2, <1>3, <1>4, <1>5, <1>6, <1>7 DEF RunnerNext, Caller, Consume

\* Pills are sent by Poison alone.
LEMMA PillsSentMoves ==
  ASSUME RunnerTypeOK, [RunnerNext]_runner, caller' # "returned"
  PROVE  /\ PillsSent \in Nat
         /\ Poison => PillsSent' = PillsSent + 1
         /\ ~Poison => PillsSent' = PillsSent
         /\ SendFile => PillsSent = 0
<1> USE RunnerAssumption, Loops DEF PillsSent
<1>1. PillsSent \in Nat
  BY DEF RunnerTypeOK
<1>2. ASSUME Poison PROVE PillsSent' = PillsSent + 1
  BY <1>2 DEF Poison, Iterate
<1>3. ASSUME NEW loop \in Loop, Leave(loop) PROVE PillsSent' = PillsSent
  <2>1. /\ caller' = After[caller] /\ i' = 0 /\ i = Bound[caller]
        /\ caller \in {"spawn", "explore", "poison", "join"}
    BY <1>3 DEF Leave, Loop
  <2>2. CASE caller = "spawn" \/ caller = "explore"
    BY <2>1, <2>2
  <2>3. CASE caller = "poison"
    BY <2>1, <2>3
  <2>4. CASE caller = "join"
    BY <2>1, <2>4
  <2> QED
    BY <2>1, <2>2, <2>3, <2>4
<1>4. ASSUME Spawn \/ SendFile \/ SkipFile \/ Join PROVE PillsSent' = PillsSent
  BY <1>4 DEF Spawn, SendFile, SkipFile, Join, Iterate
<1>5. ASSUME SpawnFails PROVE FALSE
  BY <1>5 DEF SpawnFails
<1>6. ASSUME NEW c \in Consumer, Consume(c) \/ Panic(c) PROVE UNCHANGED caller_vars
  BY <1>6 DEF Consume, Receive, Disconnected, Finish, Panic
<1>7. ASSUME UNCHANGED caller_vars PROVE PillsSent' = PillsSent
  BY <1>7 DEF caller_vars
<1>8. ASSUME UNCHANGED runner PROVE UNCHANGED caller_vars
  BY <1>8 DEF runner
<1>9. SendFile => PillsSent = 0
  BY DEF SendFile, Iterate
<1> QED
  BY <1>1, <1>2, <1>3, <1>4, <1>5, <1>6, <1>7, <1>8, <1>9 DEF RunnerNext, Caller

\* The pills keep to the end of the channel, and each is taken by one consumer.
LEMMA PillsLastStep ==
  ASSUME RunnerTypeOK, Progress, PillsLast, [RunnerNext]_runner
  PROVE  PillsLast'
<1> SUFFICES ASSUME caller' # "returned"
             PROVE  /\ PillsLeft' \in 0..Len(channel')
                    /\ \A k \in Slot' : channel'[k] = Pill <=> k > Len(channel') - PillsLeft'
                    /\ Exited' # {} => PillsLeft' = Len(channel')
  BY DEF PillsLast
<1>1. caller # "returned"
  BY DEF RunnerNext, Caller, Leave, Loop, Spawn, SendFile, SkipFile, Poison, Join, Iterate, SpawnFails,
         Consume, Receive, Disconnected, Finish, Panic, runner, caller_vars
<1>2. /\ PillsLeft \in 0..Len(channel)
      /\ \A k \in Slot : channel[k] = Pill <=> k > Len(channel) - PillsLeft
      /\ Exited # {} => PillsLeft = Len(channel)
      /\ channel \in Seq(File \cup {Pill}) /\ Len(channel) \in Nat
      /\ Cardinality(Exited) \in Nat
  <2>1. channel \in Seq(File \cup {Pill})
    BY DEF RunnerTypeOK
  <2>2. Exited \in SUBSET Consumer
    BY DEF Exited
  <2> QED
    BY <1>1, <2>1, <2>2, Queues, Counted DEF PillsLast
<1>3. PillsSent \in Nat
  BY PillsSentMoves
<1>4. ASSUME PillsLeft' = PillsLeft, Exited' = Exited, channel' = channel
      PROVE  /\ PillsLeft' \in 0..Len(channel')
             /\ \A k \in Slot' : channel'[k] = Pill <=> k > Len(channel') - PillsLeft'
             /\ Exited' # {} => PillsLeft' = Len(channel')
  BY <1>2, <1>4 DEF Slot
<1>5. ASSUME SendFile \/ Poison PROVE UNCHANGED state
  BY <1>5 DEF SendFile, Poison
<1>6. CASE Poison
  <2>1. /\ channel' = Append(channel, Pill) /\ Exited' = Exited /\ PillsLeft' = PillsLeft + 1
    BY <1>2, <1>3, <1>5, <1>6, PillsSentMoves DEF Poison, Exited, PillsLeft
  <2>2. /\ Len(channel') = Len(channel) + 1 /\ channel'[Len(channel) + 1] = Pill
        /\ \A k \in 1..Len(channel) : channel'[k] = channel[k]
    BY <1>2, <2>1, Queues
  <2>3. PillsLeft \in Int
    BY <1>2
  <2>4. ASSUME NEW k \in Slot' PROVE channel'[k] = Pill <=> k > Len(channel') - PillsLeft'
    <3>1. CASE k \in Slot
      BY <1>2, <2>1, <2>2, <3>1 DEF Slot
    <3>2. CASE k \notin Slot
      <4>1. k = Len(channel) + 1
        BY <1>2, <2>2, <3>2 DEF Slot
      <4> QED
        BY <1>2, <2>1, <2>2, <4>1
    <3> QED
      BY <3>1, <3>2
  <2>5. PillsLeft' = PillsLeft + 1 /\ Len(channel') = Len(channel) + 1 /\ Exited' = Exited
    BY <2>1, <2>2
  <2> QED
    BY <1>2, <2>4, <2>5
<1>7. CASE SendFile
  <2>1. /\ channel' = Append(channel, i) /\ Exited' = Exited /\ PillsLeft' = PillsLeft
        /\ PillsSent = 0 /\ PillsLeft = 0 /\ Cardinality(Exited) = 0 /\ i \in File
    <3>1. PillsSent' = PillsSent /\ PillsSent = 0
      BY <1>7, PillsSentMoves DEF SendFile, Poison, Iterate
    <3> QED
      BY <1>2, <1>5, <1>7, <3>1, DispatchGoesOn DEF SendFile, Exited, PillsLeft
  <2>2. Exited = {}
    <3>1. Exited \in SUBSET Consumer
      BY DEF Exited
    <3> QED
      BY <2>1, <3>1, Counted, FS_EmptySet
  <2>3. /\ Len(channel') = Len(channel) + 1 /\ channel'[Len(channel) + 1] = i
        /\ \A k \in 1..Len(channel) : channel'[k] = channel[k]
    BY <1>2, <2>1, Queues
  <2>4. i # Pill
    BY <2>1, Kinds
  <2>5. ASSUME NEW k \in Slot' PROVE channel'[k] # Pill /\ ~(k > Len(channel'))
    <3>1. CASE k \in Slot
      BY <1>2, <2>1, <2>3, <3>1 DEF Slot
    <3>2. CASE k \notin Slot
      <4>1. k = Len(channel) + 1
        BY <1>2, <2>3, <3>2 DEF Slot
      <4> QED
        BY <1>2, <2>3, <2>4, <4>1
    <3> QED
      BY <3>1, <3>2
  <2>6. 0 \in 0..Len(channel') /\ Len(channel') - 0 = Len(channel')
    BY <1>2, <2>3
  <2> QED
    BY <2>1, <2>2, <2>5, <2>6
<1>8. ASSUME NEW c \in Consumer, Receive(c) PROVE
             /\ PillsLeft' \in 0..Len(channel')
             /\ \A k \in Slot' : channel'[k] = Pill <=> k > Len(channel') - PillsLeft'
             /\ Exited' # {} => PillsLeft' = Len(channel')
  <2>1. /\ channel' = Tail(channel) /\ channel # <<>> /\ PillsSent' = PillsSent
    BY <1>8 DEF Receive, caller_vars, PillsSent
  <2>2. /\ Len(channel) > 0 /\ Len(channel') = Len(channel) - 1 /\ Head(channel) = channel[1]
        /\ \A k \in 1..Len(channel) - 1 : channel'[k] = channel[k + 1]
    BY <1>2, <2>1, Queues
  <2>3. CASE Head(channel) = Pill
    <3>1. Exited' = Exited \cup {c} /\ c \notin Exited
      BY <1>8, <2>3 DEF Receive, Exited, RunnerTypeOK
    <3>2. PillsLeft' = PillsLeft - 1
      <4>1. Exited \in SUBSET Consumer
        BY DEF Exited
      <4>2. Cardinality(Exited') = Cardinality(Exited) + 1
        BY <3>1, <4>1, Counted
      <4> QED
        BY <1>2, <1>3, <2>1, <4>2 DEF PillsLeft
    <3>3. PillsLeft = Len(channel)
      BY <1>2, <2>2, <2>3 DEF Slot
    <3>4. \A k \in Slot' : channel'[k] = Pill
      BY <1>2, <2>2, <3>3 DEF Slot
    <3> QED
      BY <1>2, <2>2, <3>2, <3>3, <3>4 DEF Slot
  <2>4. CASE Head(channel) # Pill
    <3>1. Exited' = Exited
      BY <1>8, <2>4 DEF Receive, Exited, RunnerTypeOK
    <3>2. PillsLeft' = PillsLeft
      BY <2>1, <3>1 DEF PillsLeft
    <3>3. PillsLeft < Len(channel)
      BY <1>2, <2>2, <2>4 DEF Slot
    <3>4. ASSUME NEW k \in Slot' PROVE channel'[k] = Pill <=> k > Len(channel') - PillsLeft'
      <4>1. k + 1 \in Slot /\ channel'[k] = channel[k + 1] /\ k \in Int
        BY <1>2, <2>2 DEF Slot
      <4>2. channel[k + 1] = Pill <=> k + 1 > Len(channel) - PillsLeft
        BY <1>2, <4>1
      <4> QED
        BY <1>2, <2>2, <3>2, <4>1, <4>2
    <3> QED
      BY <1>2, <2>2, <3>1, <3>2, <3>3, <3>4
  <2> QED
    BY <2>3, <2>4
<1>9. CASE ~SendFile /\ ~Poison /\ \A c \in Consumer : ~Receive(c)
  <2>1. Exited' = Exited /\ PillsSent' = PillsSent
    BY <1>9, ExitTakesPill, PillsSentMoves
  <2>2. channel' = channel
    BY <1>9 DEF RunnerNext, Caller, Leave, Spawn, SkipFile, Join, SpawnFails, pool, Consume,
                Disconnected, Finish, Panic, runner
  <2> QED
    BY <1>4, <2>1, <2>2 DEF PillsLeft
<1> QED
  BY <1>6, <1>7, <1>8, <1>9

\* What the caller has learnt so far stays true.
LEMMA ProgressStep ==
  ASSUME RunnerTypeOK, RunnerTypeOK', Progress, [RunnerNext]_runner
  PROVE  Progress'
<1> USE RunnerAssumption, Loops
<1> DEFINE Joined == \A c \in Consumer : c < i => /\ state[c] \in Ended
                                                  /\ result = "Ok" => state[c] = "exited"
<1>1. ASSUME caller' = "spawn" PROVE Progress'
  <2>1. caller = "spawn" /\ result = "Ok"
    BY <1>1 DEF RunnerNext, Caller, Leave, Loop, Spawn, SendFile, SkipFile, Poison, Join, Iterate, SpawnFails,
                Consume, Receive, Disconnected, Finish, Panic, runner, caller_vars, Progress
  <2>2. channel = <<>> /\ \A c \in Consumer : state[c] = IF c < i THEN "recv" ELSE "unborn"
    BY <2>1 DEF Progress
  <2>3. ASSUME NEW c \in Consumer PROVE ~Consume(c) /\ ~Panic(c)
    BY <2>1, <2>2 DEF Consume, Receive, Disconnected, Finish, Panic
  <2>4. CASE Spawn
    <3>1. /\ i' = i + 1 /\ state' = [state EXCEPT ![i] = "recv"] /\ channel' = channel
          /\ result' = result /\ i \in Consumer
      BY <2>1, <2>4 DEF Spawn, Iterate, RunnerTypeOK, Consumer
    <3>2. ASSUME NEW c \in Consumer PROVE state'[c] = IF c < i' THEN "recv" ELSE "unborn"
      BY <2>2, <3>1 DEF Consumer, RunnerTypeOK
    <3> QED
      BY <1>1, <2>1, <2>2, <3>1, <3>2 DEF Progress
  <2>5. CASE UNCHANGED runner
    BY <1>1, <2>1, <2>2, <2>5 DEF runner, caller_vars, pool, Progress
  <2> QED
    BY <1>1, <2>1, <2>3, <2>4, <2>5 DEF RunnerNext, Caller, Leave, Loop, SendFile, SkipFile, Poison, Join,
                                        Iterate, SpawnFails
<1>2. ASSUME caller' \in {"explore", "poison"} PROVE Progress'
  <2>1. result' = result /\ caller \in {"spawn", "explore", "poison"}
    BY <1>2 DEF RunnerNext, Caller, Leave, Loop, Spawn, SendFile, SkipFile, Poison, Join, Iterate, SpawnFails,
                Consume, Receive, Disconnected, Finish, Panic, runner, caller_vars
  <2> QED
    BY <1>2, <2>1 DEF Progress
<1>3. ASSUME caller' = "join" PROVE Progress'
  <2>1. CASE Join
    <3>1. /\ caller = "join" /\ i' = i + 1 /\ state[i] \in Ended /\ state' = state /\ i \in Consumer
          /\ result' = IF state[i] = "panicked" /\ result = "Ok" THEN "Receiver" ELSE result
          /\ result # "Thread" /\ Joined
      BY <2>1 DEF Join, Iterate, pool, Progress, RunnerTypeOK, Consumer
    <3>2. ASSUME NEW c \in Consumer, c < i'
          PROVE  /\ state'[c] \in Ended
                 /\ result' = "Ok" => state'[c] = "exited"
      <4>1. c < i \/ c = i
        BY <3>1, <3>2 DEF Consumer, RunnerTypeOK
      <4>2. CASE c = i
        BY <3>1, <4>2 DEF Ended
      <4>3. CASE c < i
        BY <3>1, <4>3
      <4> QED
        BY <4>1, <4>2, <4>3
    <3> QED
      BY <1>3, <3>1, <3>2 DEF Progress
  <2>2. CASE caller = "join" /\ ~Join
    <3>1. i' = i /\ result' = result
      BY <1>3, <2>2 DEF RunnerNext, Caller, Leave, Loop, Spawn, SendFile, SkipFile, Poison, Iterate, SpawnFails,
                        Consume, Receive, Disconnected, Finish, Panic, runner, caller_vars
    <3>2. \A c \in Consumer : state[c] \in Ended => state'[c] = state[c]
      BY EndedStays
    <3> QED
      BY <1>3, <2>2, <3>1, <3>2 DEF Progress
  <2>3. CASE caller # "join"
    <3>1. caller = "poison" /\ i' = 0 /\ result' = result
      BY <1>3, <2>3 DEF RunnerNext, Caller, Leave, Loop, Spawn, SendFile, SkipFile, Poison, Join, Iterate,
                        SpawnFails, Consume, Receive, Disconnected, Finish, Panic, runner, caller_vars
    <3>2. \A c \in Consumer : ~(c < 0)
      BY DEF Consumer
    <3> QED
      BY <1>3, <3>1, <3>2 DEF Progress
  <2> QED
    BY <2>1, <2>2, <2>3
<1>4. ASSUME caller' = "returned" PROVE Progress'
  BY <1>4 DEF Progress
<1> QED
  BY <1>1, <1>2, <1>3, <1>4 DEF RunnerTypeOK, Loop

\* `run` returns when every consumer was joined, each after a pill unless it
\* panicked, or when a spawn failed and nothing had been sent.
LEMMA AftermathStep ==
  ASSUME RunnerTypeOK, RunnerTypeOK', Progress, PillsLast, Aftermath, [RunnerNext]_runner
  PROVE  Aftermath'
<1> SUFFICES ASSUME caller' = "returned" PROVE Aftermath'
  BY DEF Aftermath
<1> USE RunnerAssumption, Loops
<1>1. CASE SpawnFails
  BY <1>1 DEF SpawnFails, pool, Progress, Aftermath
<1>2. CASE Leave("join")
  <2>1. /\ caller = "join" /\ i = num_jobs /\ state' = state /\ channel' = channel /\ result' = result
    BY <1>2 DEF Leave, pool
  <2>2. /\ result # "Thread" /\ \A c \in Consumer : state[c] \in Ended
        /\ result = "Ok" => \A c \in Consumer : state[c] = "exited"
    BY <2>1 DEF Progress, Consumer
  <2>3. ASSUME result = "Ok" PROVE channel = <<>>
    <3>1. Exited = Consumer
      BY <2>2, <2>3 DEF Exited
    <3>2. PillsSent = num_jobs
      BY <2>1 DEF PillsSent
    <3>3. PillsLeft = 0 /\ PillsLeft = Len(channel)
      BY <2>1, <3>1, <3>2, Counted DEF PillsLast, PillsLeft
    <3>4. channel \in Seq(File \cup {Pill})
      BY DEF RunnerTypeOK
    <3> QED
      BY <3>3, <3>4, Queues
  <2> QED
    BY <2>1, <2>2, <2>3 DEF Aftermath
<1>3. CASE caller = "returned"
  <2>1. ~Caller /\ ~SpawnFails
    BY <1>3 DEF Caller, Leave, Loop, Spawn, SendFile, SkipFile, Poison, Join, Iterate, SpawnFails
  <2>2. CASE result = "Thread"
    <3>1. channel = <<>> /\ \A c \in Consumer : state[c] \in {"unborn", "recv", "exited"}
      BY <1>3, <2>2 DEF Aftermath
    <3>2. ASSUME NEW c \in Consumer, Disconnected(c) PROVE Aftermath'
      BY <2>2, <3>1, <3>2 DEF Disconnected, Aftermath, RunnerTypeOK
    <3>3. ASSUME NEW c \in Consumer PROVE ~Receive(c) /\ ~Finish(c) /\ ~Panic(c)
      BY <3>1 DEF Receive, Finish, Panic
    <3>4. CASE UNCHANGED runner
      BY <2>2, <3>1, <3>4 DEF runner, pool, caller_vars, Aftermath
    <3> QED
      BY <2>1, <3>2, <3>3, <3>4 DEF RunnerNext, Consume
  <2>3. CASE result # "Thread"
    <3>1. \A c \in Consumer : state[c] \in Ended
      BY <1>3, <2>3 DEF Aftermath
    <3>2. ASSUME NEW c \in Consumer PROVE ~Consume(c) /\ ~Panic(c)
      BY <3>1 DEF Consume, Receive, Disconnected, Finish, Panic, Ended
    <3>3. UNCHANGED runner
      BY <2>1, <3>2 DEF RunnerNext
    <3> QED
      BY <1>3, <3>3 DEF runner, pool, caller_vars, Aftermath
  <2> QED
    BY <2>2, <2>3
<1>4. caller # "returned" => SpawnFails \/ Leave("join")
  BY DEF RunnerNext, Caller, Leave, Loop, Spawn, SendFile, SkipFile, Poison, Join, Iterate, SpawnFails,
         Consume, Receive, Disconnected, Finish, Panic, runner, caller_vars
<1> QED
  BY <1>1, <1>2, <1>3, <1>4

\* Every step of the pool keeps the invariant.
LEMMA RunnerInvariantStep ==
  ASSUME RunnerInvariant, [RunnerNext]_runner
  PROVE  RunnerInvariant'
<1> USE DEF RunnerInvariant
<1>1. RunnerTypeOK'
  BY RunnerTyping
<1>2. FilesOnce'
  BY FilesOnceStep
<1>3. NoneLost'
  BY NoneLostStep
<1>4. PillsLast'
  BY PillsLastStep
<1>5. Progress'
  BY <1>1, ProgressStep
<1>6. Aftermath'
  BY <1>1, AftermathStep
<1> QED
  BY <1>1, <1>2, <1>3, <1>4, <1>5, <1>6

\* Before the first spawn nothing is sent, taken or done.
LEMMA RunnerInvariantInit == RunnerInit => RunnerInvariant
<1> SUFFICES ASSUME RunnerInit PROVE RunnerInvariant
  OBVIOUS
<1> USE RunnerAssumption, Loops DEF RunnerInit
<1>1. RunnerTypeOK
  BY DEF RunnerTypeOK, Loop, State
<1>2. Slot = {} /\ Len(channel) = 0
  BY DEF Slot
<1>3. Dispatched = {} /\ Unfinished = {}
  BY DEF Dispatched, Reached, File, Unfinished
<1>4. FilesOnce /\ NoneLost
  BY <1>2, <1>3 DEF FilesOnce, QueuedOnce, TakenOnce, DoneOnce, NoneLost
<1>5. PillsLast
  <2>1. Exited = {}
    BY DEF Exited
  <2>2. PillsLeft = 0
    BY <2>1, Counted DEF PillsLeft, PillsSent
  <2> QED
    BY <1>2, <2>1, <2>2 DEF PillsLast
<1>6. Progress /\ Aftermath
  BY DEF Progress, Aftermath, Consumer
<1> QED
  BY <1>1, <1>4, <1>5, <1>6 DEF RunnerInvariant

\* When `run` has returned "Ok", no file is left anywhere.
LEMMA ReturnedOk ==
  ASSUME RunnerInvariant
  PROVE  OkMeansAllHandled
<1> SUFFICES ASSUME caller = "returned", result = "Ok"
             PROVE  handled \cup skipped = File /\ handled \cap skipped = {} /\ channel = <<>>
  BY DEF OkMeansAllHandled
<1>1. channel = <<>> /\ \A c \in Consumer : state[c] = "exited"
  BY DEF RunnerInvariant, Aftermath
<1>2. Dispatched = File
  BY RunnerAssumption DEF Dispatched, Reached, File
<1>3. Slot = {}
  BY <1>1 DEF Slot
<1>4. \A c \in Consumer : job[c] = None
  BY <1>1 DEF RunnerInvariant, RunnerTypeOK
<1>5. Unfinished = {}
  BY <1>1, <1>3, <1>4, Kinds DEF RunnerInvariant, NoneLost, Unfinished
<1> QED
  BY <1>1, <1>2, <1>5 DEF RunnerInvariant, FilesOnce, DoneOnce, Unfinished

\* The values of the variables, and a consumer has a file just while busy.
THEOREM RunnerTypes == RunnerSpec => []RunnerTypeOK
<1>1. RunnerInvariant => RunnerTypeOK
  BY DEF RunnerInvariant
<1> QED
  BY <1>1, RunnerInvariantInit, RunnerInvariantStep, PTL DEF RunnerSpec

\* `run` reports success only when every path was skipped or its callback
\* returned, never both, and the channel is empty: with any number of files
\* and consumers, whatever panics and whichever spawn fails.
THEOREM SuccessIsComplete == RunnerSpec => []OkMeansAllHandled
<1>1. RunnerInvariant => OkMeansAllHandled
  BY ReturnedOk
<1> QED
  BY <1>1, RunnerInvariantInit, RunnerInvariantStep, PTL DEF RunnerSpec
=============================================================================
