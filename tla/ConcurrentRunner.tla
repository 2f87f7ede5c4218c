-------------------------- MODULE ConcurrentRunner --------------------------
(***************************************************************************)
(* The pool that processes a resolved file list (ConcurrentRunner::run,    *)
(* src/src/concurrent_files.rs): the caller spawns the consumers,          *)
(* dispatches the files over an unbounded channel, poisons the channel     *)
(* and joins.  The file callback may return or panic.                      *)
(*                                                                         *)
(* Sending never fails: the caller keeps a receiver of its own until it    *)
(* returns, so ConcurrentErrors::Sender has no transition here.            *)
(***************************************************************************)
EXTENDS Integers, Sequences

CONSTANTS
  num_jobs,      \* consumer threads, floored at 1 by `new`
  NumFiles,      \* length of FilesData::paths
  verify_paths,  \* is_file() is asked of every path
  Pill, None

ASSUME RunnerAssumption ==
  /\ num_jobs \in Nat \ {0}
  /\ NumFiles \in Nat
  /\ verify_paths \in BOOLEAN
  /\ Pill \notin Nat /\ None \notin Nat

File == 0..NumFiles - 1
Consumer == 0..num_jobs - 1

VARIABLES
  caller,   \* the loop the caller is in
  i,        \* its iteration
  channel,  \* the files and pills sent and not yet received
  state,    \* state[c]: what consumer c is doing
  job,      \* job[c]: the file it processes, or None
  skipped,  \* paths dispatch found not to be regular files
  handled,  \* files whose callback returned
  result    \* "Ok" or the first error

caller_vars == <<caller, i, skipped>>
pool == <<channel, state, job, handled>>
runner == <<caller_vars, pool, result>>

Loop == {"spawn", "explore", "poison", "join"}
Bound == [spawn |-> num_jobs, explore |-> NumFiles, poison |-> num_jobs, join |-> num_jobs]
After == [spawn |-> "explore", explore |-> "poison", poison |-> "join", join |-> "returned"]

Ended == {"exited", "panicked"}

RunnerInit ==
  /\ caller = "spawn"
  /\ i = 0
  /\ channel = <<>>
  /\ state = [c \in Consumer |-> "unborn"]
  /\ job = [c \in Consumer |-> None]
  /\ skipped = {}
  /\ handled = {}
  /\ result = "Ok"

-----------------------------------------------------------------------------
\* Defect: the range of a loop includes its end.
Iterate_inclusive(loop) ==
  /\ caller = loop
  /\ i <= Bound[loop]
  /\ i' = i + 1
  /\ UNCHANGED caller

\* One iteration of a loop of the caller.
Iterate(loop) ==
  /\ caller = loop
  /\ i < Bound[loop]
  /\ i' = i + 1
  /\ UNCHANGED caller

Leave(loop) ==
  /\ caller = loop
  /\ i = Bound[loop]
  /\ caller' = After[loop]
  /\ i' = 0
  /\ UNCHANGED <<skipped, pool, result>>

Spawn ==
  /\ Iterate("spawn")
  /\ state' = [state EXCEPT ![i] = "recv"]
  /\ UNCHANGED <<skipped, channel, job, handled, result>>

\* An early return: the sender is dropped, and the consumers already running
\* are detached.
SpawnFails ==
  /\ caller = "spawn" /\ i < num_jobs
  /\ caller' = "returned"
  /\ result' = "Thread"
  /\ UNCHANGED <<i, skipped, pool>>

\* explore: a file is sent ...
SendFile ==
  /\ Iterate("explore")
  /\ channel' = Append(channel, i)
  /\ UNCHANGED <<skipped, state, job, handled, result>>

\* ... or, when paths are verified, skipped as not a regular file.
SkipFile ==
  /\ verify_paths
  /\ Iterate("explore")
  /\ skipped' = skipped \cup {i}
  /\ UNCHANGED <<pool, result>>

\* Defect: one pill too few.
Poison_one_less ==
  /\ Iterate("poison")
  /\ channel' = IF i = 0 THEN channel ELSE Append(channel, Pill)
  /\ UNCHANGED <<skipped, state, job, handled, result>>

Poison ==
  /\ Iterate("poison")
  /\ channel' = Append(channel, Pill)
  /\ UNCHANGED <<skipped, state, job, handled, result>>

\* Defect: a join that fails is not looked at.
Join_ignores_panic ==
  /\ Iterate("join")
  /\ state[i] \in Ended
  /\ UNCHANGED <<skipped, pool, result>>

Join ==
  /\ Iterate("join")
  /\ state[i] \in Ended
  /\ result' = IF state[i] = "panicked" /\ result = "Ok" THEN "Receiver" ELSE result
  /\ UNCHANGED <<skipped, pool>>

Caller == (\E loop \in Loop : Leave(loop)) \/ Spawn \/ SendFile \/ SkipFile \/ Poison \/ Join

-----------------------------------------------------------------------------
\* consumer: receive a job or the pill.
Receive(c) ==
  /\ state[c] = "recv"
  /\ channel # <<>>
  /\ channel' = Tail(channel)
  /\ IF Head(channel) = Pill
     THEN /\ state' = [state EXCEPT ![c] = "exited"]
          /\ UNCHANGED job
     ELSE /\ state' = [state EXCEPT ![c] = "busy"]
          /\ job' = [job EXCEPT ![c] = Head(channel)]
  /\ UNCHANGED <<caller_vars, handled, result>>

\* The channel is empty and its sender gone.
Disconnected(c) ==
  /\ state[c] = "recv"
  /\ channel = <<>>
  /\ caller = "returned"
  /\ state' = [state EXCEPT ![c] = "exited"]
  /\ UNCHANGED <<caller_vars, channel, job, handled, result>>

\* The callback returns, with an error or not.
Finish(c) ==
  /\ state[c] = "busy"
  /\ state' = [state EXCEPT ![c] = "recv"]
  /\ job' = [job EXCEPT ![c] = None]
  /\ handled' = handled \cup {job[c]}
  /\ UNCHANGED <<caller_vars, channel, result>>

\* The callback panics and the thread unwinds: its file is lost.
Panic(c) ==
  /\ state[c] = "busy"
  /\ state' = [state EXCEPT ![c] = "panicked"]
  /\ job' = [job EXCEPT ![c] = None]
  /\ UNCHANGED <<caller_vars, channel, handled, result>>

Consume(c) == Receive(c) \/ Disconnected(c) \/ Finish(c)

RunnerNext == Caller \/ SpawnFails \/ \E c \in Consumer : Consume(c) \/ Panic(c)

RunnerSpec == RunnerInit /\ [][RunnerNext]_runner

\* The threads are scheduled, and the analysis of a file comes to an end.
FairRunnerSpec ==
  RunnerSpec /\ WF_runner(Caller) /\ \A c \in Consumer : WF_runner(Consume(c))

-----------------------------------------------------------------------------
State == {"unborn", "recv", "busy"} \cup Ended

\* The values of the variables, and when a consumer has a file.
RunnerTypeOK ==
  /\ caller \in Loop \cup {"returned"}
  /\ i \in 0..(IF caller = "returned" THEN num_jobs ELSE Bound[caller])
  /\ channel \in Seq(File \cup {Pill})
  /\ state \in [Consumer -> State]
  /\ job \in [Consumer -> File \cup {None}]
  /\ skipped \subseteq File
  /\ handled \subseteq File
  /\ result \in {"Ok", "Thread", "Receiver"}
  /\ \A c \in Consumer : state[c] = "busy" <=> job[c] # None

\* `run` reports success only when no file was lost: every path was skipped or
\* its callback returned, and nothing is left behind in the channel.
OkMeansAllHandled ==
  caller = "returned" /\ result = "Ok"
    => /\ handled \cup skipped = File
       /\ handled \cap skipped = {}
       /\ channel = <<>>

\* `run` returns, whatever panics and whichever spawn fails, and no consumer
\* is left blocked on the channel.
PoolEnds ==
  /\ <>(caller = "returned")
  /\ <>[](\A c \in Consumer : state[c] \in Ended \cup {"unborn"})
=============================================================================
