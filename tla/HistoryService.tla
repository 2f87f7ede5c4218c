--------------------------- MODULE HistoryService ---------------------------
(***************************************************************************)
(* What a build of a history index promises its caller, as if there were   *)
(* no cache: it settles on a tip and a reference time, reads the inputs    *)
(* once, and then delivers, in one step, the log of a fresh walk of them.  *)
(* HistoryCache is shown to implement this.                                *)
(***************************************************************************)
EXTENDS HistoryWalk

CONSTANTS Proc, Clock, Absent

VARIABLES HEAD, config, depth, clock,
          request,  \* the options a process builds with, or Absent
          at,       \* the tip and the reference time, or Absent
          ctx,      \* the inputs and the boundary, or Absent
          index     \* the log delivered and its truncation flag, or Absent

repository == <<HEAD, config, depth, clock>>
build == <<request, at, ctx, index>>
vars == <<repository, build>>

None == [p \in Proc |-> Absent]

Init == /\ HEAD \in Commit
        /\ config \in Config
        /\ depth = 0
        /\ clock \in Clock
        /\ request = None /\ at = None /\ ctx = None /\ index = None

Begin(p) ==
  /\ request[p] = Absent
  /\ \E o \in Option : request' = [request EXCEPT ![p] = o]
  /\ UNCHANGED <<repository, at, ctx, index>>

Resolve(p) ==
  /\ request[p] # Absent /\ at[p] = Absent
  /\ at' = [at EXCEPT ![p] =
       [head |-> HEAD,
        now |-> IF request[p].as_of = NoTime THEN clock ELSE request[p].as_of]]
  /\ UNCHANGED <<repository, request, ctx, index>>

ReadInputs(p) ==
  /\ at[p] # Absent /\ ctx[p] = Absent
  /\ ctx' = [ctx EXCEPT ![p] = [cfg |-> config, depth |-> depth]]
  /\ UNCHANGED <<repository, request, at, index>>

\* A log that does not admit to be truncated is the whole window's; a log is
\* the one of the boundary that was read, unless that boundary moved since.
Deliver(p) ==
  LET Log(grafts) ==
        collect_events(at[p].head, request[p], ctx[p].cfg,
          window_boundary(at[p].now, request[p].long_window_secs), grafts, {}).events
  IN  /\ ctx[p] # Absent /\ index[p] = Absent
      /\ index'[p] \in [events : SUBSET Event, truncated : BOOLEAN]
      /\ index' = [index EXCEPT ![p] = index'[p]]
      /\ ctx[p].depth = depth => index'[p].events = Log(Graft[depth])
      /\ ~index'[p].truncated => index'[p].events = Log({})
      /\ UNCHANGED <<repository, request, at, ctx>>

\* The caller has its answer, or the build failed.
End(p) ==
  /\ request[p] # Absent
  /\ request' = [request EXCEPT ![p] = Absent]
  /\ at' = [at EXCEPT ![p] = Absent]
  /\ ctx' = [ctx EXCEPT ![p] = Absent]
  /\ index' = [index EXCEPT ![p] = Absent]
  /\ UNCHANGED repository

Environment ==
  /\ HEAD' \in Commit
  /\ config' \in Config
  /\ depth' \in Depth /\ depth' >= depth
  /\ clock' \in Clock
  /\ UNCHANGED build

Next == \/ Environment
        \/ \E p \in Proc : \/ Begin(p) \/ Resolve(p) \/ ReadInputs(p)
                           \/ Deliver(p) \/ End(p)

Spec == Init /\ [][Next]_vars
=============================================================================
