---------------------------- MODULE EntryStore ----------------------------
(***************************************************************************)
(* What the history cache relies on its directory for (module docs and     *)
(* write_atomic of src/src/vcs/cache.rs): the entry of a head appears, is  *)
(* replaced and vanishes in one step, it is always a complete entry of     *)
(* that head, and a load returns a value the file had while it ran.        *)
(***************************************************************************)
CONSTANTS Head, Reader, Entry, None

VARIABLES
  file,     \* file[h]: the entry readable under h.json, or None
  reading,  \* reading[r]: the head r is loading, or None
  seen,     \* seen[r]: the values that file has had since the load began
  got       \* got[r]: the result of the last load of r, or None

vars == <<file, reading, seen, got>>

Init == /\ file = [h \in Head |-> None]
        /\ reading = [r \in Reader |-> None]
        /\ seen = [r \in Reader |-> {}]
        /\ got = [r \in Reader |-> None]

\* A change of the directory, which every load in progress may observe.
Observed ==
  /\ seen' = [r \in Reader |-> IF reading[r] = None THEN {}
                               ELSE seen[r] \cup {file'[reading[r]]}]
  /\ UNCHANGED <<reading, got>>

Publish(h) ==
  /\ \E e \in Entry : e.head = h /\ file' = [file EXCEPT ![h] = e]
  /\ Observed

Remove(h) == file' = [file EXCEPT ![h] = None] /\ Observed

BeginLoad(r, h) ==
  /\ reading[r] = None
  /\ reading' = [reading EXCEPT ![r] = h]
  /\ seen' = [seen EXCEPT ![r] = {file[h]}]
  /\ got' = [got EXCEPT ![r] = None]
  /\ UNCHANGED file

EndLoad(r) ==
  /\ reading[r] # None
  /\ \E v \in seen[r] : got' = [got EXCEPT ![r] = v]
  /\ reading' = [reading EXCEPT ![r] = None]
  /\ seen' = [seen EXCEPT ![r] = {}]
  /\ UNCHANGED file

Next == \/ \E h \in Head : Publish(h) \/ Remove(h)
        \/ \E r \in Reader : EndLoad(r) \/ \E h \in Head : BeginLoad(r, h)

Spec == Init /\ [][Next]_vars
=============================================================================
