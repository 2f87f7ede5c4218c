----------------------------- MODULE CacheFile -----------------------------
(***************************************************************************)
(* The files of one repository's cache directory, at the grain of system   *)
(* calls: write_atomic (a temporary file, then a rename), load,            *)
(* clear_repo and the removal of a superseded entry                        *)
(* (src/src/vcs/cache.rs), by threads of several processes.                *)
(*                                                                         *)
(* A name leads to an inode and an open file IS its inode: a write goes on *)
(* to whatever name the inode has by then, and a reader keeps the inode it *)
(* opened.                                                                 *)
(***************************************************************************)
EXTENDS Integers, FiniteSets

CONSTANTS
  Head,       \* commits an entry may be keyed by
  Writer,     \* threads that persist, remove or clear
  Reader,     \* threads that load
  Process,    \* operating-system processes
  Home,       \* Home[w]: the process a writer runs in
  Pid,        \* Pid[q]: what std::process::id returns in process q
  Inode,      \* inodes of the file system, enough that one is always free
  MaxWrites,  \* bound: writes begun by one process
  Partial,    \* the content of a file that is not written to the end
  None

ASSUME FileAssumption ==
  /\ Home \in [Writer -> Process]
  /\ MaxWrites \in Nat

Entry == [head : Head, by : Writer]
TmpName == {Pid[q] : q \in Process} \X (0..MaxWrites - 1)
Name == Head \cup TmpName

\* "<sha>.json" and ".<pid>.<counter>.tmp" are never the same name, and what is
\* absent or cut short is no name, no inode and no entry.
ASSUME NamesApart ==
  /\ Head \cap TmpName = {}
  /\ None \notin Inode \cup Head \cup TmpName
  /\ Partial \notin Entry \cup {None}

VARIABLES
  made,     \* the directory exists
  dir,      \* dir[n]: the inode linked as n, or None
  data,     \* data[i]: an Entry or Partial
  counter,  \* TEMP_COUNTER of each process
  pc,       \* where each writer is
  job,      \* the head it writes an entry of, or None
  tmp,      \* its temporary name, or None
  fd,       \* the inode it writes to, or None
  rfd,      \* the inode a reader has open, or None (not found)
  reading, seen, got  \* as in EntryStore; seen is only observed

writer == <<counter, pc, job, tmp, fd>>
reader == <<rfd, reading, got>>
vars == <<made, dir, data, writer, reader, seen>>

file == [h \in Head |-> IF dir[h] = None THEN None ELSE data[dir[h]]]

InUse == {dir[n] : n \in Name} \cup {fd[w] : w \in Writer} \cup {rfd[r] : r \in Reader}

Init ==
  /\ made = FALSE
  /\ dir = [n \in Name |-> None]
  /\ data = [i \in Inode |-> Partial]
  /\ counter = [q \in Process |-> 0]
  /\ pc = [w \in Writer |-> "idle"]
  /\ job = [w \in Writer |-> None]
  /\ tmp = [w \in Writer |-> None]
  /\ fd = [w \in Writer |-> None]
  /\ rfd = [r \in Reader |-> None]
  /\ reading = [r \in Reader |-> None]
  /\ seen = [r \in Reader |-> {}]
  /\ got = [r \in Reader |-> None]

\* A file with neither a name nor an opener is freed, and its content with it.
Contents(d) == data' = [i \in Inode |-> IF i \in InUse' THEN d[i] ELSE Partial]

\* The writers in ws are back to idle, their files closed.
Idle(ws) ==
  /\ pc' = [w \in Writer |-> IF w \in ws THEN "idle" ELSE pc[w]]
  /\ job' = [w \in Writer |-> IF w \in ws THEN None ELSE job[w]]
  /\ tmp' = [w \in Writer |-> IF w \in ws THEN None ELSE tmp[w]]
  /\ fd' = [w \in Writer |-> IF w \in ws THEN None ELSE fd[w]]

-----------------------------------------------------------------------------
\* Defects: a name without the counter, a name without the process id.
tmp_name_no_counter(w) == <<Pid[Home[w]], 0>>
tmp_name_no_pid(w) == <<Pid[CHOOSE q \in Process : TRUE], counter[Home[w]]>>

\* ".{pid}.{counter}.tmp"
tmp_name(w) == <<Pid[Home[w]], counter[Home[w]]>>

\* create_dir_all, then a temporary name of this process's counter.
Begin(w, h) ==
  LET q == Home[w]
  IN  /\ pc[w] = "idle"
      /\ counter[q] < MaxWrites
      /\ made' = TRUE
      /\ counter' = [counter EXCEPT ![q] = @ + 1]
      /\ tmp' = [tmp EXCEPT ![w] = tmp_name(w)]
      /\ job' = [job EXCEPT ![w] = h]
      /\ pc' = [pc EXCEPT ![w] = "open"]
      /\ UNCHANGED <<data, dir, fd, reader>>

\* fs::write creates the file, or truncates the one that has this name.
OpenTmp(w) ==
  /\ pc[w] = "open"
  /\ made
  /\ \E i \in Inode :
       /\ IF dir[tmp[w]] = None THEN i \notin InUse ELSE i = dir[tmp[w]]
       /\ dir' = [dir EXCEPT ![tmp[w]] = i]
       /\ fd' = [fd EXCEPT ![w] = i]
  /\ pc' = [pc EXCEPT ![w] = "write"]
  /\ UNCHANGED <<made, counter, job, tmp, reader>>
  /\ Contents([data EXCEPT ![fd'[w]] = Partial])

\* Defect: the entry is moved into place before it is written.
WriteAll_later(w) ==
  /\ pc[w] = "write"
  /\ fd' = [fd EXCEPT ![w] = None]
  /\ pc' = [pc EXCEPT ![w] = "rename"]
  /\ UNCHANGED <<made, data, dir, counter, job, tmp, reader>>

\* The rest of fs::write: the file holds the whole entry.
WriteAll(w) ==
  /\ pc[w] = "write"
  /\ fd' = [fd EXCEPT ![w] = None]
  /\ pc' = [pc EXCEPT ![w] = "rename"]
  /\ UNCHANGED <<made, dir, counter, job, tmp, reader>>
  /\ Contents([data EXCEPT ![fd[w]] = [head |-> job[w], by |-> w]])

Rename(w) ==
  /\ pc[w] = "rename"
  /\ dir[tmp[w]] # None
  /\ dir' = [dir EXCEPT ![job[w]] = dir[tmp[w]], ![tmp[w]] = None]
  /\ Idle({w})
  /\ UNCHANGED <<made, counter, reader>>
  /\ Contents(data)

\* Defect: a failed write leaves the file open.
WriteFails_leaks(w) ==
  /\ pc[w] \in {"open", "write", "rename"}
  /\ dir' = IF pc[w] = "rename" THEN [dir EXCEPT ![tmp[w]] = None] ELSE dir
  /\ pc' = [pc EXCEPT ![w] = "idle"]
  /\ UNCHANGED <<made, counter, job, tmp, fd, reader>>
  /\ Contents(data)

\* An error of one of the three calls: the directory was cleared, the disk is
\* full...  Only a failed rename removes the temporary file.
WriteFails(w) ==
  /\ pc[w] \in {"open", "write", "rename"}
  /\ dir' = IF pc[w] = "rename" THEN [dir EXCEPT ![tmp[w]] = None] ELSE dir
  /\ Idle({w})
  /\ UNCHANGED <<made, counter, reader>>
  /\ Contents(data)

\* build_cached removes the entry its walk was spliced onto.
RemoveSuperseded(w, h) ==
  /\ pc[w] = "idle"
  /\ dir' = [dir EXCEPT ![h] = None]
  /\ UNCHANGED <<made, writer, reader>>
  /\ Contents(data)

\* clear_repo: remove_dir_all unlinks the files one by one ...
BeginClear(w) ==
  /\ pc[w] = "idle"
  /\ pc' = [pc EXCEPT ![w] = "clear"]
  /\ UNCHANGED <<data, made, dir, counter, job, tmp, fd, reader>>

ClearOne(w) ==
  /\ pc[w] = "clear"
  /\ \E n \in Name : dir[n] # None /\ dir' = [dir EXCEPT ![n] = None]
  /\ UNCHANGED <<made, writer, reader>>
  /\ Contents(data)

\* ... then the directory, which fails when a file has come back meanwhile.
EndClear(w) ==
  /\ pc[w] = "clear"
  /\ made' = (\E n \in Name : dir[n] # None)
  /\ Idle({w})
  /\ UNCHANGED <<data, dir, counter, reader>>

\* A process dies; a later one may be given its pid and starts counting anew.
Crash(q) ==
  /\ \E w \in Writer : Home[w] = q /\ pc[w] # "idle"
  /\ Idle({w \in Writer : Home[w] = q})
  /\ counter' = [counter EXCEPT ![q] = 0]
  /\ UNCHANGED <<made, dir, reader>>
  /\ Contents(data)

\* load: open, then read to the end; a file that does not parse is None.
OpenEntry(r, h) ==
  /\ reading[r] = None
  /\ reading' = [reading EXCEPT ![r] = h]
  /\ rfd' = [rfd EXCEPT ![r] = dir[h]]
  /\ got' = [got EXCEPT ![r] = None]
  /\ UNCHANGED <<data, made, dir, writer>>

ReadEntry(r) ==
  /\ reading[r] # None
  /\ got' = [got EXCEPT ![r] = IF rfd[r] = None THEN None ELSE data[rfd[r]]]
  /\ reading' = [reading EXCEPT ![r] = None]
  /\ rfd' = [rfd EXCEPT ![r] = None]
  /\ UNCHANGED <<made, dir, writer>>
  /\ Contents(data)

\* The values a load in progress could return if it were one step.
Observe ==
  seen' = [r \in Reader |->
    IF reading'[r] = None THEN {}
    ELSE (IF reading[r] = None THEN {} ELSE seen[r]) \cup {file'[reading'[r]]}]

Step ==
  \/ \E w \in Writer :
       \/ \E h \in Head : Begin(w, h) \/ RemoveSuperseded(w, h)
       \/ OpenTmp(w) \/ WriteAll(w) \/ Rename(w) \/ WriteFails(w)
       \/ BeginClear(w) \/ ClearOne(w) \/ EndClear(w)
  \/ \E q \in Process : Crash(q)
  \/ \E r \in Reader : ReadEntry(r) \/ \E h \in Head : OpenEntry(r, h)

Next == Step /\ Observe

Spec == Init /\ [][Next]_vars

-----------------------------------------------------------------------------
\* Processes that share the directory have different pids.
DistinctPids == \A q1, q2 \in Process : Pid[q1] = Pid[q2] => q1 = q2

Label == {"idle", "open", "write", "rename", "clear"}

\* The values of the variables, and which locals a writer has at which step.
TypeOK ==
  /\ made \in BOOLEAN
  /\ dir \in [Name -> Inode \cup {None}]
  /\ data \in [Inode -> Entry \cup {Partial}]
  /\ counter \in [Process -> 0..MaxWrites]
  /\ pc \in [Writer -> Label]
  /\ job \in [Writer -> Head \cup {None}]
  /\ tmp \in [Writer -> TmpName \cup {None}]
  /\ fd \in [Writer -> Inode \cup {None}]
  /\ rfd \in [Reader -> Inode \cup {None}]
  /\ reading \in [Reader -> Head \cup {None}]
  /\ \A w \in Writer :
       /\ pc[w] \in {"open", "write", "rename"} <=> job[w] \in Head
       /\ pc[w] \in {"open", "write", "rename"} <=> tmp[w] \in TmpName
       /\ pc[w] = "write" <=> fd[w] \in Inode

\* "A concurrent reader never observes a half-written file" (cache.rs:551).
NoTornRead == \A r \in Reader : got[r] # Partial

\* The file of a head holds, at every moment, a complete entry of that head:
\* neither a crash nor a failed or concurrent write leaves anything else.
EntriesComplete == \A h \in Head : dir[h] # None => data[dir[h]] \in Entry /\ data[dir[h]].head = h

\* The directory behaves as the one-step store the cache is written against.
Store == INSTANCE EntryStore
StoreSpec == Store!Spec
=============================================================================
