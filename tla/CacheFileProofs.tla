-------------------------- MODULE CacheFileProofs --------------------------
(***************************************************************************)
(* Proofs about CacheFile: with any number of processes, threads, heads    *)
(* and inodes, the file of a head is a complete entry of it, no load       *)
(* returns a torn one, and the directory implements EntryStore, as long as *)
(* the processes that share it have different pids.                        *)
(***************************************************************************)
EXTENDS CacheFile, TLAPS

\* A writer between create_dir_all and the end of write_atomic.
Active(w) == pc[w] \in {"open", "write", "rename"}

\* Two writes under way have different temporary names: those of one process
\* were drawn from its counter, those of two differ in the pid.
NamesDiffer ==
  /\ \A w \in Writer : Active(w) => \E k \in 0..counter[Home[w]] - 1 : tmp[w] = <<Pid[Home[w]], k>>
  /\ \A v, w \in Writer : Active(v) /\ Active(w) /\ tmp[v] = tmp[w] => v = w

\* There are no hard links.
OneLink == \A m, n \in Name : dir[m] # None /\ dir[m] = dir[n] => m = n

\* The inode being written is reached by its writer alone, under its temporary
\* name or, after a clear, under none.
WritesApart ==
  \A w \in Writer : pc[w] = "write" =>
    /\ dir[tmp[w]] \in {None, fd[w]}
    /\ \A n \in Name : dir[n] = fd[w] => n = tmp[w]
    /\ \A v \in Writer : fd[v] = fd[w] => v = w
    /\ \A r \in Reader : rfd[r] # fd[w]

\* What is about to be renamed is a complete entry of the head.
ReadyToPublish ==
  \A w \in Writer : pc[w] = "rename" /\ dir[tmp[w]] # None =>
    data[dir[tmp[w]]] \in {e \in Entry : e.head = job[w]}

\* A reader has an entry open that has left, or never again has, a temporary name.
ReadsApart ==
  \A r \in Reader :
    /\ reading[r] = None => rfd[r] = None
    /\ rfd[r] # None => /\ data[rfd[r]] \in Entry
                        /\ \A n \in TmpName : dir[n] # rfd[r]

Published == \A h \in Head : dir[h] # None => data[dir[h]] \in {e \in Entry : e.head = h}

Returned == got \in [Reader -> Entry \cup {None}]

\* What a load that is under way would return.
Loaded(r) == IF rfd[r] = None THEN None ELSE data[rfd[r]]

\* What a load in progress will return, and what the file holds now, are values
\* the file has had since the load began.
Observed ==
  /\ seen = [r \in Reader |-> seen[r]]
  /\ \A r \in Reader :
       /\ reading[r] = None => seen[r] = {}
       /\ reading[r] # None =>
            /\ file[reading[r]] \in seen[r]
            /\ Loaded(r) \in seen[r]

\* What stays in use keeps its content.
LEMMA ContentsKept ==
  ASSUME NEW d, Contents(d)
  PROVE  \A i \in Inode :
           /\ (\E n \in Name : dir'[n] = i) => data'[i] = d[i]
           /\ (\E w \in Writer : fd'[w] = i) => data'[i] = d[i]
           /\ (\E r \in Reader : rfd'[r] = i) => data'[i] = d[i]
BY DEF Contents, InUse

\* Contents keeps the type of the files.
LEMMA ContentsTyped ==
  ASSUME NEW d \in [Inode -> Entry \cup {Partial}], Contents(d)
  PROVE  data' \in [Inode -> Entry \cup {Partial}]
BY DEF Contents

\* Idle keeps the types of the writers' locals and which of them are set.
LEMMA IdleTyped ==
  ASSUME TypeOK, NEW ws, Idle(ws)
  PROVE  /\ pc' \in [Writer -> Label]
         /\ job' \in [Writer -> Head \cup {None}]
         /\ tmp' \in [Writer -> TmpName \cup {None}]
         /\ fd' \in [Writer -> Inode \cup {None}]
         /\ \A w \in Writer :
              /\ pc'[w] \in {"open", "write", "rename"} <=> job'[w] \in Head
              /\ pc'[w] \in {"open", "write", "rename"} <=> tmp'[w] \in TmpName
              /\ pc'[w] = "write" <=> fd'[w] \in Inode
BY NamesApart DEF TypeOK, Idle, Label

\* The values of the variables, for any processes, pids and writes.
LEMMA Typing == TypeOK /\ [Next]_vars => TypeOK'
<1> SUFFICES ASSUME TypeOK, [Next]_vars PROVE TypeOK'
  OBVIOUS
<1> USE FileAssumption, NamesApart
<1> USE DEF TypeOK, writer, reader
<1>1. ASSUME NEW w \in Writer, NEW h \in Head, Begin(w, h) PROVE TypeOK'
  <2>1. tmp_name(w) \in TmpName
    BY <1>1 DEF Begin, tmp_name, TmpName
  <2> QED
    BY <1>1, <2>1 DEF Begin, Label
<1>2. ASSUME NEW w \in Writer, NEW h \in Head, RemoveSuperseded(w, h) PROVE TypeOK'
  BY <1>2, ContentsTyped DEF RemoveSuperseded, Name
<1>3. ASSUME NEW w \in Writer, OpenTmp(w) PROVE TypeOK'
  <2>1. [data EXCEPT ![fd'[w]] = Partial] \in [Inode -> Entry \cup {Partial}]
    OBVIOUS
  <2>2. data' \in [Inode -> Entry \cup {Partial}]
    BY <1>3, <2>1, ContentsTyped DEF OpenTmp
  <2> QED
    BY <1>3, <2>2 DEF OpenTmp, Label, Name
<1>4. ASSUME NEW w \in Writer, WriteAll(w) PROVE TypeOK'
  <2>1. [head |-> job[w], by |-> w] \in Entry
    BY <1>4 DEF WriteAll, Entry
  <2>2. [data EXCEPT ![fd[w]] = [head |-> job[w], by |-> w]] \in [Inode -> Entry \cup {Partial}]
    BY <2>1
  <2>3. data' \in [Inode -> Entry \cup {Partial}]
    BY <1>4, <2>2, ContentsTyped DEF WriteAll
  <2> QED
    BY <1>4, <2>3 DEF WriteAll, Label
<1>5. ASSUME NEW w \in Writer, Rename(w) PROVE TypeOK'
  BY <1>5, ContentsTyped, IdleTyped DEF Rename, Name
<1>6. ASSUME NEW w \in Writer, WriteFails(w) PROVE TypeOK'
  BY <1>6, ContentsTyped, IdleTyped DEF WriteFails, Name
<1>7. ASSUME NEW w \in Writer, BeginClear(w) PROVE TypeOK'
  BY <1>7 DEF BeginClear, Label
<1>8. ASSUME NEW w \in Writer, ClearOne(w) PROVE TypeOK'
  BY <1>8, ContentsTyped DEF ClearOne
<1>9. ASSUME NEW w \in Writer, EndClear(w) PROVE TypeOK'
  BY <1>9, IdleTyped DEF EndClear
<1>10. ASSUME NEW q \in Process, Crash(q) PROVE TypeOK'
  BY <1>10, ContentsTyped, IdleTyped DEF Crash
<1>11. ASSUME NEW r \in Reader, NEW h \in Head, OpenEntry(r, h) PROVE TypeOK'
  BY <1>11 DEF OpenEntry, Name
<1>12. ASSUME NEW r \in Reader, ReadEntry(r) PROVE TypeOK'
  BY <1>12, ContentsTyped DEF ReadEntry
<1>13. CASE UNCHANGED vars
  BY <1>13 DEF vars
<1> QED
  BY <1>1, <1>2, <1>3, <1>4, <1>5, <1>6, <1>7, <1>8, <1>9, <1>10, <1>11, <1>12, <1>13 DEF Next, Step

\* The types of an empty directory with nobody at work.
LEMMA InitTyped == Init => TypeOK
<1> SUFFICES ASSUME Init PROVE TypeOK
  OBVIOUS
<1>1. counter \in [Process -> 0..MaxWrites]
  BY FileAssumption DEF Init
<1>2. made \in BOOLEAN /\ pc \in [Writer -> Label]
  BY DEF Init, Label
<1> QED
  BY <1>1, <1>2, NamesApart DEF Init, TypeOK

\* The values of the variables and the locals a writer has at each step of
\* write_atomic, with any pids, shared or not.
THEOREM FileTypes == Spec => []TypeOK
BY InitTyped, Typing, PTL DEF Spec

-----------------------------------------------------------------------------
\* A name is drawn from the counter of its process, which a crash resets only
\* with the writers of that process gone.
LEMMA NamesStep ==
  ASSUME DistinctPids, TypeOK, NamesDiffer, Next
  PROVE  NamesDiffer'
<1> USE FileAssumption, NamesApart DEF TypeOK, NamesDiffer, Active
<1>1. ASSUME NEW w \in Writer, NEW h \in Head, Begin(w, h) PROVE NamesDiffer'
  <2>1. /\ tmp'[w] = <<Pid[Home[w]], counter[Home[w]]>>
        /\ \A v \in Writer \ {w} : tmp'[v] = tmp[v] /\ pc'[v] = pc[v]
        /\ counter'[Home[w]] = counter[Home[w]] + 1
        /\ \A q \in Process \ {Home[w]} : counter'[q] = counter[q]
        /\ pc[w] = "idle" /\ counter \in [Process -> Int]
    BY <1>1 DEF Begin, tmp_name
  <2>2. ASSUME NEW v \in Writer, Active(v)'
        PROVE \E k \in 0..counter'[Home[v]] - 1 : tmp'[v] = <<Pid[Home[v]], k>>
    <3>1. CASE v = w
      BY <2>1, <3>1
    <3>2. CASE v # w
      BY <2>1, <2>2, <3>2
    <3> QED
      BY <3>1, <3>2
  <2>3. ASSUME NEW v \in Writer \ {w}, Active(v) PROVE tmp[v] # tmp'[w]
    <3>1. PICK k \in 0..counter[Home[v]] - 1 : tmp[v] = <<Pid[Home[v]], k>>
      BY <2>3
    <3>2. CASE Home[v] = Home[w]
      BY <2>1, <3>1, <3>2
    <3>3. CASE Home[v] # Home[w]
      BY <2>1, <3>1, <3>3 DEF DistinctPids
    <3> QED
      BY <3>2, <3>3
  <2>4. \A u, v \in Writer : Active(u)' /\ Active(v)' /\ tmp'[u] = tmp'[v] => u = v
    BY <2>1, <2>3
  <2> QED
    BY <2>2, <2>4
<1>2. ASSUME UNCHANGED counter,
             \A w \in Writer : \/ pc'[w] \in {"idle", "clear"}
                               \/ Active(w) /\ tmp'[w] = tmp[w]
      PROVE NamesDiffer'
  BY <1>2
<1>3. ASSUME NEW q \in Process, Crash(q) PROVE NamesDiffer'
  <2>1. /\ \A w \in Writer : IF Home[w] = q THEN pc'[w] = "idle" ELSE pc'[w] = pc[w] /\ tmp'[w] = tmp[w]
        /\ \A p \in Process \ {q} : counter'[p] = counter[p]
    BY <1>3 DEF Crash, Idle
  <2> QED
    BY <2>1
<1>4. ASSUME NEW w \in Writer, NEW h \in Head, RemoveSuperseded(w, h) PROVE NamesDiffer'
  BY <1>4 DEF RemoveSuperseded, writer
<1>5. ASSUME NEW w \in Writer, OpenTmp(w) PROVE NamesDiffer'
  BY <1>2, <1>5 DEF OpenTmp, Label
<1>6. ASSUME NEW w \in Writer, WriteAll(w) PROVE NamesDiffer'
  BY <1>2, <1>6 DEF WriteAll, Label
<1>7. ASSUME NEW w \in Writer, Rename(w) PROVE NamesDiffer'
  BY <1>2, <1>7 DEF Rename, Idle, Label
<1>8. ASSUME NEW w \in Writer, WriteFails(w) PROVE NamesDiffer'
  BY <1>2, <1>8 DEF WriteFails, Idle, Label
<1>9. ASSUME NEW w \in Writer, BeginClear(w) PROVE NamesDiffer'
  BY <1>2, <1>9 DEF BeginClear, Label
<1>10. ASSUME NEW w \in Writer, ClearOne(w) PROVE NamesDiffer'
  BY <1>10 DEF ClearOne, writer
<1>11. ASSUME NEW w \in Writer, EndClear(w) PROVE NamesDiffer'
  BY <1>2, <1>11 DEF EndClear, Idle, Label
<1>12. ASSUME NEW r \in Reader, NEW h \in Head, OpenEntry(r, h) PROVE NamesDiffer'
  BY <1>12 DEF OpenEntry, writer
<1>13. ASSUME NEW r \in Reader, ReadEntry(r) PROVE NamesDiffer'
  BY <1>13 DEF ReadEntry, writer
<1> QED
  BY <1>1, <1>3, <1>4, <1>5, <1>6, <1>7, <1>8, <1>9, <1>10, <1>11, <1>12, <1>13 DEF Next, Step

-----------------------------------------------------------------------------
\* The conjuncts about inodes: who reaches which, and what it holds.
InodesApart == OneLink /\ WritesApart /\ ReadyToPublish /\ ReadsApart /\ Published

FileInvariant ==
  /\ TypeOK
  /\ NamesDiffer
  /\ InodesApart
  /\ Returned
  /\ Observed

\* What only takes away names, writers and readers keeps the inodes apart.
LEMMA TakingAway ==
  ASSUME TypeOK, TypeOK', InodesApart,
         \A n \in Name : dir'[n] \in {dir[n], None},
         \A w \in Writer : \/ pc'[w] \in {"idle", "clear"}
                           \/ pc'[w] = pc[w] /\ job'[w] = job[w] /\ tmp'[w] = tmp[w] /\ fd'[w] = fd[w],
         \A r \in Reader : \/ reading'[r] = reading[r] /\ rfd'[r] = rfd[r]
                           \/ rfd'[r] = None,
         \A i \in Inode : (\/ \E n \in Name : dir'[n] = i
                           \/ \E r \in Reader : rfd'[r] = i) => data'[i] = data[i]
  PROVE  InodesApart'
<1> USE NamesApart DEF Name, InodesApart
<1>1. OneLink'
  BY DEF OneLink
<1>2. WritesApart'
  <2> SUFFICES ASSUME NEW w \in Writer, pc'[w] = "write" PROVE
        /\ dir'[tmp'[w]] \in {None, fd'[w]}
        /\ \A n \in Name : dir'[n] = fd'[w] => n = tmp'[w]
        /\ \A v \in Writer : fd'[v] = fd'[w] => v = w
        /\ \A r \in Reader : rfd'[r] # fd'[w]
    BY DEF WritesApart
  <2>1. pc[w] = "write" /\ tmp'[w] = tmp[w] /\ fd'[w] = fd[w] /\ fd[w] \in Inode /\ tmp[w] \in Name
    BY DEF TypeOK
  <2>2. \A v \in Writer : fd'[v] = fd'[w] => fd[v] = fd[w]
    BY <2>1 DEF TypeOK
  <2> QED
    BY <2>1, <2>2 DEF WritesApart
<1>3. ReadyToPublish'
  <2> SUFFICES ASSUME NEW w \in Writer, pc'[w] = "rename", dir'[tmp'[w]] # None
        PROVE data'[dir'[tmp'[w]]] \in {e \in Entry : e.head = job'[w]}
    BY DEF ReadyToPublish
  <2>1. pc[w] = "rename" /\ tmp'[w] = tmp[w] /\ job'[w] = job[w] /\ tmp[w] \in Name
    BY DEF TypeOK
  <2>2. dir'[tmp[w]] = dir[tmp[w]] /\ dir[tmp[w]] \in Inode
    BY <2>1 DEF TypeOK
  <2> QED
    BY <2>1, <2>2 DEF ReadyToPublish
<1>4. ReadsApart'
  <2> SUFFICES ASSUME NEW r \in Reader PROVE
        /\ reading'[r] = None => rfd'[r] = None
        /\ rfd'[r] # None => /\ data'[rfd'[r]] \in Entry
                             /\ \A n \in TmpName : dir'[n] # rfd'[r]
    BY DEF ReadsApart
  <2>1. CASE rfd'[r] = None
    BY <2>1
  <2>2. CASE rfd'[r] # None
    <3>1. reading'[r] = reading[r] /\ rfd'[r] = rfd[r] /\ rfd[r] \in Inode
      BY <2>2 DEF TypeOK
    <3>2. data'[rfd'[r]] = data[rfd[r]]
      BY <3>1
    <3> QED
      BY <2>2, <3>1, <3>2 DEF ReadsApart
  <2> QED
    BY <2>1, <2>2
<1>5. Published'
  BY DEF Published, TypeOK
<1> QED
  BY <1>1, <1>2, <1>3, <1>4, <1>5

\* The file that OpenTmp creates or truncates is nobody else's.
LEMMA OpenTmpIsAlone ==
  ASSUME TypeOK, NamesDiffer, InodesApart, NEW w \in Writer, OpenTmp(w)
  PROVE  /\ tmp[w] \in TmpName /\ fd'[w] \in Inode
         /\ dir' = [dir EXCEPT ![tmp[w]] = fd'[w]]
         /\ \A n \in Name : dir[n] = fd'[w] => n = tmp[w]
         /\ \A v \in Writer : fd[v] # fd'[w]
         /\ \A r \in Reader : rfd[r] # fd'[w]
         /\ \A i \in Inode : (\/ \E n \in Name : dir'[n] = i
                              \/ \E r \in Reader : rfd[r] = i) /\ i # fd'[w]
                             => data'[i] = data[i]
<1> USE NamesApart DEF Name, InodesApart
<1>1. /\ tmp[w] \in TmpName /\ pc[w] = "open" /\ rfd' = rfd
      /\ \E i \in Inode : /\ IF dir[tmp[w]] = None THEN i \notin InUse ELSE i = dir[tmp[w]]
                          /\ dir' = [dir EXCEPT ![tmp[w]] = i]
                          /\ fd' = [fd EXCEPT ![w] = i]
      /\ Contents([data EXCEPT ![fd'[w]] = Partial])
  BY DEF OpenTmp, TypeOK, reader
<1>2. PICK i \in Inode : /\ IF dir[tmp[w]] = None THEN i \notin InUse ELSE i = dir[tmp[w]]
                         /\ dir' = [dir EXCEPT ![tmp[w]] = i]
                         /\ fd' = [fd EXCEPT ![w] = i]
  BY <1>1
<1>3. fd'[w] = i
  BY <1>2 DEF TypeOK
<1>4. \A n \in Name : dir[n] = i => n = tmp[w]
  BY <1>1, <1>2 DEF OneLink, InUse
<1>5. ASSUME NEW v \in Writer PROVE fd[v] # i
  <2>1. CASE dir[tmp[w]] = None
    BY <1>2, <2>1 DEF InUse
  <2>2. CASE dir[tmp[w]] # None
    <3> SUFFICES ASSUME fd[v] = i PROVE FALSE
      OBVIOUS
    <3>1. pc[v] = "write" /\ tmp[w] \in Name
      BY <1>1 DEF TypeOK
    <3>2. tmp[w] = tmp[v]
      BY <1>2, <2>2, <3>1 DEF WritesApart
    <3> QED
      BY <1>1, <3>1, <3>2 DEF NamesDiffer, Active
  <2> QED
    BY <2>1, <2>2
<1>6. ASSUME NEW r \in Reader PROVE rfd[r] # i
  BY <1>1, <1>2 DEF InUse, ReadsApart
<1>7. ASSUME NEW j \in Inode, \/ \E n \in Name : dir'[n] = j
                              \/ \E r \in Reader : rfd[r] = j, j # i
      PROVE  data'[j] = data[j]
  <2>1. data'[j] = [data EXCEPT ![fd'[w]] = Partial][j]
    BY <1>1, <1>7, ContentsKept
  <2> QED
    BY <1>3, <1>7, <2>1 DEF TypeOK
<1> QED
  BY <1>1, <1>2, <1>3, <1>4, <1>5, <1>6, <1>7

\* OpenTmp truncates a file that no head names and no reader has open.
LEMMA OpenTmpStep ==
  ASSUME TypeOK, TypeOK', NamesDiffer, InodesApart, NEW w \in Writer, OpenTmp(w)
  PROVE  InodesApart'
<1> USE NamesApart DEF Name, InodesApart
<1>1. /\ tmp[w] \in TmpName /\ fd'[w] \in Inode
      /\ dir' = [dir EXCEPT ![tmp[w]] = fd'[w]]
      /\ \A n \in Name : dir[n] = fd'[w] => n = tmp[w]
      /\ \A v \in Writer : fd[v] # fd'[w]
      /\ \A r \in Reader : rfd[r] # fd'[w]
      /\ \A i \in Inode : (\/ \E n \in Name : dir'[n] = i
                           \/ \E r \in Reader : rfd[r] = i) /\ i # fd'[w]
                          => data'[i] = data[i]
  BY OpenTmpIsAlone
<1>2. /\ job' = job /\ tmp' = tmp /\ rfd' = rfd /\ reading' = reading
      /\ pc' = [pc EXCEPT ![w] = "write"] /\ pc[w] = "open"
      /\ fd' = [fd EXCEPT ![w] = fd'[w]]
  BY DEF OpenTmp, reader, TypeOK
<1>3. /\ dir'[tmp[w]] = fd'[w]
      /\ \A n \in Name \ {tmp[w]} : dir'[n] = dir[n] /\ dir[n] # fd'[w]
      /\ \A n \in Name : dir'[n] = fd'[w] => n = tmp[w]
  BY <1>1 DEF TypeOK
<1>4. \A v \in Writer : v # w => /\ pc'[v] = pc[v] /\ fd'[v] = fd[v]
                                 /\ Active(v) => tmp[v] # tmp[w]
  BY <1>2 DEF TypeOK, NamesDiffer, Active
<1>5. OneLink'
  BY <1>3 DEF OneLink
<1>6. WritesApart'
  <2> SUFFICES ASSUME NEW v \in Writer, pc'[v] = "write" PROVE
        /\ dir'[tmp[v]] \in {None, fd'[v]}
        /\ \A n \in Name : dir'[n] = fd'[v] => n = tmp[v]
        /\ \A u \in Writer : fd'[u] = fd'[v] => u = v
        /\ \A r \in Reader : rfd[r] # fd'[v]
    BY <1>2 DEF WritesApart
  <2>1. CASE v = w
    BY <1>1, <1>3, <1>4, <2>1
  <2>2. CASE v # w
    <3>1. pc[v] = "write" /\ fd'[v] = fd[v] /\ tmp[v] # tmp[w] /\ tmp[v] \in Name
      BY <1>4, <2>2 DEF Active, TypeOK
    <3>2. fd[v] # fd'[w] /\ dir'[tmp[v]] = dir[tmp[v]]
      BY <1>1, <1>3, <3>1
    <3> QED
      BY <1>3, <1>4, <3>1, <3>2 DEF WritesApart
  <2> QED
    BY <2>1, <2>2
<1>7. ReadyToPublish'
  <2> SUFFICES ASSUME NEW v \in Writer, pc'[v] = "rename", dir'[tmp[v]] # None
        PROVE data'[dir'[tmp[v]]] \in {e \in Entry : e.head = job[v]}
    BY <1>2 DEF ReadyToPublish
  <2>1. v # w
    BY <1>2 DEF TypeOK
  <2>2. pc[v] = "rename" /\ tmp[v] # tmp[w] /\ tmp[v] \in Name
    BY <1>4, <2>1 DEF Active, TypeOK
  <2>3. dir'[tmp[v]] = dir[tmp[v]] /\ dir[tmp[v]] \in Inode /\ dir[tmp[v]] # fd'[w]
    BY <1>3, <2>2 DEF TypeOK
  <2>4. data'[dir[tmp[v]]] = data[dir[tmp[v]]]
    BY <1>1, <2>2, <2>3
  <2> QED
    BY <2>2, <2>3, <2>4 DEF ReadyToPublish
<1>8. ReadsApart'
  BY <1>1, <1>2, <1>3 DEF ReadsApart, TypeOK
<1>9. Published'
  BY <1>1, <1>3 DEF Published, TypeOK
<1> QED
  BY <1>5, <1>6, <1>7, <1>8, <1>9

\* WriteAll fills the file that its writer alone reaches.
LEMMA WriteAllStep ==
  ASSUME TypeOK, TypeOK', NamesDiffer, InodesApart, NEW w \in Writer, WriteAll(w)
  PROVE  InodesApart'
<1> USE NamesApart DEF Name, InodesApart
<1>1. /\ dir' = dir /\ job' = job /\ tmp' = tmp /\ rfd' = rfd /\ reading' = reading
      /\ pc' = [pc EXCEPT ![w] = "rename"] /\ pc[w] = "write"
      /\ fd' = [fd EXCEPT ![w] = None]
      /\ fd[w] \in Inode /\ tmp[w] \in Name /\ job[w] \in Head
  BY DEF WriteAll, reader, TypeOK
<1>2. \A i \in Inode : (\/ \E n \in Name : dir[n] = i
                        \/ \E r \in Reader : rfd[r] = i) =>
        data'[i] = IF i = fd[w] THEN [head |-> job[w], by |-> w] ELSE data[i]
  <2> DEFINE d == [data EXCEPT ![fd[w]] = [head |-> job[w], by |-> w]]
  <2>1. Contents(d)
    BY DEF WriteAll
  <2>2. \A i \in Inode : d[i] = IF i = fd[w] THEN [head |-> job[w], by |-> w] ELSE data[i]
    BY DEF TypeOK
  <2> HIDE DEF d
  <2> QED
    BY <1>1, <2>1, <2>2, ContentsKept
<1>3. \A v \in Writer : v # w => /\ pc'[v] = pc[v] /\ fd'[v] = fd[v]
                                 /\ Active(v) => tmp[v] # tmp[w]
  BY <1>1 DEF TypeOK, NamesDiffer, Active
<1>4. fd'[w] = None /\ \A v \in Writer : fd'[v] \in Inode => v # w
  BY <1>1 DEF TypeOK
<1>5. /\ \A n \in Name : dir[n] = fd[w] => n = tmp[w]
      /\ \A r \in Reader : rfd[r] # fd[w]
      /\ dir[tmp[w]] \in {None, fd[w]}
  BY <1>1 DEF WritesApart
<1>6. OneLink'
  BY <1>1 DEF OneLink
<1>7. WritesApart'
  <2> SUFFICES ASSUME NEW v \in Writer, pc'[v] = "write" PROVE
        /\ dir[tmp[v]] \in {None, fd'[v]}
        /\ \A n \in Name : dir[n] = fd'[v] => n = tmp[v]
        /\ \A u \in Writer : fd'[u] = fd'[v] => u = v
        /\ \A r \in Reader : rfd[r] # fd'[v]
    BY <1>1 DEF WritesApart
  <2>1. v # w
    BY <1>1 DEF TypeOK
  <2>2. pc[v] = "write" /\ fd'[v] = fd[v] /\ fd[v] \in Inode
    BY <1>3, <2>1 DEF TypeOK
  <2> QED
    BY <1>3, <1>4, <2>1, <2>2 DEF WritesApart
<1>8. ReadyToPublish'
  <2> SUFFICES ASSUME NEW v \in Writer, pc'[v] = "rename", dir[tmp[v]] # None
        PROVE data'[dir[tmp[v]]] \in {e \in Entry : e.head = job[v]}
    BY <1>1 DEF ReadyToPublish
  <2>1. CASE v = w
    <3>1. data'[dir[tmp[v]]] = [head |-> job[w], by |-> w]
      BY <1>1, <1>2, <1>5, <2>1
    <3> QED
      BY <1>1, <2>1, <3>1 DEF Entry
  <2>2. CASE v # w
    <3>1. pc[v] = "rename" /\ tmp[v] # tmp[w] /\ tmp[v] \in Name /\ dir[tmp[v]] \in Inode
      BY <1>3, <2>2 DEF Active, TypeOK
    <3>2. data'[dir[tmp[v]]] = data[dir[tmp[v]]]
      BY <1>2, <1>5, <3>1
    <3> QED
      BY <3>1, <3>2 DEF ReadyToPublish
  <2> QED
    BY <2>1, <2>2
<1>9. ReadsApart'
  BY <1>1, <1>2, <1>5 DEF ReadsApart, TypeOK
<1>10. Published'
  BY <1>1, <1>2, <1>5 DEF Published, TypeOK
<1> QED
  BY <1>6, <1>7, <1>8, <1>9, <1>10

\* Rename moves a complete entry of the head from its temporary name to it.
LEMMA RenameStep ==
  ASSUME TypeOK, TypeOK', NamesDiffer, InodesApart, NEW w \in Writer, Rename(w)
  PROVE  InodesApart'
<1> USE NamesApart DEF Name, InodesApart
<1> DEFINE i == dir[tmp[w]]
           h == job[w]
<1>1. /\ pc[w] = "rename" /\ i \in Inode /\ h \in Head /\ tmp[w] \in TmpName
      /\ dir' = [dir EXCEPT ![h] = i, ![tmp[w]] = None]
      /\ rfd' = rfd /\ reading' = reading
      /\ pc'[w] = "idle" /\ fd'[w] = None
      /\ \A v \in Writer : v # w => pc'[v] = pc[v] /\ job'[v] = job[v] /\ tmp'[v] = tmp[v] /\ fd'[v] = fd[v]
  BY DEF Rename, Idle, reader, TypeOK
<1>2. \A j \in Inode : (\/ \E n \in Name : dir'[n] = j
                        \/ \E r \in Reader : rfd[r] = j) => data'[j] = data[j]
  <2>1. Contents(data)
    BY DEF Rename
  <2>2. \A j \in Inode : (\/ \E n \in Name : dir'[n] = j
                          \/ \E r \in Reader : rfd'[r] = j) => data'[j] = data[j]
    BY <2>1, ContentsKept
  <2>3. rfd' = rfd
    BY <1>1
  <2> QED
    BY <2>2, <2>3
<1>3. /\ dir'[h] = i /\ dir'[tmp[w]] = None
      /\ \A n \in Name : n # h /\ n # tmp[w] => dir'[n] = dir[n]
      /\ \A n \in Name : dir[n] = i => n = tmp[w]
  BY <1>1 DEF TypeOK, OneLink
<1>4. \A v \in Writer : v # w /\ Active(v) => tmp[v] \in TmpName /\ tmp[v] # tmp[w] /\ tmp[v] # h
  BY <1>1 DEF TypeOK, NamesDiffer, Active
<1>5. \A v \in Writer : fd[v] # i
  <2> SUFFICES ASSUME NEW v \in Writer, fd[v] = i PROVE FALSE
    OBVIOUS
  <2>1. pc[v] = "write"
    BY <1>1 DEF TypeOK
  <2>2. tmp[w] = tmp[v] /\ v # w
    BY <1>1, <2>1 DEF WritesApart
  <2> QED
    BY <1>4, <2>1, <2>2 DEF Active
<1> HIDE DEF i, h
<1>6. OneLink'
  BY <1>3 DEF OneLink
<1>7. WritesApart'
  <2> SUFFICES ASSUME NEW v \in Writer, pc'[v] = "write" PROVE
        /\ dir'[tmp'[v]] \in {None, fd'[v]}
        /\ \A n \in Name : dir'[n] = fd'[v] => n = tmp'[v]
        /\ \A u \in Writer : fd'[u] = fd'[v] => u = v
        /\ \A r \in Reader : rfd'[r] # fd'[v]
    BY DEF WritesApart
  <2>1. v # w /\ pc[v] = "write" /\ tmp'[v] = tmp[v] /\ fd'[v] = fd[v] /\ fd[v] \in Inode
    BY <1>1 DEF TypeOK
  <2>2. dir'[tmp[v]] = dir[tmp[v]]
    BY <1>3, <1>4, <2>1 DEF Active
  <2>3. ASSUME NEW n \in Name, dir'[n] = fd[v] PROVE n = tmp[v]
    <3>1. dir[n] = fd[v]
      BY <1>3, <1>5, <2>1, <2>3
    <3> QED
      BY <2>1, <3>1 DEF WritesApart
  <2>4. ASSUME NEW u \in Writer, fd'[u] = fd[v] PROVE u = v
    <3>1. fd[u] = fd[v]
      BY <1>1, <2>1, <2>4
    <3> QED
      BY <2>1, <3>1 DEF WritesApart
  <2>5. dir[tmp[v]] \in {None, fd[v]} /\ \A r \in Reader : rfd[r] # fd[v]
    BY <2>1 DEF WritesApart
  <2> QED
    BY <1>1, <2>1, <2>2, <2>3, <2>4, <2>5
<1>8. ReadyToPublish'
  <2> SUFFICES ASSUME NEW v \in Writer, pc'[v] = "rename", dir'[tmp'[v]] # None
        PROVE data'[dir'[tmp'[v]]] \in {e \in Entry : e.head = job'[v]}
    BY DEF ReadyToPublish
  <2>1. v # w /\ pc[v] = "rename" /\ tmp'[v] = tmp[v] /\ job'[v] = job[v]
    BY <1>1
  <2>2. dir'[tmp[v]] = dir[tmp[v]] /\ dir[tmp[v]] \in Inode /\ tmp[v] \in Name
    BY <1>3, <1>4, <2>1 DEF Active, TypeOK
  <2>3. data'[dir[tmp[v]]] = data[dir[tmp[v]]]
    BY <1>2, <2>2
  <2> QED
    BY <2>1, <2>2, <2>3 DEF ReadyToPublish
<1>9. ReadsApart'
  <2>1. \A n \in TmpName : dir'[n] \in {dir[n], None}
    BY <1>1, <1>3
  <2>2. \A r \in Reader : rfd[r] # None => data'[rfd[r]] = data[rfd[r]]
    BY <1>2 DEF TypeOK
  <2>3. \A r \in Reader : rfd'[r] = rfd[r] /\ reading'[r] = reading[r]
    BY <1>1
  <2> QED
    BY <2>1, <2>2, <2>3 DEF ReadsApart
<1>10. Published'
  <2> SUFFICES ASSUME NEW g \in Head, dir'[g] # None
        PROVE data'[dir'[g]] \in {e \in Entry : e.head = g}
    BY DEF Published
  <2>1. CASE g = h
    <3>1. data[i] \in {e \in Entry : e.head = h}
      BY <1>1 DEF ReadyToPublish, i, h
    <3>2. data'[i] = data[i]
      BY <1>1, <1>2, <1>3
    <3> QED
      BY <1>3, <2>1, <3>1, <3>2
  <2>2. CASE g # h
    <3>1. dir'[g] = dir[g] /\ dir[g] \in Inode
      BY <1>1, <1>3, <2>2 DEF TypeOK
    <3>2. data'[dir[g]] = data[dir[g]]
      BY <1>2, <3>1
    <3> QED
      BY <3>1, <3>2 DEF Published
  <2> QED
    BY <2>1, <2>2
<1> QED
  BY <1>6, <1>7, <1>8, <1>9, <1>10

\* Every step keeps the inodes apart.
LEMMA InodesStep ==
  ASSUME TypeOK, TypeOK', NamesDiffer, InodesApart, Next
  PROVE  InodesApart'
<1> USE NamesApart DEF TypeOK, Name
<1>1. ASSUME NEW w \in Writer, NEW h \in Head, Begin(w, h) PROVE InodesApart'
  <2>1. /\ dir' = dir /\ data' = data /\ fd' = fd /\ rfd' = rfd /\ reading' = reading
        /\ pc[w] = "idle" /\ pc'[w] = "open" /\ fd[w] \notin Inode
        /\ \A v \in Writer : v # w => pc'[v] = pc[v] /\ tmp'[v] = tmp[v] /\ job'[v] = job[v]
    BY <1>1 DEF Begin, reader
  <2>2. OneLink' /\ ReadsApart' /\ Published'
    BY <2>1 DEF InodesApart, OneLink, ReadsApart, Published
  <2>3. WritesApart'
    BY <2>1 DEF InodesApart, WritesApart
  <2>4. ReadyToPublish'
    BY <2>1 DEF InodesApart, ReadyToPublish
  <2> QED
    BY <2>2, <2>3, <2>4 DEF InodesApart
<1>2. ASSUME NEW w \in Writer, NEW h \in Head, RemoveSuperseded(w, h) PROVE InodesApart'
  BY <1>2, ContentsKept, TakingAway DEF RemoveSuperseded, writer, reader
<1>3. ASSUME NEW w \in Writer, OpenTmp(w) PROVE InodesApart'
  BY <1>3, OpenTmpStep
<1>4. ASSUME NEW w \in Writer, WriteAll(w) PROVE InodesApart'
  BY <1>4, WriteAllStep
<1>5. ASSUME NEW w \in Writer, Rename(w) PROVE InodesApart'
  BY <1>5, RenameStep
<1>6. ASSUME NEW w \in Writer, WriteFails(w) PROVE InodesApart'
  <2>1. \A n \in Name : dir'[n] \in {dir[n], None}
    BY <1>6 DEF WriteFails
  <2>2. \A v \in Writer : \/ pc'[v] \in {"idle", "clear"}
                          \/ pc'[v] = pc[v] /\ job'[v] = job[v] /\ tmp'[v] = tmp[v] /\ fd'[v] = fd[v]
    BY <1>6 DEF WriteFails, Idle
  <2>3. rfd' = rfd /\ reading' = reading /\ Contents(data)
    BY <1>6 DEF WriteFails, reader
  <2> QED
    BY <2>1, <2>2, <2>3, ContentsKept, TakingAway
<1>7. ASSUME NEW w \in Writer, BeginClear(w) PROVE InodesApart'
  BY <1>7, TakingAway DEF BeginClear, reader
<1>8. ASSUME NEW w \in Writer, ClearOne(w) PROVE InodesApart'
  BY <1>8, ContentsKept, TakingAway DEF ClearOne, writer, reader
<1>9. ASSUME NEW w \in Writer, EndClear(w) PROVE InodesApart'
  BY <1>9, TakingAway DEF EndClear, Idle, reader
<1>10. ASSUME NEW q \in Process, Crash(q) PROVE InodesApart'
  BY <1>10, ContentsKept, TakingAway DEF Crash, Idle, reader
<1>11. ASSUME NEW r \in Reader, NEW h \in Head, OpenEntry(r, h) PROVE InodesApart'
  <2>1. /\ dir' = dir /\ data' = data /\ fd' = fd /\ pc' = pc /\ job' = job /\ tmp' = tmp
        /\ reading'[r] = h /\ h # None /\ rfd'[r] = dir[h]
        /\ \A x \in Reader : x # r => reading'[x] = reading[x] /\ rfd'[x] = rfd[x]
    BY <1>11 DEF OpenEntry, writer
  <2>2. OneLink' /\ ReadyToPublish' /\ Published'
    BY <2>1 DEF InodesApart, OneLink, ReadyToPublish, Published
  <2>3. WritesApart'
    <3>1. \A w \in Writer : pc[w] = "write" => dir[h] # fd[w]
      BY DEF InodesApart, WritesApart
    <3> QED
      BY <2>1, <3>1 DEF InodesApart, WritesApart
  <2>4. ReadsApart'
    <3>1. dir[h] # None => /\ data[dir[h]] \in Entry
                           /\ \A n \in TmpName : dir[n] # dir[h]
      BY DEF InodesApart, OneLink, Published
    <3> QED
      BY <2>1, <3>1 DEF InodesApart, ReadsApart
  <2> QED
    BY <2>2, <2>3, <2>4 DEF InodesApart
<1>12. ASSUME NEW r \in Reader, ReadEntry(r) PROVE InodesApart'
  BY <1>12, ContentsKept, TakingAway DEF ReadEntry, writer
<1> QED
  BY <1>1, <1>2, <1>3, <1>4, <1>5, <1>6, <1>7, <1>8, <1>9, <1>10, <1>11, <1>12 DEF Next, Step

-----------------------------------------------------------------------------
\* The loads under way still return what they did.
LoadsGoOn ==
  /\ UNCHANGED <<reading, got>>
  /\ \A r \in Reader : Loaded(r)' = Loaded(r)

\* Unless it is named anew, the file of a head is as it was.
LEMMA FileKept ==
  ASSUME TypeOK, TypeOK', NEW g \in Head, dir'[g] = dir[g],
         \A i \in Inode : dir[g] = i => data'[i] = data[i]
  PROVE  file'[g] = file[g]
BY DEF file, TypeOK, Name

\* Contents keeps the file of every head that keeps its inode, and the loads.
LEMMA ContentsSeen ==
  ASSUME TypeOK, TypeOK', Contents(data)
  PROVE  /\ \A g \in Head : dir'[g] = dir[g] => file'[g] = file[g]
         /\ UNCHANGED reader => LoadsGoOn
<1>1. \A g \in Head : dir'[g] = dir[g] => file'[g] = file[g]
  BY ContentsKept, FileKept DEF Name
<1>2. ASSUME UNCHANGED reader PROVE LoadsGoOn
  BY <1>2, ContentsKept DEF LoadsGoOn, Loaded, reader, TypeOK
<1> QED
  BY <1>1, <1>2

\* A step changes the file of one head at most, publishing an entry of it or
\* removing it, or is a load's.
LEMMA FileStep ==
  ASSUME TypeOK, TypeOK', NamesDiffer, InodesApart, Step
  PROVE  \/ LoadsGoOn /\ file' = file
         \/ LoadsGoOn /\ \E h \in Head, e \in Entry : e.head = h /\ file' = [file EXCEPT ![h] = e]
         \/ LoadsGoOn /\ \E h \in Head : file' = [file EXCEPT ![h] = None]
         \/ /\ \E r \in Reader, h \in Head : OpenEntry(r, h)
            /\ file' = file /\ dir' = dir /\ data' = data
         \/ /\ \E r \in Reader : ReadEntry(r)
            /\ file' = file /\ \A r \in Reader : rfd'[r] = rfd[r] => Loaded(r)' = Loaded(r)
<1> USE NamesApart DEF Name
<1> file = [h \in Head |-> file[h]] /\ file' = [h \in Head |-> file'[h]]
  BY DEF file
<1>1. ASSUME \A g \in Head : file'[g] = file[g] PROVE file' = file
  BY <1>1
<1>2. ASSUME UNCHANGED <<dir, data, reader>> PROVE LoadsGoOn /\ file' = file
  BY <1>2 DEF LoadsGoOn, Loaded, reader, file
<1>3. ASSUME NEW w \in Writer, NEW h \in Head, RemoveSuperseded(w, h)
      PROVE LoadsGoOn /\ file' = [file EXCEPT ![h] = None]
  <2>1. /\ Contents(data) /\ UNCHANGED reader /\ dir' = [dir EXCEPT ![h] = None]
    BY <1>3 DEF RemoveSuperseded
  <2>2. \A g \in Head : IF g = h THEN dir'[g] = None ELSE dir'[g] = dir[g]
    BY <2>1 DEF TypeOK
  <2>3. \A g \in Head : file'[g] = [file EXCEPT ![h] = None][g]
    BY <2>1, <2>2, ContentsSeen DEF file
  <2> QED
    BY <2>1, <2>3, ContentsSeen
<1>4. ASSUME NEW w \in Writer, OpenTmp(w) PROVE LoadsGoOn /\ file' = file
  <2>1. /\ tmp[w] \in TmpName /\ fd'[w] \in Inode
        /\ dir' = [dir EXCEPT ![tmp[w]] = fd'[w]]
        /\ \A n \in Name : dir[n] = fd'[w] => n = tmp[w]
        /\ \A r \in Reader : rfd[r] # fd'[w]
        /\ \A i \in Inode : (\/ \E n \in Name : dir'[n] = i
                             \/ \E r \in Reader : rfd[r] = i) /\ i # fd'[w]
                              => data'[i] = data[i]
    BY <1>4, OpenTmpIsAlone
  <2>2. \A g \in Head : dir'[g] = dir[g] /\ dir[g] # fd'[w]
    BY <2>1 DEF TypeOK
  <2>3. \A g \in Head : file'[g] = file[g]
    BY <2>1, <2>2, FileKept
  <2>4. UNCHANGED reader
    BY <1>4 DEF OpenTmp
  <2>5. LoadsGoOn
    BY <2>1, <2>4 DEF LoadsGoOn, Loaded, reader, TypeOK
  <2> QED
    BY <1>1, <2>3, <2>5
<1>5. ASSUME NEW w \in Writer, WriteAll(w) PROVE LoadsGoOn /\ file' = file
  <2> DEFINE d == [data EXCEPT ![fd[w]] = [head |-> job[w], by |-> w]]
  <2>1. /\ Contents(d) /\ dir' = dir /\ UNCHANGED reader /\ pc[w] = "write"
        /\ tmp[w] \in TmpName /\ fd[w] \in Inode
    BY <1>5 DEF WriteAll, TypeOK
  <2>2. \A i \in Inode : i # fd[w] => d[i] = data[i]
    BY DEF TypeOK
  <2> HIDE DEF d
  <2>3. \A g \in Head : dir[g] # fd[w]
    BY <2>1 DEF InodesApart, WritesApart
  <2>4. \A r \in Reader : rfd[r] # fd[w]
    BY <2>1 DEF InodesApart, WritesApart
  <2>5. \A g \in Head, i \in Inode : dir[g] = i => data'[i] = data[i]
    BY <2>1, <2>2, <2>3, ContentsKept
  <2>6. \A g \in Head : file'[g] = file[g]
    BY <2>1, <2>5, FileKept
  <2>7. \A r \in Reader, i \in Inode : rfd[r] = i => data'[i] = data[i]
    BY <2>1, <2>2, <2>4, ContentsKept DEF reader
  <2>8. LoadsGoOn
    BY <2>1, <2>7 DEF LoadsGoOn, Loaded, reader, TypeOK
  <2> QED
    BY <1>1, <2>6, <2>8
<1>6. ASSUME NEW w \in Writer, Rename(w)
      PROVE LoadsGoOn /\ \E h \in Head, e \in Entry : e.head = h /\ file' = [file EXCEPT ![h] = e]
  <2> DEFINE i == dir[tmp[w]]
             h == job[w]
  <2>1. /\ Contents(data) /\ UNCHANGED reader /\ pc[w] = "rename"
        /\ dir' = [dir EXCEPT ![h] = i, ![tmp[w]] = None]
        /\ i \in Inode /\ h \in Head /\ tmp[w] \in TmpName
    BY <1>6 DEF Rename, TypeOK
  <2>2. data[i] \in Entry /\ data[i].head = h
    BY <2>1 DEF InodesApart, ReadyToPublish
  <2>3. \A g \in Head : IF g = h THEN dir'[g] = i ELSE dir'[g] = dir[g]
    BY <2>1 DEF TypeOK
  <2> HIDE DEF i, h
  <2>4. data'[i] = data[i] /\ dir'[h] = i
    <3>1. dir'[h] = i /\ h \in Name /\ i \in Inode /\ Contents(data)
      BY <2>1, <2>3
    <3> QED
      BY <3>1, ContentsKept
  <2>5. \A g \in Head : file'[g] = [file EXCEPT ![h] = data[i]][g]
    <3>1. \A g \in Head : g # h => file'[g] = file[g]
      BY <2>1, <2>3, ContentsSeen
    <3>2. file'[h] = data[i]
      BY <2>1, <2>4 DEF file
    <3> QED
      BY <3>1, <3>2
  <2>6. file' = [file EXCEPT ![h] = data[i]]
    BY <2>5
  <2>7. LoadsGoOn
    BY <2>1, ContentsSeen
  <2> QED
    BY <2>1, <2>2, <2>6, <2>7
<1>7. ASSUME NEW w \in Writer, WriteFails(w) PROVE LoadsGoOn /\ file' = file
  <2>1. /\ Contents(data) /\ UNCHANGED reader
        /\ dir' = IF pc[w] = "rename" THEN [dir EXCEPT ![tmp[w]] = None] ELSE dir
        /\ tmp[w] \in TmpName
    BY <1>7 DEF WriteFails, TypeOK
  <2>2. \A g \in Head : dir'[g] = dir[g]
    BY <2>1 DEF TypeOK
  <2> QED
    BY <1>1, <2>1, <2>2, ContentsSeen
<1>8. ASSUME NEW w \in Writer, ClearOne(w)
      PROVE LoadsGoOn /\ (file' = file \/ \E h \in Head : file' = [file EXCEPT ![h] = None])
  <2>1. Contents(data) /\ UNCHANGED reader
    BY <1>8 DEF ClearOne
  <2>2. PICK n \in Name : dir' = [dir EXCEPT ![n] = None]
    BY <1>8 DEF ClearOne
  <2>3. \A g \in Head : IF g = n THEN dir'[g] = None ELSE dir'[g] = dir[g]
    BY <2>2 DEF TypeOK
  <2>4. CASE n \in Head
    <3>1. \A g \in Head : file'[g] = [file EXCEPT ![n] = None][g]
      BY <2>1, <2>3, ContentsSeen DEF file
    <3> QED
      BY <2>1, <2>4, <3>1, ContentsSeen
  <2>5. CASE n \notin Head
    BY <1>1, <2>1, <2>3, <2>5, ContentsSeen
  <2> QED
    BY <2>4, <2>5
<1>9. ASSUME NEW q \in Process, Crash(q) PROVE LoadsGoOn /\ file' = file
  BY <1>1, <1>9, ContentsSeen DEF Crash
<1>10. ASSUME NEW r \in Reader, NEW h \in Head, OpenEntry(r, h)
       PROVE file' = file /\ dir' = dir /\ data' = data
  BY <1>10 DEF OpenEntry, file
<1>11. ASSUME NEW r \in Reader, ReadEntry(r)
       PROVE file' = file /\ \A x \in Reader : rfd'[x] = rfd[x] => Loaded(x)' = Loaded(x)
  <2>1. Contents(data) /\ dir' = dir
    BY <1>11 DEF ReadEntry
  <2>2. \A x \in Reader : rfd'[x] = rfd[x] => Loaded(x)' = Loaded(x)
    BY <2>1, ContentsKept DEF Loaded, TypeOK
  <2> QED
    BY <1>1, <2>1, <2>2, ContentsSeen
<1>12. ASSUME NEW w \in Writer, \/ \E h \in Head : Begin(w, h)
                                \/ BeginClear(w)
                                \/ EndClear(w)
       PROVE LoadsGoOn /\ file' = file
  BY <1>2, <1>12 DEF Begin, BeginClear, EndClear
<1> QED
  BY <1>3, <1>4, <1>5, <1>6, <1>7, <1>8, <1>9, <1>10, <1>11, <1>12 DEF Step

\* A load returns what it read to the end: an entry, or nothing.
LEMMA ReturnedStep ==
  ASSUME FileInvariant, TypeOK', Step
  PROVE  Returned'
<1> USE NamesApart DEF FileInvariant, Returned
<1>1. CASE LoadsGoOn
  BY <1>1 DEF LoadsGoOn
<1>2. ASSUME NEW r \in Reader, NEW h \in Head, OpenEntry(r, h) PROVE Returned'
  BY <1>2 DEF OpenEntry
<1>3. ASSUME NEW r \in Reader, ReadEntry(r) PROVE Returned'
  <2>1. got' = [got EXCEPT ![r] = Loaded(r)]
    BY <1>3 DEF ReadEntry, Loaded
  <2>2. Loaded(r) \in Entry \cup {None}
    BY DEF Loaded, InodesApart, ReadsApart
  <2> QED
    BY <2>1, <2>2
<1> QED
  BY <1>1, <1>2, <1>3, FileStep

\* What a load is about to return is a value its file had since it began.
LEMMA ObservedStep ==
  ASSUME FileInvariant, TypeOK', Next
  PROVE  Observed'
<1> USE NamesApart DEF FileInvariant, Observed
<1>1. Observe /\ Step
  BY DEF Next
<1>2. seen' = [r \in Reader |-> seen'[r]]
  BY <1>1 DEF Observe
<1>3. \A r \in Reader :
        seen'[r] = IF reading'[r] = None THEN {}
                   ELSE (IF reading[r] = None THEN {} ELSE seen[r]) \cup {file'[reading'[r]]}
  BY <1>1 DEF Observe
<1>4. ASSUME \A r \in Reader : reading'[r] # None =>
               \/ reading'[r] = reading[r] /\ Loaded(r)' = Loaded(r)
               \/ Loaded(r)' = file'[reading'[r]]
      PROVE  Observed'
  BY <1>2, <1>3, <1>4
<1>5. CASE LoadsGoOn
  BY <1>4, <1>5 DEF LoadsGoOn
<1>6. ASSUME NEW r \in Reader, NEW h \in Head, OpenEntry(r, h), dir' = dir, data' = data
      PROVE Observed'
  <2>1. Loaded(r)' = file'[reading'[r]]
    BY <1>6 DEF OpenEntry, Loaded, file, TypeOK
  <2>2. \A x \in Reader \ {r} : reading'[x] = reading[x] /\ Loaded(x)' = Loaded(x)
    BY <1>6 DEF OpenEntry, Loaded, TypeOK
  <2> QED
    BY <1>4, <2>1, <2>2
<1>7. ASSUME NEW r \in Reader, ReadEntry(r), \A x \in Reader : rfd'[x] = rfd[x] => Loaded(x)' = Loaded(x)
      PROVE Observed'
  <2>1. reading'[r] = None /\ \A x \in Reader \ {r} : reading'[x] = reading[x] /\ Loaded(x)' = Loaded(x)
    BY <1>7 DEF ReadEntry, TypeOK
  <2> QED
    BY <1>4, <2>1
<1> QED
  BY <1>1, <1>5, <1>6, <1>7, FileStep

\* The invariant is inductive.
LEMMA FileInvariantStep ==
  ASSUME DistinctPids, FileInvariant, [Next]_vars
  PROVE  FileInvariant'
<1>1. TypeOK'
  BY Typing DEF FileInvariant
<1>2. CASE Next
  <2>1. NamesDiffer'
    BY <1>2, NamesStep DEF FileInvariant
  <2>2. InodesApart'
    BY <1>1, <1>2, InodesStep DEF FileInvariant
  <2>3. Returned'
    BY <1>1, <1>2, ReturnedStep DEF Next
  <2>4. Observed'
    BY <1>1, <1>2, ObservedStep
  <2> QED
    BY <1>1, <2>1, <2>2, <2>3, <2>4 DEF FileInvariant
<1>3. CASE UNCHANGED vars
  <2>1. NamesDiffer' /\ Returned' /\ Observed'
    BY <1>3 DEF vars, writer, reader, FileInvariant, NamesDiffer, Active, Returned, Observed, Loaded, file
  <2>2. InodesApart'
    BY <1>3 DEF vars, writer, reader, FileInvariant, InodesApart, OneLink, WritesApart,
                ReadyToPublish, ReadsApart, Published
  <2> QED
    BY <1>1, <2>1, <2>2 DEF FileInvariant
<1> QED
  BY <1>2, <1>3

\* An empty directory, and nobody at work.
LEMMA FileInvariantInit == Init => FileInvariant
<1> SUFFICES ASSUME Init PROVE FileInvariant
  OBVIOUS
<1>1. TypeOK
  BY InitTyped
<1>2. NamesDiffer /\ Returned
  BY DEF Init, NamesDiffer, Active, Returned
<1>3. InodesApart
  BY DEF Init, InodesApart, OneLink, WritesApart, ReadyToPublish, ReadsApart, Published, Name
<1>4. Observed
  BY DEF Init, Observed
<1> QED
  BY <1>1, <1>2, <1>3, <1>4 DEF FileInvariant

\* The file of a head holds a complete entry of it at every moment, whatever
\* writers, clears and crashes interleave, when pids are distinct.
THEOREM EntriesStayComplete ==
  ASSUME DistinctPids
  PROVE  Spec => []EntriesComplete
<1>1. FileInvariant => EntriesComplete
  BY DEF FileInvariant, InodesApart, Published, EntriesComplete
<1>2. FileInvariant /\ [Next]_vars => FileInvariant'
  BY FileInvariantStep
<1> QED
  BY <1>1, <1>2, FileInvariantInit, PTL DEF Spec

\* No load returns a file that is not written to the end, when pids are distinct.
THEOREM NoLoadIsTorn ==
  ASSUME DistinctPids
  PROVE  Spec => []NoTornRead
<1>1. FileInvariant => NoTornRead
  BY NamesApart DEF FileInvariant, Returned, NoTornRead
<1>2. FileInvariant /\ [Next]_vars => FileInvariant'
  BY FileInvariantStep
<1> QED
  BY <1>1, <1>2, FileInvariantInit, PTL DEF Spec

\* The step of the abstract store that a step of the files is.
LEMMA StoreStep ==
  ASSUME FileInvariant, TypeOK', [Next]_vars
  PROVE  [Store!Next]_(Store!vars)
<1> USE NamesApart DEF FileInvariant
<1>1. CASE UNCHANGED vars
  BY <1>1 DEF vars, reader, Store!vars, file
<1>2. CASE Next
  <2>1. Observe /\ Step
    BY <1>2 DEF Next
  <2>2. \A r \in Reader :
          seen'[r] = IF reading'[r] = None THEN {}
                     ELSE (IF reading[r] = None THEN {} ELSE seen[r]) \cup {file'[reading'[r]]}
    BY <2>1 DEF Observe
  <2>3. seen = [r \in Reader |-> seen[r]] /\ seen' = [r \in Reader |-> seen'[r]]
    BY <2>1 DEF Observe, Observed
  <2> DEFINE Watched(r) == IF reading[r] = None THEN seen[r] = {}
                           ELSE seen[r] \cup {file[reading[r]]} = seen[r]
  <2>W. \A r \in Reader : Watched(r)
    BY DEF Observed
  <2> HIDE DEF Watched
  <2>4. ASSUME LoadsGoOn, file' = file PROVE UNCHANGED Store!vars
    <3>1. \A r \in Reader : seen'[r] = seen[r]
      BY <2>W, <2>2, <2>4 DEF Watched, LoadsGoOn
    <3> QED
      BY <2>3, <2>4, <3>1 DEF LoadsGoOn, Store!vars
  <2>5. ASSUME LoadsGoOn PROVE Store!Observed
    BY <2>2, <2>3, <2>5 DEF LoadsGoOn, Store!Observed
  <2>6. ASSUME LoadsGoOn, NEW h \in Head, NEW e \in Entry, e.head = h, file' = [file EXCEPT ![h] = e]
        PROVE Store!Next
    BY <2>5, <2>6 DEF Store!Publish, Store!Next
  <2>7. ASSUME LoadsGoOn, NEW h \in Head, file' = [file EXCEPT ![h] = None] PROVE Store!Next
    BY <2>5, <2>7 DEF Store!Remove, Store!Next
  <2>8. ASSUME NEW r \in Reader, NEW h \in Head, OpenEntry(r, h), file' = file PROVE Store!Next
    <3>1. \A x \in Reader : seen'[x] = [seen EXCEPT ![r] = {file[h]}][x]
      <4>1. reading[r] = None /\ reading'[r] = h /\ \A x \in Reader \ {r} : reading'[x] = reading[x]
        BY <2>8 DEF OpenEntry, TypeOK
      <4>2. seen'[r] = {file[h]}
        BY <2>2, <2>8, <4>1
      <4>3. ASSUME NEW x \in Reader \ {r} PROVE seen'[x] = seen[x]
        BY <2>W, <2>2, <2>8, <4>1 DEF Watched
      <4> QED
        BY <2>3, <4>2, <4>3
    <3>2. seen' = [seen EXCEPT ![r] = {file[h]}]
      BY <2>3, <3>1
    <3> QED
      BY <2>8, <3>2 DEF OpenEntry, Store!BeginLoad, Store!Next
  <2>9. ASSUME NEW r \in Reader, ReadEntry(r), file' = file PROVE Store!Next
    <3>1. \A x \in Reader : seen'[x] = [seen EXCEPT ![r] = {}][x]
      <4>1. reading'[r] = None /\ \A x \in Reader \ {r} : reading'[x] = reading[x]
        BY <2>9 DEF ReadEntry, TypeOK
      <4>2. seen'[r] = {}
        BY <2>2, <4>1
      <4>3. ASSUME NEW x \in Reader \ {r} PROVE seen'[x] = seen[x]
        BY <2>W, <2>2, <2>9, <4>1 DEF Watched
      <4> QED
        BY <2>3, <4>2, <4>3
    <3>2. seen' = [seen EXCEPT ![r] = {}]
      BY <2>3, <3>1
    <3>3. Loaded(r) \in seen[r] /\ got' = [got EXCEPT ![r] = Loaded(r)]
      BY <2>9 DEF ReadEntry, Observed, Loaded
    <3> QED
      BY <2>9, <3>2, <3>3 DEF ReadEntry, Store!EndLoad, Store!Next
  <2> QED
    BY <2>1, <2>4, <2>6, <2>7, <2>8, <2>9, FileStep
<1> QED
  BY <1>1, <1>2

\* The directory implements the one-step store of EntryStore: an entry appears,
\* is replaced and vanishes at once, and a load returns a value its file had
\* while it ran, when pids are distinct.
THEOREM FilesAreAStore ==
  ASSUME DistinctPids
  PROVE  Spec => StoreSpec
<1>1. Init => Store!Init
  BY DEF Init, Store!Init, file, Name
<1>2. FileInvariant /\ FileInvariant' /\ [Next]_vars => [Store!Next]_(Store!vars)
  BY StoreStep DEF FileInvariant
<1>3. FileInvariant /\ [Next]_vars => FileInvariant'
  BY FileInvariantStep
<1> QED
  BY <1>1, <1>2, <1>3, FileInvariantInit, PTL DEF Spec, StoreSpec, Store!Spec
=============================================================================
