---------------------------- MODULE PwStoreProofs ----------------------------
(* Theorems about PwStore, for every number of threads, blocks and files. *)
EXTENDS PwStore, TLAPS

LEMMA Constant == K \in Nat /\ K > 1 /\ 1 \in Blocks /\ K \in Blocks /\ Empty \in Content
  <1>1. K \in Nat /\ K > 1
    BY PwStoreAssumption
  <1> QED
    BY <1>1 DEF Blocks, Empty, Content

-----------------------------------------------------------------------------
(* Typing.                                                                 *)

(* What Leave does to the thread's own variables keeps their types.        *)
LEMMA LeaveType ==
  ASSUME TypeOK, NEW t \in Threads, NEW next \in {"idle", "save"}, Leave(t, next)
  PROVE  /\ pc' \in [Threads -> {"idle", "load", "save", "write"}]
         /\ fd' \in [Threads -> Inodes \cup {None}]
         /\ \A u \in Threads : pc'[u] \in {"load", "write"} <=> fd'[u] # None
         /\ pos' \in [Threads -> 0 .. K]
         /\ \A u \in Threads : fd'[u] = None => pos'[u] = 0
         /\ buf' \in [Threads -> Content]
BY Constant DEF TypeOK, Leave

LEMMA TypeInit == Init => TypeOK
<1> SUFFICES ASSUME Init PROVE TypeOK
  OBVIOUS
<1>1. data \in [Inodes -> Content] /\ buf \in [Threads -> Content] /\ answer \in [Threads -> Content]
  BY Constant DEF Init
<1>2. pos \in [Threads -> 0 .. K]
  BY Constant DEF Init
<1> QED
  BY <1>1, <1>2 DEF Init, TypeOK

LEMMA TypeNext == TypeOK /\ [Next]_vars => TypeOK'
<1> SUFFICES ASSUME TypeOK, [Next]_vars PROVE TypeOK'
  OBVIOUS
<1> USE Constant
<1>1. ASSUME NEW t \in Threads, NoSidecar(t) PROVE TypeOK'
  BY <1>1 DEF NoSidecar, TypeOK, files
<1>2. ASSUME NEW t \in Threads, Load(t) PROVE TypeOK'
  BY <1>2 DEF Load, TypeOK, files
<1>3. ASSUME NEW t \in Threads, Read(t) PROVE TypeOK'
  <2>1. pos' \in [Threads -> 0 .. K] /\ pos[t] + 1 \in Blocks /\ fd[t] \in Inodes
    BY <1>3 DEF Read, TypeOK, Blocks
  <2>2. data[fd[t]][pos[t] + 1] \in Digests \cup {None}
    BY <2>1 DEF TypeOK, Content
  <2>3. buf' \in [Threads -> Content]
    BY <1>3, <2>2 DEF Read, TypeOK, Content
  <2> QED
    BY <1>3, <2>1, <2>3 DEF Read, TypeOK, files
<1>4. ASSUME NEW t \in Threads, Hit(t) PROVE TypeOK'
  BY <1>4, LeaveType DEF Hit, TypeOK, files
<1>5. ASSUME NEW t \in Threads, Miss(t) PROVE TypeOK'
  BY <1>5, LeaveType DEF Miss, TypeOK, files
<1>6. ASSUME NEW t \in Threads, LoadRaises(t) PROVE TypeOK'
  BY <1>6, LeaveType DEF LoadRaises, TypeOK, files
<1>7. ASSUME NEW t \in Threads, Save(t) PROVE TypeOK'
  <2>1. PICK i \in Inodes : Opens(i) /\ fd' = [fd EXCEPT ![t] = i]
    BY <1>7 DEF Save
  <2>2. i # None
    BY PwStoreAssumption
  <2>3. data' \in [Inodes -> Content] /\ tmp' = i /\ main' = main
    BY <2>1 DEF Opens, Truncate, TypeOK
  <2>4. /\ fd' \in [Threads -> Inodes \cup {None}]
        /\ \A u \in Threads : fd'[u] = None => pos'[u] = 0
    BY <1>7, <2>1, <2>2 DEF Save, TypeOK
  <2>5. pc' \in [Threads -> {"idle", "load", "save", "write"}]
    BY <1>7 DEF Save, TypeOK
  <2>6. UNCHANGED <<digest, together, pos, buf, answer, failed, killed>>
    BY <1>7 DEF Save
  <2>7. \A u \in Threads : pc'[u] \in {"load", "write"} <=> fd'[u] # None
    BY <1>7, <2>1, <2>2 DEF Save, TypeOK
  <2> QED
    BY <2>3, <2>4, <2>5, <2>6, <2>7 DEF TypeOK
<1>8. ASSUME NEW t \in Threads, Dump(t) PROVE TypeOK'
  <2>1. pos' \in [Threads -> 0 .. K] /\ pos[t] + 1 \in Blocks
    BY <1>8 DEF Dump, TypeOK, Blocks
  <2>2. data' \in [Inodes -> Content]
    BY <1>8 DEF Dump, TypeOK, Content
  <2>3. UNCHANGED <<digest, together, main, tmp, pc, fd, buf, answer, failed, killed>>
    BY <1>8 DEF Dump
  <2>4. \A u \in Threads : fd[u] = None => pos'[u] = 0
    BY <1>8 DEF Dump, TypeOK, Writing
  <2> QED
    BY <2>1, <2>2, <2>3, <2>4 DEF TypeOK
<1>9. ASSUME NEW t \in Threads, Replace(t) PROVE TypeOK'
  <2>1. PICK next \in {"idle", "save"} : Leave(t, next)
    BY <1>9 DEF Replace
  <2> QED
    BY <1>9, <2>1, LeaveType DEF Replace, TypeOK
<1>10. ASSUME NEW t \in Threads, ReplaceRaises(t) PROVE TypeOK'
  BY <1>10, LeaveType DEF ReplaceRaises, TypeOK, files
<1>11. CASE NextRun
  <2>1. buf' \in [Threads -> Content] /\ answer' \in [Threads -> Content]
    BY <1>11 DEF NextRun
  <2>2. pos' \in [Threads -> 0 .. K] /\ killed' \in BOOLEAN
    BY <1>11 DEF NextRun, TypeOK
  <2>3. \A u \in Threads : pos'[u] = 0
    BY <1>11 DEF NextRun
  <2> QED
    BY <1>11, <2>1, <2>2, <2>3 DEF NextRun, TypeOK, files
<1>12. CASE UNCHANGED vars
  BY <1>12 DEF vars, files, thread, TypeOK
<1> QED
  BY <1>1, <1>2, <1>3, <1>4, <1>5, <1>6, <1>7, <1>8, <1>9, <1>10, <1>11, <1>12 DEF Next

(* Every variable of the store keeps its type: a thread has a file open      *)
(* exactly while it loads or writes.                                         *)
THEOREM TypeCorrect == Spec => []TypeOK
<1> QED
  BY TypeInit, TypeNext, PTL DEF Spec

-----------------------------------------------------------------------------
(* Nothing stale is answered.                                              *)

\* The temporary file is neither the sidecar nor what a reader has open, so only
\* files without readers are truncated; a file holds blocks of one version; a
\* reader's blocks are those of its file.
FilesInv ==
  /\ tmp # None => tmp # main
  /\ \A t \in Threads : pc[t] = "load" => fd[t] # tmp
  /\ \A t \in Threads : Writing(t) => \A b \in Blocks : data[fd[t]][b] \in {None, digest}
  /\ \A i \in Inodes : \A b, c \in Blocks :
       data[i][b] = None \/ data[i][c] = None \/ data[i][b] = data[i][c]
  /\ \A t \in Threads : pc[t] = "load" =>
       \A b \in Blocks : buf[t][b] \in {None, data[fd[t]][b]}
  /\ \A t \in Threads : pc[t] # "load" => buf[t] = Empty
  /\ NeverStale

(* A step that leaves a thread without a file and touches no file keeps it. *)
LEMMA LeaveFiles ==
  ASSUME TypeOK, FilesInv, NEW t \in Threads, NEW next \in {"idle", "save"},
         Leave(t, next), UNCHANGED <<digest, files>>, NeverStale'
  PROVE  FilesInv'
<1>1. \A u \in Threads : u # t => /\ pc'[u] = pc[u] /\ fd'[u] = fd[u] /\ buf'[u] = buf[u]
  BY DEF Leave, TypeOK
<1>2. pc'[t] = next /\ buf'[t] = Empty
  BY DEF Leave, TypeOK
<1> QED
  BY <1>1, <1>2 DEF FilesInv, files, Writing

LEMMA FilesNext == TypeOK /\ TypeOK' /\ FilesInv /\ [Next]_vars => FilesInv'
<1> SUFFICES ASSUME TypeOK, TypeOK', FilesInv, [Next]_vars PROVE FilesInv'
  OBVIOUS
<1> USE Constant
<1>1. ASSUME NEW t \in Threads, NoSidecar(t) PROVE FilesInv'
  BY <1>1 DEF NoSidecar, FilesInv, NeverStale, TypeOK, files, Writing
<1>2. ASSUME NEW t \in Threads, Load(t) PROVE FilesInv'
  <2>1. buf[t] = Empty
    BY <1>2 DEF Load, FilesInv
  <2> QED
    BY <1>2, <2>1 DEF Load, FilesInv, NeverStale, TypeOK, files, Writing, Empty
<1>3. ASSUME NEW t \in Threads, Read(t) PROVE FilesInv'
  BY <1>3 DEF Read, FilesInv, NeverStale, TypeOK, files, Writing, Content
<1>4. ASSUME NEW t \in Threads, Hit(t) PROVE FilesInv'
  <2>1. \A b \in Blocks : buf[t][b] \in {None, digest}
    <3>1. buf[t][1] = digest /\ digest # None
      BY <1>4, PwStoreAssumption DEF Hit, Accepted, TypeOK
    <3>2. data[fd[t]][1] = digest
      BY <1>4, <3>1 DEF Hit, FilesInv
    <3>3. fd[t] \in Inodes
      BY <1>4 DEF Hit, TypeOK
    <3>4. \A b \in Blocks : data[fd[t]][b] \in {None, digest}
      <4>1. \A c \in Blocks : \/ data[fd[t]][1] = None \/ data[fd[t]][c] = None
                              \/ data[fd[t]][1] = data[fd[t]][c]
        BY <3>3 DEF FilesInv
      <4> QED
        BY <3>1, <3>2, <4>1
    <3>5. \A b \in Blocks : buf[t][b] \in {None, data[fd[t]][b]}
      BY <1>4 DEF Hit, FilesInv
    <3> QED
      BY <3>4, <3>5
  <2>2. NeverStale'
    BY <1>4, <2>1 DEF Hit, FilesInv, NeverStale, TypeOK
  <2> QED
    BY <1>4, <2>2, LeaveFiles DEF Hit
<1>5. ASSUME NEW t \in Threads, Miss(t) PROVE FilesInv'
  <2>1. NeverStale'
    BY <1>5 DEF Miss, FilesInv, NeverStale
  <2> QED
    BY <1>5, <2>1, LeaveFiles DEF Miss
<1>6. ASSUME NEW t \in Threads, LoadRaises(t) PROVE FilesInv'
  <2>1. NeverStale'
    BY <1>6 DEF LoadRaises, FilesInv, NeverStale
  <2> QED
    BY <1>6, <2>1, LeaveFiles DEF LoadRaises
<1>7. ASSUME NEW t \in Threads, Save(t) PROVE FilesInv'
  <2>1. PICK i \in Inodes : Opens(i) /\ fd' = [fd EXCEPT ![t] = i]
    BY <1>7 DEF Save
  <2>2. i # main /\ \A u \in Threads : pc[u] = "load" => fd[u] # i
    BY <2>1, PwStoreAssumption DEF Opens, Truncate, Free, FilesInv, TypeOK
  <2>3. /\ \A j \in Inodes : data'[j] = IF j = i THEN Empty ELSE data[j]
        /\ tmp' = i /\ main' = main
    BY <2>1 DEF Opens, Truncate, TypeOK
  <2>4. \A b \in Blocks : Empty[b] = None
    BY DEF Empty
  <2>5. \A u \in Threads : /\ u # t => pc'[u] = pc[u] /\ fd'[u] = fd[u]
                           /\ buf'[u] = buf[u]
    BY <1>7, <2>1 DEF Save, TypeOK
  <2>6. pc[t] = "save" /\ pc'[t] = "write" /\ fd'[t] = i /\ digest' = digest /\ answer' = answer
    BY <1>7, <2>1 DEF Save, TypeOK
  <2>7. \A u \in Threads : pc'[u] = "load" => /\ pc[u] = "load" /\ fd'[u] = fd[u]
                                              /\ data'[fd[u]] = data[fd[u]]
    BY <2>2, <2>3, <2>5, <2>6 DEF TypeOK
  <2>8. \A u \in Threads : pc'[u] = "write" =>
          \A b \in Blocks : data'[fd'[u]][b] \in {None, digest}
    BY <2>3, <2>4, <2>5, <2>6 DEF FilesInv, TypeOK, Writing
  <2>9. \A j \in Inodes : \A b, c \in Blocks :
          data'[j][b] = None \/ data'[j][c] = None \/ data'[j][b] = data'[j][c]
    <3> SUFFICES ASSUME NEW j \in Inodes, NEW b \in Blocks, NEW c \in Blocks
                 PROVE  data'[j][b] = None \/ data'[j][c] = None \/ data'[j][b] = data'[j][c]
      OBVIOUS
    <3>1. CASE j = i
      BY <2>3, <2>4, <3>1
    <3>2. CASE j # i
      <4>1. data'[j] = data[j]
        BY <2>3, <3>2
      <4> QED
        BY <4>1 DEF FilesInv
    <3> QED
      BY <3>1, <3>2
  <2>10. NeverStale'
    BY <2>6 DEF FilesInv, NeverStale
  <2>11. \A u \in Threads : pc'[u] # "load" => buf'[u] = Empty
    BY <2>5, <2>6 DEF FilesInv
  <2>12. \A u \in Threads : pc'[u] = "load" => fd'[u] # tmp'
    BY <2>2, <2>3, <2>7
  <2>13. \A u \in Threads : pc'[u] = "load" =>
           \A b \in Blocks : buf'[u][b] \in {None, data'[fd'[u]][b]}
    BY <2>5, <2>7 DEF FilesInv
  <2>14. tmp' # main'
    BY <2>2, <2>3
  <2> QED
    BY <2>6, <2>8, <2>9, <2>10, <2>11, <2>12, <2>13, <2>14 DEF FilesInv, Writing
<1>8. ASSUME NEW t \in Threads, Dump(t) PROVE FilesInv'
  <2>1. fd[t] \in Inodes /\ pos[t] + 1 \in Blocks /\ pc[t] = "write"
    BY <1>8 DEF Dump, TypeOK, Blocks, Writing
  <2>2. \A j \in Inodes : \A b \in Blocks :
          data'[j][b] = IF j = fd[t] /\ b = pos[t] + 1 THEN digest ELSE data[j][b]
    BY <1>8, <2>1 DEF Dump, TypeOK, Content
  <2>3. UNCHANGED <<digest, main, tmp, pc, fd, buf, answer>>
    BY <1>8 DEF Dump
  <2>4. \A b \in Blocks : data[fd[t]][b] \in {None, digest}
    BY <1>8 DEF Dump, FilesInv
  <2>5. \A j \in Inodes : \A b, c \in Blocks :
          data'[j][b] = None \/ data'[j][c] = None \/ data'[j][b] = data'[j][c]
    BY <2>2, <2>4 DEF FilesInv
  <2>6. \A u \in Threads : pc[u] = "write" =>
          \A b \in Blocks : data'[fd[u]][b] \in {None, digest}
    BY <2>2 DEF FilesInv, TypeOK, Writing
  <2>7. \A u \in Threads : pc[u] = "load" =>
          \A b \in Blocks : buf[u][b] \in {None, data'[fd[u]][b]}
    BY <2>2, <2>4 DEF FilesInv, TypeOK
  <2> QED
    BY <2>3, <2>5, <2>6, <2>7 DEF FilesInv, NeverStale, Writing
<1>9. ASSUME NEW t \in Threads, Replace(t) PROVE FilesInv'
  <2>1. PICK next \in {"idle", "save"} : Leave(t, next)
    BY <1>9 DEF Replace
  <2>2. \A u \in Threads : u # t => /\ pc'[u] = pc[u] /\ fd'[u] = fd[u] /\ buf'[u] = buf[u]
    BY <2>1 DEF Leave, TypeOK
  <2>3. pc'[t] = next /\ buf'[t] = Empty
    BY <2>1 DEF Leave, TypeOK
  <2>4. tmp' = None /\ UNCHANGED <<digest, data, answer>>
    BY <1>9 DEF Replace
  <2>5. \A u \in Threads : pc'[u] = "load" => fd'[u] # None
    BY DEF TypeOK
  <2> QED
    BY <2>2, <2>3, <2>4, <2>5 DEF FilesInv, NeverStale, Writing
<1>10. ASSUME NEW t \in Threads, ReplaceRaises(t) PROVE FilesInv'
  <2>1. NeverStale'
    BY <1>10 DEF ReplaceRaises, FilesInv, NeverStale
  <2> QED
    BY <1>10, <2>1, LeaveFiles DEF ReplaceRaises
<1>11. CASE NextRun
  BY <1>11 DEF NextRun, FilesInv, NeverStale, files, Writing, Empty
<1>12. CASE UNCHANGED vars
  BY <1>12 DEF vars, files, thread, FilesInv, NeverStale, Writing
<1> QED
  BY <1>1, <1>2, <1>3, <1>4, <1>5, <1>6, <1>7, <1>8, <1>9, <1>10, <1>11, <1>12 DEF Next

LEMMA FilesInit == Init => FilesInv
BY Constant DEF Init, FilesInv, NeverStale, Writing, Empty

(* An answer never mixes in a block of another version of the sources, for any *)
(* number of threads writing the sidecar at once and any kills.                *)
THEOREM NothingStale == Spec => []NeverStale
<1>1. TypeOK /\ FilesInv /\ [Next]_vars => (TypeOK /\ FilesInv)'
  BY TypeNext, FilesNext
<1>2. FilesInv => NeverStale
  BY DEF FilesInv
<1> QED
  BY TypeInit, FilesInit, <1>1, <1>2, PTL DEF Spec

-----------------------------------------------------------------------------
(* One writer at a time.                                                   *)

Written(t) == \A b \in Blocks : b <= pos[t] => data[fd[t]][b] = digest

\* The writer has the temporary file to itself and fills it from the front; the
\* sidecar and what readers have open are whole and nobody's to write.
AloneInv ==
  ~ together =>
    /\ \A t, u \in Threads : Writing(t) /\ Writing(u) => t = u
    /\ \A t \in Threads : Writing(t) => fd[t] = tmp /\ Written(t)
    /\ \A t \in Threads : pc[t] = "load" =>
         /\ Whole(data[fd[t]])
         /\ \A b \in Blocks : b <= pos[t] => buf[t][b] = data[fd[t]][b]
    /\ failed = {}
    /\ SidecarWhole

(* The content of a file is settled by its blocks.                         *)
LEMMA SameContent ==
  ASSUME NEW c \in Content, NEW e \in Content, \A b \in Blocks : c[b] = e[b]
  PROVE  c = e
BY DEF Content

(* What a reader has read to the end is whole.                             *)
LEMMA ReadWhole ==
  ASSUME TypeOK, AloneInv, ~ together, NEW t \in Threads, pc[t] = "load", pos[t] = K
  PROVE  Whole(buf[t])
<1>1. \A b \in Blocks : buf[t][b] = data[fd[t]][b]
  BY Constant DEF AloneInv, Blocks
<1>2. fd[t] \in Inodes
  BY DEF TypeOK
<1>3. buf[t] = data[fd[t]]
  BY <1>1, <1>2, SameContent DEF TypeOK
<1> QED
  BY <1>3 DEF AloneInv

(* A step that leaves a thread without a file and touches no file keeps it. *)
LEMMA LeaveAlone ==
  ASSUME TypeOK, AloneInv, NEW t \in Threads, NEW next \in {"idle", "save"},
         Leave(t, next), UNCHANGED <<digest, together, files>>,
         ~ together => failed' = {},
         ~ together => \A u \in Threads : answer'[u] = answer[u] \/ answer'[u] = Entry(digest)
  PROVE  AloneInv'
<1>1. \A u \in Threads : u # t => /\ pc'[u] = pc[u] /\ fd'[u] = fd[u]
                                  /\ buf'[u] = buf[u] /\ pos'[u] = pos[u]
  BY DEF Leave, TypeOK
<1>2. pc'[t] = next
  BY DEF Leave, TypeOK
<1>3. SidecarWhole'
  BY DEF AloneInv, SidecarWhole, files, Entry
<1> QED
  BY <1>1, <1>2, <1>3 DEF AloneInv, files, Writing, Written

LEMMA TogetherStays == [Next]_vars => together' = together
BY DEF Next, vars, NoSidecar, Load, Read, Hit, Miss, LoadRaises, Save, Dump, Replace,
       ReplaceRaises, NextRun

LEMMA AloneNext ==
  TypeOK /\ TypeOK' /\ FilesInv /\ AloneInv /\ [Next]_vars => AloneInv'
<1> SUFFICES ASSUME TypeOK, TypeOK', FilesInv, AloneInv, [Next]_vars, ~ together
             PROVE  AloneInv'
  BY TogetherStays DEF AloneInv
<1> USE Constant
<1>1. ASSUME NEW t \in Threads, NoSidecar(t) PROVE AloneInv'
  BY <1>1 DEF NoSidecar, AloneInv, SidecarWhole, TypeOK, files, Writing, Written, Entry
<1>2. ASSUME NEW t \in Threads, Load(t) PROVE AloneInv'
  <2>1. pos[t] = 0 /\ main \in Inodes
    BY <1>2, PwStoreAssumption DEF Load, TypeOK
  <2>2. \A b \in Blocks : ~ b <= pos[t]
    BY <2>1 DEF Blocks
  <2>3. Whole(data[main])
    BY <1>2 DEF Load, AloneInv, SidecarWhole
  <2>4. pc[t] # "write" /\ pc'[t] = "load" /\ fd'[t] = main
    BY <1>2 DEF Load, TypeOK
  <2>5. \A u \in Threads : u # t => pc'[u] = pc[u] /\ fd'[u] = fd[u]
    BY <1>2 DEF Load, TypeOK
  <2>6. UNCHANGED <<digest, together, files, pos, buf, answer, failed>>
    BY <1>2 DEF Load
  <2>7. SidecarWhole'
    BY <2>6 DEF AloneInv, SidecarWhole, files, Entry
  <2> QED
    BY <2>2, <2>3, <2>4, <2>5, <2>6, <2>7 DEF AloneInv, files, Writing, Written
<1>3. ASSUME NEW t \in Threads, Read(t) PROVE AloneInv'
  <2>1. pc[t] = "load" /\ pos[t] + 1 \in Blocks /\ pos[t] \in Nat
    BY <1>3 DEF Read, TypeOK, Blocks
  <2>2. \A b \in Blocks : b <= pos[t] + 1 => b <= pos[t] \/ b = pos[t] + 1
    BY <2>1 DEF Blocks
  <2>3. \A b \in Blocks : buf'[t][b] = IF b = pos[t] + 1 THEN data[fd[t]][b] ELSE buf[t][b]
    BY <1>3, <2>1 DEF Read, TypeOK, Content
  <2>4. pos'[t] = pos[t] + 1
    BY <1>3 DEF Read, TypeOK
  <2>5. \A u \in Threads : u # t => pos'[u] = pos[u] /\ buf'[u] = buf[u]
    BY <1>3 DEF Read, TypeOK
  <2>6. UNCHANGED <<digest, together, files, pc, fd, answer, failed>>
    BY <1>3 DEF Read
  <2>7. SidecarWhole'
    BY <2>6 DEF AloneInv, SidecarWhole, files, Entry
  <2>8. \A b \in Blocks : b <= pos'[t] => buf'[t][b] = data[fd[t]][b]
    BY <2>1, <2>2, <2>3, <2>4 DEF AloneInv
  <2> QED
    BY <2>1, <2>5, <2>6, <2>7, <2>8 DEF AloneInv, files, Writing, Written
<1>4. ASSUME NEW t \in Threads, Hit(t) PROVE AloneInv'
  <2>1. PICK d \in Digests : buf[t] = Entry(d)
    BY <1>4, ReadWhole DEF Hit, Whole
  <2>2. d = digest
    BY <1>4, <2>1 DEF Hit, Accepted, Entry
  <2>3. \A u \in Threads : answer'[u] = answer[u] \/ answer'[u] = Entry(digest)
    BY <1>4, <2>1, <2>2 DEF Hit, TypeOK
  <2>4. failed' = {} /\ UNCHANGED <<digest, together, files>>
    BY <1>4 DEF Hit, AloneInv
  <2> QED
    BY <1>4, <2>3, <2>4, LeaveAlone DEF Hit
<1>5. ASSUME NEW t \in Threads, Miss(t) PROVE AloneInv'
  <2>1. failed' = {} /\ UNCHANGED <<digest, together, files, answer>>
    BY <1>5 DEF Miss, AloneInv
  <2> QED
    BY <1>5, <2>1, LeaveAlone DEF Miss
<1>6. ASSUME NEW t \in Threads, LoadRaises(t) PROVE AloneInv'
  BY <1>6, ReadWhole DEF LoadRaises, Holed
<1>7. ASSUME NEW t \in Threads, Save(t) PROVE AloneInv'
  <2>1. PICK i \in Inodes : Opens(i) /\ fd' = [fd EXCEPT ![t] = i]
    BY <1>7 DEF Save
  <2>2. i # main /\ \A u \in Threads : pc[u] = "load" => fd[u] # i
    BY <2>1, PwStoreAssumption DEF Opens, Truncate, Free, FilesInv, TypeOK
  <2>3. /\ \A j \in Inodes : j # i => data'[j] = data[j]
        /\ tmp' = i /\ main' = main
    BY <2>1 DEF Opens, Truncate, TypeOK
  <2>4. \A u \in Threads : u # t => pc'[u] = pc[u] /\ fd'[u] = fd[u]
    BY <1>7, <2>1 DEF Save, TypeOK
  <2>5. pc[t] = "save" /\ pc'[t] = "write" /\ fd'[t] = i
    BY <1>7, <2>1 DEF Save, TypeOK
  <2>6. UNCHANGED <<digest, together, pos, buf, answer, failed>>
    BY <1>7 DEF Save
  <2>7. \A u \in Threads : pc[u] # "write"
    BY <1>7 DEF Save, Writing
  <2>8. pos[t] = 0 /\ \A b \in Blocks : ~ b <= pos[t]
    BY <2>5, PwStoreAssumption DEF TypeOK, Blocks
  <2>9. SidecarWhole'
    BY <2>2, <2>3, <2>6 DEF AloneInv, SidecarWhole, TypeOK, Entry
  <2>10. \A u \in Threads : pc'[u] = "load" => /\ pc[u] = "load" /\ fd'[u] = fd[u]
                                               /\ data'[fd[u]] = data[fd[u]]
    BY <2>2, <2>3, <2>4, <2>5 DEF TypeOK
  <2> QED
    BY <2>3, <2>4, <2>5, <2>6, <2>7, <2>8, <2>9, <2>10 DEF AloneInv, Writing, Written
<1>8. ASSUME NEW t \in Threads, Dump(t) PROVE AloneInv'
  <2>1. /\ fd[t] = tmp /\ fd[t] \in Inodes /\ pos[t] + 1 \in Blocks /\ pos[t] \in Nat
        /\ pc[t] = "write"
    BY <1>8 DEF Dump, TypeOK, Blocks, Writing, AloneInv
  <2>2. \A u \in Threads : pc[u] = "write" => u = t
    BY <2>1 DEF AloneInv, Writing
  <2>3. tmp # main /\ \A u \in Threads : pc[u] = "load" => fd[u] # tmp
    BY <2>1, PwStoreAssumption DEF FilesInv
  <2>4. /\ \A j \in Inodes : j # tmp => data'[j] = data[j]
        /\ \A b \in Blocks :
             data'[fd[t]][b] = IF b = pos[t] + 1 THEN digest ELSE data[fd[t]][b]
    BY <1>8, <2>1 DEF Dump, TypeOK, Content
  <2>5. UNCHANGED <<digest, together, main, tmp, pc, fd, buf, answer, failed>>
    BY <1>8 DEF Dump
  <2>6. pos'[t] = pos[t] + 1 /\ \A u \in Threads : u # t => pos'[u] = pos[u]
    BY <1>8 DEF Dump, TypeOK
  <2>7. \A b \in Blocks : b <= pos[t] + 1 => b <= pos[t] \/ b = pos[t] + 1
    BY <2>1 DEF Blocks
  <2>8. \A b \in Blocks : b <= pos'[t] => data'[fd[t]][b] = digest
    BY <2>1, <2>4, <2>6, <2>7 DEF AloneInv, Writing, Written
  <2>9. SidecarWhole'
    BY <2>3, <2>4, <2>5 DEF AloneInv, SidecarWhole, TypeOK, Entry
  <2>10. \A u \in Threads : pc[u] = "load" => data'[fd[u]] = data[fd[u]] /\ pos'[u] = pos[u]
    BY <2>1, <2>3, <2>4, <2>6 DEF TypeOK
  <2> QED
    BY <2>1, <2>2, <2>5, <2>8, <2>9, <2>10 DEF AloneInv, Writing, Written
<1>9. ASSUME NEW t \in Threads, Replace(t) PROVE AloneInv'
  <2>1. PICK next \in {"idle", "save"} : Leave(t, next)
    BY <1>9 DEF Replace
  <2>2. \A u \in Threads : u # t => /\ pc'[u] = pc[u] /\ fd'[u] = fd[u]
                                    /\ buf'[u] = buf[u] /\ pos'[u] = pos[u]
    BY <2>1 DEF Leave, TypeOK
  <2>3. pc'[t] \notin {"load", "write"}
    BY <2>1 DEF Leave, TypeOK
  <2>4. main' = tmp /\ tmp' = None /\ UNCHANGED <<digest, together, data, answer, failed>>
    BY <1>9 DEF Replace
  <2>5. \A u \in Threads : pc[u] = "write" => u = t
    BY <1>9 DEF Replace, AloneInv, Writing
  <2>6. Whole(data[tmp])
    <3>1. fd[t] = tmp /\ tmp \in Inodes /\ pos[t] = K
      BY <1>9 DEF Replace, AloneInv, Flushed, TypeOK
    <3>2. \A b \in Blocks : data[tmp][b] = digest
      BY <1>9, <3>1 DEF Replace, AloneInv, Written, Blocks
    <3>3. Entry(digest) \in Content /\ \A b \in Blocks : Entry(digest)[b] = digest
      BY DEF Entry, Content, TypeOK
    <3>4. data[tmp] = Entry(digest)
      BY <3>1, <3>2, <3>3, SameContent DEF TypeOK
    <3> QED
      BY <3>4 DEF Whole, TypeOK
  <2>7. SidecarWhole'
    BY <2>4, <2>6 DEF AloneInv, SidecarWhole, Entry
  <2> QED
    BY <2>2, <2>3, <2>4, <2>5, <2>7 DEF AloneInv, Writing, Written
<1>10. ASSUME NEW t \in Threads, ReplaceRaises(t) PROVE AloneInv'
  BY <1>10 DEF ReplaceRaises, AloneInv, TypeOK, Writing
<1>11. CASE NextRun
  <2>1. \A t \in Threads : pc'[t] = "idle" /\ answer'[t] = Empty
    BY <1>11 DEF NextRun
  <2>2. failed' = {} /\ UNCHANGED <<together, files>>
    BY <1>11 DEF NextRun
  <2>3. SidecarWhole'
    BY <2>1, <2>2 DEF AloneInv, SidecarWhole, files, Entry
  <2> QED
    BY <2>1, <2>2, <2>3 DEF AloneInv, Writing
<1>12. CASE UNCHANGED vars
  BY <1>12 DEF vars, files, thread, AloneInv, SidecarWhole, Writing, Written, Entry
<1> QED
  BY <1>1, <1>2, <1>3, <1>4, <1>5, <1>6, <1>7, <1>8, <1>9, <1>10, <1>11, <1>12 DEF Next

LEMMA AloneInit == Init => AloneInv
BY DEF Init, AloneInv, SidecarWhole, Writing

LEMMA AloneStep ==
  TypeOK /\ FilesInv /\ AloneInv /\ [Next]_vars => (TypeOK /\ FilesInv /\ AloneInv)'
BY TypeNext, FilesNext, AloneNext

(* Written by one thread at a time, the sidecar is whole at every moment and  *)
(* so is every answer, whatever run was killed where.                         *)
THEOREM WholeAlone == Spec => []SidecarWhole
<1>1. AloneInv => SidecarWhole
  BY DEF AloneInv, SidecarWhole
<1> QED
  BY TypeInit, FilesInit, AloneInit, AloneStep, <1>1, PTL DEF Spec

(* Written by one thread at a time, it makes no load and no save raise: the   *)
(* temporary file a save renames is always its own.                           *)
THEOREM AloneRaisesNothing == Spec => []NothingRaises
<1>1. AloneInv => NothingRaises
  BY DEF AloneInv, NothingRaises
<1> QED
  BY TypeInit, FilesInit, AloneInit, AloneStep, <1>1, PTL DEF Spec

-----------------------------------------------------------------------------
(* Many writers, none of them killed.                                      *)

\* What a named file still lacks, one of its writers has yet to write.
QuietInv ==
  ~ killed =>
    \A i \in {main, tmp} \cap Inodes : \A b \in Blocks :
      data[i][b] = None => \E t \in Threads : Writing(t) /\ fd[t] = i /\ pos[t] < b

(* A step that ends no writer and takes no block away keeps it.            *)
LEMMA QuietKept ==
  ASSUME QuietInv, UNCHANGED <<files, killed>>,
         \A t \in Threads : Writing(t) =>
           Writing(t)' /\ fd'[t] = fd[t] /\ pos'[t] = pos[t]
  PROVE  QuietInv'
BY DEF QuietInv, files, Writing

LEMMA QuietNext ==
  TypeOK /\ TypeOK' /\ FilesInv /\ QuietInv /\ [Next]_vars => QuietInv'
<1> SUFFICES ASSUME TypeOK, TypeOK', FilesInv, QuietInv, [Next]_vars PROVE QuietInv'
  OBVIOUS
<1> USE Constant
<1>1. ASSUME NEW t \in Threads, NoSidecar(t) PROVE QuietInv'
  BY <1>1, QuietKept DEF NoSidecar, TypeOK, Writing
<1>2. ASSUME NEW t \in Threads, Load(t) PROVE QuietInv'
  BY <1>2, QuietKept DEF Load, TypeOK, Writing
<1>3. ASSUME NEW t \in Threads, Read(t) PROVE QuietInv'
  BY <1>3, QuietKept DEF Read, TypeOK, Writing
<1>4. ASSUME NEW t \in Threads, Hit(t) PROVE QuietInv'
  BY <1>4, QuietKept DEF Hit, Leave, TypeOK, Writing
<1>5. ASSUME NEW t \in Threads, Miss(t) PROVE QuietInv'
  BY <1>5, QuietKept DEF Miss, Leave, TypeOK, Writing
<1>6. ASSUME NEW t \in Threads, LoadRaises(t) PROVE QuietInv'
  BY <1>6, QuietKept DEF LoadRaises, Leave, TypeOK, Writing
<1>7. ASSUME NEW t \in Threads, Save(t), ~ killed PROVE QuietInv'
  <2>1. PICK i \in Inodes : Opens(i) /\ fd' = [fd EXCEPT ![t] = i]
    BY <1>7 DEF Save
  <2>2. /\ \A j \in Inodes : j # i => data'[j] = data[j]
        /\ tmp' = i /\ main' = main /\ i # main
    BY <2>1, PwStoreAssumption DEF Opens, Truncate, Free, FilesInv, TypeOK
  <2>3. Writing(t)' /\ fd'[t] = i /\ pos'[t] = 0 /\ ~ Writing(t)
    BY <1>7, <2>1, PwStoreAssumption DEF Save, TypeOK, Writing
  <2>4. \A u \in Threads : u # t => pc'[u] = pc[u] /\ fd'[u] = fd[u] /\ pos'[u] = pos[u]
    BY <1>7, <2>1 DEF Save, TypeOK
  <2>5. \A b \in Blocks : 0 < b
    BY DEF Blocks
  <2>6. ASSUME NEW b \in Blocks, main \in Inodes, data'[main][b] = None
        PROVE  \E u \in Threads : Writing(u)' /\ fd'[u] = main /\ pos'[u] < b
    <3>1. data[main][b] = None
      BY <2>2, <2>6
    <3>2. PICK u \in Threads : Writing(u) /\ fd[u] = main /\ pos[u] < b
      BY <1>7, <2>6, <3>1 DEF QuietInv
    <3> QED
      BY <2>3, <2>4, <3>2 DEF Writing
  <2>7. \A b \in Blocks : Writing(t)' /\ fd'[t] = i /\ pos'[t] < b
    BY <2>3, <2>5
  <2>8. {main, tmp}' = {main, i}
    BY <2>2
  <2> QED
    BY <2>6, <2>7, <2>8 DEF QuietInv
<1>8. ASSUME NEW t \in Threads, Dump(t), ~ killed PROVE QuietInv'
  <2>1. /\ fd[t] \in Inodes /\ pos[t] + 1 \in Blocks /\ pos[t] \in Nat /\ Writing(t)
    BY <1>8 DEF Dump, TypeOK, Blocks, Writing
  <2>2. \A j \in Inodes : \A b \in Blocks :
          data'[j][b] = IF j = fd[t] /\ b = pos[t] + 1 THEN digest ELSE data[j][b]
    BY <1>8, <2>1 DEF Dump, TypeOK, Content
  <2>3. UNCHANGED <<main, tmp, pc, fd>> /\ digest # None
    BY <1>8, PwStoreAssumption DEF Dump, TypeOK
  <2>4. pos'[t] = pos[t] + 1 /\ \A u \in Threads : u # t => pos'[u] = pos[u]
    BY <1>8 DEF Dump, TypeOK
  <2> SUFFICES ASSUME NEW i \in {main, tmp} \cap Inodes, NEW b \in Blocks, data'[i][b] = None
               PROVE  \E u \in Threads : Writing(u)' /\ fd'[u] = i /\ pos'[u] < b
    BY <2>3 DEF QuietInv
  <2>5. data[i][b] = None /\ ~ (i = fd[t] /\ b = pos[t] + 1)
    BY <2>2, <2>3
  <2>6. PICK u \in Threads : Writing(u) /\ fd[u] = i /\ pos[u] < b
    BY <1>8, <2>5 DEF QuietInv
  <2>7. pos'[u] < b
    BY <2>1, <2>4, <2>5, <2>6 DEF Blocks
  <2> QED
    BY <2>3, <2>6, <2>7 DEF Writing
<1>9. ASSUME NEW t \in Threads, Replace(t) PROVE QuietInv'
  <2>1. PICK next \in {"idle", "save"} : Leave(t, next)
    BY <1>9 DEF Replace
  <2>2. \A u \in Threads : u # t => pc'[u] = pc[u] /\ fd'[u] = fd[u] /\ pos'[u] = pos[u]
    BY <2>1 DEF Leave, TypeOK
  <2>3. /\ main' = tmp /\ tmp' = None /\ UNCHANGED <<data, killed>>
        /\ \A b \in Blocks : ~ pos[t] < b
    BY <1>9 DEF Replace, Flushed, Blocks
  <2> QED
    BY <2>2, <2>3, PwStoreAssumption DEF QuietInv, Writing
<1>10. ASSUME NEW t \in Threads, ReplaceRaises(t) PROVE QuietInv'
  <2>1. \A u \in Threads : u # t => pc'[u] = pc[u] /\ fd'[u] = fd[u] /\ pos'[u] = pos[u]
    BY <1>10 DEF ReplaceRaises, Leave, TypeOK
  <2>2. UNCHANGED <<files, killed>> /\ \A b \in Blocks : ~ pos[t] < b
    BY <1>10 DEF ReplaceRaises, Flushed, Blocks
  <2> QED
    BY <2>1, <2>2 DEF QuietInv, Writing, files
<1>11. CASE NextRun
  BY <1>11 DEF NextRun, QuietInv, files
<1>12. CASE UNCHANGED vars
  BY <1>12, QuietKept DEF vars, thread, Writing
<1>13. killed => killed'
  BY DEF Next, vars, NoSidecar, Load, Read, Hit, Miss, LoadRaises, Save, Dump, Replace,
         ReplaceRaises, NextRun
<1>14. CASE killed
  BY <1>13, <1>14 DEF QuietInv
<1> QED
  BY <1>1, <1>2, <1>3, <1>4, <1>5, <1>6, <1>7, <1>8, <1>9, <1>10, <1>11, <1>12, <1>14 DEF Next

LEMMA QuietInit == Init => QuietInv
BY PwStoreAssumption DEF Init, QuietInv

(* However many threads save the sidecar at once, it is whole when the last    *)
(* of them is done, as long as no run was killed while one was writing.        *)
THEOREM WholeWhenQuiet == Spec => []QuietWhole
<1>1. TypeOK /\ FilesInv /\ QuietInv /\ [Next]_vars => (TypeOK /\ FilesInv /\ QuietInv)'
  BY TypeNext, FilesNext, QuietNext
<1>2. TypeOK /\ FilesInv /\ QuietInv => QuietWhole
  <2> SUFFICES ASSUME TypeOK, FilesInv, QuietInv, ~ killed, main # None,
                      \A t \in Threads : ~ Writing(t)
               PROVE  Whole(data[main])
    BY DEF QuietWhole
  <2>1. main \in Inodes /\ \A b \in Blocks : data[main][b] \in Digests
    BY DEF TypeOK, QuietInv, Content
  <2>2. \A b \in Blocks : data[main][b] = data[main][1]
    BY <2>1, Constant, PwStoreAssumption DEF FilesInv
  <2>3. /\ Entry(data[main][1]) \in Content
        /\ \A b \in Blocks : data[main][b] = Entry(data[main][1])[b]
    BY <2>1, <2>2, Constant DEF Entry, Content
  <2>4. data[main] = Entry(data[main][1])
    BY <2>1, <2>3, SameContent DEF TypeOK
  <2> QED
    BY <2>1, <2>4, Constant DEF Whole
<1> QED
  BY TypeInit, FilesInit, QuietInit, <1>1, <1>2, PTL DEF Spec
=============================================================================
