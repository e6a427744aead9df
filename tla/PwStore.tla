------------------------------- MODULE PwStore -------------------------------
(***************************************************************************)
(* One sidecar of the pickle cache store (pw_cache_store.py): a run loads  *)
(* it and, on a miss, computes the entry and writes it to one temporary    *)
(* name that every writer shares, then renames that file over the sidecar. *)
(*                                                                         *)
(* Threads are whoever works on the sidecar in one run: the walk thread,   *)
(* the background warm-up threads, which are daemons and die with the run, *)
(* the workers of the tier-0 process pool.  Runs follow each other, and    *)
(* the sources may be edited between them, never within one (a run pins    *)
(* its digests).  A digest stands for everything an entry's header is      *)
(* compared with.  A file is K blocks, as the buffered writer and reader   *)
(* move them; the header is in the first, the pickle's end in the last.    *)
(***************************************************************************)
EXTENDS Naturals

CONSTANTS
  Threads,
  Digests,  \* of the versions of the sources
  K,        \* blocks of an entry
  Inodes,   \* the files of the cache directory
  None

Blocks == 1 .. K
Content == [Blocks -> Digests \cup {None}]

ASSUME PwStoreAssumption ==
  /\ K \in Nat \ {0, 1}
  /\ None \notin Digests \cup Inodes

VARIABLES
  digest,    \* of the sources in this run
  together,  \* two threads may save this sidecar at a time; never changes
  main,      \* the file named path
  tmp,       \* the file named path + ".tmp"
  data,      \* what each file holds; None is a block nobody has written
  pc,
  fd,        \* the file a thread has open
  pos,       \* blocks read or written so far
  buf,       \* what a load has read
  answer,    \* the entry a thread's last load returned
  failed,    \* threads that an uncaught exception ended
  killed     \* some run ended while a thread was writing

files == <<main, tmp, data>>
thread == <<pc, fd, pos, buf>>
vars == <<digest, together, files, thread, answer, failed, killed>>

Empty == [b \in Blocks |-> None]
Entry(d) == [b \in Blocks |-> d]
Whole(c) == \E d \in Digests : c = Entry(d)

\* A file with a hole reads as zeros, which may or may not unpickle.
Holed(c) == c[1] # None /\ c[K] # None /\ ~ Whole(c)
\* Mutant of Accepted: the header is not compared with the caller's digest.
AcceptedUnchecked(c) == c[1] \in Digests
Accepted(c) == c[1] = digest

Init ==
  /\ digest \in Digests
  /\ together \in BOOLEAN
  /\ main = None
  /\ tmp = None
  /\ data = [i \in Inodes |-> Empty]
  /\ pc = [t \in Threads |-> "idle"]
  /\ fd = [t \in Threads |-> None]
  /\ pos = [t \in Threads |-> 0]
  /\ buf = [t \in Threads |-> Empty]
  /\ answer = [t \in Threads |-> Empty]
  /\ failed = {}
  /\ killed = FALSE

\* What a thread goes on to, with no file open.
Leave(t, next) ==
  /\ pc' = [pc EXCEPT ![t] = next]
  /\ fd' = [fd EXCEPT ![t] = None]
  /\ pos' = [pos EXCEPT ![t] = 0]
  /\ buf' = [buf EXCEPT ![t] = Empty]

-----------------------------------------------------------------------------
(* _load_pickle and the comparisons of load_regex, load_validated and        *)
(* load_preprocessed.                                                        *)

NoSidecar(t) ==
  /\ pc[t] = "idle" /\ main = None
  /\ pc' = [pc EXCEPT ![t] = "save"]
  /\ UNCHANGED <<digest, together, files, fd, pos, buf, answer, failed, killed>>

Load(t) ==
  /\ pc[t] = "idle" /\ main # None
  /\ pc' = [pc EXCEPT ![t] = "load"]
  /\ fd' = [fd EXCEPT ![t] = main]
  /\ UNCHANGED <<digest, together, files, pos, buf, answer, failed, killed>>

Read(t) ==
  /\ pc[t] = "load" /\ pos[t] < K
  /\ pos' = [pos EXCEPT ![t] = @ + 1]
  /\ buf' = [buf EXCEPT ![t][pos[t] + 1] = data[fd[t]][pos[t] + 1]]
  /\ UNCHANGED <<digest, together, files, pc, fd, answer, failed, killed>>

Hit(t) ==
  /\ pc[t] = "load" /\ pos[t] = K
  /\ Whole(buf[t]) \/ Holed(buf[t])
  /\ Accepted(buf[t])
  /\ answer' = [answer EXCEPT ![t] = buf[t]]
  /\ Leave(t, "idle")
  /\ UNCHANGED <<digest, together, files, failed, killed>>

\* The caller computes the entry and saves it.
Miss(t) ==
  /\ pc[t] = "load" /\ pos[t] = K
  /\ ~ (Whole(buf[t]) /\ Accepted(buf[t]))
  /\ Leave(t, "save")
  /\ UNCHANGED <<digest, together, files, answer, failed, killed>>

\* Unpickling a damaged file may raise what _load_pickle does not catch.
LoadRaises(t) ==
  /\ pc[t] = "load" /\ pos[t] = K
  /\ Holed(buf[t])
  /\ failed' = failed \cup {t}
  /\ Leave(t, "idle")
  /\ UNCHANGED <<digest, together, files, answer, killed>>

-----------------------------------------------------------------------------
(* _atomic_pickle_write                                                      *)

Free(i) == i \notin {main, tmp} /\ \A t \in Threads : fd[t] # i

\* tmp.open("wb"): a leftover file, or one another thread is writing, is truncated.
Truncate(i) ==
  /\ IF tmp = None THEN Free(i) ELSE i = tmp
  /\ tmp' = i
  /\ data' = [data EXCEPT ![i] = Empty]
  /\ UNCHANGED main

\* Mutant of Opens: the sidecar itself is opened for writing.
OpensInPlace(i) ==
  /\ IF main = None THEN Free(i) ELSE i = main
  /\ main' = i
  /\ data' = [data EXCEPT ![i] = Empty]
  /\ UNCHANGED tmp
Opens(i) == Truncate(i)

Writing(t) == pc[t] = "write"

Save(t) ==
  /\ pc[t] = "save"
  /\ together \/ ~ \E u \in Threads : Writing(u)
  /\ pc' = [pc EXCEPT ![t] = "write"]
  /\ \E i \in Inodes : Opens(i) /\ fd' = [fd EXCEPT ![t] = i]
  /\ UNCHANGED <<digest, together, pos, buf, answer, failed, killed>>

Dump(t) ==
  /\ Writing(t) /\ pos[t] < K
  /\ data' = [data EXCEPT ![fd[t]][pos[t] + 1] = digest]
  /\ pos' = [pos EXCEPT ![t] = @ + 1]
  /\ UNCHANGED <<digest, together, main, tmp, pc, fd, buf, answer, failed, killed>>

\* Mutant of Flushed: the last block is still buffered at the rename.
FlushedShort(t) == pos[t] >= K - 1
Flushed(t) == pos[t] = K

\* tmp.replace(path).  The parent of a tier-0 worker saves its names once more.
Replace(t) ==
  /\ Writing(t) /\ Flushed(t) /\ tmp # None
  /\ main' = tmp
  /\ tmp' = None
  /\ \E next \in {"idle", "save"} : Leave(t, next)
  /\ UNCHANGED <<digest, together, data, answer, failed, killed>>

\* Another thread has renamed the shared temporary file: FileNotFoundError.
ReplaceRaises(t) ==
  /\ Writing(t) /\ Flushed(t) /\ tmp = None
  /\ failed' = failed \cup {t}
  /\ Leave(t, "idle")
  /\ UNCHANGED <<digest, together, files, answer, killed>>

\* The run ends or is killed, and with it its threads, wherever they are; the
\* sources may be edited before the next one.
NextRun ==
  /\ killed' = (killed \/ \E t \in Threads : Writing(t))
  /\ digest' \in Digests
  /\ pc' = [t \in Threads |-> "idle"]
  /\ fd' = [t \in Threads |-> None]
  /\ pos' = [t \in Threads |-> 0]
  /\ buf' = [t \in Threads |-> Empty]
  /\ answer' = [t \in Threads |-> Empty]
  /\ failed' = {}
  /\ UNCHANGED <<together, files>>

Next ==
  \/ \E t \in Threads : \/ NoSidecar(t) \/ Load(t) \/ Read(t) \/ Hit(t)
                        \/ Miss(t) \/ LoadRaises(t) \/ Save(t) \/ Dump(t)
                        \/ Replace(t) \/ ReplaceRaises(t)
  \/ NextRun

Spec == Init /\ [][Next]_vars

-----------------------------------------------------------------------------
TypeOK ==
  /\ digest \in Digests
  /\ together \in BOOLEAN
  /\ main \in Inodes \cup {None}
  /\ tmp \in Inodes \cup {None}
  /\ data \in [Inodes -> Content]
  /\ pc \in [Threads -> {"idle", "load", "save", "write"}]
  /\ fd \in [Threads -> Inodes \cup {None}]
  /\ \A t \in Threads : pc[t] \in {"load", "write"} <=> fd[t] # None
  /\ pos \in [Threads -> 0 .. K]
  /\ \A t \in Threads : fd[t] = None => pos[t] = 0
  /\ buf \in [Threads -> Content]
  /\ answer \in [Threads -> Content]
  /\ failed \in SUBSET Threads
  /\ killed \in BOOLEAN

(* An answer holds nothing of another version of the sources: the header     *)
(* speaks for every block behind it, whatever earlier runs left in the       *)
(* directory, under either name, and however many threads write at once.     *)
NeverStale ==
  \A t \in Threads : \A b \in Blocks : answer[t][b] \in {None, digest}

(* While one thread at a time saves the sidecar (validated entries are saved *)
(* under _tier1_scan_lock, path_walk_db.py:3123), it is whole under its name *)
(* at every moment, even when a run is killed in the middle of a write, and  *)
(* so is what any reader that opened it earlier will have read.              *)
SidecarWhole ==
  ~ together =>
    /\ main # None => Whole(data[main])
    /\ \A t \in Threads : answer[t] = Empty \/ answer[t] = Entry(digest)

(* While one thread at a time saves the sidecar, no load or save raises.     *)
NothingRaises == ~ together => failed = {}

(* Threads that save the sidecar at once may leave a damaged file under its  *)
(* name for a while, but if none of them is killed it is whole when the last *)
(* is done: _atomic_pickle_write truncates before it writes, and every       *)
(* writer of a run writes the same entry.                                    *)
QuietWhole ==
  (~ killed /\ ~ \E t \in Threads : Writing(t)) /\ main # None => Whole(data[main])
=============================================================================
