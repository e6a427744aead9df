------------------------------ MODULE PwTier1 ------------------------------
(***************************************************************************)
(* Tier 1 of the path-walk module database (path_walk_db.py): the lazily   *)
(* accumulated `define environment, the preprocessed text of one file and  *)
(* the validated scan of one file, each kept in memory and in a sidecar    *)
(* on disk, used by the walk's own thread and by background threads that   *)
(* warm or prefetch files.                                                 *)
(*                                                                         *)
(* A source is its position in the filelist.  A define environment is the  *)
(* sequence of the sources whose `define lines were applied, in the order  *)
(* they were applied; the defines digest is injective, so a digest is the  *)
(* environment it was taken of.  The text of file f is the pair of f and   *)
(* the environment f was preprocessed under, and a scan is that text.      *)
(* Source digests are pinned for a run (LazyPathDigests), so the stamp     *)
(* that _tier1_defines compares never changes and it only copies.          *)
(***************************************************************************)
EXTENDS Naturals, Sequences, FiniteSets

CONSTANTS
  N,            \* number of sources in the filelist
  Chain,        \* Chain[f]: the sources _define_chain_sources lets f see
  AccumMax,     \* HIERWALK_PW_DEFINE_ACCUM_MAX: largest batch, 0 for no cap
  Warmable,     \* the files the walk may hand to a warm thread
  UsePrefetch,  \* HIERWALK_PW_DB_PREFETCH
  UseStore,     \* FALSE under no_cache: there is no sidecar store
  Fallible      \* the files whose preprocessing may raise OSError

Files == 1 .. N

\* Thread 0 walks; thread f in Warmable warms file f; thread N + 1 prefetches.
Walker == 0
Prefetcher == N + 1
Threads == {Walker} \cup Warmable \cup (IF UsePrefetch THEN {Prefetcher} ELSE {})

ASSUME PwTier1Assumption ==
  /\ N \in Nat \ {0}
  /\ Chain \in [Files -> SUBSET Files]
  /\ AccumMax \in Nat
  /\ Warmable \subseteq Files
  /\ UsePrefetch \in BOOLEAN
  /\ UseStore \in BOOLEAN
  /\ Fallible \subseteq Files

Env == Seq(Files)
Text == [file : Files, made : Env]
Sidecar == [file : Files, key : Env, made : Env]

VARIABLES
  upto,       \* _define_sources_upto
  seen,       \* _define_sources_seen
  env,        \* _tier1_defines_cache
  digest,     \* _defines_digest
  memory,     \* _validated_memory
  texts,      \* _preprocessed_text_cache
  vdisk,      \* validated sidecars
  pdisk,      \* preprocessed sidecars
  holders,    \* the threads inside _tier1_scan_lock
  inflight,   \* _tier1_warm_inflight
  work,       \* what the prefetch thread has left; its thread exists if started
  started,    \* _tier1_prefetch_thread is not None
  pc, file, stage, todo, eff, key, made   \* the locals of each thread

shared == <<upto, seen, env, digest>>
caches == <<memory, texts>>
disk == <<vdisk, pdisk>>
background == <<inflight, work, started>>
locals == <<pc, file, stage, todo, eff, key, made>>
vars == <<shared, caches, disk, holders, background, locals>>

Steps == {"idle", "lock", "mem", "guard", "claim", "accum", "mark", "apply",
          "digest", "eff", "vload", "key", "lookup", "defs", "prep", "vsave"}

TypeOK ==
  /\ upto \in 0 .. N
  /\ seen \subseteq Files
  /\ env \in Env
  /\ digest \in Env
  /\ memory \subseteq Text
  /\ texts \subseteq Sidecar
  /\ vdisk \subseteq Sidecar
  /\ pdisk \subseteq Sidecar
  /\ holders \subseteq Threads
  /\ inflight \subseteq Warmable
  /\ work \subseteq Files
  /\ started \in BOOLEAN
  /\ pc \in [Threads -> Steps]
  /\ file \in [Threads -> Files]
  /\ stage \in [Threads -> {"scan", "text"}]
  /\ todo \in [Threads -> SUBSET Files]
  /\ eff \in [Threads -> Env]
  /\ key \in [Threads -> Env]
  /\ made \in [Threads -> Env]

\* A new database object: the memory side of a run before its first scan.
Fresh ==
  /\ upto = 0
  /\ seen = {}
  /\ env = <<>>
  /\ digest = <<>>
  /\ memory = {}
  /\ texts = {}
  /\ holders = {}
  /\ inflight = {}
  /\ work = {}
  /\ started = FALSE
  /\ pc = [t \in Threads |-> "idle"]
  /\ file = [t \in Threads |-> 1]
  /\ stage = [t \in Threads |-> "text"]
  /\ todo = [t \in Threads |-> {}]
  /\ eff = [t \in Threads |-> <<>>]
  /\ key = [t \in Threads |-> <<>>]
  /\ made = [t \in Threads |-> <<>>]

Init == Fresh /\ vdisk = {} /\ pdisk = {}

-----------------------------------------------------------------------------
(* Helpers. *)

\* A sidecar and the text cache hold one entry per file and digest.
Put(store, entry) ==
  {e \in store : e.file # entry.file \/ e.key # entry.key} \cup {entry}

Scanned(f) == \E m \in memory : m.file = f

\* Mutant of Batch: the target's own defines left out of its batch.
BatchShort(f) == {g \in Files : upto < g /\ g < f /\ g \in Chain[f]}

\* The sources between the watermark and f that may define macros for f.
Batch(f) == {g \in Files : upto < g /\ g <= f /\ g \in Chain[f]}

Capped(f, batch) ==
  IF AccumMax > 0 /\ Cardinality(batch) > AccumMax THEN {f} ELSE batch

\* g is the next of a batch, in filelist order.
Leads(g, batch) == g \in batch /\ \A h \in batch : g <= h

Goto(t, step) == pc' = [pc EXCEPT ![t] = step]

\* tier1_scan_file calls the ensure step before it copies the defines, the
\* preprocessing before it reads the digest.
AfterEnsure(t) == Goto(t, IF stage[t] = "scan" THEN "eff" ELSE "key")

\* The end of a call of thread t: the with block lets the lock go, and the
\* thread that only made this call is no longer in flight.
Return(t) ==
  /\ Goto(t, "idle")
  /\ file' = [file EXCEPT ![t] = 1]
  /\ stage' = [stage EXCEPT ![t] = "text"]
  /\ todo' = [todo EXCEPT ![t] = {}]
  /\ eff' = [eff EXCEPT ![t] = <<>>]
  /\ key' = [key EXCEPT ![t] = <<>>]
  /\ made' = [made EXCEPT ![t] = <<>>]
  /\ holders' = holders \ {t}
  /\ inflight' = inflight \ {t}
  /\ UNCHANGED <<work, started>>

\* The text of t's file is in hand: the scan goes on to record it, a call for
\* the text alone is over.
TextDone(t, env_of_text) ==
  IF t \in holders
  THEN /\ Goto(t, "vsave")
       /\ made' = [made EXCEPT ![t] = env_of_text]
       /\ UNCHANGED <<file, stage, todo, eff, key, holders, background>>
  ELSE Return(t)

-----------------------------------------------------------------------------
(* The calls. *)

CallScan(t, f) ==
  /\ pc[t] = "idle"
  /\ Goto(t, "lock")
  /\ file' = [file EXCEPT ![t] = f]
  /\ UNCHANGED <<shared, caches, disk, holders, stage, todo, eff, key, made>>

WalkScan(f) == CallScan(Walker, f) /\ UNCHANGED background

\* _ensure_module_light and _tier1_file_defines_module take no lock.
WalkText(f) ==
  /\ pc[Walker] = "idle"
  /\ Goto(Walker, "guard")
  /\ file' = [file EXCEPT ![Walker] = f]
  /\ UNCHANGED <<shared, caches, disk, holders, background, stage, todo, eff, key, made>>

Warm(f) ==
  /\ pc[Walker] = "idle"
  /\ f \in Warmable
  /\ ~Scanned(f)
  /\ f \notin inflight
  /\ inflight' = inflight \cup {f}
  /\ CallScan(f, f)
  /\ UNCHANGED <<work, started>>

\* Any of the files not yet scanned: the skip patterns leave some out, and
\* pw_db_prefetch_max_files all but the first.
StartPrefetch ==
  /\ UsePrefetch
  /\ pc[Walker] = "idle"
  /\ ~started
  /\ work' \in (SUBSET {f \in Files : ~Scanned(f)}) \ {{}}
  /\ started' = TRUE
  /\ UNCHANGED <<shared, caches, disk, holders, locals, inflight>>

PrefetchNext ==
  /\ \E f \in work :
       /\ Leads(f, work)
       /\ work' = work \ {f}
       /\ CallScan(Prefetcher, f)
  /\ UNCHANGED <<inflight, started>>

\* drain_background_workers(wait_all=True) joins the prefetch thread; warm
\* threads are not joined.
DrainPrefetch ==
  /\ UsePrefetch
  /\ pc[Walker] = "idle"
  /\ started
  /\ work = {}
  /\ pc[Prefetcher] = "idle"
  /\ started' = FALSE
  /\ UNCHANGED <<shared, caches, disk, holders, locals, inflight, work>>

-----------------------------------------------------------------------------
(* The steps of tier1_scan_file. *)

\* Mutant of Acquire: the scan runs outside the lock.
AcquireUnlocked(t) ==
  /\ pc[t] = "lock"
  /\ holders' = holders \cup {t}
  /\ Goto(t, "mem")
  /\ UNCHANGED <<shared, caches, disk, background, file, stage, todo, eff, key, made>>

Acquire(t) ==
  /\ pc[t] = "lock"
  /\ holders = {}
  /\ holders' = {t}
  /\ Goto(t, "mem")
  /\ UNCHANGED <<shared, caches, disk, background, file, stage, todo, eff, key, made>>

MemoryHit(t) ==
  /\ pc[t] = "mem"
  /\ Scanned(file[t])
  /\ Return(t)
  /\ UNCHANGED <<shared, caches, disk>>

\* Mutant of MemoryMiss: what another thread recorded meanwhile is not looked at.
MemoryMissAlways(t) ==
  /\ pc[t] = "mem"
  /\ Goto(t, "guard")
  /\ stage' = [stage EXCEPT ![t] = "scan"]
  /\ UNCHANGED <<shared, caches, disk, holders, background, file, todo, eff, key, made>>

MemoryMiss(t) ==
  /\ pc[t] = "mem"
  /\ ~Scanned(file[t])
  /\ Goto(t, "guard")
  /\ stage' = [stage EXCEPT ![t] = "scan"]
  /\ UNCHANGED <<shared, caches, disk, holders, background, file, todo, eff, key, made>>

TakeEffective(t) ==
  /\ pc[t] = "eff"
  /\ eff' = [eff EXCEPT ![t] = env]
  /\ Goto(t, "vload")
  /\ UNCHANGED <<shared, caches, disk, holders, background, file, stage, todo, key, made>>

\* Mutant of ValidatedHit: a sidecar of the file serves, whatever its digest.
ValidatedHitAnyKey(t) ==
  /\ pc[t] = "vload"
  /\ \E e \in vdisk :
       /\ e.file = file[t]
       /\ memory' = {m \in memory : m.file # file[t]}
                      \cup {[file |-> file[t], made |-> e.made]}
  /\ Return(t)
  /\ UNCHANGED <<shared, texts, disk>>

ValidatedHit(t) ==
  /\ pc[t] = "vload"
  /\ \E e \in vdisk :
       /\ e.file = file[t]
       /\ e.key = eff[t]
       /\ memory' = {m \in memory : m.file # file[t]}
                      \cup {[file |-> file[t], made |-> e.made]}
  /\ Return(t)
  /\ UNCHANGED <<shared, texts, disk>>

ValidatedMiss(t) ==
  /\ pc[t] = "vload"
  /\ ~\E e \in vdisk : e.file = file[t] /\ e.key = eff[t]
  /\ Goto(t, "guard")
  /\ stage' = [stage EXCEPT ![t] = "text"]
  /\ UNCHANGED <<shared, caches, disk, holders, background, file, todo, eff, key, made>>

SaveValidated(t) ==
  /\ pc[t] = "vsave"
  /\ memory' = {m \in memory : m.file # file[t]}
                 \cup {[file |-> file[t], made |-> made[t]]}
  /\ vdisk' = IF UseStore
              THEN Put(vdisk, [file |-> file[t], key |-> eff[t], made |-> made[t]])
              ELSE vdisk
  /\ Return(t)
  /\ UNCHANGED <<shared, texts, pdisk>>

-----------------------------------------------------------------------------
(* The steps of _ensure_defines_for_file. *)

Covered(t) ==
  /\ pc[t] = "guard"
  /\ file[t] <= upto
  /\ AfterEnsure(t)
  /\ UNCHANGED <<shared, caches, disk, holders, background, file, stage, todo, eff, key, made>>

PlanBatch(t) ==
  /\ pc[t] = "guard"
  /\ file[t] > upto
  /\ todo' = [todo EXCEPT ![t] = Batch(file[t])]
  /\ Goto(t, "claim")
  /\ UNCHANGED <<shared, caches, disk, holders, background, file, stage, eff, key, made>>

\* The watermark moves before any of the batch is read.
Claim(t) ==
  /\ pc[t] = "claim"
  /\ upto' = file[t]
  /\ todo' = [todo EXCEPT ![t] = Capped(file[t], todo[t])]
  /\ IF todo[t] = {} THEN AfterEnsure(t) ELSE Goto(t, "accum")
  /\ UNCHANGED <<seen, env, digest, caches, disk, holders, background,
                 file, stage, eff, key, made>>

SkipSeen(t) ==
  /\ pc[t] = "accum"
  /\ \E g \in seen :
       /\ Leads(g, todo[t])
       /\ todo' = [todo EXCEPT ![t] = todo[t] \ {g}]
  /\ UNCHANGED <<shared, caches, disk, holders, background, pc, file, stage, eff, key, made>>

FindUnseen(t) ==
  /\ pc[t] = "accum"
  /\ \E g \in Files \ seen : Leads(g, todo[t])
  /\ Goto(t, "mark")
  /\ UNCHANGED <<shared, caches, disk, holders, background, file, stage, todo, eff, key, made>>

Mark(t) ==
  /\ pc[t] = "mark"
  /\ \E g \in todo[t] : Leads(g, todo[t]) /\ seen' = seen \cup {g}
  /\ Goto(t, "apply")
  /\ UNCHANGED <<upto, env, digest, caches, disk, holders, background,
                 file, stage, todo, eff, key, made>>

\* Mutant of Apply: later sources end up before the earlier ones.
ApplyInFront(t) ==
  /\ pc[t] = "apply"
  /\ \E g \in todo[t] :
       /\ Leads(g, todo[t])
       /\ env' = <<g>> \o env
       /\ todo' = [todo EXCEPT ![t] = todo[t] \ {g}]
  /\ Goto(t, "accum")
  /\ UNCHANGED <<upto, seen, digest, caches, disk, holders, background,
                 file, stage, eff, key, made>>

\* accumulate_defines_from_file adds its defines to the shared dict one by one;
\* here a source is applied in one step.
Apply(t) ==
  /\ pc[t] = "apply"
  /\ \E g \in todo[t] :
       /\ Leads(g, todo[t])
       /\ env' = Append(env, g)
       /\ todo' = [todo EXCEPT ![t] = todo[t] \ {g}]
  /\ Goto(t, "accum")
  /\ UNCHANGED <<upto, seen, digest, caches, disk, holders, background,
                 file, stage, eff, key, made>>

BatchDone(t) ==
  /\ pc[t] = "accum"
  /\ todo[t] = {}
  /\ Goto(t, "digest")
  /\ UNCHANGED <<shared, caches, disk, holders, background, file, stage, todo, eff, key, made>>

\* Mutant of RefreshDigest: the digest of the run's first environment stays.
RefreshDigestNever(t) ==
  /\ pc[t] = "digest"
  /\ AfterEnsure(t)
  /\ UNCHANGED <<shared, caches, disk, holders, background,
                 file, stage, todo, eff, key, made>>

RefreshDigest(t) ==
  /\ pc[t] = "digest"
  /\ digest' = env
  /\ AfterEnsure(t)
  /\ UNCHANGED <<upto, seen, env, caches, disk, holders, background,
                 file, stage, todo, eff, key, made>>

-----------------------------------------------------------------------------
(* The steps of _preprocessed_text_for_file. *)

TakeKey(t) ==
  /\ pc[t] = "key"
  /\ key' = [key EXCEPT ![t] = digest]
  /\ Goto(t, "lookup")
  /\ UNCHANGED <<shared, caches, disk, holders, background, file, stage, todo, eff, made>>

Hits(store, t) == {e \in store : e.file = file[t] /\ e.key = key[t]}

TextInMemory(t) ==
  /\ pc[t] = "lookup"
  /\ \E e \in Hits(texts, t) : TextDone(t, e.made)
  /\ UNCHANGED <<shared, caches, disk>>

TextOnDisk(t) ==
  /\ pc[t] = "lookup"
  /\ Hits(texts, t) = {}
  /\ \E e \in Hits(pdisk, t) : texts' = Put(texts, e) /\ TextDone(t, e.made)
  /\ UNCHANGED <<shared, memory, disk>>

TextMiss(t) ==
  /\ pc[t] = "lookup"
  /\ Hits(texts, t) = {}
  /\ Hits(pdisk, t) = {}
  /\ Goto(t, "defs")
  /\ UNCHANGED <<shared, caches, disk, holders, background, file, stage, todo, eff, key, made>>

TakeDefines(t) ==
  /\ pc[t] = "defs"
  /\ made' = [made EXCEPT ![t] = env]
  /\ Goto(t, "prep")
  /\ UNCHANGED <<shared, caches, disk, holders, background, file, stage, todo, eff, key>>

Preprocess(t) ==
  /\ pc[t] = "prep"
  /\ LET entry == [file |-> file[t], key |-> key[t], made |-> made[t]]
     IN  /\ texts' = Put(texts, entry)
         /\ pdisk' = IF UseStore THEN Put(pdisk, entry) ELSE pdisk
  /\ TextDone(t, made[t])
  /\ UNCHANGED <<shared, memory, vdisk>>

\* Mutant of PreprocessFails: the lock is not let go when preprocessing raises.
PreprocessFailsHolding(t) ==
  /\ pc[t] = "prep"
  /\ file[t] \in Fallible
  /\ t = Walker => t \notin holders
  /\ Goto(t, "idle")
  /\ inflight' = inflight \ {t}
  /\ UNCHANGED <<shared, caches, disk, holders, work, started,
                 file, stage, todo, eff, key, made>>

\* OSError: swallowed by the background threads and by the callers that want
\* the text; out of the walk's own scan it ends the run (Restart).
PreprocessFails(t) ==
  /\ pc[t] = "prep"
  /\ file[t] \in Fallible
  /\ t = Walker => t \notin holders
  /\ Return(t)
  /\ UNCHANGED <<shared, caches, disk>>

-----------------------------------------------------------------------------

\* The process ends, at any point, and a later run opens the same cache
\* directory with a new database object.
Restart ==
  /\ upto' = 0 /\ seen' = {} /\ env' = <<>> /\ digest' = <<>>
  /\ memory' = {} /\ texts' = {}
  /\ holders' = {} /\ inflight' = {} /\ work' = {} /\ started' = FALSE
  /\ pc' = [t \in Threads |-> "idle"]
  /\ file' = [t \in Threads |-> 1]
  /\ stage' = [t \in Threads |-> "text"]
  /\ todo' = [t \in Threads |-> {}]
  /\ eff' = [t \in Threads |-> <<>>]
  /\ key' = [t \in Threads |-> <<>>]
  /\ made' = [t \in Threads |-> <<>>]
  /\ UNCHANGED disk

ScanStep(t) ==
  \/ Acquire(t) \/ MemoryHit(t) \/ MemoryMiss(t)
  \/ TakeEffective(t) \/ ValidatedHit(t) \/ ValidatedMiss(t) \/ SaveValidated(t)

EnsureStep(t) ==
  \/ Covered(t) \/ PlanBatch(t) \/ Claim(t)
  \/ SkipSeen(t) \/ FindUnseen(t) \/ Mark(t) \/ Apply(t)
  \/ BatchDone(t) \/ RefreshDigest(t)

TextStep(t) ==
  \/ TakeKey(t) \/ TextInMemory(t) \/ TextOnDisk(t) \/ TextMiss(t)
  \/ TakeDefines(t) \/ Preprocess(t) \/ PreprocessFails(t)

Step(t) == ScanStep(t) \/ EnsureStep(t) \/ TextStep(t)

Call ==
  \/ \E f \in Files : WalkScan(f) \/ WalkText(f) \/ Warm(f)
  \/ StartPrefetch \/ DrainPrefetch

Next ==
  \/ Call
  \/ UsePrefetch /\ PrefetchNext
  \/ \E t \in Threads : Step(t)
  \/ Restart

Spec == Init /\ [][Next]_vars

\* Every started thread is scheduled; the lock is not assumed fair and the
\* walk is never obliged to make another call.
Fairness ==
  /\ \A t \in Threads : WF_vars(Step(t))
  /\ WF_vars(UsePrefetch /\ PrefetchNext)

FairSpec == Spec /\ Fairness

-----------------------------------------------------------------------------
(* Properties. *)

\* Every cached text, in memory or in a sidecar, was preprocessed (and every
\* validated scan was scanned) under exactly the define environment its key
\* names: what a lookup by digest relies on.  It is about the digest, the
\* defines and the save being read at different moments of a call.
KeysMatch == \A e \in texts \cup pdisk \cup vdisk : e.made = e.key

IsPrefixOf(s, u) ==
  /\ Len(s) <= Len(u)
  /\ \A i \in 1 .. Len(s) : s[i] = u[i]

\* Whatever the threads do to the shared environment, a preprocessed text was
\* never made under less than the environment its key names: the digest is
\* read before the defines and both only grow.
KeyNeverAhead == \A e \in texts \cup pdisk : IsPrefixOf(e.key, e.made)

\* A file's scan saw the `define lines of every source that precedes it in
\* the filelist and may define macros for it, its own included.
SeesOwnPrefix ==
  \A m \in memory : \A g \in Files :
    g <= m.file /\ g \in Chain[m.file] => \E i \in 1 .. Len(m.made) : m.made[i] = g

InScan(t) == stage[t] = "scan" \/ pc[t] \in {"mem", "eff", "vload", "vsave"}

\* The memory check, the scan and the recording of its result are one
\* critical section, whichever threads scan.
OneScanAtATime == \A t, u \in Threads : InScan(t) /\ InScan(u) => t = u

\* Within a run the validated result of a file, once handed out, is never
\* replaced by another: two threads that want one file do not both scan it.
ScansAreFinal == [][memory \subseteq memory' \/ memory' = {}]_vars

\* Every call of the walk comes back, whatever the background threads are
\* doing and even if preprocessing raises while one of them holds the lock.
WalkReturns == pc[Walker] # "idle" ~> pc[Walker] = "idle"

Promise == INSTANCE PwTier1Abs WITH defines <- env, scans <- memory

\* A walk with no background thread cannot tell that there are caches.
CachesAreTransparent == Promise!Spec
=============================================================================
