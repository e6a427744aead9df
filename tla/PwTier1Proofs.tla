--------------------------- MODULE PwTier1Proofs ---------------------------
(* Theorems about PwTier1, for every filelist, chain, cap and thread set. *)
EXTENDS PwTier1, SequenceTheorems, FiniteSetTheorems, TLAPS

-----------------------------------------------------------------------------
(* Type correctness. *)

LEMMA ThreadsType ==
  /\ Walker \in Threads
  /\ Warmable \subseteq Threads
  /\ UsePrefetch => Prefetcher \in Threads
BY DEF Threads

LEMMA InitType == Init => TypeOK
<1>1. 0 \in 0 .. N /\ 1 \in Files
  BY PwTier1Assumption DEF Files
<1>2. <<>> \in Env
  BY EmptySeq DEF Env
<1>3. [t \in Threads |-> <<>>] \in [Threads -> Env]
  BY <1>2
<1>4. /\ [t \in Threads |-> "idle"] \in [Threads -> Steps]
      /\ [t \in Threads |-> 1] \in [Threads -> Files]
      /\ [t \in Threads |-> "text"] \in [Threads -> {"scan", "text"}]
      /\ [t \in Threads |-> {}] \in [Threads -> SUBSET Files]
  BY <1>1 DEF Steps
<1> QED
  BY <1>1, <1>2, <1>3, <1>4 DEF Init, Fresh, TypeOK

LEMMA CallType ==
  ASSUME TypeOK, Call \/ (UsePrefetch /\ PrefetchNext)
  PROVE  TypeOK'
<1>0. \A t \in Threads, f \in Files :
        CallScan(t, f) => /\ pc' \in [Threads -> Steps]
                          /\ file' \in [Threads -> Files]
  BY DEF CallScan, Goto, TypeOK, Steps
<1>1. CASE \E f \in Files : WalkScan(f)
  BY <1>0, <1>1, ThreadsType DEF WalkScan, CallScan, TypeOK, shared, caches, disk, background
<1>2. CASE \E f \in Files : WalkText(f)
  BY <1>2, ThreadsType DEF WalkText, Goto, TypeOK, Steps, shared, caches, disk, background
<1>3. CASE \E f \in Files : Warm(f)
  BY <1>0, <1>3, ThreadsType DEF Warm, CallScan, TypeOK, shared, caches, disk
<1>4. CASE StartPrefetch
  BY <1>4 DEF StartPrefetch, TypeOK, shared, caches, disk, locals
<1>5. CASE DrainPrefetch
  BY <1>5 DEF DrainPrefetch, TypeOK, shared, caches, disk, locals
<1>6. CASE UsePrefetch /\ PrefetchNext
  <2>1. PICK f \in work : work' = work \ {f} /\ CallScan(Prefetcher, f)
    BY <1>6 DEF PrefetchNext
  <2>2. f \in Files
    BY DEF TypeOK
  <2> QED
    BY <1>0, <1>6, <2>1, <2>2, ThreadsType DEF PrefetchNext, CallScan, TypeOK, shared, caches, disk
<1> QED
  BY <1>1, <1>2, <1>3, <1>4, <1>5, <1>6 DEF Call

\* What a call leaves behind in the locals, the lock and the bookkeeping.
LEMMA ReturnType ==
  ASSUME TypeOK, NEW t \in Threads, Return(t)
  PROVE  /\ holders' \subseteq Threads
         /\ inflight' \subseteq Warmable
         /\ work' \subseteq Files
         /\ started' \in BOOLEAN
         /\ pc' \in [Threads -> Steps]
         /\ file' \in [Threads -> Files]
         /\ stage' \in [Threads -> {"scan", "text"}]
         /\ todo' \in [Threads -> SUBSET Files]
         /\ eff' \in [Threads -> Env]
         /\ key' \in [Threads -> Env]
         /\ made' \in [Threads -> Env]
<1>1. 1 \in Files /\ <<>> \in Env
  BY PwTier1Assumption, EmptySeq DEF Files, Env
<1> QED
  BY <1>1 DEF Return, Goto, TypeOK, Steps

LEMMA TextDoneType ==
  ASSUME TypeOK, NEW t \in Threads, NEW e \in Env, TextDone(t, e)
  PROVE  /\ holders' \subseteq Threads
         /\ inflight' \subseteq Warmable
         /\ work' \subseteq Files
         /\ started' \in BOOLEAN
         /\ pc' \in [Threads -> Steps]
         /\ file' \in [Threads -> Files]
         /\ stage' \in [Threads -> {"scan", "text"}]
         /\ todo' \in [Threads -> SUBSET Files]
         /\ eff' \in [Threads -> Env]
         /\ key' \in [Threads -> Env]
         /\ made' \in [Threads -> Env]
<1>1. CASE t \in holders
  BY <1>1 DEF TextDone, Goto, TypeOK, Steps, background
<1>2. CASE t \notin holders
  BY <1>2, ReturnType DEF TextDone
<1> QED
  BY <1>1, <1>2

LEMMA ScanStepType ==
  ASSUME TypeOK, NEW t \in Threads, ScanStep(t)
  PROVE  TypeOK'
<1> USE DEF TypeOK
<1>1. CASE Acquire(t)
  BY <1>1 DEF Acquire, Goto, Steps, shared, caches, disk, background
<1>2. CASE MemoryHit(t)
  BY <1>2, ReturnType DEF MemoryHit, shared, caches, disk
<1>3. CASE MemoryMiss(t)
  BY <1>3 DEF MemoryMiss, Goto, Steps, shared, caches, disk, background
<1>4. CASE TakeEffective(t)
  BY <1>4 DEF TakeEffective, Goto, Steps, shared, caches, disk, background
<1>5. CASE ValidatedHit(t)
  <2>1. PICK e \in vdisk :
          memory' = {m \in memory : m.file # file[t]}
                      \cup {[file |-> file[t], made |-> e.made]}
    BY <1>5 DEF ValidatedHit
  <2>2. memory' \subseteq Text
    BY <2>1 DEF Text, Sidecar
  <2> QED
    BY <1>5, <2>2, ReturnType DEF ValidatedHit, shared, disk
<1>6. CASE ValidatedMiss(t)
  BY <1>6 DEF ValidatedMiss, Goto, Steps, shared, caches, disk, background
<1>7. CASE SaveValidated(t)
  <2>1. memory' \subseteq Text
    BY <1>7 DEF SaveValidated, Text
  <2>2. vdisk' \subseteq Sidecar
    BY <1>7 DEF SaveValidated, Put, Sidecar
  <2> QED
    BY <1>7, <2>1, <2>2, ReturnType DEF SaveValidated, shared
<1> QED
  BY <1>1, <1>2, <1>3, <1>4, <1>5, <1>6, <1>7 DEF ScanStep

LEMMA EnsureStepType ==
  ASSUME TypeOK, NEW t \in Threads, EnsureStep(t)
  PROVE  TypeOK'
<1> USE DEF TypeOK
<1>0. ASSUME AfterEnsure(t) PROVE pc' \in [Threads -> Steps]
  BY <1>0 DEF AfterEnsure, Goto, Steps
<1>1. CASE Covered(t)
  BY <1>0, <1>1 DEF Covered, shared, caches, disk, background
<1>2. CASE PlanBatch(t)
  BY <1>2 DEF PlanBatch, Batch, Goto, Steps, shared, caches, disk, background
<1>3. CASE Claim(t)
  <2>1. upto' \in 0 .. N
    BY <1>3, PwTier1Assumption DEF Claim, Files
  <2>2. todo' \in [Threads -> SUBSET Files]
    BY <1>3 DEF Claim, Capped
  <2>3. pc' \in [Threads -> Steps]
    BY <1>0, <1>3 DEF Claim, Goto, Steps
  <2> QED
    BY <1>3, <2>1, <2>2, <2>3 DEF Claim, caches, disk, background
<1>4. CASE SkipSeen(t)
  BY <1>4 DEF SkipSeen, shared, caches, disk, background
<1>5. CASE FindUnseen(t)
  BY <1>5 DEF FindUnseen, Goto, Steps, shared, caches, disk, background
<1>6. CASE Mark(t)
  BY <1>6 DEF Mark, Goto, Steps, caches, disk, background
<1>7. CASE Apply(t)
  <2>1. PICK g \in todo[t] : /\ env' = Append(env, g)
                             /\ todo' = [todo EXCEPT ![t] = todo[t] \ {g}]
    BY <1>7 DEF Apply
  <2>2. env' \in Env
    BY <2>1, AppendProperties DEF Env
  <2> QED
    BY <1>7, <2>1, <2>2 DEF Apply, Goto, Steps, caches, disk, background
<1>8. CASE BatchDone(t)
  BY <1>8 DEF BatchDone, Goto, Steps, shared, caches, disk, background
<1>9. CASE RefreshDigest(t)
  BY <1>0, <1>9 DEF RefreshDigest, caches, disk, background
<1> QED
  BY <1>1, <1>2, <1>3, <1>4, <1>5, <1>6, <1>7, <1>8, <1>9 DEF EnsureStep

LEMMA TextStepType ==
  ASSUME TypeOK, NEW t \in Threads, TextStep(t)
  PROVE  TypeOK'
<1> USE DEF TypeOK
<1>1. CASE TakeKey(t)
  BY <1>1 DEF TakeKey, Goto, Steps, shared, caches, disk, background
<1>2. CASE TextInMemory(t)
  <2>1. PICK e \in texts : TextDone(t, e.made)
    BY <1>2 DEF TextInMemory, Hits
  <2>2. e.made \in Env
    BY DEF Sidecar
  <2> QED
    BY <1>2, <2>1, <2>2, TextDoneType DEF TextInMemory, shared, caches, disk
<1>3. CASE TextOnDisk(t)
  <2>1. PICK e \in pdisk : texts' = Put(texts, e) /\ TextDone(t, e.made)
    BY <1>3 DEF TextOnDisk, Hits
  <2>2. e.made \in Env /\ texts' \subseteq Sidecar
    BY <2>1 DEF Sidecar, Put
  <2> QED
    BY <1>3, <2>1, <2>2, TextDoneType DEF TextOnDisk, shared, disk
<1>4. CASE TextMiss(t)
  BY <1>4 DEF TextMiss, Goto, Steps, shared, caches, disk, background
<1>5. CASE TakeDefines(t)
  BY <1>5 DEF TakeDefines, Goto, Steps, shared, caches, disk, background
<1>6. CASE Preprocess(t)
  <2>1. texts' \subseteq Sidecar /\ pdisk' \subseteq Sidecar
    BY <1>6 DEF Preprocess, Put, Sidecar
  <2> QED
    BY <1>6, <2>1, TextDoneType DEF Preprocess, shared
<1>7. CASE PreprocessFails(t)
  BY <1>7, ReturnType DEF PreprocessFails, shared, caches, disk
<1> QED
  BY <1>1, <1>2, <1>3, <1>4, <1>5, <1>6, <1>7 DEF TextStep

LEMMA RestartType == TypeOK /\ Restart => TypeOK'
<1>1. 0 \in 0 .. N /\ 1 \in Files
  BY PwTier1Assumption DEF Files
<1>2. <<>> \in Env
  BY EmptySeq DEF Env
<1>3. [t \in Threads |-> <<>>] \in [Threads -> Env]
  BY <1>2
<1>4. /\ [t \in Threads |-> "idle"] \in [Threads -> Steps]
      /\ [t \in Threads |-> 1] \in [Threads -> Files]
      /\ [t \in Threads |-> "text"] \in [Threads -> {"scan", "text"}]
      /\ [t \in Threads |-> {}] \in [Threads -> SUBSET Files]
  BY <1>1 DEF Steps
<1> QED
  BY <1>1, <1>2, <1>3, <1>4 DEF Restart, TypeOK, disk

LEMMA TypeStep == TypeOK /\ [Next]_vars => TypeOK'
<1> SUFFICES ASSUME TypeOK, [Next]_vars PROVE TypeOK'
  OBVIOUS
<1>1. CASE UNCHANGED vars
  BY <1>1 DEF TypeOK, vars, shared, caches, disk, background, locals
<1> QED
  BY <1>1, CallType, ScanStepType, EnsureStepType, TextStepType, RestartType DEF Next, Step

\* Every variable keeps its type, whichever threads run and whichever files
\* fail.
THEOREM TypeCorrect == Spec => []TypeOK
BY InitType, TypeStep, PTL DEF Spec

-----------------------------------------------------------------------------
(* The scan lock. *)

\* Who is inside a scan holds the lock, one thread at most does, and past the
\* memory check its file has no result yet.
LockInv ==
  /\ \A t \in Threads : InScan(t) => t \in holders
  /\ \A t, u \in holders : t = u
  /\ \A t \in holders : pc[t] \notin {"idle", "lock"}
  /\ \A t \in holders : pc[t] # "mem" => ~Scanned(file[t])

LEMMA LockInit == Init => LockInv
BY DEF Init, Fresh, LockInv, InScan

LEMMA LockCall ==
  ASSUME TypeOK, LockInv, Call \/ (UsePrefetch /\ PrefetchNext)
  PROVE  LockInv'
<1>0. ASSUME NEW t \in Threads, NEW f \in Files, CallScan(t, f)
      PROVE  LockInv'
  BY <1>0 DEF CallScan, Goto, LockInv, InScan, Scanned, TypeOK, caches
<1>1. CASE \E f \in Files : WalkScan(f)
  BY <1>0, <1>1, ThreadsType DEF WalkScan
<1>2. CASE \E f \in Files : WalkText(f)
  BY <1>2, ThreadsType DEF WalkText, Goto, LockInv, InScan, Scanned, TypeOK, caches
<1>3. CASE \E f \in Files : Warm(f)
  BY <1>0, <1>3, ThreadsType DEF Warm
<1>4. CASE StartPrefetch \/ DrainPrefetch
  BY <1>4 DEF StartPrefetch, DrainPrefetch, LockInv, InScan, Scanned, caches, locals
<1>5. CASE UsePrefetch /\ PrefetchNext
  <2>1. PICK f \in work : CallScan(Prefetcher, f)
    BY <1>5 DEF PrefetchNext
  <2> QED
    BY <1>0, <1>5, <2>1, ThreadsType DEF TypeOK
<1> QED
  BY <1>1, <1>2, <1>3, <1>4, <1>5 DEF Call

\* A thread that returns lets the lock go; what it recorded is about the file
\* of the lock's holder.
LEMMA LockReturn ==
  ASSUME TypeOK, LockInv, NEW t \in Threads, Return(t),
         \/ memory' = memory
         \/ t \in holders
  PROVE  LockInv'
<1>1. /\ \A u \in Threads : u # t => /\ pc'[u] = pc[u]
                                     /\ file'[u] = file[u]
                                     /\ stage'[u] = stage[u]
      /\ pc'[t] = "idle" /\ stage'[t] = "text"
      /\ holders' = holders \ {t}
  BY DEF Return, Goto, TypeOK
<1>2. holders' \subseteq Threads
  BY <1>1 DEF TypeOK
<1>3. \A u \in holders' : pc'[u] # "mem" => ~Scanned(file[u])'
  BY <1>1, <1>2 DEF LockInv, Scanned
<1> QED
  BY <1>1, <1>2, <1>3 DEF LockInv, InScan, Scanned

LEMMA LockTextDone ==
  ASSUME TypeOK, LockInv, NEW t \in Threads, NEW e, TextDone(t, e),
         memory' = memory, pc[t] \in {"lookup", "prep"}
  PROVE  LockInv'
<1>1. CASE t \in holders
  BY <1>1 DEF TextDone, Goto, TypeOK, LockInv, InScan, Scanned, background
<1>2. CASE t \notin holders
  BY <1>2, LockReturn DEF TextDone
<1> QED
  BY <1>1, <1>2

LEMMA LockScanStep ==
  ASSUME TypeOK, LockInv, NEW t \in Threads, ScanStep(t)
  PROVE  LockInv'
<1>1. CASE Acquire(t)
  BY <1>1 DEF Acquire, Goto, LockInv, InScan, TypeOK
<1>2. CASE MemoryHit(t)
  BY <1>2, LockReturn DEF MemoryHit, caches
<1>3. CASE MemoryMiss(t)
  BY <1>3 DEF MemoryMiss, Goto, LockInv, InScan, Scanned, TypeOK, caches
<1>4. CASE TakeEffective(t)
  BY <1>4 DEF TakeEffective, Goto, LockInv, InScan, Scanned, TypeOK, caches
<1>5. CASE ValidatedHit(t)
  <2>1. t \in holders
    BY <1>5 DEF ValidatedHit, LockInv, InScan
  <2> QED
    BY <1>5, <2>1, LockReturn DEF ValidatedHit
<1>6. CASE ValidatedMiss(t)
  BY <1>6 DEF ValidatedMiss, Goto, LockInv, InScan, Scanned, TypeOK, caches
<1>7. CASE SaveValidated(t)
  <2>1. t \in holders
    BY <1>7 DEF SaveValidated, LockInv, InScan
  <2> QED
    BY <1>7, <2>1, LockReturn DEF SaveValidated
<1> QED
  BY <1>1, <1>2, <1>3, <1>4, <1>5, <1>6, <1>7 DEF ScanStep

LEMMA LockEnsureStep ==
  ASSUME TypeOK, LockInv, NEW t \in Threads, EnsureStep(t)
  PROVE  LockInv'
<1> USE DEF LockInv, InScan, Scanned, TypeOK, caches
<1>1. CASE Covered(t)
  BY <1>1 DEF Covered, AfterEnsure, Goto
<1>2. CASE PlanBatch(t)
  BY <1>2 DEF PlanBatch, Goto
<1>3. CASE Claim(t)
  BY <1>3 DEF Claim, AfterEnsure, Goto
<1>4. CASE SkipSeen(t)
  BY <1>4 DEF SkipSeen
<1>5. CASE FindUnseen(t)
  BY <1>5 DEF FindUnseen, Goto
<1>6. CASE Mark(t)
  BY <1>6 DEF Mark, Goto
<1>7. CASE Apply(t)
  BY <1>7 DEF Apply, Goto
<1>8. CASE BatchDone(t)
  BY <1>8 DEF BatchDone, Goto
<1>9. CASE RefreshDigest(t)
  BY <1>9 DEF RefreshDigest, AfterEnsure, Goto
<1> QED
  BY <1>1, <1>2, <1>3, <1>4, <1>5, <1>6, <1>7, <1>8, <1>9 DEF EnsureStep

LEMMA LockTextStep ==
  ASSUME TypeOK, LockInv, NEW t \in Threads, TextStep(t)
  PROVE  LockInv'
<1>1. CASE TakeKey(t)
  BY <1>1 DEF TakeKey, Goto, LockInv, InScan, Scanned, TypeOK, caches
<1>2. CASE TextInMemory(t)
  BY <1>2, LockTextDone DEF TextInMemory, caches
<1>3. CASE TextOnDisk(t)
  BY <1>3, LockTextDone DEF TextOnDisk
<1>4. CASE TextMiss(t)
  BY <1>4 DEF TextMiss, Goto, LockInv, InScan, Scanned, TypeOK, caches
<1>5. CASE TakeDefines(t)
  BY <1>5 DEF TakeDefines, Goto, LockInv, InScan, Scanned, TypeOK, caches
<1>6. CASE Preprocess(t)
  BY <1>6, LockTextDone DEF Preprocess
<1>7. CASE PreprocessFails(t)
  BY <1>7, LockReturn DEF PreprocessFails, caches
<1> QED
  BY <1>1, <1>2, <1>3, <1>4, <1>5, <1>6, <1>7 DEF TextStep

LEMMA LockStep == TypeOK /\ LockInv /\ [Next]_vars => LockInv'
<1> SUFFICES ASSUME TypeOK, LockInv, [Next]_vars PROVE LockInv'
  OBVIOUS
<1>1. CASE UNCHANGED vars
  BY <1>1 DEF LockInv, InScan, Scanned, vars, caches, locals
<1>2. CASE Restart
  BY <1>2 DEF Restart, LockInv, InScan
<1> QED
  BY <1>1, <1>2, LockCall, LockScanStep, LockEnsureStep, LockTextStep DEF Next, Step

LEMMA LockHolds == Spec => [](TypeOK /\ LockInv)
<1>1. Init => TypeOK /\ LockInv
  BY InitType, LockInit
<1>2. TypeOK /\ LockInv /\ [Next]_vars => (TypeOK /\ LockInv)'
  BY TypeStep, LockStep
<1> QED
  BY <1>1, <1>2, PTL DEF Spec

\* However many threads warm, prefetch and walk, one of them at a time is
\* between the memory check and the recording of a scan.
THEOREM ScansExclude == Spec => []OneScanAtATime
<1>1. TypeOK /\ LockInv => OneScanAtATime
  BY DEF LockInv, OneScanAtATime
<1> QED
  BY <1>1, LockHolds, PTL

\* A validated result, once recorded, is the run's result for its file: no
\* thread ever records another one in its place.
THEOREM ScansStay == Spec => ScansAreFinal
<1> DEFINE Kept == memory \subseteq memory' \/ memory' = {}
<1>1. ASSUME TypeOK, LockInv, [Next]_vars PROVE [Kept]_vars
  <2>1. ASSUME NEW t \in Threads, ValidatedHit(t) \/ SaveValidated(t)
        PROVE  Kept
    <3>1. \A m \in memory : m.file # file[t]
      <4>1. pc[t] \in {"vload", "vsave"}
        BY <2>1 DEF ValidatedHit, SaveValidated
      <4>2. t \in holders
        BY <1>1, <4>1 DEF LockInv, InScan
      <4> QED
        BY <1>1, <4>1, <4>2 DEF LockInv, Scanned
    <3>2. {m \in memory : m.file # file[t]} \subseteq memory'
      BY <2>1 DEF ValidatedHit, SaveValidated
    <3> QED
      BY <3>1, <3>2
  <2>2. ASSUME NEW t \in Threads, Step(t), ~ValidatedHit(t), ~SaveValidated(t)
        PROVE  memory' = memory
    BY <2>2 DEF Step, ScanStep, Acquire, MemoryHit, MemoryMiss, TakeEffective,
        ValidatedMiss, EnsureStep, Covered, PlanBatch, Claim, SkipSeen, FindUnseen,
        Mark, Apply, BatchDone, RefreshDigest, TextStep, TakeKey, TextInMemory,
        TextOnDisk, TextMiss, TakeDefines, Preprocess, PreprocessFails, caches
  <2>3. ASSUME Call \/ PrefetchNext PROVE memory' = memory
    BY <2>3 DEF Call, WalkScan, WalkText, Warm, StartPrefetch, DrainPrefetch,
        PrefetchNext, CallScan, caches
  <2> QED
    BY <1>1, <2>1, <2>2, <2>3 DEF Next, Restart
<1> QED
  BY <1>1, LockHolds, PTL DEF Spec, ScansAreFinal

-----------------------------------------------------------------------------
(* The keys of cached texts, with any number of threads. *)

LEMMA PrefixSelf == ASSUME NEW s \in Env PROVE IsPrefixOf(s, s)
BY LenProperties DEF Env, IsPrefixOf

LEMMA PrefixEmpty == ASSUME NEW u \in Env PROVE IsPrefixOf(<<>>, u)
BY LenProperties, EmptySeq DEF Env, IsPrefixOf

LEMMA PrefixAppend ==
  ASSUME NEW s \in Env, NEW u \in Env, NEW g \in Files, IsPrefixOf(s, u)
  PROVE  IsPrefixOf(s, Append(u, g))
<1>1. Len(s) \in Nat /\ Len(u) \in Nat
  BY LenProperties DEF Env
<1>2. /\ Len(Append(u, g)) = Len(u) + 1
      /\ \A i \in 1 .. Len(u) : Append(u, g)[i] = u[i]
  BY AppendProperties DEF Env
<1> QED
  BY <1>1, <1>2 DEF IsPrefixOf

\* The digest and the keys read from it are earlier values of the defines.
PrefixInv ==
  /\ IsPrefixOf(digest, env)
  /\ \A t \in Threads : IsPrefixOf(key[t], env)
  /\ \A t \in Threads : pc[t] = "prep" => IsPrefixOf(key[t], made[t])
  /\ KeyNeverAhead

LEMMA PrefixInit == Init => PrefixInv
<1>1. <<>> \in Env
  BY EmptySeq DEF Env
<1> QED
  BY <1>1, PrefixEmpty DEF Init, Fresh, PrefixInv, KeyNeverAhead

\* A step that leaves the environment, the digest, the keys and the caches
\* alone and does not enter "prep".
LEMMA PrefixFrame ==
  ASSUME TypeOK, PrefixInv, env' = env, digest' = digest, key' = key,
         texts' = texts, pdisk' = pdisk,
         \A t \in Threads : pc'[t] = "prep" => pc[t] = "prep" /\ made'[t] = made[t]
  PROVE  PrefixInv'
BY DEF PrefixInv, KeyNeverAhead

LEMMA PrefixReturn ==
  ASSUME TypeOK, PrefixInv, NEW t \in Threads, NEW e,
         Return(t) \/ TextDone(t, e), env' = env, digest' = digest,
         KeyNeverAhead'
  PROVE  PrefixInv'
<1>1. /\ key'[t] \in {key[t], <<>>}
      /\ pc'[t] # "prep"
      /\ \A u \in Threads : u # t => /\ key'[u] = key[u]
                                     /\ pc'[u] = pc[u]
                                     /\ made'[u] = made[u]
  BY DEF Return, TextDone, Goto, TypeOK
<1>2. IsPrefixOf(<<>>, env)
  BY PrefixEmpty DEF TypeOK
<1> QED
  BY <1>1, <1>2 DEF PrefixInv

LEMMA PrefixStep == TypeOK /\ PrefixInv /\ [Next]_vars => PrefixInv'
<1> SUFFICES ASSUME TypeOK, PrefixInv, [Next]_vars PROVE PrefixInv'
  OBVIOUS
<1> USE DEF TypeOK
<1>1. CASE UNCHANGED vars
  BY <1>1, PrefixFrame DEF vars, shared, caches, disk, locals
<1>2. CASE Call \/ (UsePrefetch /\ PrefetchNext)
  <2>1. \A t \in Threads : pc'[t] = "prep" => pc[t] = "prep" /\ made'[t] = made[t]
    BY <1>2 DEF Call, WalkScan, WalkText, Warm, StartPrefetch, DrainPrefetch,
        PrefetchNext, CallScan, Goto, locals
  <2>2. /\ env' = env /\ digest' = digest /\ key' = key
        /\ texts' = texts /\ pdisk' = pdisk
    BY <1>2 DEF Call, WalkScan, WalkText, Warm, StartPrefetch, DrainPrefetch,
        PrefetchNext, CallScan, shared, caches, disk, locals
  <2> QED
    BY <2>1, <2>2, PrefixFrame
<1>3. ASSUME NEW t \in Threads, ScanStep(t) PROVE PrefixInv'
  <2>1. CASE MemoryHit(t) \/ ValidatedHit(t) \/ SaveValidated(t)
    <3>1. KeyNeverAhead'
      BY <2>1 DEF MemoryHit, ValidatedHit, SaveValidated, PrefixInv, KeyNeverAhead,
          caches, disk
    <3> QED
      BY <2>1, <3>1, PrefixReturn DEF MemoryHit, ValidatedHit, SaveValidated, shared
  <2>2. CASE Acquire(t) \/ MemoryMiss(t) \/ TakeEffective(t) \/ ValidatedMiss(t)
    BY <2>2, PrefixFrame DEF Acquire, MemoryMiss, TakeEffective, ValidatedMiss, Goto,
        shared, caches, disk
  <2> QED
    BY <1>3, <2>1, <2>2 DEF ScanStep
<1>4. ASSUME NEW t \in Threads, EnsureStep(t) PROVE PrefixInv'
  <2>1. CASE Apply(t)
    <3>1. PICK g \in todo[t] : env' = Append(env, g)
      BY <2>1 DEF Apply
    <3>2. g \in Files
      OBVIOUS
    <3>3. IsPrefixOf(digest, env')
      BY <3>1, <3>2, PrefixAppend DEF PrefixInv
    <3>4. \A u \in Threads : IsPrefixOf(key[u], env')
      BY <3>1, <3>2, PrefixAppend DEF PrefixInv
    <3>5. /\ digest' = digest /\ key' = key /\ texts' = texts /\ pdisk' = pdisk
          /\ made' = made
          /\ \A u \in Threads : pc'[u] = "prep" => pc[u] = "prep"
      BY <2>1 DEF Apply, Goto, caches, disk
    <3> QED
      BY <3>3, <3>4, <3>5 DEF PrefixInv, KeyNeverAhead
  <2>2. CASE RefreshDigest(t)
    <3>1. digest' = env /\ env' = env /\ IsPrefixOf(env, env)
      BY <2>2, PrefixSelf DEF RefreshDigest
    <3>2. /\ key' = key /\ texts' = texts /\ pdisk' = pdisk /\ made' = made
          /\ \A u \in Threads : pc'[u] = "prep" => pc[u] = "prep"
      BY <2>2 DEF RefreshDigest, AfterEnsure, Goto, caches, disk
    <3> QED
      BY <3>1, <3>2 DEF PrefixInv, KeyNeverAhead
  <2>3. CASE Covered(t) \/ PlanBatch(t) \/ Claim(t) \/ SkipSeen(t)
             \/ FindUnseen(t) \/ Mark(t) \/ BatchDone(t)
    <3>1. \A u \in Threads : pc'[u] = "prep" => pc[u] = "prep"
      BY <2>3 DEF Covered, PlanBatch, Claim, SkipSeen, FindUnseen, Mark, BatchDone,
          AfterEnsure, Goto
    <3>2. /\ env' = env /\ digest' = digest /\ key' = key /\ made' = made
          /\ texts' = texts /\ pdisk' = pdisk
      BY <2>3 DEF Covered, PlanBatch, Claim, SkipSeen, FindUnseen, Mark, BatchDone,
          shared, caches, disk
    <3> QED
      BY <3>1, <3>2, PrefixFrame
  <2> QED
    BY <1>4, <2>1, <2>2, <2>3 DEF EnsureStep
<1>5. ASSUME NEW t \in Threads, TextStep(t) PROVE PrefixInv'
  <2>1. CASE TakeKey(t)
    <3>1. /\ \A u \in Threads : key'[u] = IF u = t THEN digest ELSE key[u]
          /\ \A u \in Threads : pc'[u] = "prep" => pc[u] = "prep" /\ u # t
      BY <2>1 DEF TakeKey, Goto
    <3>2. /\ env' = env /\ digest' = digest /\ made' = made
          /\ texts' = texts /\ pdisk' = pdisk
      BY <2>1 DEF TakeKey, shared, caches, disk
    <3> QED
      BY <3>1, <3>2 DEF PrefixInv, KeyNeverAhead
  <2>2. CASE TextInMemory(t)
    <3>1. PICK e \in texts : TextDone(t, e.made)
      BY <2>2 DEF TextInMemory, Hits
    <3>2. KeyNeverAhead'
      BY <2>2 DEF TextInMemory, PrefixInv, KeyNeverAhead, caches, disk
    <3> QED
      BY <2>2, <3>1, <3>2, PrefixReturn DEF TextInMemory, shared
  <2>3. CASE TextOnDisk(t)
    <3>1. PICK e \in pdisk : texts' = Put(texts, e) /\ TextDone(t, e.made)
      BY <2>3 DEF TextOnDisk, Hits
    <3>2. KeyNeverAhead'
      BY <2>3, <3>1 DEF TextOnDisk, Put, PrefixInv, KeyNeverAhead, disk
    <3> QED
      BY <2>3, <3>1, <3>2, PrefixReturn DEF TextOnDisk, shared
  <2>4. CASE TextMiss(t)
    BY <2>4, PrefixFrame DEF TextMiss, Goto, shared, caches, disk
  <2>5. CASE TakeDefines(t)
    <3>1. \A u \in Threads : pc'[u] = "prep" /\ u # t => pc[u] = "prep" /\ made'[u] = made[u]
      BY <2>5 DEF TakeDefines, Goto
    <3>2. made'[t] = env
      BY <2>5 DEF TakeDefines
    <3>3. /\ env' = env /\ digest' = digest /\ key' = key
          /\ texts' = texts /\ pdisk' = pdisk
      BY <2>5 DEF TakeDefines, shared, caches, disk
    <3> QED
      BY <3>1, <3>2, <3>3 DEF PrefixInv, KeyNeverAhead
  <2>6. CASE Preprocess(t)
    <3>1. PICK entry : /\ entry = [file |-> file[t], key |-> key[t], made |-> made[t]]
                       /\ texts' = Put(texts, entry)
                       /\ pdisk' = IF UseStore THEN Put(pdisk, entry) ELSE pdisk
      BY <2>6 DEF Preprocess
    <3>2. IsPrefixOf(entry.key, entry.made)
      BY <2>6, <3>1 DEF Preprocess, PrefixInv
    <3>3. KeyNeverAhead'
      BY <3>1, <3>2 DEF Put, PrefixInv, KeyNeverAhead
    <3> QED
      BY <2>6, <3>3, PrefixReturn DEF Preprocess, shared
  <2>7. CASE PreprocessFails(t)
    <3>1. KeyNeverAhead'
      BY <2>7 DEF PreprocessFails, PrefixInv, KeyNeverAhead, caches, disk
    <3> QED
      BY <2>7, <3>1, PrefixReturn DEF PreprocessFails, shared
  <2> QED
    BY <1>5, <2>1, <2>2, <2>3, <2>4, <2>5, <2>6, <2>7 DEF TextStep
<1>6. CASE Restart
  <2>1. <<>> \in Env /\ IsPrefixOf(<<>>, <<>>)
    BY EmptySeq, PrefixEmpty DEF Env
  <2> QED
    BY <1>6, <2>1 DEF Restart, PrefixInv, KeyNeverAhead, disk
<1> QED
  BY <1>1, <1>2, <1>3, <1>4, <1>5, <1>6 DEF Next, Step

\* Threads interleave as they like: no text, cached in memory or in a sidecar,
\* was made under less than what its key says.
THEOREM KeysNeverAhead == Spec => []KeyNeverAhead
<1>1. Init => TypeOK /\ PrefixInv
  BY InitType, PrefixInit
<1>2. TypeOK /\ PrefixInv /\ [Next]_vars => (TypeOK /\ PrefixInv)'
  BY TypeStep, PrefixStep
<1>3. PrefixInv => KeyNeverAhead
  BY DEF PrefixInv
<1> QED
  BY <1>1, <1>2, <1>3, PTL DEF Spec

-----------------------------------------------------------------------------
(* The walk alone: no warm thread and no prefetch. *)

Sequential == Warmable = {} /\ ~UsePrefetch

\* Between its steps nobody touches the environment, so what the walk read of
\* it is still what it is; once its file is covered, preprocessing it adds
\* nothing to the environment the scan was looked up under.
WalkInv ==
  /\ pc[Walker] \notin {"accum", "mark", "apply", "digest"} => digest = env
  /\ pc[Walker] \in {"lookup", "defs", "prep"} => key[Walker] = env
  /\ pc[Walker] \in {"prep", "vsave"} => made[Walker] = env
  /\ pc[Walker] \in {"accum", "mark", "apply", "digest", "eff", "vload",
                     "key", "lookup", "defs", "prep", "vsave"}
       => file[Walker] <= upto
  /\ Walker \in holders /\ stage[Walker] = "text" /\ pc[Walker] # "mem"
       => file[Walker] <= upto /\ eff[Walker] = env
          /\ pc[Walker] \in {"guard", "key", "lookup", "defs", "prep", "vsave"}
  /\ pc[Walker] = "vload" => eff[Walker] = env
  /\ pc[Walker] \in {"key", "lookup", "defs", "prep", "vsave"} => stage[Walker] = "text"
  /\ KeysMatch

LEMMA WalkInit == Init => WalkInv
BY ThreadsType DEF Init, Fresh, WalkInv, KeysMatch

LEMMA WalkReturn ==
  ASSUME Sequential, TypeOK, LockInv, WalkInv, Return(Walker),
         UNCHANGED shared, KeysMatch', digest = env
  PROVE  WalkInv'
<1>1. pc'[Walker] = "idle" /\ Walker \notin holders'
  BY ThreadsType DEF Return, Goto, TypeOK
<1> QED
  BY <1>1 DEF WalkInv, shared

LEMMA WalkTextDone ==
  ASSUME Sequential, TypeOK, LockInv, WalkInv, TextDone(Walker, env),
         pc[Walker] \in {"lookup", "prep"}, UNCHANGED shared, KeysMatch'
  PROVE  WalkInv'
<1>1. CASE Walker \in holders
  <2>1. /\ pc'[Walker] = "vsave" /\ made'[Walker] = env
        /\ file' = file /\ stage' = stage /\ eff' = eff /\ holders' = holders
    BY <1>1, ThreadsType DEF TextDone, Goto, TypeOK
  <2>2. stage[Walker] = "text" => eff[Walker] = env
    BY <1>1 DEF WalkInv
  <2> QED
    BY <2>1, <2>2 DEF WalkInv, shared
<1>2. CASE Walker \notin holders
  BY <1>2, WalkReturn DEF TextDone, WalkInv
<1> QED
  BY <1>1, <1>2

LEMMA WalkStep ==
  ASSUME Sequential
  PROVE  TypeOK /\ LockInv /\ WalkInv /\ [Next]_vars => WalkInv'
<1> SUFFICES ASSUME TypeOK, LockInv, WalkInv, [Next]_vars PROVE WalkInv'
  OBVIOUS
<1> USE ThreadsType
<1>0. Threads = {Walker}
  BY DEF Threads, Sequential
<1>1. CASE UNCHANGED vars
  BY <1>1 DEF WalkInv, KeysMatch, vars, shared, caches, disk, locals
<1>2. CASE Call
  <2>1. CASE StartPrefetch \/ DrainPrefetch
    BY <2>1 DEF Sequential, StartPrefetch, DrainPrefetch
  <2>2. CASE \E f \in Files : Warm(f)
    BY <2>2 DEF Sequential, Warm
  <2>3. CASE \E f \in Files : WalkScan(f) \/ WalkText(f)
    <3>1. /\ pc[Walker] = "idle" /\ pc'[Walker] \in {"lock", "guard"}
          /\ holders' = holders /\ Walker \notin holders
      BY <2>3 DEF WalkScan, WalkText, CallScan, Goto, TypeOK, LockInv
    <3>2. UNCHANGED <<shared, caches, disk>>
      BY <2>3 DEF WalkScan, WalkText, CallScan
    <3> QED
      BY <3>1, <3>2 DEF WalkInv, KeysMatch, shared, caches, disk
  <2> QED
    BY <1>2, <2>1, <2>2, <2>3 DEF Call
<1>3. CASE UsePrefetch /\ PrefetchNext
  BY <1>3 DEF Sequential
<1>4. CASE Restart
  BY <1>4 DEF Restart, WalkInv, KeysMatch, disk
<1>5. CASE ScanStep(Walker)
  <2>1. CASE Acquire(Walker)
    BY <2>1 DEF Acquire, Goto, TypeOK, LockInv, InScan, WalkInv, KeysMatch, shared, caches, disk
  <2>2. CASE MemoryHit(Walker)
    BY <2>2, WalkReturn DEF MemoryHit, WalkInv, KeysMatch, caches, disk
  <2>3. CASE MemoryMiss(Walker)
    BY <2>3 DEF MemoryMiss, Goto, TypeOK, WalkInv, KeysMatch, shared, caches, disk
  <2>4. CASE TakeEffective(Walker)
    <3>1. Walker \in holders => stage[Walker] = "scan"
      BY <2>4 DEF TakeEffective, WalkInv, TypeOK
    <3> QED
      BY <2>4, <3>1 DEF TakeEffective, Goto, TypeOK, WalkInv, KeysMatch, shared, caches, disk
  <2>5. CASE ValidatedHit(Walker)
    BY <2>5, WalkReturn DEF ValidatedHit, WalkInv, KeysMatch, caches, disk
  <2>6. CASE ValidatedMiss(Walker)
    BY <2>6 DEF ValidatedMiss, Goto, TypeOK, WalkInv, KeysMatch, shared, caches, disk
  <2>7. CASE SaveValidated(Walker)
    <3>1. Walker \in holders
      BY <2>7 DEF SaveValidated, LockInv, InScan
    <3>2. stage[Walker] = "text" /\ made[Walker] = eff[Walker]
      BY <2>7, <3>1 DEF SaveValidated, WalkInv
    <3>3. KeysMatch'
      BY <2>7, <3>2 DEF SaveValidated, Put, WalkInv, KeysMatch
    <3> QED
      BY <2>7, <3>3, WalkReturn DEF SaveValidated, WalkInv
  <2> QED
    BY <1>5, <2>1, <2>2, <2>3, <2>4, <2>5, <2>6, <2>7 DEF ScanStep
<1>6. CASE EnsureStep(Walker)
  <2> USE <1>0 DEF Goto, AfterEnsure, TypeOK, WalkInv, KeysMatch, shared, caches, disk
  <2>1. CASE Covered(Walker)
    BY <2>1 DEF Covered
  <2>2. CASE PlanBatch(Walker)
    BY <2>2 DEF PlanBatch, Files
  <2>3. CASE Claim(Walker)
    <3>1. /\ upto' = file[Walker] /\ file' = file /\ file[Walker] <= upto'
          /\ UNCHANGED <<env, digest, holders, stage, eff, texts, pdisk, vdisk>>
      BY <2>3 DEF Claim, Files
    <3>2. pc[Walker] = "claim" /\ digest = env
      BY <2>3 DEF Claim
    <3>3. \/ pc'[Walker] = "accum"
          \/ pc'[Walker] = "eff" /\ stage[Walker] = "scan"
          \/ pc'[Walker] = "key" /\ stage[Walker] = "text"
      BY <2>3 DEF Claim
    <3> QED
      BY <3>1, <3>2, <3>3
  <2>4. CASE SkipSeen(Walker)
    BY <2>4 DEF SkipSeen
  <2>5. CASE FindUnseen(Walker)
    BY <2>5 DEF FindUnseen
  <2>6. CASE Mark(Walker)
    BY <2>6 DEF Mark
  <2>7. CASE Apply(Walker)
    BY <2>7 DEF Apply
  <2>8. CASE BatchDone(Walker)
    BY <2>8 DEF BatchDone
  <2>9. CASE RefreshDigest(Walker)
    BY <2>9 DEF RefreshDigest
  <2> QED
    BY <1>6, <2>1, <2>2, <2>3, <2>4, <2>5, <2>6, <2>7, <2>8, <2>9 DEF EnsureStep
<1>7. CASE TextStep(Walker)
  <2>1. CASE TakeKey(Walker)
    BY <2>1 DEF TakeKey, Goto, TypeOK, WalkInv, KeysMatch, shared, caches, disk
  <2>2. CASE TextInMemory(Walker)
    <3>1. TextDone(Walker, env)
      BY <2>2 DEF TextInMemory, Hits, WalkInv, KeysMatch
    <3>2. KeysMatch'
      BY <2>2 DEF TextInMemory, WalkInv, KeysMatch, caches, disk
    <3> QED
      BY <2>2, <3>1, <3>2, WalkTextDone DEF TextInMemory
  <2>3. CASE TextOnDisk(Walker)
    <3>1. PICK e \in Hits(pdisk, Walker) : texts' = Put(texts, e) /\ TextDone(Walker, e.made)
      BY <2>3 DEF TextOnDisk
    <3>2. e.made = e.key /\ e.key = env
      BY <2>3, <3>1 DEF TextOnDisk, Hits, WalkInv, KeysMatch
    <3>3. KeysMatch'
      BY <2>3, <3>1, <3>2 DEF TextOnDisk, Put, WalkInv, KeysMatch, disk
    <3> QED
      BY <2>3, <3>1, <3>2, <3>3, WalkTextDone DEF TextOnDisk
  <2>4. CASE TextMiss(Walker)
    BY <2>4 DEF TextMiss, Goto, TypeOK, WalkInv, KeysMatch, shared, caches, disk
  <2>5. CASE TakeDefines(Walker)
    BY <2>5 DEF TakeDefines, Goto, TypeOK, WalkInv, KeysMatch, shared, caches, disk
  <2>6. CASE Preprocess(Walker)
    <3>1. key[Walker] = env /\ made[Walker] = env
      BY <2>6 DEF Preprocess, WalkInv
    <3>2. KeysMatch'
      BY <2>6, <3>1 DEF Preprocess, Put, WalkInv, KeysMatch
    <3> QED
      BY <2>6, <3>1, <3>2, WalkTextDone DEF Preprocess
  <2>7. CASE PreprocessFails(Walker)
    BY <2>7, WalkReturn DEF PreprocessFails, WalkInv, KeysMatch, caches, disk
  <2> QED
    BY <1>7, <2>1, <2>2, <2>3, <2>4, <2>5, <2>6, <2>7 DEF TextStep
<1> QED
  BY <1>0, <1>1, <1>2, <1>3, <1>4, <1>5, <1>6, <1>7 DEF Next, Step

LEMMA WalkHolds ==
  ASSUME Sequential
  PROVE  Spec => [](TypeOK /\ LockInv /\ WalkInv)
<1>1. Init => TypeOK /\ LockInv /\ WalkInv
  BY InitType, LockInit, WalkInit
<1>2. TypeOK /\ LockInv /\ WalkInv /\ [Next]_vars => (TypeOK /\ LockInv /\ WalkInv)'
  BY TypeStep, LockStep, WalkStep
<1> QED
  BY <1>1, <1>2, PTL DEF Spec

\* Without background threads a sidecar says what it was made under, over any
\* number of runs that share the cache directory.
THEOREM KeysMatchAlone ==
  ASSUME Sequential
  PROVE  Spec => []KeysMatch
<1>1. WalkInv => KeysMatch
  BY DEF WalkInv
<1> QED
  BY <1>1, WalkHolds, PTL

\* Without background threads the tier-1 caches are invisible: the detailed
\* specification implements the one that has no cache.
THEOREM TransparentAlone ==
  ASSUME Sequential
  PROVE  Spec => CachesAreTransparent
<1>1. Init => Promise!Init
  BY DEF Init, Fresh, Promise!Init
<1>2. ASSUME TypeOK, LockInv, WalkInv, [Next]_vars
      PROVE  [Promise!Next]_<<env, memory>>
  <2>0. Threads = {Walker} /\ Walker \in Threads
    BY DEF Threads, Sequential
  <2>1. CASE Restart
    BY <2>1 DEF Restart, Promise!Next, Promise!Restart
  <2>2. CASE Apply(Walker)
    <3>1. PICK g \in todo[Walker] : env' = Append(env, g)
      BY <2>2 DEF Apply
    <3>2. g \in Files /\ memory' = memory
      BY <1>2, <2>0, <2>2 DEF Apply, TypeOK, caches
    <3> QED
      BY <3>1, <3>2 DEF Promise!Next, Promise!Apply
  <2>3. CASE ValidatedHit(Walker) \/ SaveValidated(Walker)
    <3>1. Walker \in holders /\ pc[Walker] \in {"vload", "vsave"}
      BY <1>2, <2>0, <2>3 DEF ValidatedHit, SaveValidated, LockInv, InScan
    <3>2. \A m \in memory : m.file # file[Walker]
      BY <1>2, <3>1 DEF LockInv, Scanned
    <3>3. memory' = {m \in memory : m.file # file[Walker]}
                      \cup {[file |-> file[Walker], made |-> env]}
      BY <1>2, <2>3 DEF ValidatedHit, SaveValidated, WalkInv, KeysMatch
    <3>4. memory' = memory \cup {[file |-> file[Walker], made |-> env]}
      BY <3>2, <3>3
    <3>5. file[Walker] \in Files /\ env' = env
      BY <1>2, <2>0, <2>3 DEF ValidatedHit, SaveValidated, TypeOK, shared
    <3> QED
      BY <3>2, <3>4, <3>5 DEF Promise!Next, Promise!Record
  <2>4. CASE UNCHANGED vars
    BY <2>4 DEF vars, shared, caches
  <2>5. ASSUME Step(Walker), ~Apply(Walker), ~ValidatedHit(Walker), ~SaveValidated(Walker)
        PROVE  UNCHANGED <<env, memory>>
    BY <2>5 DEF Step, ScanStep, Acquire, MemoryHit, MemoryMiss, TakeEffective,
        ValidatedMiss, EnsureStep, Covered, PlanBatch, Claim, SkipSeen, FindUnseen,
        Mark, BatchDone, RefreshDigest, TextStep, TakeKey, TextInMemory,
        TextOnDisk, TextMiss, TakeDefines, Preprocess, PreprocessFails, shared, caches
  <2>6. ASSUME Call \/ PrefetchNext PROVE UNCHANGED <<env, memory>>
    BY <2>6 DEF Call, WalkScan, WalkText, Warm, StartPrefetch, DrainPrefetch,
        PrefetchNext, CallScan, shared, caches
  <2> QED
    BY <1>2, <2>0, <2>1, <2>2, <2>3, <2>4, <2>5, <2>6 DEF Next
<1> QED
  BY <1>1, <1>2, WalkHolds, PTL DEF Spec, CachesAreTransparent, Promise!Spec
-----------------------------------------------------------------------------
(* The defines a scan of the walk alone has seen.                          *)

\* One listing: every source may define macros for the ones after it.
OneListing == \A f, g \in Files : g <= f => g \in Chain[f]

\* No batch of defines is cut down to the file it is for.
Uncapped == AccumMax = 0 \/ N <= AccumMax

Applied(g) == \E i \in 1 .. Len(env) : env[i] = g

\* The watermark is ahead of the environment only while the batch it was moved
\* for is being applied, and a source is marked before it is applied only while
\* it is next.
PrefixSeenInv ==
  /\ \A g \in Files : g <= upto =>
       Applied(g) \/ (pc[Walker] \in {"accum", "mark", "apply"} /\ g \in todo[Walker])
  /\ \A g \in seen :
       Applied(g) \/ (pc[Walker] = "apply" /\ Leads(g, todo[Walker]))
  /\ pc[Walker] = "claim" => todo[Walker] = Batch(file[Walker])
  /\ SeesOwnPrefix

LEMMA AppendApplies ==
  ASSUME NEW s \in Env, NEW g \in Files
  PROVE  /\ \A i \in 1 .. Len(s) : i \in 1 .. Len(Append(s, g)) /\ Append(s, g)[i] = s[i]
         /\ \E i \in 1 .. Len(Append(s, g)) : Append(s, g)[i] = g
<1>1. /\ Len(s) \in Nat
      /\ Len(Append(s, g)) = Len(s) + 1
      /\ Append(s, g)[Len(s) + 1] = g
      /\ \A i \in 1 .. Len(s) : Append(s, g)[i] = s[i]
  BY AppendProperties, LenProperties DEF Env
<1> QED
  BY <1>1

LEMMA BatchUncapped ==
  ASSUME Uncapped, NEW f \in Files, NEW b \in SUBSET Files
  PROVE  Capped(f, b) = b
<1>1. IsFiniteSet(Files) /\ Cardinality(Files) = N
  <2>1. Cardinality(1 .. N) = IF 1 > N THEN 0 ELSE N - 1 + 1
    BY FS_Interval, PwTier1Assumption
  <2> QED
    BY <2>1, FS_Interval, PwTier1Assumption DEF Files
<1>2. Cardinality(b) \in Nat /\ Cardinality(b) <= N
  BY <1>1, FS_Subset, FS_CardinalityType
<1> QED
  BY <1>2, PwTier1Assumption DEF Capped, Uncapped

LEMMA PrefixSeenStep ==
  ASSUME Sequential, OneListing, Uncapped
  PROVE  TypeOK /\ LockInv /\ WalkInv /\ PrefixSeenInv /\ [Next]_vars => PrefixSeenInv'
<1> SUFFICES ASSUME TypeOK, LockInv, WalkInv, PrefixSeenInv, [Next]_vars
             PROVE  PrefixSeenInv'
  OBVIOUS
<1> USE ThreadsType
<1>0. Threads = {Walker}
  BY DEF Threads, Sequential
\* A step outside of the batch that leaves the environment alone.
<1>a. ASSUME UNCHANGED <<upto, seen, env, memory>>,
             pc[Walker] \notin {"accum", "mark", "apply"}, pc'[Walker] # "claim"
      PROVE  PrefixSeenInv'
  BY <1>a DEF PrefixSeenInv, Applied, SeesOwnPrefix
\* What is recorded under the environment of a covered file has seen its prefix.
<1>b. ASSUME UNCHANGED <<upto, seen, env>>, pc'[Walker] = "idle",
             pc[Walker] \in {"vload", "vsave"},
             memory' = {m \in memory : m.file # file[Walker]}
                         \cup {[file |-> file[Walker], made |-> env]}
      PROVE  PrefixSeenInv'
  <2>1. file[Walker] <= upto /\ file[Walker] \in Files
    BY <1>b DEF WalkInv, TypeOK
  <2>2. \A g \in Files : g <= file[Walker] => Applied(g)
    BY <1>b, <2>1 DEF PrefixSeenInv, TypeOK, Files
  <2>3. SeesOwnPrefix'
    BY <1>b, <2>1, <2>2 DEF PrefixSeenInv, SeesOwnPrefix, Applied
  <2> QED
    BY <1>b, <2>3 DEF PrefixSeenInv, Applied
<1>1. CASE UNCHANGED vars
  BY <1>1 DEF PrefixSeenInv, Applied, Leads, Batch, SeesOwnPrefix, vars, shared, caches, locals
<1>2. CASE Call
  <2>1. CASE StartPrefetch \/ DrainPrefetch
    BY <2>1 DEF Sequential, StartPrefetch, DrainPrefetch
  <2>2. CASE \E f \in Files : Warm(f)
    BY <2>2 DEF Sequential, Warm
  <2>3. CASE \E f \in Files : WalkScan(f) \/ WalkText(f)
    BY <1>a, <2>3 DEF WalkScan, WalkText, CallScan, Goto, TypeOK, shared, caches
  <2> QED
    BY <1>2, <2>1, <2>2, <2>3 DEF Call
<1>3. CASE UsePrefetch /\ PrefetchNext
  BY <1>3 DEF Sequential
<1>4. CASE Restart
  BY <1>4 DEF Restart, PrefixSeenInv, SeesOwnPrefix, TypeOK, Files
<1>5. CASE ScanStep(Walker)
  <2> USE DEF shared, caches, Goto, TypeOK, Return
  <2>1. CASE Acquire(Walker)
    BY <1>a, <2>1 DEF Acquire
  <2>2. CASE MemoryHit(Walker)
    BY <1>a, <2>2 DEF MemoryHit
  <2>3. CASE MemoryMiss(Walker)
    BY <1>a, <2>3 DEF MemoryMiss
  <2>4. CASE TakeEffective(Walker)
    BY <1>a, <2>4 DEF TakeEffective
  <2>5. CASE ValidatedHit(Walker)
    <3>1. \A e \in vdisk : e.key = eff[Walker] => e.made = env
      BY <2>5 DEF ValidatedHit, WalkInv, KeysMatch
    <3> QED
      BY <1>b, <2>5, <3>1 DEF ValidatedHit
  <2>6. CASE ValidatedMiss(Walker)
    BY <1>a, <2>6 DEF ValidatedMiss
  <2>7. CASE SaveValidated(Walker)
    BY <1>b, <2>7 DEF SaveValidated, WalkInv
  <2> QED
    BY <1>5, <2>1, <2>2, <2>3, <2>4, <2>5, <2>6, <2>7 DEF ScanStep
<1>6. CASE EnsureStep(Walker)
  <2>0. SeesOwnPrefix'
    <3>1. memory' = memory
      BY <1>6 DEF EnsureStep, Covered, PlanBatch, Claim, SkipSeen, FindUnseen, Mark,
          Apply, BatchDone, RefreshDigest, caches
    <3> QED
      BY <3>1 DEF PrefixSeenInv, SeesOwnPrefix
  <2>1. CASE Covered(Walker)
    BY <1>a, <2>1 DEF Covered, AfterEnsure, Goto, TypeOK, shared, caches
  <2>2. CASE PlanBatch(Walker)
    <3>1. /\ pc[Walker] = "guard" /\ pc'[Walker] = "claim"
          /\ todo'[Walker] = Batch(file[Walker])
          /\ UNCHANGED <<upto, seen, env, file>>
      BY <2>2 DEF PlanBatch, Goto, TypeOK, shared
    <3>2. todo'[Walker] = Batch(file[Walker])'
      BY <3>1 DEF Batch
    <3> QED
      BY <2>0, <3>1, <3>2 DEF PrefixSeenInv, Applied
  <2>3. CASE Claim(Walker)
    <3>1. /\ pc[Walker] = "claim"
          /\ upto' = file[Walker]
          /\ todo'[Walker] = todo[Walker]
          /\ todo[Walker] = {} \/ pc'[Walker] = "accum"
          /\ pc'[Walker] # "claim"
          /\ UNCHANGED <<seen, env>>
      BY <2>3, BatchUncapped DEF Claim, AfterEnsure, Goto, TypeOK
    <3>2. \A g \in Files : g <= file[Walker] => g <= upto \/ g \in todo[Walker]
      <4>1. todo[Walker] = Batch(file[Walker]) /\ file[Walker] \in Files
        BY <3>1 DEF PrefixSeenInv, TypeOK
      <4> QED
        BY <4>1, PwTier1Assumption DEF Batch, OneListing, TypeOK, Files
    <3>3. \A g \in Files : g <= upto' =>
            Applied(g)' \/ (pc'[Walker] = "accum" /\ g \in todo'[Walker])
      BY <3>1, <3>2 DEF PrefixSeenInv, Applied
    <3>4. \A g \in seen' : Applied(g)'
      BY <3>1 DEF PrefixSeenInv, Applied
    <3> QED
      BY <2>0, <3>1, <3>3, <3>4 DEF PrefixSeenInv
  <2>4. CASE SkipSeen(Walker)
    <3>1. PICK g \in seen : Leads(g, todo[Walker]) /\ todo' = [todo EXCEPT ![Walker] = @ \ {g}]
      BY <2>4 DEF SkipSeen
    <3>2. /\ pc[Walker] = "accum" /\ pc' = pc
          /\ todo'[Walker] = todo[Walker] \ {g}
          /\ UNCHANGED <<upto, seen, env>>
      BY <2>4, <3>1 DEF SkipSeen, TypeOK, shared
    <3>3. Applied(g)
      BY <3>2 DEF PrefixSeenInv
    <3> QED
      BY <2>0, <3>2, <3>3 DEF PrefixSeenInv, Applied
  <2>5. CASE FindUnseen(Walker)
    <3>1. /\ pc[Walker] = "accum" /\ pc'[Walker] = "mark"
          /\ UNCHANGED <<upto, seen, env, todo>>
      BY <2>5 DEF FindUnseen, Goto, TypeOK, shared
    <3> QED
      BY <2>0, <3>1 DEF PrefixSeenInv, Applied
  <2>6. CASE Mark(Walker)
    <3>1. PICK g \in todo[Walker] : Leads(g, todo[Walker]) /\ seen' = seen \cup {g}
      BY <2>6 DEF Mark
    <3>2. /\ pc[Walker] = "mark" /\ pc'[Walker] = "apply"
          /\ UNCHANGED <<upto, env, todo>>
      BY <2>6 DEF Mark, Goto, TypeOK
    <3> QED
      BY <2>0, <3>1, <3>2 DEF PrefixSeenInv, Applied, Leads
  <2>7. CASE Apply(Walker)
    <3>1. PICK g \in todo[Walker] :
            /\ Leads(g, todo[Walker])
            /\ env' = Append(env, g)
            /\ todo' = [todo EXCEPT ![Walker] = @ \ {g}]
      BY <2>7 DEF Apply
    <3>2. /\ pc[Walker] = "apply" /\ pc'[Walker] = "accum"
          /\ todo'[Walker] = todo[Walker] \ {g}
          /\ UNCHANGED <<upto, seen>>
      BY <2>7, <3>1 DEF Apply, Goto, TypeOK
    <3>3. g \in Files /\ env \in Env
      BY <3>1 DEF TypeOK
    <3>4. Applied(g)' /\ \A h \in Files : Applied(h) => Applied(h)'
      BY <3>1, <3>3, AppendApplies DEF Applied
    <3>5. \A h \in todo[Walker] : Leads(h, todo[Walker]) => h = g
      BY <3>1 DEF Leads, TypeOK, Files
    <3>6. \A h \in seen : Applied(h)'
      BY <3>2, <3>4, <3>5 DEF PrefixSeenInv, Leads, TypeOK
    <3> QED
      BY <2>0, <3>2, <3>4, <3>6 DEF PrefixSeenInv
  <2>8. CASE BatchDone(Walker)
    <3>1. /\ pc[Walker] = "accum" /\ pc'[Walker] = "digest" /\ todo[Walker] = {}
          /\ UNCHANGED <<upto, seen, env, todo>>
      BY <2>8 DEF BatchDone, Goto, TypeOK, shared
    <3> QED
      BY <2>0, <3>1 DEF PrefixSeenInv, Applied
  <2>9. CASE RefreshDigest(Walker)
    BY <1>a, <2>9 DEF RefreshDigest, AfterEnsure, Goto, TypeOK, caches
  <2> QED
    BY <1>6, <2>1, <2>2, <2>3, <2>4, <2>5, <2>6, <2>7, <2>8, <2>9 DEF EnsureStep
<1>7. CASE TextStep(Walker)
  <2>1. /\ UNCHANGED <<upto, seen, env, memory>>
        /\ pc[Walker] \in {"key", "lookup", "defs", "prep"}
    BY <1>7 DEF TextStep, TakeKey, TextInMemory, TextOnDisk, TextMiss, TakeDefines,
        Preprocess, PreprocessFails, shared, caches
  <2>2. pc'[Walker] # "claim"
    BY <1>7 DEF TextStep, TakeKey, TextInMemory, TextOnDisk, TextMiss, TakeDefines,
        Preprocess, PreprocessFails, TextDone, Return, Goto, TypeOK
  <2> QED
    BY <1>a, <2>1, <2>2
<1> QED
  BY <1>0, <1>1, <1>2, <1>3, <1>4, <1>5, <1>6, <1>7 DEF Next, Step

\* In a flat filelist, whatever order the walk asks for files in, and however
\* its runs end, a file's scan has seen the defines of all files before it.
THEOREM ScansSeeTheirPrefix ==
  ASSUME Sequential, OneListing, Uncapped
  PROVE  Spec => []SeesOwnPrefix
<1>1. Init => PrefixSeenInv
  BY ThreadsType, PwTier1Assumption DEF Init, Fresh, PrefixSeenInv, SeesOwnPrefix, Files
<1>2. TypeOK /\ LockInv /\ WalkInv /\ PrefixSeenInv /\ [Next]_vars => PrefixSeenInv'
  BY PrefixSeenStep
<1>3. PrefixSeenInv => SeesOwnPrefix
  BY DEF PrefixSeenInv
<1> QED
  BY <1>1, <1>2, <1>3, WalkHolds, PTL DEF Spec
=============================================================================
