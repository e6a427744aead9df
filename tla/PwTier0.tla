------------------------------ MODULE PwTier0 ------------------------------
(***************************************************************************)
(* Tier 0 of the module database (path_walk_db.py, PathWalkModuleDb): the  *)
(* map from module names to the files that seem to declare them, the       *)
(* scans that fill it, by the walk itself or by a pool of workers, and the *)
(* two questions the walk asks of it: load a module                        *)
(* (ensure_module_in_index) and find an instance of a module               *)
(* (resolve_child_edge), under the confident or the recovery policy.       *)
(*                                                                         *)
(* A file is what a search can tell of it: the names tier 0 reads in it,   *)
(* the modules that are really there after preprocessing, and those of     *)
(* them that hold the instance the walk looks for.  The ranking of files   *)
(* (by name and filelist distance) is abstracted to any order within the   *)
(* groups the code keeps apart.  One thread walks; only the workers run    *)
(* beside it.                                                              *)
(***************************************************************************)
EXTENDS FlTree, Sequences

CONSTANTS
  Mods,        \* module names
  Top,         \* the top module
  Child,       \* Child[m]: the module the looked-for instance of m is of
  First,       \* the first source of the run
  Designs,     \* what is on disk, see Design
  Jobs,        \* workers of the pool
  ParallelMin, \* _PARALLEL_MIN_TIER0
  QueueBatch,  \* files a queue scan takes at once, max(4 * workers, _PARALLEL_MIN_TIER0)
  FileCap,     \* HIERWALK_PW_MODULE_FILE_CAP
  GlobalMax,   \* HIERWALK_PW_TIER0_GLOBAL_MAX
  ShellMax,    \* HIERWALK_PW_FL_SHELL_MAX
  UseGlobal,   \* HIERWALK_PW_TIER0_GLOBAL
  Fallible,    \* files whose worker may raise or which may be gone
  MaxAsks      \* bound: questions the walk asks

Design == [tree : Graph,
           decl : [Files -> SUBSET Mods],    \* names tier 0 reads
           real : [Files -> SUBSET Mods],    \* modules tier 1 finds
           inst : [Files -> SUBSET Mods]]    \* those with the instance

ASSUME PwTier0Assumption ==
  /\ None \notin Mods /\ Top \in Mods /\ First \in Files
  /\ Child \in [Mods -> Mods \cup {None}]
  /\ Designs \subseteq Design
  /\ \A d \in Designs : \A f \in Files : d.inst[f] \subseteq d.real[f]
  /\ {Jobs, ParallelMin, QueueBatch, FileCap, GlobalMax, ShellMax} \subseteq Nat \ {0}
  /\ UseGlobal \in BOOLEAN
  /\ Fallible \subseteq Files
  /\ MaxAsks \in Nat

Policies == {"confident", "recovery"}
\* leaf: the question names an instance (expect_inst, inst_leaf).
Question == [kind : {"top", "module", "edge"}, mod : Mods, leaf : BOOLEAN,
             anchor : Files \cup {None}, policy : Policies]

VARIABLES
  design,    \* never changes
  scanned,   \* _regex_scanned
  job,       \* _tier0_inflight and how far each of its workers is
  map,       \* _module_to_files
  index,     \* file_path of the module's record in the index
  ask,       \* the question being answered
  pc,        \* where the walk is
  todo,      \* files the current scan has yet to open
  target,    \* target_module of the current scan
  mode,      \* "sync", or the state of a parallel scan: "submit", "wait"
  after,     \* where the walk goes on after the scan
  got,       \* files the scan opened or submitted
  queue,     \* _regex_queue
  shell,     \* shell_idx
  count,     \* files_scanned against the cap
  pass,      \* pass_idx
  cands,     \* candidates: groups in the order they are tried
  tried,     \* files tried for this question
  answer,    \* what the last question was answered
  asked,     \* bound: questions so far
  opened,    \* history: files opened for this question
  lost,      \* history: files counted as scanned whose names were not read
  cut,       \* history: files a cap kept from this question
  stray      \* history: files at a worker when the question was asked

db == <<scanned, job, map, index>>
scan == <<todo, target, mode, after, got>>
search == <<queue, shell, count, pass, cands, tried>>
history == <<opened, lost, cut, stray>>
vars == <<design, db, ask, pc, scan, search, answer, asked, history>>

NoAsk == [kind |-> "top", mod |-> Top, leaf |-> FALSE, anchor |-> None,
          policy |-> "confident"]
tree == design.tree
Inflight == {f \in Files : job[f] # "none"}
Finished == {f \in Files : job[f] \in {"done", "failed"}}
Fresh == Files \ (scanned \cup Inflight)
Confident == ask.policy = "confident"
Anchored == ask.anchor # None
Mapped(m) == map[m] # {}
Center == InferRoot(tree, First)
Pool == IF Confident THEN ConfidentPool(tree, ask.anchor)
        ELSE RecoveryPool(tree, ask.anchor)

\* The names in each file of F, added to the map (_note_regex_modules).
Note(F, names) == [m \in Mods |-> map[m] \cup {f \in F : m \in names[f]}]
AtMost(n, S) == {T \in SUBSET S : Cardinality(T) = IF n < Cardinality(S) THEN n
                                                   ELSE Cardinality(S)}

Init ==
  /\ design \in Designs
  /\ scanned = {} /\ job = [f \in Files |-> "none"] /\ map = [m \in Mods |-> {}]
  /\ index = [m \in Mods |-> None]
  /\ ask = NoAsk /\ pc = "idle"
  /\ todo = {} /\ target = None /\ mode = "sync" /\ after = "idle" /\ got = 0
  /\ queue = {} /\ shell = 0 /\ count = 0 /\ pass = 0 /\ cands = <<>> /\ tried = {}
  /\ answer = "none" /\ asked = 0 /\ opened = {} /\ lost = {} /\ cut = {}
  /\ stray = {}

-----------------------------------------------------------------------------
(* Taking results in, and scanning a set of files.                         *)

\* Every finished worker is taken in; one that raised counts as scanned.
Ingest ==
  /\ scanned' = scanned \cup Finished
  /\ job' = [f \in Files |-> IF f \in Finished THEN "none" ELSE job[f]]
  /\ map' = Note({f \in Finished : job[f] = "done"}, design.decl)
  /\ lost' = lost \cup {f \in Finished : job[f] = "failed"}

\* Recovery and a search for an instance scan past the first declaration.
Target(leaf, policy) ==
  IF leaf \/ (policy = "recovery" /\ Mapped(ask.mod)) THEN None ELSE ask.mod

OneAtATime(t) == Confident /\ t # None

\* Mutant of Pending: a file some worker is at is scanned again.
PendingUnscanned(F) == F \ scanned
Pending(F) == F \cap Fresh

\* Scan F until t is mapped, then go on at next.  With nothing to open, what
\* is finished is taken in.
Scan(F, t, next) ==
  LET P == Pending(F) IN
  IF P = {} THEN /\ Ingest /\ pc' = next /\ got' = 0
                 /\ UNCHANGED <<todo, target, mode, after>>
  ELSE /\ todo' = P /\ target' = t /\ got' = 0 /\ after' = next /\ pc' = "scan"
       /\ mode' = IF OneAtATime(t) \/ Jobs = 1 \/ Cardinality(P) < ParallelMin
                  THEN "sync" ELSE "submit"
       /\ UNCHANGED <<scanned, job, map, lost>>

Found(m) == target # None /\ m[target] # {}

ScanFile(f) ==
  /\ pc = "scan" /\ mode = "sync" /\ f \in todo
  /\ \E read \in (IF f \in Fallible THEN BOOLEAN ELSE {TRUE}) :
       /\ map' = IF read THEN Note({f}, design.decl) ELSE map
       /\ lost' = IF read THEN lost ELSE lost \cup {f}
  /\ scanned' = scanned \cup {f} /\ opened' = opened \cup {f} /\ got' = got + 1
  /\ IF Found(map') \/ todo = {f}
     THEN pc' = after /\ todo' = {}
     ELSE todo' = todo \ {f} /\ UNCHANGED pc
  /\ UNCHANGED <<design, job, index, ask, target, mode, after, search, answer, asked, cut, stray>>

\* One batch goes to the pool, as many files as there are workers.
Submit ==
  /\ pc = "scan" /\ mode = "submit"
  /\ \E B \in AtMost(Jobs, todo) :
       /\ job' = [f \in Files |-> IF f \in B THEN "run" ELSE job[f]]
       /\ todo' = todo \ B /\ opened' = opened \cup B /\ got' = got + Cardinality(B)
  /\ mode' = "wait"
  /\ UNCHANGED <<design, scanned, map, index, ask, pc, target, after, search, answer,
                 asked, lost, cut, stray>>

Resume == IF Inflight = Finished THEN "submit" ELSE "wait"

\* Completions are taken in; once the target is mapped the rest of the batch
\* is left running and the rest of the scan is not submitted.
Drain ==
  /\ pc = "scan" /\ mode = "wait" /\ Finished # {}
  /\ Ingest
  /\ IF Found(map') \/ (Inflight = Finished /\ todo = {})
     THEN pc' = after /\ todo' = {} /\ UNCHANGED mode
     ELSE /\ mode' = Resume
          /\ UNCHANGED <<pc, todo>>
  /\ UNCHANGED <<design, index, ask, target, after, got, search, answer, asked, opened, cut, stray>>

\* A worker process, at any moment.
Worker(f) ==
  /\ job[f] = "run"
  /\ \/ job' = [job EXCEPT ![f] = "done"]
     \/ f \in Fallible /\ job' = [job EXCEPT ![f] = "failed"]
  /\ UNCHANGED <<design, scanned, map, index, ask, pc, scan, search, answer, asked, history>>

-----------------------------------------------------------------------------
(* Candidates for a module name (_ensure_regex_candidates).                *)

\* Where the collection starts for a question with this anchor.
Collect(anchor) ==
  /\ pc' = IF anchor # None THEN "pool"
           ELSE IF Center # None /\ Hierarchical(tree) THEN "shell" ELSE "seed"
  /\ shell' = 0 /\ count' = 0 /\ queue' = {}

\* In the collection of the last recovery pass no instance is named.
Leafy == ask.leaf /\ pass < 2
NoMore == Confident /\ Mapped(ask.mod) /\ ~Leafy

ScanPool ==
  /\ pc = "pool"
  /\ Scan(Pool, Target(Leafy, ask.policy), IF Confident THEN "extra" ELSE "seed")
  /\ UNCHANGED <<design, index, ask, search, answer, asked, opened, cut, stray>>

\* A name mapped outside the confident pool needs no other declaration.
NeedsExtra == ~Mapped(ask.mod) \/ map[ask.mod] \subseteq Pool

ScanExtra ==
  /\ pc = "extra"
  /\ LET more == Pending(ConfidentExtra(tree, ask.anchor)) IN
     IF NeedsExtra /\ more # {} THEN Scan(more, None, "rank")
     ELSE pc' = "rank" /\ UNCHANGED <<db, scan, lost>>
  /\ UNCHANGED <<design, index, ask, search, answer, asked, opened, cut, stray>>

\* Mutant of Deeper: the loop goes round without going deeper.
DeeperNot == shell
Deeper == shell + 1

\* One shell of the filelist tree around the centre; under the confident
\* policy only the best ranked of its listings.  Without an anchor a cap keeps
\* out all that is left, for the expansion then looks at the seed alone.
ScanShell ==
  /\ pc = "shell"
  /\ LET L == Shell(tree, Center, shell)
         cap == IF Confident THEN FileCap ELSE GlobalMax
     IN IF L = {} \/ (Confident /\ shell >= ShellMax) \/ count >= cap \/ NoMore
        THEN /\ pc' = IF Confident THEN "rank" ELSE "expand"
             /\ cut' = IF count >= cap THEN cut \cup Fresh ELSE cut
             /\ UNCHANGED <<db, scan, lost, shell, count>>
        ELSE \E G \in (IF Confident THEN {{l} : l \in L} ELSE {L}) :
             \E F \in AtMost(cap - count, Pending(FilesOf(tree, G))) :
               /\ shell' = Deeper /\ count' = count + Cardinality(F) /\ UNCHANGED cut
               /\ IF F = {} THEN UNCHANGED <<db, scan, lost, pc>>
                  ELSE Scan(F, Target(Leafy, ask.policy), "shell")
  /\ UNCHANGED <<design, index, ask, queue, pass, cands, tried, answer, asked, opened, stray>>

\* The files a queue scan starts from (_tier0_queue_seed_sources).
Seed(anchor, policy) ==
  IF anchor # None THEN Pool
  ELSE IF Center # None /\ FilesOf(tree, {Center}) # {} THEN FilesOf(tree, {Center})
  ELSE IF policy = "recovery" /\ UseGlobal THEN Files ELSE {}

FillQueue ==
  /\ pc = "seed"
  /\ queue' = Pending(Seed(ask.anchor, ask.policy)) /\ count' = 0 /\ pc' = "queue"
  /\ UNCHANGED <<design, db, ask, scan, shell, pass, cands, tried, answer, asked, history>>

ScanQueue ==
  /\ pc = "queue"
  /\ LET cap == IF Confident THEN FileCap ELSE GlobalMax
         t == Target(Leafy, ask.policy)
     IN IF queue = {} \/ count >= cap \/ NoMore
        THEN /\ pc' = IF Confident THEN "rank" ELSE "expand"
             /\ cut' = IF NoMore \/ queue = {} THEN cut
                       ELSE cut \cup (IF Anchored THEN queue ELSE Fresh)
             /\ queue' = {}
             /\ UNCHANGED <<db, scan, lost, count>>
        ELSE \E B \in AtMost(IF OneAtATime(t) THEN 1 ELSE QueueBatch, queue) :
               /\ queue' = queue \ B /\ count' = count + Cardinality(B)
               /\ Scan(B, t, "queue") /\ UNCHANGED cut
  /\ UNCHANGED <<design, index, ask, shell, pass, cands, tried, answer, asked, opened, stray>>

\* Mutant of Expansion: a name that is mapped needs no more sources.
ExpansionIfUnmapped ==
  IF Mapped(ask.mod) THEN {} ELSE IF Anchored
  THEN Pending(RecoveryExpand(tree, ask.anchor)) ELSE Fresh
\* What recovery scans beyond its pool: the anchor's ancestors and siblings;
\* without an anchor the seed again, or else whatever is left.
Expansion ==
  IF Anchored THEN Pending(RecoveryExpand(tree, ask.anchor))
  ELSE LET more == Pending(IF UseGlobal THEN Files ELSE Seed(None, "recovery"))
       IN IF more = {} THEN Fresh ELSE more

Expand ==
  /\ pc = "expand"
  /\ \E F \in AtMost(GlobalMax, Expansion) :
       /\ cut' = cut \cup (Expansion \ F)
       /\ IF F = {} THEN pc' = "rank" /\ UNCHANGED <<db, scan, lost>>
          ELSE Scan(F, Target(Leafy, ask.policy), "rank")
  /\ UNCHANGED <<design, index, ask, search, answer, asked, opened, stray>>

\* The candidates of the module asked for, in the groups they are tried in
\* (_sort_module_files), the file to avoid last (_order_candidate_files).
Groups ==
  LET F == map[ask.mod]
      out == F \ Pool
      extra == out \cap ConfidentExtra(tree, ask.anchor)
  IN IF ~Anchored THEN <<F>>
     ELSE IF ~Confident THEN <<F \cap Pool, out>>
     ELSE IF extra # {} THEN <<extra, F \cap Pool>> ELSE <<F \cap Pool>>
Avoided == IF ask.kind = "edge" THEN ask.anchor
           ELSE IF ask.kind = "module" THEN index[ask.mod] ELSE None
AvoidLast(G) ==
  LET all == UNION {G[i] : i \in DOMAIN G}
  IN [i \in DOMAIN G |-> G[i] \ {Avoided}] \o <<all \cap {Avoided}>>

Left == (UNION {cands[i] : i \in DOMAIN cands}) \ tried

Rank ==
  /\ pc = "rank"
  /\ LET G == AvoidLast(Groups)
         all == UNION {G[i] : i \in DOMAIN G}
     IN /\ cands' = G
        /\ pc' = IF pass = 0 /\ ask.kind = "edge" /\ Anchored THEN "probe"
                 ELSE IF pass = 0 /\ ask.kind = "module" /\ Confident /\ Anchored /\ all = {}
                 THEN "defer"
                 ELSE IF pass = 2 /\ all \subseteq tried THEN "miss"
                 ELSE "try"
  /\ UNCHANGED <<design, db, ask, scan, queue, shell, count, pass, tried, answer, asked, history>>

-----------------------------------------------------------------------------
(* The two questions.                                                      *)

\* The index already answers (_index_has_resolved_module, lookup_inst_edge).
Known(m, leaf) ==
  /\ index[m] # None
  /\ m \in design.real[index[m]]
  /\ leaf => m \in design.inst[index[m]]

\* The first question is for the file of the top module; later ones are about
\* a module or an instance met in a file of the index, or carry no anchor.
Ask ==
  /\ pc = "idle" /\ asked < MaxAsks
  /\ \E q \in Question :
       /\ IF asked = 0 THEN q = [NoAsk EXCEPT !.mod = Top] ELSE q.kind # "top"
       /\ q.anchor \in {index[m] : m \in Mods} \cup {None}
       /\ q.kind = "edge" => /\ q.leaf /\ Child[q.mod] # None
                             /\ q.anchor = index[q.mod]
       /\ ask' = q
       /\ IF q.kind # "top" /\ Known(q.mod, q.leaf)
          THEN pc' = "idle" /\ answer' = "hit" /\ UNCHANGED <<shell, count, queue>>
          ELSE Collect(q.anchor) /\ answer' = "none"
  /\ asked' = asked + 1 /\ pass' = 0 /\ cands' = <<>> /\ tried' = {}
  /\ opened' = {} /\ cut' = {} /\ stray' = Inflight
  /\ UNCHANGED <<design, db, scan, lost>>

\* The instance of m is found in the text of f without a scan of the file: f is
\* taken for the file of m and for one that declares the child
\* (_apply_selective_edge_hit).
Selective(m, f) ==
  LET c == Child[m] IN
  /\ index' = [index EXCEPT ![m] = f, ![c] = IF @ = None THEN f ELSE @]
  /\ map' = [map EXCEPT ![m] = @ \cup {f}, ![c] = @ \cup {f}]

\* The anchor's own file is tried before any candidate.
Probe ==
  /\ pc = "probe"
  /\ opened' = opened \cup {ask.anchor} /\ tried' = {ask.anchor}
  /\ IF ask.mod \in design.inst[ask.anchor]
     THEN Selective(ask.mod, ask.anchor) /\ pc' = "hit"
     ELSE /\ pc' = IF Confident /\ \A i \in DOMAIN cands : cands[i] = {}
                   THEN "defer" ELSE "try"
          /\ UNCHANGED <<index, map>>
  /\ UNCHANGED <<design, scanned, job, ask, scan, queue, shell, count, pass, cands,
                 answer, asked, lost, cut, stray>>

\* The first untried candidate, in the order of the groups.
Next1(f) == \E i \in DOMAIN cands :
  f \in cands[i] \ tried /\ \A j \in 1..(i - 1) : cands[j] \subseteq tried

\* Mutant of IndexFile: a module that has a file keeps it.
IndexFileOnce(f) ==
  [m \in Mods |-> IF m \in design.real[f] /\ index[m] = None THEN f ELSE index[m]]
\* Every module tier 1 found in f is indexed to f (_apply_file_modules).
IndexFile(f) == [m \in Mods |-> IF m \in design.real[f] THEN f ELSE index[m]]

TryModule(f) ==
  /\ pc = "try" /\ ask.kind = "module" /\ Next1(f)
  /\ tried' = tried \cup {f} /\ opened' = opened \cup {f}
  /\ map' = Note({f}, design.real)
  /\ IF ask.mod \in design.real[f] /\ (ask.leaf => ask.mod \in design.inst[f])
     THEN index' = IndexFile(f) /\ pc' = "hit"
     ELSE UNCHANGED <<index, pc>>
  /\ UNCHANGED <<design, scanned, job, ask, scan, queue, shell, count, pass, cands,
                 answer, asked, lost, cut, stray>>

\* A file that has the module without the instance is given up before tier 1.
TryEdge(f) ==
  /\ pc = "try" /\ ask.kind = "edge" /\ Next1(f)
  /\ tried' = tried \cup {f} /\ opened' = opened \cup {f}
  /\ IF ask.mod \in design.inst[f] THEN Selective(ask.mod, f) /\ pc' = "hit"
     ELSE /\ map' = IF ask.mod \in design.real[f] THEN map ELSE Note({f}, design.real)
          /\ UNCHANGED <<index, pc>>
  /\ UNCHANGED <<design, scanned, job, ask, scan, queue, shell, count, pass, cands,
                 answer, asked, lost, cut, stray>>

\* find_module_decl_file and seed_top_module: the first candidate, scanned like
\* every candidate of the first question, becomes the top's file.
TryTop(f) ==
  /\ pc = "try" /\ ask.kind = "top" /\ Next1(f)
  /\ opened' = opened \cup {f} /\ tried' = tried \cup {f}
  /\ map' = [Note({f}, design.real) EXCEPT ![Top] = @ \cup {f}]
  /\ index' = [IndexFile(f) EXCEPT ![Top] = f]
  /\ pc' = "hit"
  /\ UNCHANGED <<design, scanned, job, ask, scan, queue, shell, count, pass, cands,
                 answer, asked, lost, cut, stray>>

Exhausted == pc = "try" /\ Left = {}
\* Mutant of Rescan: the scoped pool is not passed on.
RescanAll == Files
\* The files scanned again after a first pass without success.
Rescan == Pool
\* The sources of the second scan of a pass, without an anchor or a pool.
Unscoped(policy) ==
  IF policy = "recovery" THEN Fresh ELSE Pending(Seed(None, policy))

\* After the first pass the whole pool is scanned, or for an instance without
\* a pool what is left of the sources.
EndPass0 ==
  /\ Exhausted /\ pass = 0 /\ ask.kind # "top"
  /\ IF Anchored /\ Pool # {}
     THEN Scan(Rescan, Target(ask.leaf, "recovery"), "again") /\ UNCHANGED <<pass, cut>>
     ELSE IF ask.leaf
     THEN \E F \in AtMost(GlobalMax, Unscoped(ask.policy)) :
            /\ Scan(F, Target(ask.leaf, ask.policy), "again")
            /\ cut' = cut \cup (Unscoped(ask.policy) \ F) /\ UNCHANGED pass
     ELSE pass' = 1 /\ UNCHANGED <<pc, db, scan, lost, cut>>
  /\ UNCHANGED <<design, index, ask, queue, shell, count, cands, tried, answer, asked, opened, stray>>

Again ==
  /\ pc = "again" /\ pass' = 1
  /\ IF got > 0 THEN Collect(ask.anchor)
     ELSE pc' = "try" /\ UNCHANGED <<queue, shell, count>>
  /\ UNCHANGED <<design, db, ask, scan, cands, tried, answer, asked, history>>

\* Recovery expands once more and collects the candidates a last time.
EndPass1 ==
  /\ Exhausted /\ pass = 1 /\ ask.policy = "recovery" /\ ask.kind # "top"
  /\ LET S == IF Anchored THEN Expansion ELSE Fresh
         leaf == ask.kind = "edge"
     IN \E F \in (IF Anchored THEN {S} ELSE AtMost(GlobalMax, S)) :
          /\ Scan(F, Target(leaf, "recovery"), "last")
          /\ cut' = cut \cup (S \ F)
  /\ UNCHANGED <<design, index, ask, search, answer, asked, opened, stray>>

Last ==
  /\ pc = "last"
  /\ IF got = 0 /\ ~Mapped(ask.mod)
     THEN pc' = "miss" /\ UNCHANGED <<pass, queue, shell, count>>
     ELSE pass' = 2 /\ Collect(ask.anchor)
  /\ UNCHANGED <<design, db, ask, scan, cands, tried, answer, asked, history>>

Stop ==
  /\ Exhausted
  /\ \/ pass = 2 \/ ask.kind = "top"
     \/ pass = 1 /\ Confident
  /\ pc' = IF Confident /\ Anchored THEN "defer" ELSE "miss"
  /\ UNCHANGED <<design, db, ask, scan, search, answer, asked, history>>

\* A load without an instance succeeds with whatever the index holds.
Reply ==
  /\ pc \in {"hit", "miss", "defer"}
  /\ answer' = IF pc = "miss" /\ ask.kind = "module" /\ ~ask.leaf /\ index[ask.mod] # None
               THEN "hit" ELSE pc
  /\ pc' = IF ask.kind = "top" /\ pc = "miss" THEN "drain" ELSE "idle"
  /\ UNCHANGED <<design, db, ask, scan, search, asked, history>>

\* drain_background_workers at the end of the walk.
StopWalk ==
  /\ pc = "idle" /\ asked > 0 /\ pc' = "drain"
  /\ UNCHANGED <<design, db, ask, scan, search, answer, asked, history>>
DrainAll ==
  /\ pc = "drain"
  /\ IF Inflight = {} THEN pc' = "off" /\ UNCHANGED <<db, lost>>
     ELSE Finished # {} /\ Ingest /\ UNCHANGED <<index, pc>>
  /\ UNCHANGED <<design, ask, scan, search, answer, asked, opened, cut, stray>>

Walk ==
  \/ Ask \/ ScanPool \/ ScanExtra \/ ScanShell \/ FillQueue \/ ScanQueue \/ Expand
  \/ Rank \/ Probe \/ EndPass0 \/ Again \/ EndPass1 \/ Last \/ Stop \/ Reply
  \/ StopWalk \/ Submit \/ Drain \/ DrainAll
  \/ \E f \in Files : ScanFile(f) \/ TryModule(f) \/ TryEdge(f) \/ TryTop(f)
Off == pc = "off" /\ UNCHANGED vars
Next == Walk \/ (\E f \in Files : Worker(f)) \/ Off

Spec == Init /\ [][Next]_vars
\* The walk is a loop of the main thread and workers run to their end.
FairSpec == Spec /\ WF_vars(Walk) /\ \A f \in Files : WF_vars(Worker(f))

-----------------------------------------------------------------------------
(* Properties.                                                             *)

Stages == {"idle", "pool", "extra", "shell", "seed", "queue", "expand", "scan", "rank",
           "probe", "try", "again", "last", "hit", "miss", "defer", "drain", "off"}

\* Every variable has its type, and a scan in progress has something to do.
TypeOK ==
  /\ design \in Designs /\ ask \in Question /\ pc \in Stages /\ after \in Stages
  /\ {scanned, todo, queue, tried, opened, lost, cut, stray} \subseteq SUBSET Files
  /\ job \in [Files -> {"none", "run", "done", "failed"}]
  /\ map \in [Mods -> SUBSET Files] /\ index \in [Mods -> Files \cup {None}]
  /\ target \in Mods \cup {None} /\ mode \in {"sync", "submit", "wait"}
  /\ {got, shell, count, asked} \subseteq Nat /\ pass \in 0..2
  /\ cands \in Seq(SUBSET Files) /\ answer \in {"none", "hit", "miss", "defer"}
  /\ pc = "scan" => IF mode = "wait" THEN Inflight # {} ELSE todo # {}

\* Results that come in any order, some after the search that asked for them
\* is over (_tier0_scan_sources_parallel, _tier0_drain_completed), are neither
\* lost nor taken twice: a file at a worker is not scanned, and every name of a
\* scanned file is in the map unless the file could not be read.
NothingLost ==
  /\ Inflight \cap scanned = {}
  /\ \A f \in scanned \ lost : \A m \in design.decl[f] : f \in map[m]

\* The file f answers the question.
Holds(f) == /\ ask.mod \in design.decl[f] \cap design.real[f]
            /\ ask.leaf => ask.mod \in design.inst[f]
RecoveryScope == IF Anchored
                 THEN RecoveryPool(tree, ask.anchor) \cup RecoveryExpand(tree, ask.anchor)
                 ELSE Files

\* When recovery finds nothing (ensure_module_in_index, resolve_child_edge), no
\* file of its scope has the answer, except one that could not be read, one
\* left at a worker by an earlier search, and one a cap kept out.
MissExplained ==
  (pc = "idle" /\ answer = "miss" /\ ~Confident) =>
    \A f \in RecoveryScope : Holds(f) => f \in lost \cup Inflight \cup (cut \ scanned)

\* A deferred question of an anchor that should_retry_deferred_recovery gives no
\* recovery pass has no answer under, above or beside the anchor's listing.
GateIsRight(F) ==
  LET l == tree.via[ask.anchor] IN
  (/\ pc = "idle" /\ answer = "defer" /\ l # None /\ ~ShouldRetry(tree, ask.anchor))
     => \A f \in RecoveryPool(tree, ask.anchor) \cup AncestorDirect(tree, l)
                  \cup SiblingFiles(tree, l) :
          Holds(f) => f \in lost \cup F
GateIsSound == GateIsRight({})
\* It is so but for files an earlier search had left at a worker when the
\* question was asked: their names come too late to become candidates; and but
\* for the files left unopened when the module is known from files outside the
\* pool, which ends the scan of the pool after its first file
\* (_tier0_scan_sources stops as soon as the module has a file).
Unopened == IF ~ask.leaf /\ Mapped(ask.mod) /\ map[ask.mod] \cap Pool = {}
            THEN Fresh ELSE {}
GateMissesOnly == GateIsRight(stray \cup Unopened)

\* A confident question from an anchor opens no file but those of its child
\* listings and those listed with it, above it or beside it; where the child
\* listings list none, a search for an instance falls back on the files of the
\* centre of the filelist tree, wherever that is.
Scope == {ask.anchor} \cup ConfidentPool(tree, ask.anchor) \cup ConfidentExtra(tree, ask.anchor)
           \cup (IF ConfidentPool(tree, ask.anchor) = {} THEN FilesOf(tree, {Center}) ELSE {})
ConfidentStaysScoped == (Confident /\ Anchored) => opened \subseteq Scope

\* A module or an instance that is reported found is in the file the index
\* names, but for a module that was entered as the top or as the child of an
\* instance and never found since: its load then succeeds with that entry.
FoundIsThere ==
  (pc = "idle" /\ answer = "hit" /\ ask.kind # "top") =>
    \/ Known(ask.mod, ask.leaf)
    \/ /\ ask.kind = "module" /\ ~ask.leaf
       /\ \/ ask.mod = Top
          \/ \E p \in Mods : Child[p] = ask.mod /\ p \in design.inst[index[ask.mod]]

\* Every question is answered, whatever the workers do in the meantime.
Answers == pc \notin {"idle", "off"} ~> pc \in {"idle", "off"}
=============================================================================
