--------------------------- MODULE PwTier0Proofs ---------------------------
(* Theorems about PwTier0, for every filelist graph, content of the files, *)
(* cap and number of workers.                                              *)
EXTENDS PwTier0, FiniteSetTheorems, TLAPS

(***************************************************************************)
(* The inductive invariant.  NothingLost needs that a file of the scan     *)
(* under way is neither scanned nor at a worker; the types need that a     *)
(* scan goes on at a stage that opens no file by itself.                   *)
(***************************************************************************)
Nexts == {"extra", "seed", "rank", "shell", "queue", "again", "last"}

DbOK ==
  /\ scanned \subseteq Files /\ lost \subseteq Files
  /\ job \in [Files -> {"none", "run", "done", "failed"}]
  /\ map \in [Mods -> SUBSET Files]
  /\ NothingLost

ScanOK ==
  /\ todo \subseteq Files /\ target \in Mods \cup {None} /\ mode \in {"sync", "submit", "wait"}
  /\ after \in Stages /\ got \in Nat /\ pc \in Stages
  /\ pc = "scan" => /\ after \in Nexts
                    /\ todo \cap (scanned \cup Inflight) = {}
                    /\ IF mode = "wait" THEN Inflight # {} ELSE todo # {}

SearchOK ==
  /\ design \in Designs /\ ask \in Question /\ index \in [Mods -> Files \cup {None}]
  /\ queue \subseteq Files /\ tried \subseteq Files /\ opened \subseteq Files
  /\ cut \subseteq Files /\ stray \subseteq Files
  /\ shell \in Nat /\ count \in Nat /\ asked \in Nat /\ pass \in 0..2
  /\ cands \in Seq(SUBSET Files) /\ answer \in {"none", "hit", "miss", "defer"}
  /\ pc = "probe" => Anchored

IInv == DbOK /\ ScanOK /\ SearchOK

LEMMA InvTypes == IInv => TypeOK /\ NothingLost
BY DEF IInv, DbOK, ScanOK, SearchOK, TypeOK

-----------------------------------------------------------------------------
(* Sets of files.                                                          *)

LEMMA FilesFinite ==
  ASSUME NEW S, S \subseteq Files
  PROVE  IsFiniteSet(S) /\ Cardinality(S) \in Nat
BY FS_Subset, FS_CardinalityType, FlTreeAssumption

LEMMA SomeOf ==
  ASSUME NEW k \in Nat \ {0}, NEW S, S \subseteq Files, S # {}, NEW T \in AtMost(k, S)
  PROVE  T # {}
<1>1. IsFiniteSet(S) /\ Cardinality(S) \in Nat
  BY FilesFinite
<1>2. Cardinality(S) # 0
  BY <1>1, FS_EmptySet
<1>3. Cardinality(T) # 0
  BY <1>1, <1>2 DEF AtMost
<1> QED
  BY <1>3, FS_EmptySet

LEMMA Designed ==
  ASSUME design \in Designs
  PROVE  /\ design.decl \in [Files -> SUBSET Mods]
         /\ design.real \in [Files -> SUBSET Mods]
         /\ design.inst \in [Files -> SUBSET Mods]
         /\ \A f \in Files : design.inst[f] \subseteq design.real[f]
<1>1. design \in Design
  BY PwTier0Assumption
<1> QED
  BY <1>1, PwTier0Assumption DEF Design

LEMMA NextsTypes == Nexts \subseteq Stages /\ "scan" \notin Nexts /\ "probe" \notin Nexts
BY DEF Nexts, Stages

LEMMA PendingType == \A F : Pending(F) \subseteq Files /\ Pending(F) \cap (scanned \cup Inflight) = {}
BY DEF Pending, Fresh

-----------------------------------------------------------------------------
(* Taking results in.                                                      *)

LEMMA IngestOK ==
  ASSUME DbOK, design \in Designs, design' = design, Ingest
  PROVE  /\ DbOK'
         /\ Inflight' = Inflight \ Finished
         /\ scanned' \cup Inflight' \subseteq scanned \cup Inflight
         /\ \A m \in Mods : map[m] \subseteq map'[m]
<1>1. Finished \subseteq Inflight /\ Inflight \subseteq Files
  BY DEF Finished, Inflight
<1>2. job' \in [Files -> {"none", "run", "done", "failed"}]
  BY DEF Ingest, DbOK
<1>3. Inflight' = Inflight \ Finished
  BY <1>2 DEF Ingest, Inflight, Finished, DbOK
<1>4. map' = [m \in Mods |-> map[m] \cup {f \in {g \in Finished : job[g] = "done"} : m \in design.decl[f]}]
  BY DEF Ingest, Note
<1>5. map' \in [Mods -> SUBSET Files] /\ \A m \in Mods : map[m] \subseteq map'[m]
  BY <1>1, <1>4 DEF DbOK
<1>6. scanned' \subseteq Files /\ lost' \subseteq Files
  BY <1>1 DEF Ingest, DbOK
<1>7. Inflight' \cap scanned' = {}
  BY <1>3 DEF Ingest, DbOK, NothingLost
<1>8. ASSUME NEW f \in scanned' \ lost', NEW m \in design.decl[f]
      PROVE  f \in map'[m]
  <2>1. f \in Files /\ m \in Mods
    BY <1>6, Designed
  <2>2. CASE f \in scanned
    <3>1. f \notin lost
      BY DEF Ingest
    <3>2. f \in map[m]
      BY <2>2, <3>1 DEF DbOK, NothingLost
    <3> QED
      BY <2>1, <3>2, <1>5
  <2>3. CASE f \in Finished
    <3>1. job[f] = "done"
      BY <2>3 DEF Ingest, Finished
    <3> QED
      BY <2>1, <2>3, <3>1, <1>4
  <2> QED
    BY <2>2, <2>3 DEF Ingest
<1>9. scanned' \cup Inflight' \subseteq scanned \cup Inflight
  BY <1>1, <1>3 DEF Ingest
<1> QED
  BY <1>2, <1>3, <1>5, <1>6, <1>7, <1>8, <1>9 DEF DbOK, NothingLost

\* A scan begins or is over at once.
LEMMA ScanBegins ==
  ASSUME DbOK, ScanOK, design \in Designs, design' = design,
         NEW F, NEW t \in Mods \cup {None}, NEW n \in Nexts, Scan(F, t, n)
  PROVE  DbOK' /\ ScanOK' /\ pc' \in {"scan", n}
<1>1. CASE Pending(F) = {}
  <2>1. DbOK' /\ Ingest
    BY <1>1, IngestOK DEF Scan
  <2>2. pc' = n /\ got' = 0 /\ UNCHANGED <<todo, target, mode, after>>
    BY <1>1 DEF Scan
  <2> QED
    BY <2>1, <2>2, NextsTypes DEF ScanOK
<1>2. CASE Pending(F) # {}
  <2>1. /\ todo' = Pending(F) /\ target' = t /\ got' = 0 /\ after' = n /\ pc' = "scan"
        /\ mode' \in {"sync", "submit"}
        /\ UNCHANGED <<scanned, job, map, lost>>
    BY <1>2 DEF Scan
  <2>2. DbOK' /\ Inflight' = Inflight
    BY <2>1 DEF DbOK, NothingLost, Inflight
  <2> QED
    BY <1>2, <2>1, <2>2, NextsTypes, PendingType DEF ScanOK, Stages
<1> QED
  BY <1>1, <1>2

\* A step that leaves the map and the scan alone.
LEMMA DbKept ==
  ASSUME DbOK, UNCHANGED <<design, db, lost>>
  PROVE  DbOK' /\ Inflight' = Inflight
BY DEF db, DbOK, NothingLost, Inflight

LEMMA ScanKept ==
  ASSUME ScanOK, UNCHANGED scan, pc' \in Stages \ {"scan"}
  PROVE  ScanOK'
BY DEF ScanOK, scan

\* Names added to the map.
LEMMA NoteOK ==
  ASSUME DbOK, design \in Designs, UNCHANGED <<design, scanned, job, lost>>,
         map' \in [Mods -> SUBSET Files], \A m \in Mods : map[m] \subseteq map'[m]
  PROVE  DbOK'
<1>1. ASSUME NEW f \in scanned' \ lost', NEW m \in design.decl[f]
      PROVE  f \in map'[m]
  <2>1. f \in Files /\ m \in Mods
    BY Designed DEF DbOK
  <2> QED
    BY <2>1 DEF DbOK, NothingLost
<1> QED
  BY <1>1 DEF DbOK, NothingLost, Inflight

LEMMA NoteType ==
  ASSUME DbOK, design \in Designs, NEW f \in Files
  PROVE  /\ Note({f}, design.real) \in [Mods -> SUBSET Files]
         /\ Note({f}, design.decl) \in [Mods -> SUBSET Files]
         /\ \A m \in Mods : /\ map[m] \subseteq Note({f}, design.real)[m]
                            /\ map[m] \subseteq Note({f}, design.decl)[m]
                            /\ m \in design.decl[f] => f \in Note({f}, design.decl)[m]
BY DEF Note, DbOK

-----------------------------------------------------------------------------
(* The steps.                                                              *)

LEMMA WorkerInv ==
  ASSUME IInv, NEW f \in Files, Worker(f)
  PROVE  IInv'
<1> USE DEF IInv
<1>1. job' \in [Files -> {"none", "run", "done", "failed"}] /\ Inflight' = Inflight
  BY DEF Worker, DbOK, Inflight
<1>2. DbOK'
  BY <1>1 DEF Worker, DbOK, NothingLost, history
<1>3. ScanOK'
  BY <1>1 DEF Worker, ScanOK, scan
<1>4. SearchOK'
  BY DEF Worker, SearchOK, search, history, Anchored
<1> QED
  BY <1>2, <1>3, <1>4

LEMMA ScanFileInv ==
  ASSUME IInv, NEW f \in Files, ScanFile(f)
  PROVE  IInv'
<1> USE DEF IInv
<1>1. /\ f \in todo /\ f \notin scanned /\ f \notin Inflight /\ after \in Nexts
      /\ todo \cap (scanned \cup Inflight) = {}
  BY DEF ScanFile, ScanOK
<1>2. PICK read \in BOOLEAN : /\ map' = IF read THEN Note({f}, design.decl) ELSE map
                              /\ lost' = IF read THEN lost ELSE lost \cup {f}
  BY DEF ScanFile
<1>3. /\ scanned' = scanned \cup {f} /\ opened' = opened \cup {f} /\ got' = got + 1
      /\ UNCHANGED <<design, job, index, ask, target, mode, after, search, answer, asked, cut, stray>>
      /\ mode = "sync"
  BY DEF ScanFile
<1>4. design \in Designs
  BY DEF SearchOK
<1>5. Inflight' = Inflight
  BY <1>3 DEF Inflight
<1>6. map' \in [Mods -> SUBSET Files] /\ \A m \in Mods : map[m] \subseteq map'[m]
  BY <1>2, <1>4, NoteType DEF DbOK
<1>7. ASSUME NEW g \in scanned' \ lost', NEW m \in design.decl[g]
      PROVE  g \in map'[m]
  <2>1. g \in Files /\ m \in Mods
    BY <1>3, <1>4, Designed DEF DbOK
  <2>2. CASE g = f
    BY <1>2, <1>4, <2>1, <2>2, NoteType
  <2>3. CASE g # f
    BY <1>2, <1>3, <1>6, <2>1, <2>3 DEF DbOK, NothingLost
  <2> QED
    BY <2>2, <2>3
<1>8. DbOK'
  BY <1>1, <1>2, <1>3, <1>5, <1>6, <1>7 DEF DbOK, NothingLost
<1>9. ScanOK'
  <2>1. CASE pc' = after /\ todo' = {}
    BY <1>1, <1>3, <2>1, NextsTypes DEF ScanOK
  <2>2. CASE todo # {f} /\ todo' = todo \ {f} /\ pc' = pc
    <3>1. todo' # {} /\ todo' \cap (scanned' \cup Inflight') = {}
      BY <1>1, <1>3, <1>5, <2>2
    <3> QED
      BY <1>1, <1>3, <2>2, <3>1 DEF ScanOK
  <2> QED
    BY <2>1, <2>2 DEF ScanFile
<1>10. pc' # "probe"
  BY <1>1, NextsTypes DEF ScanFile
<1>11. SearchOK'
  BY <1>3, <1>10 DEF SearchOK, search
<1> QED
  BY <1>8, <1>9, <1>11

LEMMA SubmitInv ==
  ASSUME IInv, Submit
  PROVE  IInv'
<1> USE DEF IInv
<1>1. PICK B \in AtMost(Jobs, todo) :
        /\ job' = [f \in Files |-> IF f \in B THEN "run" ELSE job[f]]
        /\ todo' = todo \ B /\ opened' = opened \cup B /\ got' = got + Cardinality(B)
  BY DEF Submit
<1>2. /\ pc = "scan" /\ mode = "submit" /\ mode' = "wait"
      /\ UNCHANGED <<design, scanned, map, index, ask, pc, target, after, search, answer,
                     asked, lost, cut, stray>>
  BY DEF Submit
<1>3. todo # {} /\ todo \subseteq Files /\ todo \cap (scanned \cup Inflight) = {} /\ after \in Nexts
  BY <1>2 DEF ScanOK
<1>4. B \subseteq todo /\ B # {} /\ Cardinality(B) \in Nat
  <2>1. B \subseteq todo
    BY DEF AtMost
  <2>2. Jobs \in Nat \ {0}
    BY PwTier0Assumption
  <2> QED
    BY <1>3, <2>1, <2>2, SomeOf, FilesFinite
<1>5. job' \in [Files -> {"none", "run", "done", "failed"}] /\ Inflight' = Inflight \cup B
  BY <1>1, <1>3, <1>4 DEF DbOK, Inflight
<1>6. DbOK'
  BY <1>2, <1>3, <1>4, <1>5 DEF DbOK, NothingLost
<1>7. ScanOK'
  BY <1>1, <1>2, <1>3, <1>4, <1>5 DEF ScanOK
<1>8. SearchOK'
  BY <1>1, <1>2, <1>3, <1>4 DEF SearchOK, search
<1> QED
  BY <1>6, <1>7, <1>8

LEMMA DrainInv ==
  ASSUME IInv, Drain
  PROVE  IInv'
<1> USE DEF IInv
<1>1. /\ pc = "scan" /\ mode = "wait" /\ Ingest
      /\ UNCHANGED <<design, index, ask, target, after, got, search, answer, asked, opened, cut, stray>>
  BY DEF Drain
<1>2. design \in Designs
  BY DEF SearchOK
<1>3. /\ DbOK' /\ Inflight' = Inflight \ Finished
      /\ scanned' \cup Inflight' \subseteq scanned \cup Inflight
  BY <1>1, <1>2, IngestOK
<1>4. after \in Nexts /\ todo \cap (scanned \cup Inflight) = {} /\ Inflight # {}
  BY <1>1 DEF ScanOK
<1>5. CASE pc' = after /\ todo' = {} /\ mode' = mode
  <2>1. ScanOK'
    BY <1>1, <1>4, <1>5, NextsTypes DEF ScanOK
  <2>2. SearchOK'
    BY <1>1, <1>4, <1>5, NextsTypes DEF SearchOK, search
  <2> QED
    BY <1>3, <2>1, <2>2
<1>6. CASE ~ (Inflight = Finished /\ todo = {}) /\ mode' = Resume /\ pc' = pc /\ todo' = todo
  <2>1. todo' \cap (scanned' \cup Inflight') = {}
    BY <1>3, <1>4, <1>6
  <2>2. CASE Inflight = Finished
    <3>1. mode' = "submit" /\ todo' # {}
      BY <1>6, <2>2 DEF Resume
    <3>2. ScanOK'
      BY <1>1, <1>4, <1>6, <2>1, <3>1 DEF ScanOK
    <3>3. SearchOK'
      BY <1>1, <1>6 DEF SearchOK, search
    <3> QED
      BY <1>3, <3>2, <3>3
  <2>3. CASE Inflight # Finished
    <3>1. mode' = "wait"
      BY <1>6, <2>3 DEF Resume
    <3>2. Finished \subseteq Inflight
      BY DEF Finished, Inflight
    <3>3. Inflight' # {}
      BY <1>3, <2>3, <3>2
    <3>4. ScanOK'
      BY <1>1, <1>4, <1>6, <2>1, <3>1, <3>3 DEF ScanOK
    <3>5. SearchOK'
      BY <1>1, <1>6 DEF SearchOK, search
    <3> QED
      BY <1>3, <3>4, <3>5
  <2> QED
    BY <2>2, <2>3
<1> QED
  BY <1>5, <1>6 DEF Drain

LEMMA TargetType ==
  ASSUME SearchOK
  PROVE  /\ ask.mod \in Mods /\ ask.kind \in {"top", "module", "edge"} /\ ask.policy \in Policies
         /\ ask.anchor \in Files \cup {None} /\ ask.leaf \in BOOLEAN
         /\ None \in Mods \cup {None}
         /\ \A leaf, policy : Target(leaf, policy) \in Mods \cup {None}
BY DEF SearchOK, Question, Target

LEMMA ScanPoolInv ==
  ASSUME IInv, ScanPool
  PROVE  IInv'
<1> USE DEF IInv
<1>1. PICK n \in {"extra", "seed"} : Scan(Pool, Target(Leafy, ask.policy), n)
  BY DEF ScanPool
<1>2. UNCHANGED <<design, index, ask, search, answer, asked, opened, cut, stray>>
  BY DEF ScanPool
<1>3. n \in Nexts /\ design \in Designs
  BY DEF Nexts, SearchOK
<1>4. DbOK' /\ ScanOK' /\ pc' \in {"scan", n}
  BY <1>1, <1>2, <1>3, TargetType, ScanBegins
<1>5. SearchOK'
  BY <1>2, <1>4 DEF SearchOK, search
<1> QED
  BY <1>4, <1>5

LEMMA ScanExtraInv ==
  ASSUME IInv, ScanExtra
  PROVE  IInv'
<1> USE DEF IInv
<1>1. UNCHANGED <<design, index, ask, search, answer, asked, opened, cut, stray>>
  BY DEF ScanExtra
<1>2. design \in Designs /\ "rank" \in Nexts
  BY DEF Nexts, SearchOK
<1>3. CASE Scan(Pending(ConfidentExtra(tree, ask.anchor)), None, "rank")
  <2>1. DbOK' /\ ScanOK' /\ pc' \in {"scan", "rank"}
    BY <1>1, <1>2, <1>3, TargetType, ScanBegins
  <2>2. SearchOK'
    BY <1>1, <2>1 DEF SearchOK, search
  <2> QED
    BY <2>1, <2>2
<1>4. CASE pc' = "rank" /\ UNCHANGED <<db, scan, lost>>
  <2>1. DbOK'
    BY <1>1, <1>4, DbKept
  <2>2. ScanOK'
    BY <1>4, ScanKept DEF Stages
  <2>3. SearchOK'
    BY <1>1, <1>4 DEF SearchOK, search
  <2> QED
    BY <2>1, <2>2, <2>3
<1> QED
  BY <1>3, <1>4 DEF ScanExtra

LEMMA ScanShellInv ==
  ASSUME IInv, ScanShell
  PROVE  IInv'
<1> USE DEF IInv
<1>1. UNCHANGED <<design, index, ask, queue, pass, cands, tried, answer, asked, opened, stray>>
  BY DEF ScanShell
<1>2. design \in Designs /\ "shell" \in Nexts /\ shell \in Nat /\ count \in Nat
  BY DEF Nexts, SearchOK
<1>3. CASE /\ pc' \in {"rank", "expand"} /\ cut' \subseteq cut \cup Files
           /\ UNCHANGED <<db, scan, lost, shell, count>>
  <2>1. DbOK'
    BY <1>1, <1>3, DbKept
  <2>2. ScanOK'
    BY <1>3, ScanKept DEF Stages
  <2>3. SearchOK'
    BY <1>1, <1>3 DEF SearchOK
  <2> QED
    BY <2>1, <2>2, <2>3
<1>4. ASSUME NEW G, NEW k, NEW F \in AtMost(k, Pending(FilesOf(tree, G))),
             pc = "shell", cut' = cut, shell' = Deeper, count' = count + Cardinality(F),
             IF F = {} THEN UNCHANGED <<db, scan, lost, pc>>
             ELSE Scan(F, Target(Leafy, ask.policy), "shell")
      PROVE  IInv'
  <2>1. F \subseteq Files
    BY <1>4, PendingType DEF AtMost
  <2>2. shell' \in Nat /\ count' \in Nat
    BY <1>2, <1>4, <2>1, FilesFinite DEF Deeper
  <2>3. CASE F = {}
    <3>1. UNCHANGED <<db, scan, lost, pc>>
      BY <1>4, <2>3
    <3>2. DbOK'
      BY <1>1, <3>1, DbKept
    <3>3. ScanOK'
      BY <1>4, <3>1, ScanKept DEF Stages
    <3>4. SearchOK'
      BY <1>1, <1>4, <2>2, <3>1 DEF SearchOK
    <3> QED
      BY <3>2, <3>3, <3>4
  <2>4. CASE F # {}
    <3>1. DbOK' /\ ScanOK' /\ pc' \in {"scan", "shell"}
      BY <1>1, <1>2, <1>4, <2>4, TargetType, ScanBegins
    <3>2. SearchOK'
      BY <1>1, <1>4, <2>2, <3>1 DEF SearchOK
    <3> QED
      BY <3>1, <3>2
  <2> QED
    BY <2>3, <2>4
<1>5. Fresh \subseteq Files
  BY DEF Fresh
<1> QED
  BY <1>3, <1>4, <1>5 DEF ScanShell

LEMMA QueueInv ==
  ASSUME IInv, FillQueue \/ ScanQueue
  PROVE  IInv'
<1> USE DEF IInv
<1>1. CASE FillQueue
  <2>1. /\ queue' \subseteq Files /\ count' = 0 /\ pc' = "queue"
        /\ UNCHANGED <<design, db, ask, scan, shell, pass, cands, tried, answer, asked, history>>
    BY <1>1, PendingType DEF FillQueue
  <2>2. DbOK'
    BY <2>1, DbKept DEF history
  <2>3. ScanOK'
    BY <2>1, ScanKept DEF Stages
  <2>4. SearchOK'
    BY <2>1 DEF SearchOK, db, history
  <2> QED
    BY <2>2, <2>3, <2>4
<1>2. CASE ScanQueue
  <2>1. UNCHANGED <<design, index, ask, shell, pass, cands, tried, answer, asked, opened, stray>>
    BY <1>2 DEF ScanQueue
  <2>2. design \in Designs /\ "queue" \in Nexts /\ queue \subseteq Files /\ count \in Nat
    BY DEF SearchOK, Nexts
  <2>3. CASE /\ pc' \in {"rank", "expand"} /\ cut' \subseteq cut \cup Files /\ queue' = {}
             /\ UNCHANGED <<db, scan, lost, count>>
    <3>1. DbOK'
      BY <2>1, <2>3, DbKept
    <3>2. ScanOK'
      BY <2>3, ScanKept DEF Stages
    <3>3. SearchOK'
      BY <2>1, <2>3 DEF SearchOK
    <3> QED
      BY <3>1, <3>2, <3>3
  <2>4. ASSUME NEW k, NEW B \in AtMost(k, queue), queue' = queue \ B, cut' = cut,
               count' = count + Cardinality(B), Scan(B, Target(Leafy, ask.policy), "queue")
        PROVE  IInv'
    <3>1. B \subseteq Files
      BY <2>2 DEF AtMost
    <3>2. queue' \subseteq Files /\ count' \in Nat
      BY <2>2, <2>4, <3>1, FilesFinite
    <3>3. DbOK' /\ ScanOK' /\ pc' \in {"scan", "queue"}
      BY <2>1, <2>2, <2>4, TargetType, ScanBegins
    <3>4. SearchOK'
      BY <2>1, <2>4, <3>2, <3>3 DEF SearchOK
    <3> QED
      BY <3>3, <3>4
  <2>5. Fresh \subseteq Files
    BY DEF Fresh
  <2> QED
    BY <1>2, <2>2, <2>3, <2>4, <2>5 DEF ScanQueue
<1> QED
  BY <1>1, <1>2

LEMMA ExpansionType ==
  /\ Expansion \subseteq Files
  /\ \A policy : Unscoped(policy) \subseteq Files
BY PendingType DEF Expansion, Unscoped, Fresh

LEMMA ExpandInv ==
  ASSUME IInv, Expand
  PROVE  IInv'
<1> USE DEF IInv
<1>1. PICK F \in AtMost(GlobalMax, Expansion) :
        /\ cut' = cut \cup (Expansion \ F)
        /\ IF F = {} THEN pc' = "rank" /\ UNCHANGED <<db, scan, lost>>
           ELSE Scan(F, Target(Leafy, ask.policy), "rank")
  BY DEF Expand
<1>2. UNCHANGED <<design, index, ask, search, answer, asked, opened, stray>>
  BY DEF Expand
<1>3. design \in Designs /\ "rank" \in Nexts
  BY DEF Nexts, SearchOK
<1>4. cut' \subseteq Files
  BY <1>1, ExpansionType DEF SearchOK
<1>5. CASE F = {}
  <2>1. DbOK'
    BY <1>1, <1>2, <1>5, DbKept
  <2>2. ScanOK'
    BY <1>1, <1>5, ScanKept DEF Stages
  <2>3. SearchOK'
    BY <1>1, <1>2, <1>4, <1>5 DEF SearchOK, search
  <2> QED
    BY <2>1, <2>2, <2>3
<1>6. CASE F # {}
  <2>1. DbOK' /\ ScanOK' /\ pc' \in {"scan", "rank"}
    BY <1>1, <1>2, <1>3, <1>6, TargetType, ScanBegins
  <2>2. SearchOK'
    BY <1>2, <1>4, <2>1 DEF SearchOK, search
  <2> QED
    BY <2>1, <2>2
<1> QED
  BY <1>5, <1>6

-----------------------------------------------------------------------------
(* The questions.                                                          *)

LEMMA AvoidLastType ==
  ASSUME NEW S, NEW G \in Seq(SUBSET S)
  PROVE  AvoidLast(G) \in Seq(SUBSET S)
<1> DEFINE kept == [i \in DOMAIN G |-> G[i] \ {Avoided}]
           all == UNION {G[i] : i \in DOMAIN G}
<1>1. kept \in Seq(SUBSET S)
  <2>1. DOMAIN G = 1..Len(G) /\ Len(G) \in Nat /\ \A i \in DOMAIN G : G[i] \in SUBSET S
    OBVIOUS
  <2>2. \A i \in 1..Len(G) : kept[i] \in SUBSET S
    BY <2>1
  <2> QED
    BY <2>1, <2>2
<1>2. all \cap {Avoided} \in SUBSET S
  OBVIOUS
<1>3. <<all \cap {Avoided}>> \in Seq(SUBSET S)
  BY <1>2
<1> HIDE DEF kept
<1>4. kept \o <<all \cap {Avoided}>> \in Seq(SUBSET S)
  BY <1>1, <1>3
<1> QED
  BY <1>4 DEF AvoidLast, kept

LEMMA Pairs == \A S : \A F, G \in SUBSET S : <<F>> \in Seq(SUBSET S) /\ <<F, G>> \in Seq(SUBSET S)
OBVIOUS

LEMMA GroupsType ==
  ASSUME map \in [Mods -> SUBSET Files], ask.mod \in Mods
  PROVE  AvoidLast(Groups) \in Seq(SUBSET Files)
<1>1. \A P : /\ map[ask.mod] \cap P \in SUBSET Files
             /\ map[ask.mod] \ P \in SUBSET Files
             /\ (map[ask.mod] \ P) \cap ConfidentExtra(tree, ask.anchor) \in SUBSET Files
             /\ map[ask.mod] \in SUBSET Files
  OBVIOUS
<1>2. Groups \in Seq(SUBSET Files)
  BY <1>1, Pairs DEF Groups
<1> QED
  BY <1>2, AvoidLastType

LEMMA RankInv ==
  ASSUME IInv, Rank
  PROVE  IInv'
<1> USE DEF IInv
<1>1. /\ cands' = AvoidLast(Groups)
      /\ pc' \in {"probe", "defer", "miss", "try"}
      /\ pc' = "probe" => Anchored
      /\ UNCHANGED <<design, db, ask, scan, queue, shell, count, pass, tried, answer, asked, history>>
  BY DEF Rank
<1>2. cands' \in Seq(SUBSET Files)
  BY <1>1, TargetType, GroupsType DEF DbOK
<1>3. DbOK'
  BY <1>1, DbKept DEF history
<1>4. ScanOK'
  BY <1>1, ScanKept DEF Stages
<1>5. SearchOK'
  BY <1>1, <1>2 DEF SearchOK, db, history, Anchored
<1> QED
  BY <1>3, <1>4, <1>5

LEMMA AskInv ==
  ASSUME IInv, Ask
  PROVE  IInv'
<1> USE DEF IInv
<1>1. PICK q \in Question :
        /\ ask' = q
        /\ IF q.kind # "top" /\ Known(q.mod, q.leaf)
           THEN pc' = "idle" /\ answer' = "hit" /\ UNCHANGED <<shell, count, queue>>
           ELSE Collect(q.anchor) /\ answer' = "none"
  BY DEF Ask
<1>2. /\ asked' = asked + 1 /\ pass' = 0 /\ cands' = <<>> /\ tried' = {}
      /\ opened' = {} /\ cut' = {} /\ stray' = Inflight
      /\ UNCHANGED <<design, db, scan, lost>>
  BY DEF Ask
<1>3. /\ pc' \in {"idle", "pool", "shell", "seed"} /\ answer' \in {"hit", "none"}
      /\ shell' \in {0, shell} /\ count' \in {0, count} /\ queue' \in {{}, queue}
  BY <1>1 DEF Collect
<1>4. DbOK'
  BY <1>2, DbKept
<1>5. ScanOK'
  BY <1>2, <1>3, ScanKept DEF Stages
<1>6. cands' \in Seq(SUBSET Files) /\ stray' \subseteq Files
  BY <1>2 DEF Inflight
<1>7. SearchOK'
  BY <1>1, <1>2, <1>3, <1>6 DEF SearchOK, db
<1> QED
  BY <1>4, <1>5, <1>7

LEMMA SelectiveType ==
  ASSUME DbOK, index \in [Mods -> Files \cup {None}], NEW m \in Mods, NEW f \in Files, Selective(m, f)
  PROVE  /\ index' \in [Mods -> Files \cup {None}]
         /\ map' \in [Mods -> SUBSET Files]
         /\ \A n \in Mods : map[n] \subseteq map'[n]
<1>1. Child[m] \in Mods \cup {None} /\ None \notin Mods
  BY PwTier0Assumption
<1>2. index' = [index EXCEPT ![m] = f, ![Child[m]] = IF @ = None THEN f ELSE @]
  BY DEF Selective
<1>3. map' = [map EXCEPT ![m] = @ \cup {f}, ![Child[m]] = @ \cup {f}]
  BY DEF Selective
<1>4. index' \in [Mods -> Files \cup {None}]
  BY <1>1, <1>2
<1>5. map' \in [Mods -> SUBSET Files]
  BY <1>1, <1>3 DEF DbOK
<1>6. \A n \in Mods : map[n] \subseteq map'[n]
  BY <1>1, <1>3 DEF DbOK
<1> QED
  BY <1>4, <1>5, <1>6

LEMMA ProbeInv ==
  ASSUME IInv, Probe
  PROVE  IInv'
<1> USE DEF IInv
<1>1. /\ pc = "probe" /\ opened' = opened \cup {ask.anchor} /\ tried' = {ask.anchor}
      /\ pc' \in {"hit", "defer", "try"}
      /\ UNCHANGED <<design, scanned, job, ask, scan, queue, shell, count, pass, cands,
                     answer, asked, lost, cut, stray>>
      /\ \/ Selective(ask.mod, ask.anchor)
         \/ UNCHANGED <<index, map>>
  BY DEF Probe
<1>2. ask.anchor \in Files /\ ask.mod \in Mods /\ design \in Designs
  BY <1>1, TargetType DEF SearchOK, Anchored
<1>3. /\ index' \in [Mods -> Files \cup {None}] /\ map' \in [Mods -> SUBSET Files]
      /\ \A n \in Mods : map[n] \subseteq map'[n]
  BY <1>1, <1>2, SelectiveType DEF DbOK, SearchOK
<1>4. DbOK'
  BY <1>1, <1>2, <1>3, NoteOK
<1>5. ScanOK'
  BY <1>1, ScanKept DEF Stages
<1>6. SearchOK'
  BY <1>1, <1>2, <1>3 DEF SearchOK
<1> QED
  BY <1>4, <1>5, <1>6

LEMMA NextFile ==
  ASSUME SearchOK, NEW f, Next1(f)
  PROVE  f \in Files
BY DEF SearchOK, Next1

LEMMA TryInv ==
  ASSUME IInv, NEW f \in Files, TryModule(f) \/ TryEdge(f) \/ TryTop(f)
  PROVE  IInv'
<1> USE DEF IInv
<1>1. /\ tried' = tried \cup {f} /\ opened' = opened \cup {f}
      /\ pc = "try" /\ pc' \in {"try", "hit"}
      /\ UNCHANGED <<design, scanned, job, ask, scan, queue, shell, count, pass, cands,
                     answer, asked, lost, cut, stray>>
  BY DEF TryModule, TryEdge, TryTop
<1>2. ask.mod \in Mods /\ design \in Designs /\ Top \in Mods
  BY TargetType, PwTier0Assumption DEF SearchOK
<1>3. /\ Note({f}, design.real) \in [Mods -> SUBSET Files]
      /\ \A n \in Mods : map[n] \subseteq Note({f}, design.real)[n]
  BY <1>2, NoteType
<1>4. index \in [Mods -> Files \cup {None}] /\ IndexFile(f) \in [Mods -> Files \cup {None}]
  BY DEF SearchOK, IndexFile
<1>5. CASE TryModule(f)
  <2>1. /\ index' \in [Mods -> Files \cup {None}] /\ map' \in [Mods -> SUBSET Files]
        /\ \A n \in Mods : map[n] \subseteq map'[n]
    BY <1>3, <1>4, <1>5 DEF TryModule
  <2> QED
    BY <1>1, <1>2, <2>1, NoteOK, ScanKept DEF SearchOK, Stages
<1>6. CASE TryEdge(f)
  <2>1. /\ index' \in [Mods -> Files \cup {None}] /\ map' \in [Mods -> SUBSET Files]
        /\ \A n \in Mods : map[n] \subseteq map'[n]
    <3>1. CASE Selective(ask.mod, f)
      BY <1>2, <1>4, <3>1, SelectiveType
    <3>2. CASE ~ Selective(ask.mod, f)
      <4>1. index' = index /\ (map' = map \/ map' = Note({f}, design.real))
        BY <1>6, <3>2 DEF TryEdge
      <4> QED
        BY <1>3, <1>4, <4>1 DEF DbOK
    <3> QED
      BY <3>1, <3>2
  <2> QED
    BY <1>1, <1>2, <2>1, NoteOK, ScanKept DEF SearchOK, Stages
<1>7. CASE TryTop(f)
  <2>1. map' = [Note({f}, design.real) EXCEPT ![Top] = @ \cup {f}] /\ index' = [IndexFile(f) EXCEPT ![Top] = f]
    BY <1>7 DEF TryTop
  <2>2. /\ index' \in [Mods -> Files \cup {None}] /\ map' \in [Mods -> SUBSET Files]
        /\ \A n \in Mods : map[n] \subseteq map'[n]
    BY <1>2, <1>3, <1>4, <2>1
  <2> QED
    BY <1>1, <1>2, <2>2, NoteOK, ScanKept DEF SearchOK, Stages
<1> QED
  BY <1>5, <1>6, <1>7

LEMMA PassesInv ==
  ASSUME IInv, EndPass0 \/ EndPass1
  PROVE  IInv'
<1> USE DEF IInv
<1>0. design \in Designs /\ {"again", "last"} \subseteq Nexts
  BY DEF Nexts, SearchOK
<1>1. CASE EndPass0
  <2>1. UNCHANGED <<design, index, ask, queue, shell, count, cands, tried, answer, asked, opened, stray>>
    BY <1>1 DEF EndPass0
  <2>2. ASSUME NEW F, NEW t \in Mods \cup {None}, Scan(F, t, "again"), pass' = pass, cut' \subseteq Files
        PROVE  IInv'
    <3>1. DbOK' /\ ScanOK' /\ pc' \in {"scan", "again"}
      BY <1>0, <2>1, <2>2, ScanBegins
    <3>2. SearchOK'
      BY <2>1, <2>2, <3>1 DEF SearchOK
    <3> QED
      BY <3>1, <3>2
  <2>3. CASE Anchored /\ Pool # {}
    <3>1. Scan(Rescan, Target(ask.leaf, "recovery"), "again") /\ pass' = pass /\ cut' = cut
      BY <1>1, <2>3 DEF EndPass0
    <3> QED
      BY <2>2, <3>1, TargetType DEF SearchOK
  <2>4. CASE ~ (Anchored /\ Pool # {}) /\ ask.leaf
    <3>1. PICK F \in AtMost(GlobalMax, Unscoped(ask.policy)) :
            /\ Scan(F, Target(ask.leaf, ask.policy), "again")
            /\ cut' = cut \cup (Unscoped(ask.policy) \ F) /\ pass' = pass
      BY <1>1, <2>4 DEF EndPass0
    <3>2. cut' \subseteq Files
      BY <3>1, ExpansionType DEF SearchOK
    <3> QED
      BY <2>2, <3>1, <3>2, TargetType
  <2>5. CASE ~ (Anchored /\ Pool # {}) /\ ~ ask.leaf
    <3>1. pass' = 1 /\ UNCHANGED <<pc, db, scan, lost, cut>> /\ pc = "try"
      BY <1>1, <2>5 DEF EndPass0, Exhausted
    <3>2. DbOK'
      BY <2>1, <3>1, DbKept
    <3>3. ScanOK'
      BY <3>1, ScanKept DEF Stages
    <3>4. SearchOK'
      BY <2>1, <3>1 DEF SearchOK
    <3> QED
      BY <3>2, <3>3, <3>4
  <2> QED
    BY <2>3, <2>4, <2>5
<1>2. CASE EndPass1
  <2>1. UNCHANGED <<design, index, ask, search, answer, asked, opened, stray>>
    BY <1>2 DEF EndPass1
  <2> DEFINE S == IF Anchored THEN Expansion ELSE Fresh
  <2>2. PICK F \in SUBSET S : /\ Scan(F, Target(ask.kind = "edge", "recovery"), "last")
                              /\ cut' = cut \cup (S \ F)
    BY <1>2 DEF EndPass1, AtMost
  <2>3. S \subseteq Files
    BY ExpansionType DEF Fresh
  <2>4. DbOK' /\ ScanOK' /\ pc' \in {"scan", "last"}
    BY <1>0, <2>1, <2>2, TargetType, ScanBegins
  <2>5. SearchOK'
    BY <2>1, <2>2, <2>3, <2>4 DEF SearchOK, search
  <2> QED
    BY <2>4, <2>5
<1> QED
  BY <1>1, <1>2

LEMMA TurnsInv ==
  ASSUME IInv, Again \/ Last \/ Stop \/ Reply \/ StopWalk
  PROVE  IInv'
<1> USE DEF IInv
<1>1. UNCHANGED <<design, db, ask, scan, asked, history>> /\ cands' = cands /\ tried' = tried
  BY DEF Again, Last, Stop, Reply, StopWalk, search
<1>2. DbOK'
  BY <1>1, DbKept DEF history
<1>3. pc' \in Stages \ {"scan", "probe"}
  BY DEF Again, Last, Stop, Reply, StopWalk, Collect, Stages
<1>4. ScanOK'
  BY <1>1, <1>3, ScanKept
<1>5. /\ pass' \in 0..2 /\ shell' \in Nat /\ count' \in Nat /\ queue' \subseteq Files
      /\ answer' \in {"none", "hit", "miss", "defer"}
  <2>1. CASE Again
    BY <2>1 DEF Again, Collect, SearchOK
  <2>2. CASE Last
    BY <2>2 DEF Last, Collect, SearchOK
  <2>3. CASE Stop \/ StopWalk
    BY <2>3 DEF Stop, StopWalk, SearchOK, search
  <2>4. CASE Reply
    BY <2>4 DEF Reply, SearchOK, search
  <2> QED
    BY <2>1, <2>2, <2>3, <2>4
<1>6. SearchOK'
  BY <1>1, <1>3, <1>5 DEF SearchOK, db, history
<1> QED
  BY <1>2, <1>4, <1>6

LEMMA DrainAllInv ==
  ASSUME IInv, DrainAll
  PROVE  IInv'
<1> USE DEF IInv
<1>1. UNCHANGED <<design, ask, scan, search, answer, asked, opened, cut, stray>> /\ index' = index
  BY DEF DrainAll, db
<1>2. pc' \in Stages \ {"scan", "probe"}
  BY DEF DrainAll, Stages
<1>3. DbOK'
  <2>1. CASE Ingest
    BY <1>1, <2>1, IngestOK DEF SearchOK
  <2>2. CASE UNCHANGED <<db, lost>>
    BY <1>1, <2>2, DbKept
  <2> QED
    BY <2>1, <2>2 DEF DrainAll
<1>4. ScanOK'
  BY <1>1, <1>2, ScanKept
<1>5. SearchOK'
  BY <1>1, <1>2 DEF SearchOK, search
<1> QED
  BY <1>3, <1>4, <1>5

LEMMA StutterInv ==
  ASSUME IInv, UNCHANGED vars
  PROVE  IInv'
<1> USE DEF IInv
<1>1. UNCHANGED <<design, db, lost>> /\ pc' = pc
  BY DEF vars, db, history
<1>2. DbOK' /\ Inflight' = Inflight
  BY <1>1, DbKept
<1>3. ScanOK'
  BY <1>1, <1>2 DEF ScanOK, vars, db, scan
<1>4. SearchOK'
  BY DEF SearchOK, vars, db, search, history, Anchored
<1> QED
  BY <1>2, <1>3, <1>4

LEMMA InitInv == Init => IInv
<1> SUFFICES ASSUME Init PROVE IInv
  OBVIOUS
<1>1. Top \in Mods /\ None \notin Files
  BY PwTier0Assumption, FlTreeAssumption
<1>2. NoAsk \in Question
  BY <1>1 DEF NoAsk, Question, Policies
<1>3. Inflight = {} /\ <<>> \in Seq(SUBSET Files)
  BY DEF Init, Inflight
<1>4. DbOK
  BY <1>3 DEF Init, DbOK, NothingLost
<1>5. ScanOK
  BY DEF Init, ScanOK, Stages
<1>6. SearchOK
  BY <1>2, <1>3 DEF Init, SearchOK
<1> QED
  BY <1>4, <1>5, <1>6 DEF IInv

LEMMA NextInv ==
  ASSUME IInv, [Next]_vars
  PROVE  IInv'
<1>1. ASSUME NEW f \in Files, TryModule(f) \/ TryEdge(f) \/ TryTop(f) PROVE IInv'
  BY <1>1, TryInv
<1>2. CASE Walk
  BY <1>1, <1>2, AskInv, ScanPoolInv, ScanExtraInv, ScanShellInv, QueueInv, ExpandInv, RankInv,
     ProbeInv, PassesInv, TurnsInv, SubmitInv, DrainInv, DrainAllInv, ScanFileInv DEF Walk
<1>3. CASE \E f \in Files : Worker(f)
  BY <1>3, WorkerInv
<1>4. CASE Off \/ UNCHANGED vars
  BY <1>4, StutterInv DEF Off
<1> QED
  BY <1>2, <1>3, <1>4 DEF Next

\* Every variable has its type and a scan in progress has a file left to open or a
\* worker to wait for (_tier0_scan_sources_parallel), whatever the filelists, the caps
\* and the number of workers.
THEOREM TypeCorrect == Spec => []TypeOK
<1>1. IInv /\ [Next]_vars => IInv'
  BY NextInv
<1> QED
  BY <1>1, InitInv, InvTypes, PTL DEF Spec

\* A file at a worker is not scanned, and the names of a scanned file are in the map
\* unless it could not be read: results are taken in once and whole, in whatever order
\* the workers finish and whichever question takes them in (_tier0_drain_completed).
THEOREM ResultsAreKept == Spec => []NothingLost
<1>1. IInv /\ [Next]_vars => IInv'
  BY NextInv
<1> QED
  BY <1>1, InitInv, InvTypes, PTL DEF Spec

-----------------------------------------------------------------------------
(* What is found is there.                                                 *)

\* How a module may have come by its file in the index.
Entered(m) ==
  \/ m \in design.real[index[m]]
  \/ m = Top
  \/ \E p \in Mods : Child[p] = m /\ p \in design.inst[index[m]]

FoundInv ==
  /\ \A m \in Mods : index[m] # None => Entered(m)
  /\ pc = "hit" /\ ask.kind # "top" => Known(ask.mod, ask.leaf)
  /\ FoundIsThere

LEMMA ScanGoes ==
  ASSUME NEW F, NEW t, NEW n, Scan(F, t, n)
  PROVE  pc' \in {"scan", n}
BY DEF Scan

\* Neither the index nor the question changes while candidates are collected.
Collecting ==
  \/ ScanPool \/ ScanExtra \/ ScanShell \/ FillQueue \/ ScanQueue \/ Expand \/ Rank
  \/ EndPass0 \/ Again \/ EndPass1 \/ Last \/ Stop \/ StopWalk \/ Submit \/ Drain \/ DrainAll
  \/ \E f \in Files : ScanFile(f)

LEMMA CollectingKeeps ==
  ASSUME IInv, Collecting
  PROVE  UNCHANGED <<design, ask, index>> /\ pc' \notin {"hit", "idle"}
<1>1. CASE ScanPool
  BY <1>1, ScanGoes DEF ScanPool
<1>2. CASE ScanExtra
  BY <1>2, ScanGoes DEF ScanExtra
<1>3. CASE ScanShell
  <2>1. UNCHANGED <<design, ask, index>>
    BY <1>3 DEF ScanShell
  <2>2. CASE pc' \in {"rank", "expand"}
    BY <2>1, <2>2
  <2>3. ASSUME NEW F, IF F = {} THEN UNCHANGED <<db, scan, lost, pc>>
                      ELSE Scan(F, Target(Leafy, ask.policy), "shell")
        PROVE  pc' \notin {"hit", "idle"}
    <3>1. pc = "shell"
      BY <1>3 DEF ScanShell
    <3> QED
      BY <2>3, <3>1, ScanGoes
  <2> QED
    BY <1>3, <2>1, <2>2, <2>3 DEF ScanShell
<1>4. CASE FillQueue
  BY <1>4 DEF FillQueue, db
<1>5. CASE ScanQueue
  BY <1>5, ScanGoes DEF ScanQueue
<1>6. CASE Expand
  BY <1>6, ScanGoes DEF Expand
<1>7. CASE Rank
  BY <1>7 DEF Rank, db
<1>8. CASE EndPass0
  <2>1. UNCHANGED <<design, ask, index>> /\ pc = "try"
    BY <1>8 DEF EndPass0, Exhausted
  <2>2. pc' \in {"scan", "again", "try"}
    BY <1>8, <2>1, ScanGoes DEF EndPass0
  <2> QED
    BY <2>1, <2>2
<1>9. CASE EndPass1
  BY <1>9, ScanGoes DEF EndPass1
<1>10. CASE Again \/ Last \/ Stop \/ StopWalk
  BY <1>10 DEF Again, Last, Stop, StopWalk, Collect, db
<1>11. CASE Submit \/ Drain \/ \E f \in Files : ScanFile(f)
  <2>1. pc = "scan" /\ UNCHANGED <<design, ask, index>> /\ pc' \in {pc, after}
    BY <1>11 DEF Submit, Drain, ScanFile
  <2> QED
    BY <2>1 DEF IInv, ScanOK, Nexts
<1>12. CASE DrainAll
  BY <1>12 DEF DrainAll, db
<1> QED
  BY <1>1, <1>2, <1>3, <1>4, <1>5, <1>6, <1>7, <1>8, <1>9, <1>10, <1>11, <1>12 DEF Collecting

LEMMA FoundKept ==
  ASSUME FoundInv, UNCHANGED <<design, ask, index>>, pc' \notin {"hit", "idle"}
  PROVE  FoundInv'
BY DEF FoundInv, FoundIsThere, Entered, Known

\* An instance is taken from a file that has it.
LEMMA SelectiveFound ==
  ASSUME IInv, FoundInv, design' = design, ask' = ask, pc' = "hit",
         NEW f \in Files, ask.mod \in design.inst[f], Selective(ask.mod, f)
  PROVE  FoundInv'
<1> DEFINE m == ask.mod
           c == Child[m]
<1>1. /\ m \in Mods /\ c \in Mods \cup {None} /\ None \notin Mods /\ None \notin Files
      /\ index \in [Mods -> Files \cup {None}]
  BY TargetType, PwTier0Assumption, FlTreeAssumption DEF IInv, SearchOK
<1>2. m \in design.real[f]
  BY Designed DEF IInv, SearchOK
<1>3. index' = [index EXCEPT ![m] = f, ![c] = IF @ = None THEN f ELSE @]
  BY DEF Selective
<1> HIDE DEF m, c
<1>4. index'[m] = f
  BY <1>1, <1>3
<1>5. ASSUME NEW n \in Mods, index'[n] # None
      PROVE  Entered(n)'
  <2>1. CASE n = m
    BY <1>2, <1>4, <2>1 DEF Entered
  <2>2. CASE n = c /\ n # m /\ index[n] = None
    <3>1. index'[n] = f
      BY <1>1, <1>3, <2>2
    <3> QED
      BY <1>1, <2>2, <3>1 DEF Entered, m, c
  <2>3. CASE n # m /\ (n # c \/ index[n] # None)
    <3>1. index'[n] = index[n]
      BY <1>1, <1>3, <2>3
    <3> QED
      BY <1>5, <3>1 DEF FoundInv, Entered
  <2> QED
    BY <2>1, <2>2, <2>3
<1>6. Known(ask.mod, ask.leaf)'
  BY <1>1, <1>2, <1>4 DEF Known, m
<1> QED
  BY <1>5, <1>6 DEF FoundInv, FoundIsThere

LEMMA FoundNext ==
  ASSUME IInv, FoundInv, [Next]_vars
  PROVE  FoundInv'
<1>1. CASE Collecting
  BY <1>1, CollectingKeeps, FoundKept
<1>2. CASE Ask
  <2>1. /\ UNCHANGED <<design, index>> /\ pc' # "hit"
        /\ pc' = "idle" => Known(ask'.mod, ask'.leaf)
    BY <1>2 DEF Ask, Collect, db
  <2> QED
    BY <2>1 DEF FoundInv, FoundIsThere, Entered, Known
<1>3. CASE Probe
  <2>1. pc = "probe" /\ UNCHANGED <<design, ask>> /\ ask.anchor \in Files
    BY <1>3, TargetType DEF Probe, IInv, SearchOK, Anchored
  <2>2. CASE ask.mod \in design.inst[ask.anchor]
    BY <1>3, <2>1, <2>2, SelectiveFound DEF Probe
  <2>3. CASE ask.mod \notin design.inst[ask.anchor]
    BY <1>3, <2>1, <2>3, FoundKept DEF Probe
  <2> QED
    BY <2>2, <2>3
<1>4. ASSUME NEW f \in Files, TryEdge(f)
      PROVE  FoundInv'
  <2>1. pc = "try" /\ UNCHANGED <<design, ask>>
    BY <1>4 DEF TryEdge
  <2>2. CASE ask.mod \in design.inst[f]
    BY <1>4, <2>1, <2>2, SelectiveFound DEF TryEdge
  <2>3. CASE ask.mod \notin design.inst[f]
    BY <1>4, <2>1, <2>3, FoundKept DEF TryEdge
  <2> QED
    BY <2>2, <2>3
<1>5. ASSUME NEW f \in Files, TryModule(f)
      PROVE  FoundInv'
  <2>1. pc = "try" /\ UNCHANGED <<design, ask>>
    BY <1>5 DEF TryModule
  <2>2. CASE ask.mod \in design.real[f] /\ (ask.leaf => ask.mod \in design.inst[f])
    <3>1. index' = [m \in Mods |-> IF m \in design.real[f] THEN f ELSE index[m]] /\ pc' = "hit"
      BY <1>5, <2>2 DEF TryModule, IndexFile
    <3>2. \A m \in Mods : index'[m] # None => Entered(m)'
      BY <2>1, <3>1 DEF FoundInv, Entered
    <3>3. Known(ask.mod, ask.leaf)'
      BY <2>1, <2>2, <3>1, TargetType, FlTreeAssumption DEF Known, IInv
    <3> QED
      BY <3>1, <3>2, <3>3 DEF FoundInv, FoundIsThere
  <2>3. CASE ~ (ask.mod \in design.real[f] /\ (ask.leaf => ask.mod \in design.inst[f]))
    BY <1>5, <2>1, <2>3, FoundKept DEF TryModule
  <2> QED
    BY <2>2, <2>3
<1>6. ASSUME NEW f \in Files, TryTop(f)
      PROVE  FoundInv'
  <2>1. /\ ask.kind = "top" /\ UNCHANGED <<design, ask>> /\ pc' = "hit"
        /\ index' = [[m \in Mods |-> IF m \in design.real[f] THEN f ELSE index[m]] EXCEPT ![Top] = f]
    BY <1>6 DEF TryTop, IndexFile
  <2>2. \A m \in Mods : index'[m] # None => Entered(m)'
    BY <2>1 DEF FoundInv, Entered
  <2> QED
    BY <2>1, <2>2 DEF FoundInv, FoundIsThere
<1>7. CASE Reply
  <2>1. /\ UNCHANGED <<design, ask, index>> /\ pc' \in {"drain", "idle"} /\ pc \in {"hit", "miss", "defer"}
        /\ answer' = IF pc = "miss" /\ ask.kind = "module" /\ ~ask.leaf /\ index[ask.mod] # None
                     THEN "hit" ELSE pc
    BY <1>7 DEF Reply, db
  <2>2. ASSUME answer' = "hit", ask.kind # "top"
        PROVE  FoundIsThere'
    <3>1. CASE pc = "hit"
      BY <2>1, <2>2, <3>1 DEF FoundInv, FoundIsThere, Known
    <3>2. CASE pc = "miss" /\ ask.kind = "module" /\ ~ask.leaf /\ index[ask.mod] # None
      <4>1. Entered(ask.mod)
        BY <3>2, TargetType DEF FoundInv, IInv
      <4> QED
        BY <2>1, <3>2, <4>1 DEF FoundIsThere, Entered, Known
    <3> QED
      BY <2>1, <2>2, <3>1, <3>2
  <2>3. FoundIsThere'
    BY <2>1, <2>2 DEF FoundIsThere
  <2>4. \A m \in Mods : index'[m] # None => Entered(m)'
    BY <2>1 DEF FoundInv, Entered
  <2> QED
    BY <2>1, <2>3, <2>4 DEF FoundInv
<1>8. CASE (\E f \in Files : Worker(f)) \/ Off \/ UNCHANGED vars
  <2>1. UNCHANGED <<design, ask, index, pc, answer>>
    BY <1>8 DEF Worker, Off, vars, db
  <2> QED
    BY <2>1 DEF FoundInv, FoundIsThere, Entered, Known
<1>9. Walk => \/ Collecting \/ Ask \/ Probe \/ Reply
              \/ \E f \in Files : TryModule(f) \/ TryEdge(f) \/ TryTop(f)
  BY DEF Walk, Collecting
<1> QED
  BY <1>1, <1>2, <1>3, <1>4, <1>5, <1>6, <1>7, <1>8, <1>9 DEF Next

\* A module or an instance reported found is in the file the index names, but for the
\* entries _apply_selective_edge_hit and seed_top_module make unseen: the state of the
\* index holds it for every list of questions, whichever files were tried before.
THEOREM FoundOnlyThere == Spec => []FoundIsThere
<1>1. Init => FoundInv
  BY DEF Init, FoundInv, FoundIsThere, NoAsk
<1>2. IInv /\ FoundInv /\ [Next]_vars => IInv' /\ FoundInv'
  BY NextInv, FoundNext
<1>3. FoundInv => FoundIsThere
  BY DEF FoundInv
<1> QED
  BY <1>1, <1>2, <1>3, InitInv, PTL DEF Spec

-----------------------------------------------------------------------------
(* A confident question stays in its scope.                                *)

\* Where only a recovery question or one without an anchor gets to.
Far == {"shell", "seed", "queue", "expand", "last"}

ScopeInv ==
  Confident /\ Anchored =>
    /\ opened \subseteq Scope
    /\ pc \notin Far
    /\ pc = "scan" => after \notin Far /\ todo \subseteq Scope
    /\ \A i \in DOMAIN cands : cands[i] \subseteq Scope

LEMMA ScanScope ==
  ASSUME NEW F, NEW t, NEW n, n \notin Far, n # "scan", Scan(F, t, n), UNCHANGED <<design, ask>>,
         Pending(F) \subseteq Scope
  PROVE  pc' \notin Far /\ (pc' = "scan" => after' \notin Far /\ todo' \subseteq Scope')
<1>1. Scope' = Scope
  BY DEF Scope, Center, tree
<1>2. "scan" \notin Far
  BY DEF Far
<1> QED
  BY <1>1, <1>2 DEF Scan

\* Neither the files opened nor the candidates change, and the next files to open are of
\* the scope.
LEMMA ScopeKept ==
  ASSUME ScopeInv, UNCHANGED <<design, ask, cands>>,
         Confident /\ Anchored =>
           /\ pc' \notin Far /\ (pc' = "scan" => after' \notin Far /\ todo' \subseteq Scope')
           /\ opened' \subseteq Scope
  PROVE  ScopeInv'
<1>1. Scope' = Scope
  BY DEF Scope, Center, tree
<1> QED
  BY <1>1 DEF ScopeInv, Confident, Anchored

LEMMA PoolScope ==
  ASSUME Confident
  PROVE  /\ Pool = ConfidentPool(tree, ask.anchor)
         /\ Pool \subseteq Scope
         /\ ConfidentExtra(tree, ask.anchor) \subseteq Scope
         /\ Pool = {} => Seed(None, ask.policy) \subseteq Scope
BY DEF Pool, Scope, Seed, Confident

LEMMA RankScope ==
  ASSUME IInv, ScopeInv, Rank
  PROVE  ScopeInv'
<1>1. /\ cands' = AvoidLast(Groups) /\ pc' \in {"probe", "defer", "miss", "try"}
      /\ UNCHANGED <<design, ask, opened>>
  BY DEF Rank, history
<1>2. Scope' = Scope
  BY <1>1 DEF Scope, Center, tree
<1>3. ASSUME Confident, Anchored
      PROVE  \A i \in DOMAIN AvoidLast(Groups) : AvoidLast(Groups)[i] \subseteq Scope
  <2> DEFINE F == map[ask.mod]
             extra == (F \ Pool) \cap ConfidentExtra(tree, ask.anchor)
  <2>1. extra \in SUBSET Scope /\ F \cap Pool \in SUBSET Scope
    BY <1>3, PoolScope
  <2>2. Groups = <<extra, F \cap Pool>> \/ Groups = <<F \cap Pool>>
    BY <1>3 DEF Groups, Confident
  <2>3. Groups \in Seq(SUBSET Scope)
    BY <2>1, <2>2, Pairs
  <2>4. AvoidLast(Groups) \in Seq(SUBSET Scope)
    BY <2>3, AvoidLastType
  <2> HIDE DEF extra, F
  <2> QED
    BY <2>4
<1> QED
  BY <1>1, <1>2, <1>3 DEF ScopeInv, Confident, Anchored, Far

LEMMA TryScope ==
  ASSUME IInv, ScopeInv, NEW f \in Files, TryModule(f) \/ TryEdge(f) \/ TryTop(f)
  PROVE  ScopeInv'
<1>1. /\ opened' = opened \cup {f} /\ pc' \in {"try", "hit"} /\ Next1(f)
      /\ UNCHANGED <<design, ask, cands>>
  BY DEF TryModule, TryEdge, TryTop
<1>2. Confident /\ Anchored => f \in Scope
  BY <1>1 DEF ScopeInv, Next1
<1> QED
  BY <1>1, <1>2, ScopeKept DEF ScopeInv, Far

LEMMA ScopeScans ==
  ASSUME IInv, ScopeInv, Submit \/ Drain \/ \E f \in Files : ScanFile(f)
  PROVE  ScopeInv'
<1>1. pc = "scan" /\ UNCHANGED <<design, ask, cands, after>> /\ todo' \subseteq todo /\ pc' \in {"scan", after}
  BY DEF Submit, Drain, ScanFile, search
<1>2. opened' \subseteq opened \cup todo
  BY DEF Submit, Drain, ScanFile, AtMost
<1>3. Scope' = Scope
  BY <1>1 DEF Scope, Center, tree
<1>4. "scan" \notin Far
  BY DEF Far
<1> QED
  BY <1>1, <1>2, <1>3, <1>4, ScopeKept DEF ScopeInv

LEMMA CollectScope ==
  ASSUME IInv, ScopeInv, ScanPool \/ ScanExtra \/ EndPass0 \/ EndPass1
  PROVE  ScopeInv'
<1>0. UNCHANGED <<design, ask, cands, opened>>
  BY DEF ScanPool, ScanExtra, EndPass0, EndPass1, search
<1> SUFFICES ASSUME Confident, Anchored
             PROVE  pc' \notin Far /\ (pc' = "scan" => after' \notin Far /\ todo' \subseteq Scope')
  BY <1>0, ScopeKept DEF ScopeInv
<1>1. {"extra", "rank", "again", "scan"} \cap Far = {}
  BY DEF Far
<1>2. CASE ScanPool
  <2>1. Scan(Pool, Target(Leafy, ask.policy), "extra")
    BY <1>2 DEF ScanPool
  <2>2. Pending(Pool) \subseteq Scope
    BY PoolScope DEF Pending
  <2> QED
    BY <1>0, <1>1, <2>1, <2>2, ScanScope
<1>3. CASE ScanExtra
  <2> DEFINE more == Pending(ConfidentExtra(tree, ask.anchor))
  <2>1. Pending(more) \subseteq Scope
    BY PoolScope DEF Pending
  <2>2. CASE Scan(more, None, "rank")
    BY <1>0, <1>1, <2>1, <2>2, ScanScope
  <2>3. CASE pc' = "rank"
    BY <1>1, <2>3
  <2> QED
    BY <1>3, <2>2, <2>3 DEF ScanExtra
<1>4. CASE EndPass0
  <2>1. CASE Pool # {}
    <3>1. Scan(Rescan, Target(ask.leaf, "recovery"), "again") /\ Pending(Rescan) \subseteq Scope
      BY <1>4, <2>1, PoolScope DEF EndPass0, Rescan, Pending
    <3> QED
      BY <1>0, <1>1, <3>1, ScanScope
  <2>2. CASE Pool = {} /\ ask.leaf
    <3>1. PICK F \in SUBSET Unscoped(ask.policy) : Scan(F, Target(ask.leaf, ask.policy), "again")
      BY <1>4, <2>2 DEF EndPass0, AtMost
    <3>2. Unscoped(ask.policy) \subseteq Scope
      BY <2>2, PoolScope DEF Unscoped, Pending, Confident
    <3>3. Pending(F) \subseteq Scope
      BY <3>2 DEF Pending
    <3> QED
      BY <1>0, <1>1, <3>1, <3>3, ScanScope
  <2>3. CASE Pool = {} /\ ~ ask.leaf
    <3>1. pc' = "try"
      BY <1>4, <2>3 DEF EndPass0, Exhausted
    <3> QED
      BY <3>1 DEF Far
  <2> QED
    BY <2>1, <2>2, <2>3
<1>5. CASE EndPass1
  BY <1>5 DEF EndPass1, Confident
<1> QED
  BY <1>2, <1>3, <1>4, <1>5

LEMMA ScopeNext ==
  ASSUME IInv, ScopeInv, [Next]_vars
  PROVE  ScopeInv'
<1>1. CASE Rank
  BY <1>1, RankScope
<1>2. CASE \E f \in Files : TryModule(f) \/ TryEdge(f) \/ TryTop(f)
  BY <1>2, TryScope
<1>3. CASE Submit \/ Drain \/ \E f \in Files : ScanFile(f)
  BY <1>3, ScopeScans
<1>4. CASE ScanPool \/ ScanExtra \/ EndPass0 \/ EndPass1
  BY <1>4, CollectScope
<1>5. CASE Ask
  <2>1. opened' = {} /\ cands' = <<>> /\ pc' \in {"idle", "pool", "shell", "seed"}
        /\ (Anchored' => pc' \in {"idle", "pool"})
    BY <1>5 DEF Ask, Collect, Anchored
  <2> QED
    BY <2>1 DEF ScopeInv, Far
<1>6. CASE Probe
  <2>1. /\ opened' = opened \cup {ask.anchor} /\ UNCHANGED <<design, ask, cands>>
        /\ pc' \in {"hit", "defer", "try"}
    BY <1>6 DEF Probe
  <2>2. ask.anchor \in Scope
    BY DEF Scope
  <2> QED
    BY <2>1, <2>2, ScopeKept DEF ScopeInv, Far
<1>7. CASE ScanShell \/ FillQueue \/ ScanQueue \/ Expand \/ Last
  <2>1. pc \in Far /\ UNCHANGED <<design, ask>>
    BY <1>7 DEF ScanShell, FillQueue, ScanQueue, Expand, Last, Far
  <2> QED
    BY <2>1 DEF ScopeInv, Confident, Anchored
<1>8. CASE Again \/ Stop \/ Reply \/ StopWalk \/ DrainAll
  <2>1. /\ UNCHANGED <<design, ask, cands, opened>>
        /\ Anchored => pc' \in {"pool", "try", "defer", "miss", "drain", "idle", "off"} \cup ({pc} \ {"scan"})
    BY <1>8 DEF Again, Stop, Reply, StopWalk, DrainAll, Collect, Anchored, search, history
  <2> QED
    BY <2>1, ScopeKept DEF ScopeInv, Far
<1>9. CASE (\E f \in Files : Worker(f)) \/ Off \/ UNCHANGED vars
  <2>1. UNCHANGED <<design, ask, cands, opened, pc, after, todo>>
    BY <1>9 DEF Worker, Off, vars, search, scan, history
  <2>2. Scope' = Scope
    BY <2>1 DEF Scope, Center, tree
  <2> QED
    BY <2>1, <2>2 DEF ScopeInv, Confident, Anchored
<1> QED
  BY <1>1, <1>2, <1>3, <1>4, <1>5, <1>6, <1>7, <1>8, <1>9 DEF Next, Walk

\* A confident question from an anchor opens only files of its scope
\* (_scoped_child_sources_for_rtl, _confident_tier0_extra_sources), through both passes,
\* the rescan between them and every candidate it tries.
THEOREM ConfidentScope == Spec => []ConfidentStaysScoped
<1>1. Init => ScopeInv
  BY DEF Init, ScopeInv, Anchored, NoAsk
<1>2. IInv /\ ScopeInv /\ [Next]_vars => IInv' /\ ScopeInv'
  BY NextInv, ScopeNext
<1>3. ScopeInv => ConfidentStaysScoped
  BY DEF ScopeInv, ConfidentStaysScoped
<1> QED
  BY <1>1, <1>2, <1>3, InitInv, PTL DEF Spec
=============================================================================
