------------------------ MODULE PwTier0AnswerProofs ------------------------
(* What the answers of PwTier0 mean, for every filelist graph, content of  *)
(* the files, cap and number of workers: a recovery question that finds    *)
(* nothing has looked everywhere it may, and a confident one that is put   *)
(* off for good had nothing to find.                                       *)
EXTENDS PwTier0Proofs

\* The stage the walk is at, or goes on at after the scan.
At == IF pc = "scan" THEN after ELSE pc
Asked == Mapped(ask.mod)
Candidates == UNION {cands[i] : i \in DOMAIN cands}
\* Files of S nobody has opened, and the holders of S.
Open(S) == S \cap Fresh
HoldersIn(S, F) == \A f \in S : Holds(f) => f \in F
\* What a recovery search looks at beyond its pool, the files of the centre,
\* and where the queue starts without an anchor.
Wider == RecoveryExpand(tree, ask.anchor)
Central == FilesOf(tree, {Center})
Seeds == Seed(None, "recovery")

(***************************************************************************)
(* About every question: a scan looks for the module asked for or for      *)
(* nothing in particular, and no file tried so far has the answer.         *)
(***************************************************************************)
QuestionInv ==
  /\ ask.kind = "edge" => ask.leaf
  /\ ask.kind = "top" => Confident /\ ~Anchored
  /\ pc # "scan" => todo = {}
  /\ pc = "scan" => target \in {None, ask.mod}
  /\ At = "extra" => Confident
  /\ At = "last" => ~Confident
  /\ At = "shell" => ~Anchored
  /\ pc = "probe" => pass = 0 /\ ask.kind = "edge"
  /\ pc \notin {"idle", "hit", "drain", "off"} /\ ask.kind # "top" => \A f \in tried : ~Holds(f)

-----------------------------------------------------------------------------
(* What a step leaves alone.                                               *)

LEMMA SameQuestion ==
  ASSUME UNCHANGED <<design, ask>>
  PROVE  /\ Pool' = Pool /\ RecoveryScope' = RecoveryScope /\ Wider' = Wider
         /\ Central' = Central /\ Seeds' = Seeds
         /\ (Confident' <=> Confident) /\ (Anchored' <=> Anchored)
         /\ \A f : Holds(f)' <=> Holds(f)
<1>1. tree' = tree /\ Center' = Center
  BY DEF tree, Center
<1>2. (Confident' <=> Confident) /\ (Anchored' <=> Anchored)
  BY DEF Confident, Anchored
<1>3. Central' = Central
  BY <1>1 DEF Central
<1> QED
  BY <1>1, <1>2, <1>3 DEF Pool, RecoveryScope, Wider, Seeds, Seed, Central, Holds

LEMMA IngestFresh ==
  ASSUME DbOK, design \in Designs, design' = design, Ingest
  PROVE  /\ Fresh' = Fresh /\ lost \subseteq lost' /\ Inflight' = Inflight \ Finished
         /\ scanned' = scanned \cup Finished /\ Finished \subseteq Inflight
         /\ \A m \in Mods : map[m] \subseteq map'[m]
<1>1. Inflight' = Inflight \ Finished /\ \A m \in Mods : map[m] \subseteq map'[m]
  BY IngestOK
<1>2. scanned' = scanned \cup Finished /\ lost \subseteq lost' /\ Finished \subseteq Inflight
  BY DEF Ingest, Finished, Inflight
<1> QED
  BY <1>1, <1>2 DEF Fresh

LEMMA MapType == IInv => map \in [Mods -> SUBSET Files] /\ ask.mod \in Mods /\ design \in Designs
BY TargetType DEF IInv, DbOK, SearchOK

\* A step of a scan: no file of it is dropped unless what it looks for is found.
LEMMA ScanMoves ==
  ASSUME IInv, Submit \/ Drain \/ \E f \in Files : ScanFile(f)
  PROVE  /\ pc = "scan" /\ after \in Nexts
         /\ UNCHANGED <<design, ask, target, after, search, answer, cut, stray>>
         /\ Fresh' \subseteq Fresh /\ lost \subseteq lost'
         /\ \A m \in Mods : map[m] \subseteq map'[m]
         /\ pc' = "scan" \/ (pc' = after /\ todo' = {})
         /\ \/ Fresh' \cap todo \subseteq todo'
            \/ pc' = after /\ target # None /\ map'[target] # {}
<1>1. after \in Nexts /\ design \in Designs /\ pc = "scan"
  BY DEF IInv, ScanOK, SearchOK, Submit, Drain, ScanFile
<1>2. CASE Submit
  <2>1. PICK B \in AtMost(Jobs, todo) :
          /\ job' = [f \in Files |-> IF f \in B THEN "run" ELSE job[f]]
          /\ todo' = todo \ B
    BY <1>2 DEF Submit
  <2>2. UNCHANGED <<design, scanned, map, ask, pc, target, after, search, answer, lost, cut, stray>>
    BY <1>2 DEF Submit
  <2>3. Inflight' = Inflight \cup (B \cap Files)
    BY <2>1 DEF Inflight
  <2>4. todo \subseteq Files
    BY DEF IInv, ScanOK
  <2>5. Fresh' \subseteq Fresh /\ Fresh' \cap todo \subseteq todo'
    BY <2>1, <2>2, <2>3, <2>4 DEF Fresh
  <2> QED
    BY <1>1, <2>2, <2>5
<1>3. CASE Drain
  <2>1. /\ Ingest /\ UNCHANGED <<design, ask, target, after, search, answer, cut, stray>>
        /\ IF Found(map') \/ (Inflight = Finished /\ todo = {})
           THEN pc' = after /\ todo' = {}
           ELSE UNCHANGED <<pc, todo>>
    BY <1>3 DEF Drain
  <2>2. /\ Fresh' = Fresh /\ lost \subseteq lost'
        /\ \A m \in Mods : map[m] \subseteq map'[m]
    BY <1>1, <2>1, IngestFresh DEF IInv
  <2> QED
    BY <1>1, <2>1, <2>2 DEF Found
<1>4. ASSUME NEW f \in Files, ScanFile(f)
      PROVE  /\ UNCHANGED <<design, ask, target, after, search, answer, cut, stray>>
             /\ Fresh' \subseteq Fresh /\ lost \subseteq lost'
             /\ \A m \in Mods : map[m] \subseteq map'[m]
             /\ pc' = "scan" \/ (pc' = after /\ todo' = {})
             /\ \/ Fresh' \cap todo \subseteq todo'
                \/ pc' = after /\ target # None /\ map'[target] # {}
  <2>1. /\ scanned' = scanned \cup {f} /\ UNCHANGED job
        /\ UNCHANGED <<design, ask, target, after, search, answer, cut, stray>>
        /\ IF Found(map') \/ todo = {f} THEN pc' = after /\ todo' = {}
           ELSE todo' = todo \ {f} /\ UNCHANGED pc
    BY <1>4 DEF ScanFile
  <2>2. /\ lost \subseteq lost'
        /\ map' = Note({f}, design.decl) \/ map' = map
    BY <1>4 DEF ScanFile
  <2>3. \A m \in Mods : map[m] \subseteq map'[m]
    BY <1>1, <2>2, NoteType DEF IInv
  <2>4. Inflight' = Inflight
    BY <2>1 DEF Inflight
  <2>5. Fresh' = Fresh \ {f}
    BY <2>1, <2>4 DEF Fresh
  <2> QED
    BY <1>1, <2>1, <2>2, <2>3, <2>5 DEF Found
<1> QED
  BY <1>1, <1>2, <1>3, <1>4

\* A scan begins, or there is nothing to open.
LEMMA ScanStarts ==
  ASSUME IInv, QuestionInv, pc # "scan", UNCHANGED <<design, ask>>,
         NEW F, NEW t, NEW n \in Nexts, Scan(F, t, n)
  PROVE  /\ Fresh' = Fresh /\ lost \subseteq lost' /\ Inflight' \subseteq Inflight
         /\ \A m \in Mods : map[m] \subseteq map'[m]
         /\ todo' = Open(F) /\ At' = n
         /\ \/ pc' = n /\ Open(F) = {} /\ got' = 0
            \/ pc' = "scan" /\ Open(F) # {} /\ target' = t /\ after' = n
                 /\ mode' \in {"sync", "submit"} /\ (OneAtATime(t) => mode' = "sync")
<1>1. todo = {} /\ design \in Designs /\ n # "scan"
  BY NextsTypes, MapType DEF QuestionInv
<1>2. Open(F) = Pending(F)
  BY DEF Open, Pending
<1>3. CASE Pending(F) = {}
  <2>1. Ingest /\ pc' = n /\ got' = 0 /\ todo' = todo
    BY <1>3 DEF Scan
  <2>2. /\ Fresh' = Fresh /\ lost \subseteq lost' /\ Inflight' \subseteq Inflight
        /\ \A m \in Mods : map[m] \subseteq map'[m]
    BY <1>1, <2>1, IngestFresh DEF IInv
  <2> QED
    BY <1>1, <1>2, <1>3, <2>1, <2>2 DEF At
<1>4. CASE Pending(F) # {}
  <2>1. /\ todo' = Pending(F) /\ target' = t /\ after' = n /\ pc' = "scan"
        /\ mode' \in {"sync", "submit"} /\ (OneAtATime(t) => mode' = "sync")
        /\ UNCHANGED <<scanned, job, map, lost>>
    BY <1>4 DEF Scan
  <2>2. Inflight' = Inflight
    BY <2>1 DEF Inflight
  <2>3. Fresh' = Fresh
    BY <2>1, <2>2 DEF Fresh
  <2> QED
    BY <1>2, <1>4, <2>1, <2>2, <2>3 DEF At
<1> QED
  BY <1>3, <1>4
-----------------------------------------------------------------------------
(* QuestionInv is kept.                                                    *)

Over == {"idle", "hit", "drain", "off"}

LEMMA TargetIs == \A leaf : \A policy : Target(leaf, policy) \in {None, ask.mod}
BY DEF Target

LEMMA QuestionStarts ==
  ASSUME IInv, QuestionInv, pc \notin Over \cup {"scan"}, UNCHANGED <<design, ask, tried>>,
         NEW F, NEW t \in {None, ask.mod}, NEW n \in Nexts, Scan(F, t, n),
         n = "extra" => Confident, n = "last" => ~Confident, n = "shell" => ~Anchored
  PROVE  QuestionInv'
<1>1. /\ todo' = Open(F) /\ At' = n
      /\ \/ pc' = n /\ Open(F) = {}
         \/ pc' = "scan" /\ target' = t
  BY ScanStarts
<1>2. n \notin {"probe", "scan"}
  BY NextsTypes
<1>3. (Confident' <=> Confident) /\ (Anchored' <=> Anchored) /\ \A f : Holds(f)' <=> Holds(f)
  BY SameQuestion
<1> QED
  BY <1>1, <1>2, <1>3 DEF QuestionInv, Over

LEMMA QuestionMoves ==
  ASSUME QuestionInv, pc # "scan", UNCHANGED <<design, ask, tried, todo>>,
         pc' \notin {"scan", "extra", "last", "probe"}, pc' = "shell" => ~Anchored,
         pc' \in Over \/ pc \notin Over
  PROVE  QuestionInv'
<1>1. (Confident' <=> Confident) /\ (Anchored' <=> Anchored) /\ \A f : Holds(f)' <=> Holds(f)
  BY SameQuestion
<1> QED
  BY <1>1 DEF QuestionInv, Over, At

LEMMA QuestionScans ==
  ASSUME IInv, QuestionInv, Submit \/ Drain \/ \E f \in Files : ScanFile(f)
  PROVE  QuestionInv'
<1>1. /\ pc = "scan" /\ after \in Nexts /\ UNCHANGED <<design, ask, target, after, search>>
      /\ pc' = "scan" \/ (pc' = after /\ todo' = {})
  BY ScanMoves
<1>2. UNCHANGED <<pass, tried>> /\ after \notin {"probe", "scan"}
  BY <1>1, NextsTypes DEF search
<1>3. (Confident' <=> Confident) /\ (Anchored' <=> Anchored) /\ \A f : Holds(f)' <=> Holds(f)
  BY <1>1, SameQuestion
<1> QED
  BY <1>1, <1>2, <1>3 DEF QuestionInv, At

LEMMA QuestionCollects ==
  ASSUME IInv, QuestionInv, ScanPool \/ ScanExtra \/ ScanShell \/ ScanQueue \/ Expand
  PROVE  QuestionInv'
<1>1. pc \notin Over \cup {"scan"} /\ UNCHANGED <<design, ask, tried>>
  BY DEF ScanPool, ScanExtra, ScanShell, ScanQueue, Expand, search, Over
<1>2. {"extra", "rank", "shell", "queue", "seed"} \subseteq Nexts
  BY DEF Nexts
<1>3. CASE ScanPool
  <2>1. Scan(Pool, Target(Leafy, ask.policy), IF Confident THEN "extra" ELSE "seed")
    BY <1>3 DEF ScanPool
  <2> QED
    BY <1>1, <1>2, <2>1, TargetIs, QuestionStarts
<1>4. CASE ScanExtra
  <2> DEFINE more == Pending(ConfidentExtra(tree, ask.anchor))
  <2>1. CASE Scan(more, None, "rank")
    BY <1>1, <1>2, <2>1, QuestionStarts
  <2>2. CASE pc' = "rank" /\ UNCHANGED scan
    BY <1>1, <2>2, QuestionMoves DEF scan, Over
  <2> QED
    BY <1>4, <2>1, <2>2 DEF ScanExtra
<1>5. CASE ScanShell
  <2>1. CASE pc' \in {"rank", "expand"} /\ UNCHANGED scan
    BY <1>1, <2>1, QuestionMoves DEF scan, Over
  <2>2. ASSUME NEW F, Scan(F, Target(Leafy, ask.policy), "shell")
        PROVE  QuestionInv'
    <3>1. ~Anchored
      BY <1>5 DEF ScanShell, QuestionInv, At
    <3> QED
      BY <1>1, <1>2, <2>2, <3>1, TargetIs, QuestionStarts
  <2>3. CASE UNCHANGED <<scan, pc>>
    <3>1. pc' = "shell" /\ ~Anchored /\ todo' = todo
      BY <1>5, <2>3 DEF ScanShell, QuestionInv, At, scan
    <3> QED
      BY <1>1, <3>1, QuestionMoves DEF Over
  <2> QED
    BY <1>5, <2>1, <2>2, <2>3 DEF ScanShell
<1>6. CASE ScanQueue
  <2>1. CASE pc' \in {"rank", "expand"} /\ UNCHANGED scan
    BY <1>1, <2>1, QuestionMoves DEF scan, Over
  <2>2. ASSUME NEW F, Scan(F, Target(Leafy, ask.policy), "queue")
        PROVE  QuestionInv'
    BY <1>1, <1>2, <2>2, TargetIs, QuestionStarts
  <2> QED
    BY <1>6, <2>1, <2>2 DEF ScanQueue
<1>7. CASE Expand
  <2>1. CASE pc' = "rank" /\ UNCHANGED scan
    BY <1>1, <2>1, QuestionMoves DEF scan, Over
  <2>2. ASSUME NEW F, Scan(F, Target(Leafy, ask.policy), "rank")
        PROVE  QuestionInv'
    BY <1>1, <1>2, <2>2, TargetIs, QuestionStarts
  <2> QED
    BY <1>7, <2>1, <2>2 DEF Expand
<1> QED
  BY <1>3, <1>4, <1>5, <1>6, <1>7

LEMMA QuestionPasses ==
  ASSUME IInv, QuestionInv, EndPass0 \/ EndPass1
  PROVE  QuestionInv'
<1>1. pc = "try" /\ UNCHANGED <<design, ask, tried>>
  BY DEF EndPass0, EndPass1, Exhausted, search
<1>2. {"again", "last"} \subseteq Nexts
  BY DEF Nexts
<1>3. CASE EndPass0
  <2>1. CASE \E F : \E policy : Scan(F, Target(ask.leaf, policy), "again")
    BY <1>1, <1>2, <2>1, TargetIs, QuestionStarts DEF Over
  <2>2. CASE UNCHANGED <<pc, scan>>
    BY <1>1, <2>2, QuestionMoves DEF scan, Over
  <2> QED
    BY <1>3, <2>1, <2>2 DEF EndPass0
<1>4. CASE EndPass1
  <2>1. ~Confident /\ \E F : Scan(F, Target(ask.kind = "edge", "recovery"), "last")
    BY <1>4 DEF EndPass1, Confident
  <2> QED
    BY <1>1, <1>2, <2>1, TargetIs, QuestionStarts DEF Over
<1> QED
  BY <1>3, <1>4

LEMMA QuestionTries ==
  ASSUME IInv, QuestionInv, Probe \/ \E f \in Files : TryModule(f) \/ TryEdge(f) \/ TryTop(f)
  PROVE  QuestionInv'
<1>1. pc \in {"probe", "try"} /\ UNCHANGED <<design, ask, todo>>
  BY DEF Probe, TryModule, TryEdge, TryTop, scan
<1>2. (Confident' <=> Confident) /\ (Anchored' <=> Anchored) /\ \A f : Holds(f)' <=> Holds(f)
  BY <1>1, SameQuestion
<1>3. /\ pc' \in {"hit", "defer", "try"}
      /\ pc' # "hit" /\ ask.kind # "top" => \A f \in tried' : ~Holds(f)
  <2>1. CASE Probe
    <3>1. ask.leaf
      BY <2>1 DEF Probe, QuestionInv
    <3> QED
      BY <2>1, <3>1 DEF Probe, Holds
  <2>2. ASSUME NEW f \in Files, TryModule(f)
        PROVE  pc' \in {"hit", "try"} /\ tried' = tried \cup {f} /\ (pc' # "hit" => ~Holds(f))
    BY <2>2 DEF TryModule, Holds
  <2>3. ASSUME NEW f \in Files, TryEdge(f)
        PROVE  pc' \in {"hit", "try"} /\ tried' = tried \cup {f} /\ (pc' # "hit" => ~Holds(f))
    <3>1. ask.leaf
      BY <2>3 DEF TryEdge, QuestionInv
    <3> QED
      BY <2>3, <3>1 DEF TryEdge, Holds
  <2>4. ASSUME NEW f \in Files, TryTop(f)
        PROVE  pc' = "hit"
    BY <2>4 DEF TryTop
  <2> QED
    BY <1>1, <2>1, <2>2, <2>3, <2>4 DEF QuestionInv
<1> QED
  BY <1>1, <1>2, <1>3 DEF QuestionInv, At

LEMMA QuestionNext ==
  ASSUME IInv, QuestionInv, [Next]_vars
  PROVE  QuestionInv'
<1>1. CASE Submit \/ Drain \/ \E f \in Files : ScanFile(f)
  BY <1>1, QuestionScans
<1>2. CASE ScanPool \/ ScanExtra \/ ScanShell \/ ScanQueue \/ Expand
  BY <1>2, QuestionCollects
<1>3. CASE EndPass0 \/ EndPass1
  BY <1>3, QuestionPasses
<1>4. CASE Probe \/ \E f \in Files : TryModule(f) \/ TryEdge(f) \/ TryTop(f)
  BY <1>4, QuestionTries
<1>5. CASE FillQueue \/ Again \/ Last \/ Stop \/ Reply \/ StopWalk \/ DrainAll
  <2>1. /\ pc # "scan" /\ UNCHANGED <<design, ask, tried, todo>>
        /\ pc' \notin {"scan", "extra", "last", "probe"}
        /\ pc' = "shell" => ~Anchored
        /\ pc' \in Over \/ pc \notin Over
    BY <1>5 DEF FillQueue, Again, Last, Stop, Reply, StopWalk, DrainAll, Collect, search, scan,
                Anchored, Over, Exhausted
  <2> QED
    BY <2>1, QuestionMoves
<1>6. CASE Rank
  <2>1. /\ UNCHANGED <<design, ask, tried, todo, pass>> /\ pc = "rank" /\ pc' # "scan"
        /\ pc' \in {"probe", "defer", "miss", "try"}
        /\ pc' = "probe" => pass = 0 /\ ask.kind = "edge"
    BY <1>6 DEF Rank, scan
  <2>2. (Confident' <=> Confident) /\ (Anchored' <=> Anchored) /\ \A f : Holds(f)' <=> Holds(f)
    BY <2>1, SameQuestion
  <2> QED
    BY <2>1, <2>2 DEF QuestionInv, At
<1>7. CASE Ask
  <2>1. PICK q \in Question :
          /\ IF asked = 0 THEN q = [NoAsk EXCEPT !.mod = Top] ELSE q.kind # "top"
          /\ q.kind = "edge" => q.leaf
          /\ ask' = q /\ (pc' = "idle" \/ Collect(q.anchor))
    BY <1>7 DEF Ask
  <2>2. tried' = {} /\ pc = "idle" /\ todo' = todo
    BY <1>7 DEF Ask, scan
  <2>3. q.kind = "top" => Confident' /\ ~Anchored'
    BY <2>1 DEF NoAsk, Confident, Anchored
  <2>4. pc' \in {"idle", "pool", "seed", "shell"} /\ (pc' = "shell" => ~Anchored')
    BY <2>1 DEF Collect, Anchored
  <2> QED
    BY <2>1, <2>2, <2>3, <2>4 DEF QuestionInv, At
<1>8. CASE (\E f \in Files : Worker(f)) \/ Off \/ UNCHANGED vars
  <2>1. UNCHANGED <<design, ask, pc, after, todo, target, tried, pass>>
    BY <1>8 DEF Worker, Off, vars, db, scan, search
  <2>2. (Confident' <=> Confident) /\ (Anchored' <=> Anchored) /\ \A f : Holds(f)' <=> Holds(f)
    BY <2>1, SameQuestion
  <2> QED
    BY <2>1, <2>2 DEF QuestionInv, At
<1> QED
  BY <1>1, <1>2, <1>3, <1>4, <1>5, <1>6, <1>7, <1>8 DEF Next, Walk

LEMMA QuestionInit == Init => QuestionInv
BY DEF Init, QuestionInv, NoAsk, Confident, Anchored, At

(***************************************************************************)
(* A recovery question.  Two scans lead to its last round: one of the pool *)
(* after the first pass and one of the rest after the second.  Either they *)
(* are complete or the module has a file by then, and the last round,      *)
(* which scans for nothing in particular, makes up for what they left.     *)
(***************************************************************************)
Excused == lost \cup Inflight \cup (cut \ scanned)

LastRound ==
  /\ pc = "scan" => target = None
  /\ Anchored =>
       /\ At \in {"seed", "queue", "expand", "rank", "try"} => Open(Pool) \subseteq cut \cup todo
       /\ At \in {"rank", "try"} => Open(Wider) \subseteq cut \cup todo
  /\ ~Anchored =>
       /\ At = "shell" => shell = 0 \/ count >= GlobalMax \/ Open(Central) \subseteq todo
       /\ At = "queue" /\ ~UseGlobal => Open(Seeds) \subseteq queue \cup todo
       /\ At = "expand" /\ ~UseGlobal => Open(Seeds) \subseteq todo
       /\ At \in {"rank", "try"} => Fresh \subseteq cut \cup todo

MissInv ==
  ~Confident =>
    /\ Anchored /\ At = "again" => Asked \/ Open(Pool) \subseteq todo
    /\ Anchored /\ pass = 1 => Asked \/ Open(Pool) = {}
    /\ At = "last" => Asked \/ Open(RecoveryScope) \subseteq cut \cup todo
    /\ pass = 2 => Open(RecoveryScope) \subseteq cut \/ (Asked /\ LastRound)
    /\ pc = "try" /\ pass = 2 => HoldersIn(RecoveryScope, Excused \cup Candidates)
    /\ pc = "miss" \/ (pc = "idle" /\ answer = "miss") => HoldersIn(RecoveryScope, Excused)

LEMMA ScopeIs ==
  ASSUME ~Confident
  PROVE  /\ Anchored => RecoveryScope = Pool \cup Wider
         /\ ~Anchored => RecoveryScope = Files
BY DEF RecoveryScope, Pool, Wider

LEMMA ScopeInFiles == IInv => RecoveryScope \subseteq Files /\ (Anchored => Pool \subseteq Files)
<1> SUFFICES ASSUME IInv
             PROVE  RecoveryScope \subseteq Files /\ (Anchored => Pool \subseteq Files)
  OBVIOUS
<1>1. Anchored => ask.anchor \in Files
  BY DEF IInv, SearchOK, Question, Anchored
<1>2. /\ \A L : FilesOf(tree, L) \subseteq Files
      /\ \A l : AncestorDirect(tree, l) \subseteq Files /\ SiblingFiles(tree, l) \subseteq Files
  BY DEF FilesOf, AncestorDirect, SiblingFiles
<1>3. Anchored => /\ RecoveryPool(tree, ask.anchor) \subseteq Files
                  /\ ConfidentPool(tree, ask.anchor) \subseteq Files
  BY <1>1, <1>2 DEF RecoveryPool, ConfidentPool
<1>4. Anchored => RecoveryExpand(tree, ask.anchor) \subseteq Files
  BY <1>2, <1>3 DEF RecoveryExpand
<1> QED
  BY <1>3, <1>4 DEF RecoveryScope, Pool

LEMMA StillAsked ==
  ASSUME IInv, ask' = ask, \A m \in Mods : map[m] \subseteq map'[m]
  PROVE  Asked => Asked'
BY MapType DEF Asked, Mapped

LEMMA Recovers == IInv /\ ~Confident => ask.policy = "recovery"
BY DEF IInv, SearchOK, Question, Policies, Confident

LEMMA LastTarget ==
  ASSUME IInv, pass = 2, Asked, ~Confident
  PROVE  Target(Leafy, ask.policy) = None
BY Recovers DEF Target, Asked

\* Where a scan of the last round ends nothing of it is left.
LEMMA MissScans ==
  ASSUME IInv, QuestionInv, MissInv, Submit \/ Drain \/ \E f \in Files : ScanFile(f)
  PROVE  MissInv'
<1>1. /\ pc = "scan" /\ after \in Nexts
      /\ UNCHANGED <<design, ask, target, after, search, answer, cut, stray>>
      /\ Fresh' \subseteq Fresh /\ lost \subseteq lost'
      /\ \A m \in Mods : map[m] \subseteq map'[m]
      /\ pc' = "scan" \/ (pc' = after /\ todo' = {})
      /\ \/ Fresh' \cap todo \subseteq todo'
         \/ pc' = after /\ target # None /\ map'[target] # {}
  BY ScanMoves
<1>2. UNCHANGED <<queue, shell, count, pass, cands>>
  BY <1>1 DEF search
<1>3. /\ Pool' = Pool /\ RecoveryScope' = RecoveryScope /\ Wider' = Wider
      /\ Central' = Central /\ Seeds' = Seeds
      /\ (Confident' <=> Confident) /\ (Anchored' <=> Anchored)
  BY <1>1, SameQuestion
<1>4. Asked => Asked'
  BY <1>1, StillAsked
<1>5. At' = At /\ pc' \notin {"try", "miss", "idle"} /\ At \in Nexts
  BY <1>1, NextsTypes DEF At, Nexts
<1>6. Fresh' \cap todo \subseteq todo' \/ (Asked' /\ target # None)
  BY <1>1 DEF QuestionInv, Asked, Mapped
<1>7. LastRound => LastRound'
  BY <1>1, <1>2, <1>3, <1>5, <1>6 DEF LastRound, Open
<1> QED
  BY <1>1, <1>2, <1>3, <1>4, <1>5, <1>6, <1>7 DEF MissInv, Open

LEMMA MissPool ==
  ASSUME IInv, QuestionInv, MissInv, ScanPool
  PROVE  MissInv'
<1>1. /\ pc = "pool" /\ UNCHANGED <<design, ask, search, answer, cut>>
      /\ Scan(Pool, Target(Leafy, ask.policy), IF Confident THEN "extra" ELSE "seed")
  BY DEF ScanPool
<1>2. /\ Pool' = Pool /\ RecoveryScope' = RecoveryScope /\ Wider' = Wider
      /\ Central' = Central /\ Seeds' = Seeds
      /\ (Confident' <=> Confident) /\ (Anchored' <=> Anchored)
  BY <1>1, SameQuestion
<1> SUFFICES ASSUME ~Confident PROVE MissInv'
  BY <1>2 DEF MissInv
<1>3. /\ Fresh' = Fresh /\ todo' = Open(Pool) /\ At' = "seed"
      /\ \A m \in Mods : map[m] \subseteq map'[m]
      /\ pc' = "seed" \/ (pc' = "scan" /\ target' = Target(Leafy, ask.policy))
  BY <1>1, ScanStarts DEF Nexts
<1>4. (Asked => Asked') /\ UNCHANGED <<queue, shell, count, pass, cands>>
  BY <1>1, <1>3, StillAsked DEF search
<1>5. pass = 2 /\ Asked => LastRound'
  BY <1>1, <1>2, <1>3, <1>4, LastTarget DEF LastRound, Open
<1> QED
  BY <1>1, <1>2, <1>3, <1>4, <1>5 DEF MissInv, Open

LEMMA MissFill ==
  ASSUME IInv, QuestionInv, MissInv, FillQueue
  PROVE  MissInv'
<1>1. /\ pc = "seed" /\ queue' = Pending(Seed(ask.anchor, ask.policy)) /\ pc' = "queue"
      /\ UNCHANGED <<design, db, ask, scan, shell, pass, cands, answer, lost, cut>>
  BY DEF FillQueue, history
<1>2. /\ Pool' = Pool /\ RecoveryScope' = RecoveryScope /\ Wider' = Wider
      /\ Central' = Central /\ Seeds' = Seeds
      /\ (Confident' <=> Confident) /\ (Anchored' <=> Anchored)
  BY <1>1, SameQuestion
<1> SUFFICES ASSUME ~Confident PROVE MissInv'
  BY <1>2 DEF MissInv
<1>3. UNCHANGED <<map, todo, target>> /\ Fresh' = Fresh /\ (Asked' <=> Asked)
  BY <1>1 DEF db, scan, Fresh, Inflight, Asked, Mapped
<1>4. ~Anchored => Seeds \cap Fresh \subseteq queue'
  BY <1>1, Recovers DEF Pending, Seeds, Seed, Anchored
<1>5. At = "seed" /\ At' = "queue"
  BY <1>1 DEF At
<1>6. LastRound => LastRound'
  BY <1>1, <1>2, <1>3, <1>4, <1>5 DEF LastRound, Open
<1> QED
  BY <1>1, <1>2, <1>3, <1>5, <1>6 DEF MissInv, Open

LEMMA AllOrFull ==
  ASSUME NEW k \in Nat, NEW S, S \subseteq Files, NEW T \in AtMost(k, S)
  PROVE  T \subseteq S /\ (T = S \/ Cardinality(T) = k)
<1>1. T \in SUBSET S /\ (Cardinality(T) = k \/ Cardinality(T) = Cardinality(S))
  BY DEF AtMost
<1>2. IsFiniteSet(S)
  BY FilesFinite
<1> QED
  BY <1>1, <1>2, FS_Subset

\* The first shell is the centre, and a shell is scanned whole or up to the cap.
LEMMA MissShell ==
  ASSUME IInv, QuestionInv, MissInv, ScanShell
  PROVE  MissInv'
<1>1. /\ pc = "shell" /\ UNCHANGED <<design, ask, queue, pass, cands, answer>>
      /\ At = "shell" /\ ~Anchored /\ todo = {}
  BY DEF ScanShell, QuestionInv, At
<1>2. /\ Pool' = Pool /\ RecoveryScope' = RecoveryScope /\ Wider' = Wider
      /\ Central' = Central /\ Seeds' = Seeds
      /\ (Confident' <=> Confident) /\ (Anchored' <=> Anchored)
  BY <1>1, SameQuestion
<1> SUFFICES ASSUME ~Confident PROVE MissInv'
  BY <1>2 DEF MissInv
<1>3. GlobalMax \in Nat /\ count \in Nat /\ shell \in Nat
  BY PwTier0Assumption DEF IInv, SearchOK
<1>4. RecoveryScope = Files /\ Fresh \subseteq Files
  BY <1>1, ScopeIs DEF Fresh
<1>5. CASE /\ Shell(tree, Center, shell) = {} \/ count >= GlobalMax
           /\ pc' = "expand" /\ cut' = IF count >= GlobalMax THEN cut \cup Fresh ELSE cut
           /\ UNCHANGED <<db, scan, lost, shell, count>>
  <2>1. /\ Fresh' = Fresh /\ (Asked' <=> Asked) /\ UNCHANGED <<todo, target>> /\ At' = "expand"
    BY <1>1, <1>5 DEF db, scan, Fresh, Inflight, Asked, Mapped, At
  <2>2. CASE count >= GlobalMax
    <3>1. Open(RecoveryScope)' \subseteq cut'
      BY <1>2, <1>5, <2>1, <2>2 DEF Open
    <3> QED
      BY <1>1, <1>2, <1>5, <2>1, <3>1 DEF MissInv
  <2>3. CASE ~(count >= GlobalMax)
    <3>1. shell # 0
      BY <1>5, <2>3 DEF Shell
    <3>2. ~UseGlobal => Seeds \subseteq Central
      BY DEF Seeds, Seed, Central
    <3>3. LastRound => LastRound'
      BY <1>1, <1>2, <1>5, <2>1, <2>3, <3>1, <3>2 DEF LastRound, Open
    <3> QED
      BY <1>1, <1>2, <1>5, <2>1, <2>3, <3>3 DEF MissInv, Open
  <2> QED
    BY <2>2, <2>3
<1>6. ASSUME ~(count >= GlobalMax),
             NEW F \in AtMost(GlobalMax - count, Pending(FilesOf(tree, Shell(tree, Center, shell)))),
             shell' = Deeper, count' = count + Cardinality(F), cut' = cut,
             IF F = {} THEN UNCHANGED <<db, scan, lost, pc>>
             ELSE Scan(F, Target(Leafy, ask.policy), "shell")
      PROVE  MissInv'
  <2> DEFINE P == Pending(FilesOf(tree, Shell(tree, Center, shell)))
  <2>1. shell' # 0
    BY <1>3, <1>6 DEF Deeper
  <2>2. F \subseteq P /\ (F = P \/ count' >= GlobalMax)
    <3>1. GlobalMax - count \in Nat
      BY <1>3, <1>6
    <3>2. P \subseteq Files
      BY PendingType
    <3> HIDE DEF P
    <3>3. F \subseteq P /\ (F = P \/ Cardinality(F) = GlobalMax - count)
      BY <1>6, <3>1, <3>2, AllOrFull DEF P
    <3> QED
      BY <1>3, <1>6, <3>3
  <2>3. F \subseteq Fresh /\ (shell = 0 => P = Open(Central))
    BY <2>2 DEF Pending, Open, Central, Shell
  <2>4. /\ Fresh' = Fresh /\ (Asked => Asked') /\ todo' = F /\ At' = "shell"
        /\ pc' = "shell" \/ (pc' = "scan" /\ target' = Target(Leafy, ask.policy))
    <3>1. CASE F = {}
      BY <1>1, <1>6, <3>1 DEF db, scan, Fresh, Inflight, Asked, Mapped, At
    <3>2. CASE F # {}
      <4>1. Scan(F, Target(Leafy, ask.policy), "shell") /\ "shell" \in Nexts
        BY <1>6, <3>2 DEF Nexts
      <4>2. /\ Fresh' = Fresh /\ todo' = Open(F) /\ At' = "shell"
            /\ \A m \in Mods : map[m] \subseteq map'[m]
            /\ pc' = "shell" \/ (pc' = "scan" /\ target' = Target(Leafy, ask.policy))
        BY <1>1, <4>1, ScanStarts
      <4> QED
        BY <1>1, <2>3, <4>2, StillAsked DEF Open
    <3> QED
      BY <3>1, <3>2
  <2>5. LastRound /\ pass = 2 /\ Asked => LastRound'
    <3> SUFFICES ASSUME LastRound, pass = 2, Asked PROVE LastRound'
      OBVIOUS
    <3>1. count' >= GlobalMax \/ Open(Central)' \subseteq todo'
      <4>1. CASE shell = 0
        BY <1>2, <2>2, <2>3, <2>4, <4>1 DEF Open
      <4>2. CASE shell # 0
        BY <1>1, <1>2, <1>3, <1>6, <2>4, <4>2 DEF Open, LastRound
      <4> QED
        BY <4>1, <4>2
    <3> HIDE DEF P
    <3> QED
      BY <1>1, <1>2, <2>4, <3>1, LastTarget DEF LastRound
  <2> HIDE DEF P
  <2> QED
    BY <1>1, <1>2, <1>6, <2>4, <2>5 DEF MissInv, Open
<1>7. \/ /\ Shell(tree, Center, shell) = {} \/ count >= GlobalMax
         /\ pc' = "expand" /\ cut' = IF count >= GlobalMax THEN cut \cup Fresh ELSE cut
         /\ UNCHANGED <<db, scan, lost, shell, count>>
      \/ /\ ~(count >= GlobalMax)
         /\ \E F \in AtMost(GlobalMax - count, Pending(FilesOf(tree, Shell(tree, Center, shell)))) :
              /\ shell' = Deeper /\ count' = count + Cardinality(F) /\ cut' = cut
              /\ IF F = {} THEN UNCHANGED <<db, scan, lost, pc>>
                 ELSE Scan(F, Target(Leafy, ask.policy), "shell")
  BY DEF ScanShell, NoMore
<1> QED
  BY <1>5, <1>6, <1>7

LEMMA MissQueue ==
  ASSUME IInv, QuestionInv, MissInv, ScanQueue
  PROVE  MissInv'
<1>1. /\ pc = "queue" /\ UNCHANGED <<design, ask, shell, pass, cands, answer>>
      /\ At = "queue" /\ todo = {}
  BY DEF ScanQueue, QuestionInv, At
<1>2. /\ Pool' = Pool /\ RecoveryScope' = RecoveryScope /\ Wider' = Wider
      /\ Central' = Central /\ Seeds' = Seeds
      /\ (Confident' <=> Confident) /\ (Anchored' <=> Anchored)
  BY <1>1, SameQuestion
<1> SUFFICES ASSUME ~Confident PROVE MissInv'
  BY <1>2 DEF MissInv
<1>3. ~Anchored => RecoveryScope = Files /\ Fresh \subseteq Files
  BY ScopeIs DEF Fresh
<1>4. CASE /\ pc' = "expand" /\ UNCHANGED <<db, scan, lost, count>>
           /\ cut' = IF queue = {} THEN cut ELSE cut \cup (IF Anchored THEN queue ELSE Fresh)
  <2>1. /\ Fresh' = Fresh /\ (Asked' <=> Asked) /\ UNCHANGED <<todo, target>> /\ At' = "expand"
    BY <1>1, <1>4 DEF db, scan, Fresh, Inflight, Asked, Mapped, At
  <2>2. CASE queue # {} /\ ~Anchored
    <3>1. Open(RecoveryScope)' \subseteq cut'
      BY <1>2, <1>3, <1>4, <2>1, <2>2 DEF Open
    <3> QED
      BY <1>1, <1>2, <1>4, <2>1, <2>2, <3>1 DEF MissInv
  <2>3. CASE queue = {} \/ Anchored
    <3>1. LastRound => LastRound'
      BY <1>1, <1>2, <1>4, <2>1, <2>3 DEF LastRound, Open
    <3> QED
      BY <1>1, <1>2, <1>4, <2>1, <2>3, <3>1 DEF MissInv, Open
  <2> QED
    BY <2>2, <2>3
<1>5. ASSUME NEW B \in SUBSET queue, queue' = queue \ B, cut' = cut,
             Scan(B, Target(Leafy, ask.policy), "queue")
      PROVE  MissInv'
  <2>1. /\ Fresh' = Fresh /\ todo' = Open(B) /\ At' = "queue"
        /\ \A m \in Mods : map[m] \subseteq map'[m]
        /\ pc' = "queue" \/ (pc' = "scan" /\ target' = Target(Leafy, ask.policy))
    BY <1>1, <1>5, ScanStarts DEF Nexts
  <2>2. Asked => Asked'
    BY <1>1, <2>1, StillAsked
  <2>3. LastRound /\ pass = 2 /\ Asked => LastRound'
    BY <1>1, <1>2, <1>5, <2>1, LastTarget DEF LastRound, Open
  <2> QED
    BY <1>1, <1>2, <1>5, <2>1, <2>2, <2>3 DEF MissInv, Open
<1> QED
  BY <1>4, <1>5 DEF ScanQueue, NoMore, AtMost

LEMMA MissExpand ==
  ASSUME IInv, QuestionInv, MissInv, Expand
  PROVE  MissInv'
<1>1. /\ pc = "expand" /\ UNCHANGED <<design, ask, search, answer>>
      /\ At = "expand" /\ todo = {}
  BY DEF Expand, QuestionInv, At
<1>2. /\ Pool' = Pool /\ RecoveryScope' = RecoveryScope /\ Wider' = Wider
      /\ Central' = Central /\ Seeds' = Seeds
      /\ (Confident' <=> Confident) /\ (Anchored' <=> Anchored)
  BY <1>1, SameQuestion
<1> SUFFICES ASSUME ~Confident PROVE MissInv'
  BY <1>2 DEF MissInv
<1>3. PICK F \in SUBSET Expansion :
        /\ cut' = cut \cup (Expansion \ F)
        /\ IF F = {} THEN pc' = "rank" /\ UNCHANGED <<db, scan, lost>>
           ELSE Scan(F, Target(Leafy, ask.policy), "rank")
  BY DEF Expand, AtMost
<1>4. Expansion \subseteq Fresh
  BY DEF Expansion, Pending, Fresh
<1>5. /\ Fresh' = Fresh /\ (Asked => Asked') /\ todo' = F /\ At' = "rank"
      /\ pc' = "rank" \/ (pc' = "scan" /\ target' = Target(Leafy, ask.policy))
  <2>1. CASE F = {}
    BY <1>1, <1>3, <2>1 DEF db, scan, Fresh, Inflight, Asked, Mapped, At
  <2>2. CASE F # {}
    <3>1. Scan(F, Target(Leafy, ask.policy), "rank") /\ "rank" \in Nexts
      BY <1>3, <2>2 DEF Nexts
    <3>2. /\ Fresh' = Fresh /\ todo' = Open(F) /\ At' = "rank"
          /\ \A m \in Mods : map[m] \subseteq map'[m]
          /\ pc' = "rank" \/ (pc' = "scan" /\ target' = Target(Leafy, ask.policy))
      BY <1>1, <3>1, ScanStarts
    <3> QED
      BY <1>1, <1>4, <3>2, StillAsked DEF Open
  <2> QED
    BY <2>1, <2>2
<1>6. UNCHANGED <<shell, count, queue, pass, cands>>
  BY <1>1 DEF search
<1>7. LastRound /\ pass = 2 /\ Asked => LastRound'
  <2> SUFFICES ASSUME LastRound, pass = 2, Asked PROVE LastRound'
    OBVIOUS
  <2>1. CASE Anchored
    <3>1. Expansion = Open(Wider)
      BY <2>1 DEF Expansion, Open, Wider, Pending
    <3> QED
      BY <1>1, <1>2, <1>3, <1>5, <2>1, <3>1, LastTarget DEF LastRound, Open
  <2>2. CASE ~Anchored
    <3>1. Expansion = Fresh
      BY <1>1, <2>2 DEF LastRound, Expansion, Open, Pending, Seeds, Fresh
    <3> QED
      BY <1>2, <1>3, <1>5, <2>2, <3>1, LastTarget DEF LastRound
  <2> QED
    BY <2>1, <2>2
<1> QED
  BY <1>1, <1>2, <1>3, <1>5, <1>6, <1>7 DEF MissInv, Open

-----------------------------------------------------------------------------
(* The candidates.                                                         *)

\* A holder that is not open has been read, or an exception keeps it out.
LEMMA HolderIsKnown ==
  ASSUME IInv, NEW f \in Files, Holds(f), f \notin Fresh
  PROVE  f \in lost \cup Inflight \cup map[ask.mod]
BY DEF IInv, DbOK, NothingLost, Holds, Fresh

LEMMA AvoidedStay ==
  ASSUME NEW S, NEW G \in Seq(SUBSET S), NEW i \in DOMAIN G, NEW f \in G[i]
  PROVE  \E j \in DOMAIN AvoidLast(G) : f \in AvoidLast(G)[j]
<1> DEFINE kept == [k \in DOMAIN G |-> G[k] \ {Avoided}]
           all == UNION {G[k] : k \in DOMAIN G}
<1>1. DOMAIN G = 1..Len(G) /\ Len(G) \in Nat /\ \A k \in DOMAIN G : G[k] \in SUBSET S
  OBVIOUS
<1>2. kept \in Seq(SUBSET S) /\ Len(kept) = Len(G)
  <2>1. \A k \in 1..Len(G) : kept[k] \in SUBSET S
    BY <1>1
  <2> QED
    BY <1>1, <2>1
<1>3. all \cap {Avoided} \in SUBSET S /\ f \in all
  BY <1>1
<1>4. AvoidLast(G) = kept \o <<all \cap {Avoided}>>
  BY DEF AvoidLast
<1>5. CASE f = Avoided
  <2>1. f \in all \cap {Avoided}
    BY <1>3, <1>5
  <2> HIDE DEF kept, all
  <2>2. Len(G) + 1 \in DOMAIN AvoidLast(G) /\ AvoidLast(G)[Len(G) + 1] = all \cap {Avoided}
    BY <1>1, <1>2, <1>3, <1>4
  <2> QED
    BY <2>1, <2>2
<1>6. CASE f # Avoided
  <2>1. f \in kept[i]
    BY <1>6
  <2> HIDE DEF kept, all
  <2>2. i \in DOMAIN AvoidLast(G) /\ AvoidLast(G)[i] = kept[i]
    BY <1>1, <1>2, <1>3, <1>4
  <2> QED
    BY <2>1, <2>2
<1> QED
  BY <1>5, <1>6

\* Every file that maps the module is a candidate, but for a confident question those of
\* the pool only.
LEMMA RankedIn ==
  ASSUME IInv, NEW f \in map[ask.mod], ~Confident \/ ~Anchored \/ f \in Pool
  PROVE  \E j \in DOMAIN AvoidLast(Groups) : f \in AvoidLast(Groups)[j]
<1> DEFINE F == map[ask.mod]
           out == F \ Pool
           extra == out \cap ConfidentExtra(tree, ask.anchor)
<1>1. {F, F \cap Pool, out, extra} \subseteq SUBSET Files
  BY MapType
<1>2. Groups \in {<<F>>, <<F \cap Pool, out>>, <<extra, F \cap Pool>>, <<F \cap Pool>>}
  BY DEF Groups
<1>3. Groups \in Seq(SUBSET Files)
  BY <1>1, <1>2, Pairs
<1>4. \E i \in DOMAIN Groups : f \in Groups[i]
  <2>1. CASE ~Anchored
    <3>1. Groups = <<F>>
      BY <2>1 DEF Groups
    <3> QED
      BY <3>1
  <2>2. CASE Anchored /\ ~Confident
    <3>1. Groups = <<F \cap Pool, out>>
      BY <2>2 DEF Groups
    <3> QED
      BY <3>1
  <2>3. CASE Anchored /\ Confident
    <3>1. f \in F \cap Pool
      BY <2>3
    <3>2. Groups = <<extra, F \cap Pool>> \/ Groups = <<F \cap Pool>>
      BY <2>3 DEF Groups
    <3> HIDE DEF F, extra, out
    <3> QED
      BY <3>1, <3>2
  <2> QED
    BY <2>1, <2>2, <2>3
<1> QED
  BY <1>3, <1>4, AvoidedStay

LEMMA MissRank ==
  ASSUME IInv, QuestionInv, MissInv, Rank
  PROVE  MissInv'
<1>1. /\ pc = "rank" /\ cands' = AvoidLast(Groups) /\ At = "rank" /\ todo = {}
      /\ UNCHANGED <<design, db, ask, scan, queue, shell, count, pass, tried, answer, lost, cut>>
      /\ pc' \in {"probe", "defer", "miss", "try"}
      /\ ~Confident /\ pc' = "miss" => pass = 2 /\ Candidates' \subseteq tried
  BY DEF Rank, history, QuestionInv, At, Candidates
<1>2. /\ Pool' = Pool /\ RecoveryScope' = RecoveryScope /\ Wider' = Wider
      /\ Central' = Central /\ Seeds' = Seeds
      /\ (Confident' <=> Confident) /\ (Anchored' <=> Anchored) /\ \A f : Holds(f)' <=> Holds(f)
  BY <1>1, SameQuestion
<1> SUFFICES ASSUME ~Confident PROVE MissInv'
  BY <1>2 DEF MissInv
<1>3. UNCHANGED <<scanned, Inflight, todo, target>> /\ Fresh' = Fresh /\ (Asked' <=> Asked)
  BY <1>1 DEF db, scan, Fresh, Inflight, Asked, Mapped
<1>4. At' = pc' /\ Excused' = Excused
  BY <1>1, <1>3 DEF At, Excused
<1>5. ASSUME pass = 2 PROVE HoldersIn(RecoveryScope, Excused \cup Candidates')
  <2>1. Open(RecoveryScope) \subseteq cut
    BY <1>1, <1>5, ScopeIs DEF MissInv, LastRound, Open, Fresh
  <2>2. RecoveryScope \subseteq Files
    BY ScopeInFiles
  <2>3. ASSUME NEW f \in RecoveryScope, Holds(f)
        PROVE  f \in Excused \cup Candidates'
    <3>1. CASE f \in Fresh
      BY <2>1, <3>1 DEF Open, Excused, Fresh
    <3>2. CASE f \notin Fresh
      <4>1. f \in lost \cup Inflight \cup map[ask.mod]
        BY <2>2, <2>3, <3>2, HolderIsKnown
      <4>2. CASE f \in map[ask.mod]
        <5>1. \E j \in DOMAIN cands' : f \in cands'[j]
          BY <1>1, <4>2, RankedIn
        <5> QED
          BY <5>1 DEF Candidates
      <4> QED
        BY <4>1, <4>2 DEF Excused
    <3> QED
      BY <3>1, <3>2
  <2> QED
    BY <2>3 DEF HoldersIn
<1>6. pc' = "miss" => HoldersIn(RecoveryScope, Excused)
  BY <1>1, <1>5 DEF HoldersIn, QuestionInv
<1>7. LastRound => LastRound'
  BY <1>1, <1>2, <1>3, <1>4 DEF LastRound, Open
<1>8. HoldersIn(RecoveryScope, Excused)' <=> HoldersIn(RecoveryScope, Excused)
  BY <1>2, <1>4 DEF HoldersIn
<1>9. HoldersIn(RecoveryScope, Excused \cup Candidates)' <=> HoldersIn(RecoveryScope, Excused \cup Candidates')
  BY <1>2, <1>4 DEF HoldersIn
<1> QED
  BY <1>1, <1>2, <1>3, <1>4, <1>5, <1>6, <1>7, <1>8, <1>9 DEF MissInv, Open
-----------------------------------------------------------------------------
(* Between the passes.                                                     *)

LEMMA MissPasses ==
  ASSUME IInv, QuestionInv, MissInv, EndPass0 \/ EndPass1
  PROVE  MissInv'
<1>1. /\ pc = "try" /\ UNCHANGED <<design, ask, cands, answer, queue, shell, count>>
      /\ At = "try" /\ todo = {}
  BY DEF EndPass0, EndPass1, Exhausted, QuestionInv, At, search
<1>2. /\ Pool' = Pool /\ RecoveryScope' = RecoveryScope /\ Wider' = Wider
      /\ Central' = Central /\ Seeds' = Seeds
      /\ (Confident' <=> Confident) /\ (Anchored' <=> Anchored)
  BY <1>1, SameQuestion
<1> SUFFICES ASSUME ~Confident PROVE MissInv'
  BY <1>2 DEF MissInv
<1>3. ASSUME NEW F, NEW t \in {None, ask.mod}, NEW n \in Nexts, Scan(F, t, n)
      PROVE  /\ Fresh' = Fresh /\ todo' = Open(F) /\ At' = n /\ pc' \in {n, "scan"}
             /\ Asked => Asked'
  BY <1>1, <1>3, ScanStarts, StillAsked
<1>4. CASE EndPass0
  <2>1. pass = 0
    BY <1>4 DEF EndPass0
  <2>2. ASSUME NEW F, NEW policy, Scan(F, Target(ask.leaf, policy), "again"), pass' = pass,
               Anchored => Pool \subseteq F
        PROVE  MissInv'
    <3>1. "again" \in Nexts
      BY DEF Nexts
    <3>2. todo' = Open(F) /\ Fresh' = Fresh /\ At' = "again" /\ pc' \in {"again", "scan"}
      BY <2>2, <3>1, <1>3, TargetIs
    <3> QED
      BY <1>2, <2>1, <2>2, <3>2 DEF MissInv, Open
  <2>3. CASE Anchored /\ Pool # {}
    BY <1>4, <2>2, <2>3 DEF EndPass0, Rescan
  <2>4. CASE ~(Anchored /\ Pool # {}) /\ ask.leaf
    BY <1>4, <2>2, <2>4 DEF EndPass0
  <2>5. CASE ~(Anchored /\ Pool # {}) /\ ~ask.leaf
    <3>1. pass' = 1 /\ pc' = pc /\ (Anchored => Pool = {})
      BY <1>4, <2>5 DEF EndPass0
    <3> QED
      BY <1>1, <1>2, <3>1 DEF MissInv, Open, At
  <2> QED
    BY <2>3, <2>4, <2>5
<1>5. CASE EndPass1
  <2> DEFINE S == IF Anchored THEN Expansion ELSE Fresh
  <2>1. PICK F \in SUBSET S : /\ Scan(F, Target(ask.kind = "edge", "recovery"), "last")
                              /\ cut' = cut \cup (S \ F)
    BY <1>5 DEF EndPass1, AtMost
  <2>2. pass = 1 /\ pass' = pass
    BY <1>5 DEF EndPass1, search
  <2>3. "last" \in Nexts
    BY DEF Nexts
  <2>4. /\ Fresh' = Fresh /\ todo' = Open(F) /\ At' = "last" /\ pc' \in {"last", "scan"}
        /\ Asked => Asked'
    BY <2>1, <2>3, <1>3, TargetIs
  <2>5. Asked \/ Open(RecoveryScope) \subseteq S
    <3>1. CASE Anchored
      <4>1. S = Open(Wider)
        BY <3>1 DEF Expansion, Open, Wider, Pending
      <4> QED
        BY <2>2, <3>1, <4>1, ScopeIs DEF MissInv, Open
    <3>2. CASE ~Anchored
      BY <3>2 DEF Open
    <3> QED
      BY <3>1, <3>2
  <2>6. S \subseteq Fresh
    BY DEF Expansion, Pending, Fresh
  <2> HIDE DEF S
  <2>7. Asked' \/ Open(RecoveryScope)' \subseteq cut' \cup todo'
    BY <1>2, <2>1, <2>4, <2>5, <2>6 DEF Open
  <2> QED
    BY <1>2, <2>2, <2>4, <2>7 DEF MissInv, Open
<1> QED
  BY <1>4, <1>5

LEMMA MissTurns ==
  ASSUME IInv, QuestionInv, MissInv, Again \/ Last
  PROVE  MissInv'
<1>1. /\ pc \in {"again", "last"} /\ At = pc /\ todo = {}
      /\ UNCHANGED <<design, db, ask, scan, cands, tried, answer, lost, cut>>
  BY DEF Again, Last, QuestionInv, At, history
<1>2. /\ Pool' = Pool /\ RecoveryScope' = RecoveryScope /\ Wider' = Wider
      /\ Central' = Central /\ Seeds' = Seeds
      /\ (Confident' <=> Confident) /\ (Anchored' <=> Anchored) /\ \A f : Holds(f)' <=> Holds(f)
  BY <1>1, SameQuestion
<1> SUFFICES ASSUME ~Confident PROVE MissInv'
  BY <1>2 DEF MissInv
<1>3. UNCHANGED <<scanned, Inflight, todo>> /\ Fresh' = Fresh /\ (Asked' <=> Asked) /\ Excused' = Excused
  BY <1>1 DEF db, scan, Fresh, Inflight, Asked, Mapped, Excused
<1>4. ASSUME Collect(ask.anchor)
      PROVE  pc' \in {"pool", "shell", "seed"} /\ At' = pc' /\ shell' = 0 /\ (Anchored => pc' = "pool")
  BY <1>4 DEF Collect, At, Anchored
<1>5. CASE Again
  <2>1. pass' = 1 /\ pc' \in {"pool", "shell", "seed", "try"} /\ At' = pc' /\ At = "again"
    BY <1>4, <1>5 DEF Again, At
  <2> QED
    BY <1>1, <1>2, <1>3, <2>1 DEF MissInv, Open
<1>6. CASE Last
  <2>1. Asked \/ Open(RecoveryScope) \subseteq cut
    BY <1>1, <1>6 DEF MissInv, Last
  <2>2. CASE pc' = "miss" /\ ~Asked /\ pass' = pass
    <3>1. ASSUME NEW f \in RecoveryScope, Holds(f)
          PROVE  f \in Excused
      <4>1. CASE f \in Fresh
        BY <2>1, <2>2, <3>1, <4>1 DEF Open, Excused, Fresh
      <4>2. CASE f \notin Fresh
        BY <2>2, <3>1, <4>2, HolderIsKnown, ScopeInFiles DEF Excused, Asked, Mapped
      <4> QED
        BY <4>1, <4>2
    <3>2. HoldersIn(RecoveryScope, Excused)'
      BY <1>2, <1>3, <3>1 DEF HoldersIn
    <3>3. At' = "miss"
      BY <2>2 DEF At
    <3> QED
      BY <1>1, <1>2, <1>3, <2>1, <2>2, <3>2, <3>3 DEF MissInv, Open
  <2>3. CASE pass' = 2 /\ Collect(ask.anchor)
    <3>1. pc' \in {"pool", "shell", "seed"} /\ At' = pc' /\ shell' = 0 /\ (Anchored => pc' = "pool")
      BY <1>4, <2>3
    <3>2. LastRound'
      BY <1>2, <3>1 DEF LastRound
    <3> QED
      BY <1>1, <1>2, <1>3, <2>1, <2>3, <3>1, <3>2 DEF MissInv, Open
  <2> QED
    BY <1>6, <2>2, <2>3 DEF Last, Asked
<1> QED
  BY <1>5, <1>6

LEMMA MissEnds ==
  ASSUME IInv, QuestionInv, MissInv, Stop \/ Reply \/ StopWalk \/ DrainAll
  PROVE  MissInv'
<1>1. /\ pc \notin {"scan"} /\ At = pc /\ UNCHANGED <<design, ask, search, cut, todo>>
      /\ pc' \in {"miss", "defer", "idle", "drain", "off"} /\ At' = pc'
  BY DEF Stop, Reply, StopWalk, DrainAll, At, history, scan, Exhausted
<1>2. /\ Pool' = Pool /\ RecoveryScope' = RecoveryScope /\ Wider' = Wider
      /\ Central' = Central /\ Seeds' = Seeds
      /\ (Confident' <=> Confident) /\ (Anchored' <=> Anchored) /\ \A f : Holds(f)' <=> Holds(f)
  BY <1>1, SameQuestion
<1> SUFFICES ASSUME ~Confident PROVE MissInv'
  BY <1>2 DEF MissInv
<1>3. Fresh' = Fresh /\ (Asked => Asked') /\ UNCHANGED <<pass, cands, tried>>
  <2>1. UNCHANGED <<pass, cands, tried>>
    BY <1>1 DEF search
  <2>2. CASE UNCHANGED db
    BY <1>1, <2>1, <2>2 DEF db, Fresh, Inflight, Asked, Mapped
  <2>3. CASE Ingest
    BY <1>1, <2>1, <2>3, IngestFresh, StillAsked, MapType DEF IInv
  <2> QED
    BY <2>2, <2>3 DEF Stop, Reply, StopWalk, DrainAll
<1>4. pc' = "miss" \/ (pc' = "idle" /\ answer' = "miss") => HoldersIn(RecoveryScope, Excused)'
  <2>1. CASE Stop
    <3>1. /\ pc = "try" /\ Candidates \subseteq tried /\ ask.kind # "top" /\ pass = 2
          /\ UNCHANGED <<scanned, Inflight, cut, lost>>
      <4>1. ask.kind # "top"
        BY DEF QuestionInv
      <4>2. pc = "try" /\ Left = {} /\ pass = 2
        BY <2>1, <4>1 DEF Stop, Exhausted
      <4>3. Candidates \subseteq tried
        BY <4>2 DEF Left, Candidates
      <4>4. UNCHANGED <<scanned, job, cut, lost>>
        BY <2>1 DEF Stop, db, history
      <4> QED
        BY <4>1, <4>2, <4>3, <4>4 DEF Inflight
    <3>2. HoldersIn(RecoveryScope, Excused)
      BY <3>1 DEF MissInv, HoldersIn, QuestionInv
    <3> QED
      BY <1>2, <3>1, <3>2 DEF HoldersIn, Excused
  <2>2. CASE Reply
    <3>1. /\ pc' # "miss" /\ (answer' = "miss" => pc = "miss")
          /\ UNCHANGED <<scanned, Inflight, cut, lost>>
      BY <2>2 DEF Reply, db, history, Inflight
    <3> QED
      BY <1>2, <3>1 DEF HoldersIn, Excused, MissInv
  <2>3. CASE StopWalk \/ DrainAll
    <3>1. pc' \in {"drain", "off"}
      BY <2>3 DEF StopWalk, DrainAll
    <3> QED
      BY <3>1
  <2> QED
    BY <2>1, <2>2, <2>3
<1>5. LastRound'
  BY <1>1 DEF LastRound
<1> QED
  BY <1>1, <1>2, <1>3, <1>4, <1>5 DEF MissInv, Open

\* Trying a file changes no scan.
LEMMA MissTries ==
  ASSUME IInv, QuestionInv, MissInv, Probe \/ \E f \in Files : TryModule(f) \/ TryEdge(f) \/ TryTop(f)
  PROVE  MissInv'
<1>1. /\ pc \in {"probe", "try"} /\ pc' \in {"hit", "defer", "try"} /\ (pc = "probe" => pass = 0)
      /\ UNCHANGED <<design, ask, scan, shell, count, queue, pass, cands, scanned, job, lost, cut>>
  BY DEF Probe, TryModule, TryEdge, TryTop, QuestionInv
<1>2. /\ Pool' = Pool /\ RecoveryScope' = RecoveryScope /\ Wider' = Wider
      /\ Central' = Central /\ Seeds' = Seeds
      /\ (Confident' <=> Confident) /\ (Anchored' <=> Anchored) /\ \A f : Holds(f)' <=> Holds(f)
  BY <1>1, SameQuestion
<1>3. Fresh' = Fresh /\ Excused' = Excused /\ todo' = todo /\ At' = pc' /\ At = pc /\ Candidates' = Candidates
  BY <1>1 DEF Fresh, Inflight, Excused, scan, At, Candidates
<1>4. \A m \in Mods : map[m] \subseteq map'[m]
  <2>1. /\ ask.mod \in Mods /\ design \in Designs /\ Top \in Mods /\ map \in [Mods -> SUBSET Files]
        /\ index \in [Mods -> Files \cup {None}]
    BY MapType, PwTier0Assumption DEF IInv, SearchOK
  <2>2. ASSUME NEW f \in Files, Selective(ask.mod, f)
        PROVE  \A m \in Mods : map[m] \subseteq map'[m]
    BY <2>1, <2>2, SelectiveType DEF IInv
  <2>3. CASE Probe
    <3>1. ask.anchor \in Files
      BY <2>3 DEF Probe, IInv, SearchOK, Question, Anchored
    <3> QED
      BY <2>1, <2>2, <2>3, <3>1 DEF Probe
  <2>4. ASSUME NEW f \in Files, TryModule(f) \/ TryEdge(f) \/ TryTop(f)
        PROVE  \A m \in Mods : map[m] \subseteq map'[m]
    <3>1. /\ Note({f}, design.real) \in [Mods -> SUBSET Files]
          /\ \A m \in Mods : map[m] \subseteq Note({f}, design.real)[m]
      BY <2>1, NoteType DEF IInv
    <3>2. \/ map' = Note({f}, design.real) \/ map' = map \/ Selective(ask.mod, f)
          \/ map' = [Note({f}, design.real) EXCEPT ![Top] = @ \cup {f}]
      BY <2>4 DEF TryModule, TryEdge, TryTop
    <3> QED
      BY <2>1, <2>2, <3>1, <3>2
  <2> QED
    BY <2>3, <2>4
<1>5. Asked => Asked'
  BY <1>1, <1>4, StillAsked
<1>6. LastRound /\ pc = "try" => LastRound'
  BY <1>1, <1>2, <1>3 DEF LastRound, Open
<1>7. /\ HoldersIn(RecoveryScope, Excused)' <=> HoldersIn(RecoveryScope, Excused)
      /\ HoldersIn(RecoveryScope, Excused \cup Candidates)' <=> HoldersIn(RecoveryScope, Excused \cup Candidates)
  BY <1>2, <1>3 DEF HoldersIn
<1> QED
  BY <1>1, <1>2, <1>3, <1>5, <1>6, <1>7 DEF MissInv, Open

LEMMA MissNext ==
  ASSUME IInv, QuestionInv, MissInv, [Next]_vars
  PROVE  MissInv'
<1>1. CASE Submit \/ Drain \/ \E f \in Files : ScanFile(f)
  BY <1>1, MissScans
<1>2. CASE ScanPool \/ FillQueue \/ ScanShell \/ ScanQueue \/ Expand \/ Rank
  BY <1>2, MissPool, MissFill, MissShell, MissQueue, MissExpand, MissRank
<1>3. CASE EndPass0 \/ EndPass1 \/ Again \/ Last \/ Stop \/ Reply \/ StopWalk \/ DrainAll
  BY <1>3, MissPasses, MissTurns, MissEnds
<1>4. CASE Probe \/ \E f \in Files : TryModule(f) \/ TryEdge(f) \/ TryTop(f)
  BY <1>4, MissTries
<1>5. CASE ScanExtra
  <2>1. Confident /\ UNCHANGED <<design, ask>>
    BY <1>5 DEF ScanExtra, QuestionInv, At
  <2> QED
    BY <2>1, SameQuestion DEF MissInv
<1>6. CASE Ask
  <2>1. /\ pass' = 0 /\ pc' \in {"idle", "pool", "shell", "seed"}
        /\ pc' = "idle" => answer' = "hit"
    BY <1>6 DEF Ask, Collect
  <2>2. At' = pc'
    BY <2>1 DEF At
  <2> QED
    BY <2>1, <2>2 DEF MissInv
<1>7. CASE (\E f \in Files : Worker(f)) \/ Off \/ UNCHANGED vars
  <2>1. /\ UNCHANGED <<design, ask, pc, scan, search, answer, cut, lost, scanned, map>>
    BY <1>7 DEF Worker, Off, vars, db, history
  <2>2. UNCHANGED Inflight
    BY <1>7 DEF Worker, Off, vars, db, Inflight, IInv, DbOK
  <2>3. /\ Pool' = Pool /\ RecoveryScope' = RecoveryScope /\ Wider' = Wider
        /\ Central' = Central /\ Seeds' = Seeds
        /\ (Confident' <=> Confident) /\ (Anchored' <=> Anchored) /\ \A f : Holds(f)' <=> Holds(f)
    BY <2>1, SameQuestion
  <2>4. /\ Fresh' = Fresh /\ Excused' = Excused /\ At' = At /\ Candidates' = Candidates
        /\ (Asked' <=> Asked)
        /\ UNCHANGED <<todo, target, shell, count, queue, pass>>
    BY <2>1, <2>2 DEF Fresh, Excused, At, Candidates, Asked, Mapped, scan, search
  <2>5. LastRound' <=> LastRound
    BY <2>1, <2>3, <2>4 DEF LastRound, Open
  <2>6. /\ HoldersIn(RecoveryScope, Excused)' <=> HoldersIn(RecoveryScope, Excused)
        /\ HoldersIn(RecoveryScope, Excused \cup Candidates)' <=> HoldersIn(RecoveryScope, Excused \cup Candidates)
    BY <2>3, <2>4 DEF HoldersIn
  <2> QED
    BY <2>1, <2>3, <2>4, <2>5, <2>6 DEF MissInv, Open
<1> QED
  BY <1>1, <1>2, <1>3, <1>4, <1>5, <1>6, <1>7 DEF Next, Walk

\* When a recovery question is answered with a miss (ensure_module_in_index,
\* resolve_child_edge), every file of its scope that holds the answer could not be read,
\* is still at a worker an earlier question left it to, or was kept out by a cap: for
\* every filelist graph, every cap and every order in which workers finish, the passes,
\* the rescans and the expansions between them leave no other file out.
THEOREM MissesAreExplained == Spec => []MissExplained
<1>1. Init => MissInv
  BY DEF Init, MissInv, Confident, NoAsk
<1>2. IInv /\ QuestionInv /\ MissInv /\ [Next]_vars => IInv' /\ QuestionInv' /\ MissInv'
  BY NextInv, QuestionNext, MissNext
<1>3. MissInv => MissExplained
  BY DEF MissInv, MissExplained, HoldersIn, Excused
<1> QED
  BY <1>1, <1>2, <1>3, InitInv, QuestionInit, PTL DEF Spec

(***************************************************************************)
(* A confident question.  Workers are only sent out by a scan that waits   *)
(* for all of them, so those at a file are an earlier question's; the pool *)
(* is opened whole before the second pass, and before the first is given   *)
(* up unless the module has a file.                                        *)
(***************************************************************************)
StrayInv ==
  /\ pc = "scan" /\ mode = "wait" => got # 0
  /\ Confident => IF pc = "scan" /\ mode # "sync" THEN target = None
                  ELSE Inflight \subseteq stray

GateRound ==
  /\ pass # 2
  /\ pc = "scan" /\ (ask.leaf \/ after \in {"rank", "again"}) => target = None
  /\ pass = 0 /\ At \in {"extra", "rank", "probe", "try"} =>
       (~ask.leaf /\ Asked) \/ Open(Pool) \subseteq todo
  /\ At = "again" => Open(Pool) \subseteq todo
  /\ pass = 1 => Open(Pool) = {}
  /\ pc \in {"probe", "try"} /\ pass = 0 => HoldersIn(Pool, lost \cup stray \cup Fresh \cup Candidates)
  /\ (pc = "again" /\ got = 0) \/ (pc = "try" /\ pass = 1) =>
       HoldersIn(Pool, lost \cup stray \cup Candidates)

Deferred == pc = "defer" \/ (pc = "idle" /\ answer = "defer")

GateInv ==
  /\ Confident /\ Anchored => GateRound
  /\ Deferred => Confident /\ Anchored /\ HoldersIn(Pool, lost \cup stray \cup Unopened)

LEMMA ScanWaits ==
  ASSUME IInv, StrayInv, Submit \/ Drain \/ \E f \in Files : ScanFile(f)
  PROVE  StrayInv' /\ (pc' # "scan" => got' # 0)
<1>1. UNCHANGED <<ask, target, stray>> /\ pc = "scan" /\ got \in Nat
  BY DEF Submit, Drain, ScanFile, IInv, ScanOK
<1>2. Confident' <=> Confident
  BY <1>1 DEF Confident
<1>3. CASE Submit
  <2>1. PICK B \in AtMost(Jobs, todo) : got' = got + Cardinality(B)
    BY <1>3 DEF Submit
  <2>2. todo # {} /\ todo \subseteq Files /\ Jobs \in Nat \ {0}
    BY <1>3, PwTier0Assumption DEF Submit, IInv, ScanOK
  <2>3. B # {} /\ B \subseteq Files
    BY <2>2, SomeOf DEF AtMost
  <2>4. Cardinality(B) \in Nat /\ Cardinality(B) # 0
    BY <2>3, FilesFinite, FS_EmptySet
  <2>5. mode' = "wait" /\ pc' = "scan" /\ mode = "submit"
    BY <1>1, <1>3 DEF Submit
  <2>6. got' # 0
    BY <1>1, <2>1, <2>4
  <2> QED
    BY <1>1, <1>2, <2>5, <2>6 DEF StrayInv
<1>4. CASE Drain
  <2>1. /\ mode = "wait" /\ got' = got /\ Ingest /\ design' = design
        /\ IF Found(map') \/ (Inflight = Finished /\ todo = {})
           THEN pc' = after /\ UNCHANGED mode
           ELSE mode' = Resume /\ UNCHANGED pc
    BY <1>4 DEF Drain
  <2>2. Inflight' = Inflight \ Finished
    BY <2>1, IngestFresh, MapType DEF IInv
  <2>3. mode' # "sync" /\ after # "scan"
    BY <1>1, <2>1, NextsTypes DEF Resume, IInv, ScanOK
  <2>4. CASE pc' = after
    BY <1>1, <1>2, <2>1, <2>2, <2>3, <2>4 DEF StrayInv, Found
  <2>5. CASE pc' = pc
    BY <1>1, <1>2, <2>1, <2>3, <2>5 DEF StrayInv
  <2> QED
    BY <2>1, <2>4, <2>5
<1>5. ASSUME NEW f \in Files, ScanFile(f)
      PROVE  StrayInv' /\ (pc' # "scan" => got' # 0)
  <2>1. mode = "sync" /\ mode' = mode /\ got' = got + 1 /\ Inflight' = Inflight
    BY <1>5 DEF ScanFile, Inflight
  <2> QED
    BY <1>1, <1>2, <2>1 DEF StrayInv
<1> QED
  BY <1>3, <1>4, <1>5

\* Every step that may begin a scan begins one or leaves the map alone.
LEMMA Begins ==
  ASSUME ScanPool \/ ScanExtra \/ ScanShell \/ ScanQueue \/ Expand \/ EndPass0 \/ EndPass1
  PROVE  /\ pc # "scan" /\ UNCHANGED <<design, ask, stray>>
         /\ \/ \E F : \E t \in {None, ask.mod} : \E n \in Nexts : Scan(F, t, n)
            \/ UNCHANGED db /\ pc' # "scan"
<1>1. pc # "scan" /\ UNCHANGED <<design, ask, stray>>
  BY DEF ScanPool, ScanExtra, ScanShell, ScanQueue, Expand, EndPass0, EndPass1, Exhausted
<1>2. {"extra", "seed", "rank", "shell", "queue", "again", "last"} \subseteq Nexts
  BY DEF Nexts
<1>3. CASE ScanPool
  <2>1. Scan(Pool, Target(Leafy, ask.policy), IF Confident THEN "extra" ELSE "seed")
    BY <1>3 DEF ScanPool
  <2>2. (IF Confident THEN "extra" ELSE "seed") \in Nexts
    BY <1>2
  <2> QED
    BY <1>1, <2>1, <2>2, TargetIs
<1>4. CASE ScanExtra
  <2> DEFINE more == Pending(ConfidentExtra(tree, ask.anchor))
  <2>1. Scan(more, None, "rank") \/ (UNCHANGED db /\ pc' = "rank")
    BY <1>4 DEF ScanExtra
  <2> HIDE DEF more
  <2> QED
    BY <1>1, <1>2, <2>1
<1>5. CASE ScanShell
  <2>1. (\E F : Scan(F, Target(Leafy, ask.policy), "shell")) \/ (UNCHANGED db /\ pc' # "scan")
    BY <1>1, <1>5 DEF ScanShell
  <2> QED
    BY <1>1, <1>2, <2>1, TargetIs
<1>6. CASE ScanQueue
  <2>1. (\E F : Scan(F, Target(Leafy, ask.policy), "queue")) \/ (UNCHANGED db /\ pc' # "scan")
    BY <1>6 DEF ScanQueue
  <2> QED
    BY <1>1, <1>2, <2>1, TargetIs
<1>7. CASE Expand
  <2>1. (\E F : Scan(F, Target(Leafy, ask.policy), "rank")) \/ (UNCHANGED db /\ pc' # "scan")
    BY <1>7 DEF Expand
  <2> QED
    BY <1>1, <1>2, <2>1, TargetIs
<1>8. CASE EndPass0
  <2>1. \/ \E F : \E leaf : \E policy : Scan(F, Target(leaf, policy), "again")
        \/ UNCHANGED db /\ pc' # "scan"
    BY <1>1, <1>8 DEF EndPass0
  <2> QED
    BY <1>1, <1>2, <2>1, TargetIs
<1>9. CASE EndPass1
  <2>1. \E F : Scan(F, Target(ask.kind = "edge", "recovery"), "last")
    BY <1>9 DEF EndPass1
  <2> QED
    BY <1>1, <1>2, <2>1, TargetIs
<1> QED
  BY <1>3, <1>4, <1>5, <1>6, <1>7, <1>8, <1>9

LEMMA StrayNext ==
  ASSUME IInv, QuestionInv, StrayInv, [Next]_vars
  PROVE  StrayInv'
<1>1. CASE Submit \/ Drain \/ \E f \in Files : ScanFile(f)
  BY <1>1, ScanWaits
<1>2. ASSUME pc # "scan", pc' # "scan", UNCHANGED <<ask, stray>>, Inflight' \subseteq Inflight
      PROVE  StrayInv'
  BY <1>2 DEF StrayInv, Confident
<1>3. CASE ScanPool \/ ScanExtra \/ ScanShell \/ ScanQueue \/ Expand \/ EndPass0 \/ EndPass1
  <2>1. pc # "scan" /\ UNCHANGED <<design, ask, stray>>
    BY <1>3, Begins
  <2>2. ASSUME NEW F, NEW t \in {None, ask.mod}, NEW n \in Nexts, Scan(F, t, n)
        PROVE  StrayInv'
    <3>1. /\ Inflight' \subseteq Inflight
          /\ \/ pc' = n
             \/ pc' = "scan" /\ target' = t /\ mode' \in {"sync", "submit"}
                  /\ (OneAtATime(t) => mode' = "sync")
      BY <2>1, <2>2, ScanStarts
    <3>2. n # "scan"
      BY NextsTypes
    <3> QED
      BY <1>2, <2>1, <3>1, <3>2 DEF StrayInv, Confident, OneAtATime
  <2>3. CASE UNCHANGED db /\ pc' # "scan"
    BY <1>2, <2>1, <2>3 DEF db, Inflight
  <2> QED
    BY <1>3, <2>2, <2>3, Begins
<1>4. CASE \/ FillQueue \/ Rank \/ Again \/ Last \/ Stop \/ Reply \/ StopWalk \/ Probe
           \/ \E f \in Files : TryModule(f) \/ TryEdge(f) \/ TryTop(f)
  <2>1. pc # "scan" /\ pc' # "scan" /\ UNCHANGED <<ask, stray, job>>
    BY <1>4 DEF FillQueue, Rank, Again, Last, Stop, Reply, StopWalk, Probe, TryModule, TryEdge, TryTop,
                Collect, Exhausted, db, history
  <2> QED
    BY <1>2, <2>1 DEF Inflight
<1>5. CASE DrainAll
  <2>1. pc # "scan" /\ pc' # "scan" /\ UNCHANGED <<design, ask, stray>> /\ (UNCHANGED job \/ Ingest)
    BY <1>5 DEF DrainAll, db
  <2>2. Inflight' \subseteq Inflight
    BY <2>1, IngestFresh, MapType DEF IInv, Inflight
  <2> QED
    BY <1>2, <2>1, <2>2
<1>6. CASE Ask
  <2>1. stray' = Inflight /\ UNCHANGED job /\ pc' # "scan"
    BY <1>6 DEF Ask, Collect, db
  <2> QED
    BY <2>1 DEF StrayInv, Inflight
<1>7. CASE (\E f \in Files : Worker(f)) \/ Off \/ UNCHANGED vars
  <2>1. UNCHANGED <<ask, pc, mode, target, got, stray>>
    BY <1>7 DEF Worker, Off, vars, scan, history
  <2>2. UNCHANGED Inflight
    BY <1>7 DEF Worker, Off, vars, db, Inflight, IInv, DbOK
  <2> QED
    BY <2>1, <2>2 DEF StrayInv, Confident
<1> QED
  BY <1>1, <1>3, <1>4, <1>5, <1>6, <1>7 DEF Next, Walk

\* What a confident question from an anchor keeps while its scans go on.
LEMMA GateScans ==
  ASSUME IInv, QuestionInv, StrayInv, GateInv, Submit \/ Drain \/ \E f \in Files : ScanFile(f)
  PROVE  GateInv'
<1>1. /\ pc = "scan" /\ after \in Nexts
      /\ UNCHANGED <<design, ask, target, after, search, answer, cut, stray>>
      /\ Fresh' \subseteq Fresh /\ lost \subseteq lost'
      /\ \A m \in Mods : map[m] \subseteq map'[m]
      /\ pc' = "scan" \/ (pc' = after /\ todo' = {})
      /\ \/ Fresh' \cap todo \subseteq todo'
         \/ pc' = after /\ target # None /\ map'[target] # {}
  BY ScanMoves
<1>2. pass' = pass /\ (pc' # "scan" => got' # 0)
  BY <1>1, ScanWaits DEF search
<1>3. Pool' = Pool /\ (Confident' <=> Confident) /\ (Anchored' <=> Anchored)
  BY <1>1, SameQuestion
<1>4. Asked => Asked'
  BY <1>1, StillAsked
<1>5. At' = At /\ pc' \notin {"probe", "try", "defer", "idle"} /\ At \in Nexts /\ At = after
  BY <1>1, NextsTypes DEF At, Nexts
<1>6. Fresh' \cap todo \subseteq todo' \/ (Asked' /\ target # None)
  BY <1>1 DEF QuestionInv, Asked, Mapped
<1>7. GateRound => GateRound'
  BY <1>1, <1>2, <1>3, <1>4, <1>5, <1>6 DEF GateRound, Open
<1> QED
  BY <1>3, <1>5, <1>7 DEF GateInv, Deferred

LEMMA GatePool ==
  ASSUME IInv, QuestionInv, StrayInv, GateInv, ScanPool \/ ScanExtra
  PROVE  GateInv'
<1>1. pc \in {"pool", "extra"} /\ At = pc /\ todo = {} /\ UNCHANGED <<design, ask, search>>
  BY DEF ScanPool, ScanExtra, QuestionInv, At
<1>2. /\ Pool' = Pool /\ (Confident' <=> Confident) /\ (Anchored' <=> Anchored) /\ pass' = pass
  BY <1>1, SameQuestion DEF search
<1>3. pass \in 0..2
  BY DEF IInv, SearchOK
<1>4. CASE ScanPool
  <2>1. /\ pc = "pool"
        /\ Scan(Pool, Target(Leafy, ask.policy), IF Confident THEN "extra" ELSE "seed")
    BY <1>4 DEF ScanPool
  <2>2. /\ Fresh' = Fresh /\ todo' = Open(Pool) /\ At' = (IF Confident THEN "extra" ELSE "seed")
        /\ \/ pc' = (IF Confident THEN "extra" ELSE "seed")
           \/ /\ pc' = "scan" /\ target' = Target(Leafy, ask.policy)
              /\ after' = (IF Confident THEN "extra" ELSE "seed")
    <3>1. (IF Confident THEN "extra" ELSE "seed") \in Nexts
      BY DEF Nexts
    <3>2. Target(Leafy, ask.policy) \in {None, ask.mod}
      BY TargetIs
    <3> QED
      BY <1>1, <2>1, <3>1, <3>2, ScanStarts
  <2>3. ask.leaf /\ pass # 2 => Target(Leafy, ask.policy) = None
    BY <1>3 DEF Target, Leafy
  <2>4. Confident /\ GateRound => GateRound'
    BY <1>1, <1>2, <2>1, <2>2, <2>3 DEF GateRound, Open
  <2> QED
    BY <1>2, <2>2, <2>4 DEF GateInv, Deferred
<1>5. CASE ScanExtra
  <2> DEFINE more == Pending(ConfidentExtra(tree, ask.anchor))
  <2>1. pc = "extra" /\ (Scan(more, None, "rank") \/ (pc' = "rank" /\ UNCHANGED <<db, scan>>))
    BY <1>5 DEF ScanExtra
  <2> HIDE DEF more
  <2>2. /\ Fresh' = Fresh /\ At' = "rank" /\ (Asked => Asked')
        /\ pc' = "rank" \/ (pc' = "scan" /\ target' = None)
    <3>1. CASE Scan(more, None, "rank")
      <4>1. "rank" \in Nexts
        BY DEF Nexts
      <4> QED
        BY <1>1, <3>1, <4>1, ScanStarts, StillAsked
    <3>2. CASE pc' = "rank" /\ UNCHANGED <<db, scan>>
      BY <1>1, <3>2 DEF db, At, Fresh, Inflight, Asked, Mapped
    <3> QED
      BY <2>1, <3>1, <3>2
  <2>3. GateRound => GateRound'
    BY <1>1, <1>2, <2>1, <2>2 DEF GateRound, Open
  <2> QED
    BY <1>2, <2>2, <2>3 DEF GateInv, Deferred
<1> QED
  BY <1>4, <1>5

\* Outside a scan, a holder in the pool that is not open has been read and is a candidate,
\* or it was at a worker from the start.
LEMMA PoolRanked ==
  ASSUME IInv, StrayInv, Confident, Anchored, pc # "scan", NEW f \in Pool, Holds(f), f \notin Fresh
  PROVE  f \in lost \cup stray \cup UNION {AvoidLast(Groups)[i] : i \in DOMAIN AvoidLast(Groups)}
<1>1. f \in Files
  BY ScopeInFiles
<1>2. f \in lost \cup Inflight \cup map[ask.mod]
  BY <1>1, HolderIsKnown
<1>3. Inflight \subseteq stray
  BY DEF StrayInv
<1>4. CASE f \in map[ask.mod]
  BY <1>4, RankedIn
<1> QED
  BY <1>2, <1>3, <1>4

LEMMA GateRank ==
  ASSUME IInv, QuestionInv, StrayInv, GateInv, Rank
  PROVE  GateInv'
<1> DEFINE all == UNION {AvoidLast(Groups)[i] : i \in DOMAIN AvoidLast(Groups)}
<1>1. /\ pc = "rank" /\ cands' = AvoidLast(Groups) /\ At = "rank" /\ todo = {}
      /\ UNCHANGED <<design, db, ask, scan, pass, lost, stray>>
      /\ pc' = IF pass = 0 /\ ask.kind = "edge" /\ Anchored THEN "probe"
               ELSE IF pass = 0 /\ ask.kind = "module" /\ Confident /\ Anchored /\ all = {}
               THEN "defer"
               ELSE IF pass = 2 /\ all \subseteq tried THEN "miss"
               ELSE "try"
  BY DEF Rank, history, QuestionInv, At
<1>2. /\ Pool' = Pool /\ (Confident' <=> Confident) /\ (Anchored' <=> Anchored)
      /\ \A f : Holds(f)' <=> Holds(f)
  BY <1>1, SameQuestion
<1>3. /\ Fresh' = Fresh /\ (Asked' <=> Asked) /\ UNCHANGED <<todo, lost, stray>>
      /\ At' = pc' /\ Unopened' = Unopened /\ Candidates' = all
  BY <1>1, <1>2 DEF db, scan, Fresh, Inflight, Asked, Mapped, At, Unopened, Candidates
<1> HIDE DEF all
<1>4. ASSUME Confident, Anchored
      PROVE  HoldersIn(Pool, lost \cup stray \cup Fresh \cup all)
  BY <1>1, <1>4, PoolRanked DEF HoldersIn, all
<1>5. ASSUME Confident, Anchored, GateRound
      PROVE  GateRound' /\ pc' \in {"probe", "defer", "try"}
  <2>1. pass = 1 => HoldersIn(Pool, lost \cup stray \cup all)
    BY <1>4, <1>5 DEF HoldersIn, GateRound, Open
  <2>2. /\ HoldersIn(Pool, lost \cup stray \cup Fresh \cup Candidates)' <=>
             HoldersIn(Pool, lost \cup stray \cup Fresh \cup all)
        /\ HoldersIn(Pool, lost \cup stray \cup Candidates)' <=> HoldersIn(Pool, lost \cup stray \cup all)
    BY <1>2, <1>3 DEF HoldersIn
  <2> QED
    BY <1>1, <1>2, <1>3, <1>4, <1>5, <2>1, <2>2 DEF GateRound, Open
<1>6. ASSUME pc' = "defer"
      PROVE  Confident /\ Anchored /\ HoldersIn(Pool, lost \cup stray \cup Unopened)
  <2>1. Confident /\ Anchored /\ pass = 0 /\ all = {}
    BY <1>1, <1>6
  <2>2. (~ask.leaf /\ Asked) \/ Open(Pool) = {}
    BY <1>1, <2>1 DEF GateInv, GateRound
  <2>3. map[ask.mod] \cap Pool = {}
    BY <2>1, RankedIn DEF all
  <2>4. Unopened = Fresh \/ Open(Pool) = {}
    BY <2>2, <2>3 DEF Unopened, Asked
  <2> QED
    BY <1>4, <2>1, <2>4 DEF HoldersIn, Open
<1>7. HoldersIn(Pool, lost \cup stray \cup Unopened)' <=> HoldersIn(Pool, lost \cup stray \cup Unopened)
  BY <1>2, <1>3 DEF HoldersIn
<1>8. pc' # "idle"
  BY <1>1
<1> QED
  BY <1>2, <1>5, <1>6, <1>7, <1>8 DEF GateInv, Deferred

LEMMA GatePass ==
  ASSUME IInv, QuestionInv, StrayInv, GateInv, EndPass0
  PROVE  GateInv'
<1>1. /\ pc = "try" /\ At = "try" /\ todo = {} /\ pass = 0
      /\ UNCHANGED <<design, ask, cands, stray>>
  BY DEF EndPass0, Exhausted, QuestionInv, At
<1>2. /\ Pool' = Pool /\ (Confident' <=> Confident) /\ (Anchored' <=> Anchored)
      /\ \A f : Holds(f)' <=> Holds(f)
  BY <1>1, SameQuestion
<1>3. Candidates' = Candidates
  BY <1>1 DEF Candidates
<1>4. ASSUME NEW F, NEW leaf, NEW policy, Scan(F, Target(leaf, policy), "again"), pass' = pass
      PROVE  /\ Fresh' = Fresh /\ todo' = Open(F) /\ At' = "again" /\ lost \subseteq lost'
             /\ \/ pc' = "again" /\ Open(F) = {}
                \/ pc' = "scan" /\ Open(F) # {} /\ target' = Target(leaf, policy)
  <2>1. "again" \in Nexts /\ Target(leaf, policy) \in {None, ask.mod}
    BY TargetIs DEF Nexts
  <2> QED
    BY <1>1, <1>4, <2>1, ScanStarts
<1>5. CASE Anchored /\ Pool # {}
  <2>1. Scan(Pool, Target(ask.leaf, "recovery"), "again") /\ pass' = pass
    BY <1>5 DEF EndPass0, Rescan
  <2>2. /\ Fresh' = Fresh /\ todo' = Open(Pool) /\ At' = "again" /\ lost \subseteq lost'
        /\ \/ pc' = "again" /\ Open(Pool) = {}
           \/ pc' = "scan" /\ Open(Pool) # {} /\ target' = Target(ask.leaf, "recovery")
    BY <1>4, <2>1
  <2>3. ASSUME Confident, GateRound
        PROVE  GateRound'
    <3>1. pc' = "again" => HoldersIn(Pool, lost \cup stray \cup Candidates)'
      BY <1>1, <1>2, <1>3, <2>2, <2>3 DEF GateRound, HoldersIn, Open
    <3>2. pc' = "scan" => target' = None
      BY <1>1, <2>2, <2>3 DEF GateRound, Target, Asked
    <3> QED
      BY <1>1, <1>2, <2>1, <2>2, <2>3, <3>1, <3>2 DEF GateRound, Open
  <2> QED
    BY <1>2, <1>5, <2>2, <2>3 DEF GateInv, Deferred
<1>6. CASE ~(Anchored /\ Pool # {})
  <2>1. pc' \in {"scan", "again", "try"}
    BY <1>1, <1>6, <1>4 DEF EndPass0
  <2>2. ASSUME Confident, Anchored, GateRound
        PROVE  GateRound'
    <3>1. Pool = {} /\ HoldersIn(Pool, lost \cup stray \cup Candidates)' /\ Open(Pool)' = {}
      BY <1>2, <1>6, <2>2 DEF HoldersIn, Open
    <3>2. CASE ask.leaf
      <4>1. PICK F : Scan(F, Target(ask.leaf, ask.policy), "again") /\ pass' = pass
        BY <1>6, <3>2 DEF EndPass0
      <4>2. /\ At' = "again" /\ pc' \in {"again", "scan"}
            /\ pc' = "scan" => target' = Target(ask.leaf, ask.policy)
        BY <1>4, <4>1
      <4>3. Target(ask.leaf, ask.policy) = None
        BY <3>2 DEF Target
      <4> QED
        BY <1>1, <3>1, <4>1, <4>2, <4>3 DEF GateRound
    <3>3. CASE ~ask.leaf
      <4>1. pass' = 1 /\ pc' = "try"
        BY <1>1, <1>6, <3>3 DEF EndPass0
      <4> QED
        BY <3>1, <4>1 DEF GateRound, At
    <3> QED
      BY <3>2, <3>3
  <2> QED
    BY <1>2, <2>1, <2>2 DEF GateInv, Deferred
<1> QED
  BY <1>5, <1>6

LEMMA GateAgain ==
  ASSUME IInv, QuestionInv, StrayInv, GateInv, Again
  PROVE  GateInv'
<1>1. /\ pc = "again" /\ At = "again" /\ todo = {} /\ pass' = 1
      /\ UNCHANGED <<design, db, ask, scan, cands, lost, stray>>
      /\ IF got > 0 THEN Collect(ask.anchor) ELSE pc' = "try"
  BY DEF Again, history, QuestionInv, At
<1>2. /\ Pool' = Pool /\ (Confident' <=> Confident) /\ (Anchored' <=> Anchored)
      /\ \A f : Holds(f)' <=> Holds(f)
  BY <1>1, SameQuestion
<1>3. Fresh' = Fresh /\ Candidates' = Candidates /\ got \in Nat
  BY <1>1 DEF db, Fresh, Inflight, Candidates, IInv, ScanOK
<1>4. pc' \in {"pool", "shell", "seed", "try"} /\ At' = pc' /\ (pc' = "try" => got = 0)
  BY <1>1, <1>3 DEF Collect, At
<1>5. ASSUME GateRound
      PROVE  GateRound'
  <2>1. Open(Pool)' = {}
    BY <1>1, <1>2, <1>3, <1>5 DEF GateRound, Open
  <2>2. pc' = "try" => HoldersIn(Pool, lost \cup stray \cup Candidates)'
    BY <1>1, <1>2, <1>3, <1>4, <1>5 DEF GateRound, HoldersIn
  <2> QED
    BY <1>1, <1>4, <2>1, <2>2 DEF GateRound
<1> QED
  BY <1>2, <1>4, <1>5 DEF GateInv, Deferred

LEMMA GateTries ==
  ASSUME IInv, QuestionInv, StrayInv, GateInv,
         Probe \/ \E f \in Files : TryModule(f) \/ TryEdge(f) \/ TryTop(f)
  PROVE  GateInv'
<1>1. /\ pc \in {"probe", "try"} /\ pc' \in {"hit", "defer", "try"} /\ At = pc /\ At' = pc'
      /\ UNCHANGED <<design, ask, pass, cands, scanned, job, todo, lost, stray>>
  BY DEF Probe, TryModule, TryEdge, TryTop, At, scan
<1>2. /\ Pool' = Pool /\ (Confident' <=> Confident) /\ (Anchored' <=> Anchored)
      /\ \A f : Holds(f)' <=> Holds(f)
  BY <1>1, SameQuestion
<1>3. Fresh' = Fresh /\ Candidates' = Candidates
  BY <1>1 DEF Fresh, Inflight, Candidates
<1>4. CASE pc' = "hit"
  <2>1. GateRound => GateRound'
    BY <1>1, <1>2, <1>3, <1>4 DEF GateRound, Open
  <2> QED
    BY <1>2, <1>4, <2>1 DEF GateInv, Deferred
<1>5. CASE pc = "try" /\ pc' = "try"
  <2>1. Asked => Asked'
    <3>1. \A m \in Mods : map[m] \subseteq map'[m]
      <4>1. PICK f \in Files : TryModule(f) \/ TryEdge(f) \/ TryTop(f)
        BY <1>5 DEF Probe
      <4>2. map' = Note({f}, design.real) \/ map' = map
        BY <1>5, <4>1 DEF TryModule, TryEdge, TryTop
      <4> QED
        BY <4>2, NoteType, MapType DEF IInv
    <3> QED
      BY <1>1, <3>1, StillAsked
  <2>2. GateRound => GateRound'
    BY <1>1, <1>2, <1>3, <1>5, <2>1 DEF GateRound, Open, HoldersIn
  <2> QED
    BY <1>2, <1>5, <2>2 DEF GateInv, Deferred
<1>6. CASE pc = "probe" /\ pc' # "hit"
  <2>1. /\ pass = 0 /\ ask.leaf /\ Anchored /\ map' = map /\ todo = {}
        /\ pc' = IF Confident /\ \A i \in DOMAIN cands : cands[i] = {} THEN "defer" ELSE "try"
    BY <1>6 DEF Probe, TryModule, TryEdge, TryTop, QuestionInv, IInv, SearchOK
  <2>2. Asked' <=> Asked
    BY <1>1, <2>1 DEF Asked, Mapped
  <2>3. GateRound => GateRound'
    BY <1>1, <1>2, <1>3, <1>6, <2>1, <2>2 DEF GateRound, Open, HoldersIn
  <2>4. ASSUME pc' = "defer"
        PROVE  Confident /\ Anchored /\ HoldersIn(Pool, lost \cup stray)
    <3>1. Candidates = {} /\ Confident
      BY <2>1, <2>4 DEF Candidates
    <3>2. GateRound
      BY <2>1, <3>1 DEF GateInv
    <3>3. Open(Pool) = {} /\ HoldersIn(Pool, lost \cup stray \cup Fresh)
      BY <1>1, <1>6, <2>1, <3>1, <3>2 DEF GateRound
    <3> QED
      BY <2>1, <3>1, <3>3 DEF HoldersIn, Open
  <2>5. HoldersIn(Pool, lost \cup stray) => HoldersIn(Pool, lost \cup stray \cup Unopened)'
    BY <1>1, <1>2 DEF HoldersIn
  <2> QED
    BY <1>1, <1>2, <2>3, <2>4, <2>5 DEF GateInv, Deferred
<1>7. pc = "try" => pc' \in {"hit", "try"}
  BY DEF Probe, TryModule, TryEdge, TryTop
<1> QED
  BY <1>1, <1>4, <1>5, <1>6, <1>7

LEMMA GateEnds ==
  ASSUME IInv, QuestionInv, StrayInv, GateInv, Stop \/ Reply \/ StopWalk \/ DrainAll
  PROVE  GateInv'
<1>1. /\ pc # "scan" /\ At = pc /\ UNCHANGED <<design, ask, search, todo, stray>>
      /\ pc' \in {"miss", "defer", "idle", "drain", "off"} /\ At' = pc'
  BY DEF Stop, Reply, StopWalk, DrainAll, At, history, scan, Exhausted
<1>2. /\ Pool' = Pool /\ (Confident' <=> Confident) /\ (Anchored' <=> Anchored) /\ pass' = pass
      /\ \A f : Holds(f)' <=> Holds(f)
  BY <1>1, SameQuestion DEF search
<1>3. Fresh' = Fresh
  <2>1. CASE UNCHANGED db
    BY <2>1 DEF db, Fresh, Inflight
  <2>2. CASE Ingest
    BY <1>1, <2>2, IngestFresh, MapType DEF IInv
  <2> QED
    BY <2>1, <2>2 DEF Stop, Reply, StopWalk, DrainAll
<1>4. GateRound => GateRound'
  BY <1>1, <1>2, <1>3 DEF GateRound, Open
<1>5. ASSUME Deferred'
      PROVE  (Confident /\ Anchored /\ HoldersIn(Pool, lost \cup stray \cup Unopened))'
  <2>1. CASE Stop
    <3>1. /\ Confident /\ Anchored /\ pc = "try" /\ Left = {} /\ UNCHANGED lost
      BY <1>1, <1>5, <2>1 DEF Stop, Exhausted, Deferred, history
    <3>2. ask.kind # "top" /\ GateRound
      BY <3>1 DEF QuestionInv, GateInv
    <3>3. pass = 1
      BY <2>1, <3>2 DEF Stop, GateRound
    <3>4. HoldersIn(Pool, lost \cup stray \cup Candidates)
      BY <3>1, <3>2, <3>3 DEF GateRound
    <3>5. \A f \in Candidates : ~Holds(f)
      BY <3>1, <3>2 DEF Left, Candidates, QuestionInv
    <3> QED
      BY <1>1, <1>2, <3>1, <3>4, <3>5 DEF HoldersIn
  <2>2. CASE Reply
    <3>1. pc = "defer" /\ UNCHANGED <<db, lost, stray>>
      BY <1>5, <2>2 DEF Reply, Deferred, history
    <3>2. Unopened' = Unopened
      BY <1>1, <1>2, <1>3, <3>1 DEF Unopened, Mapped, db
    <3> QED
      BY <1>2, <3>1, <3>2 DEF GateInv, Deferred, HoldersIn
  <2>3. CASE StopWalk \/ DrainAll
    BY <1>5, <2>3 DEF StopWalk, DrainAll, Deferred
  <2> QED
    BY <2>1, <2>2, <2>3
<1>6. (Confident /\ Anchored => GateRound)'
  BY <1>2, <1>4, <1>5 DEF GateInv
<1> QED
  BY <1>5, <1>6 DEF GateInv

LEMMA GateNext ==
  ASSUME IInv, QuestionInv, ScopeInv, StrayInv, GateInv, [Next]_vars
  PROVE  GateInv'
<1>1. CASE Submit \/ Drain \/ \E f \in Files : ScanFile(f)
  BY <1>1, GateScans
<1>2. CASE ScanPool \/ ScanExtra \/ Rank \/ EndPass0 \/ Again
  BY <1>2, GatePool, GateRank, GatePass, GateAgain
<1>3. CASE Probe \/ \E f \in Files : TryModule(f) \/ TryEdge(f) \/ TryTop(f)
  BY <1>3, GateTries
<1>4. CASE Stop \/ Reply \/ StopWalk \/ DrainAll
  BY <1>4, GateEnds
<1>5. CASE ScanShell \/ FillQueue \/ ScanQueue \/ Expand \/ EndPass1 \/ Last
  <2>1. ~(Confident /\ Anchored) /\ UNCHANGED <<design, ask>>
    BY <1>5 DEF ScanShell, FillQueue, ScanQueue, Expand, EndPass1, Last, ScopeInv, Far, Confident
  <2>2. pc' \notin {"defer", "idle"}
    <3>1. CASE FillQueue \/ Last
      BY <3>1 DEF FillQueue, Last, Collect
    <3>2. CASE ScanShell
      <4>1. \/ pc' \in {"rank", "expand"}
            \/ \E F : IF F = {} THEN UNCHANGED <<db, scan, lost, pc>>
                                ELSE Scan(F, Target(Leafy, ask.policy), "shell")
        BY <3>2 DEF ScanShell
      <4>2. pc = "shell"
        BY <3>2 DEF ScanShell
      <4> QED
        BY <4>1, <4>2, ScanGoes
    <3>3. CASE ScanQueue
      <4>1. \/ pc' \in {"rank", "expand"}
            \/ \E B : Scan(B, Target(Leafy, ask.policy), "queue")
        BY <3>3 DEF ScanQueue
      <4> QED
        BY <4>1, ScanGoes
    <3>4. CASE Expand
      <4>1. pc' = "rank" \/ \E F : Scan(F, Target(Leafy, ask.policy), "rank")
        BY <3>4 DEF Expand
      <4> QED
        BY <4>1, ScanGoes
    <3>5. CASE EndPass1
      <4>1. \E F : Scan(F, Target(ask.kind = "edge", "recovery"), "last")
        BY <3>5 DEF EndPass1
      <4> QED
        BY <4>1, ScanGoes
    <3> QED
      BY <1>5, <3>1, <3>2, <3>3, <3>4, <3>5
  <2> QED
    BY <2>1, <2>2, SameQuestion DEF GateInv, Deferred
<1>6. CASE Ask
  <2>1. /\ pass' = 0 /\ pc' \in {"idle", "pool", "shell", "seed"} /\ answer' \in {"hit", "none"}
    BY <1>6 DEF Ask, Collect
  <2>2. At' = pc'
    BY <2>1 DEF At
  <2> QED
    BY <2>1, <2>2 DEF GateInv, GateRound, Deferred
<1>7. CASE (\E f \in Files : Worker(f)) \/ Off \/ UNCHANGED vars
  <2>1. /\ UNCHANGED <<design, ask, pc, scan, search, answer, lost, stray, scanned, map>>
    BY <1>7 DEF Worker, Off, vars, db, history
  <2>2. UNCHANGED Inflight
    BY <1>7 DEF Worker, Off, vars, db, Inflight, IInv, DbOK
  <2>3. /\ Pool' = Pool /\ (Confident' <=> Confident) /\ (Anchored' <=> Anchored)
        /\ \A f : Holds(f)' <=> Holds(f)
    BY <2>1, SameQuestion
  <2>4. /\ Fresh' = Fresh /\ At' = At /\ Candidates' = Candidates /\ (Asked' <=> Asked)
        /\ UNCHANGED <<todo, target, after, got, pass>>
    BY <2>1, <2>2 DEF Fresh, At, Candidates, Asked, Mapped, scan, search
  <2>5. Unopened' = Unopened /\ (Deferred' <=> Deferred)
    BY <2>1, <2>3, <2>4 DEF Unopened, Deferred, Mapped
  <2>6. GateRound' <=> GateRound
    BY <2>1, <2>3, <2>4 DEF GateRound, Open, HoldersIn
  <2> QED
    BY <2>1, <2>3, <2>5, <2>6 DEF GateInv, HoldersIn
<1> QED
  BY <1>1, <1>2, <1>3, <1>4, <1>5, <1>6, <1>7 DEF Next, Walk

\* A listing that the gate gives no recovery pass has nothing beyond its confident pool.
LEMMA GateScope ==
  ASSUME NEW a, tree.via[a] # None, ~ShouldRetry(tree, a)
  PROVE  RecoveryPool(tree, a) \cup AncestorDirect(tree, tree.via[a]) \cup SiblingFiles(tree, tree.via[a])
           \subseteq ConfidentPool(tree, a)
BY DEF ShouldRetry, AncestorDirect, SiblingFiles, FilesOf

\* Where should_retry_deferred_recovery gives a deferred question no recovery pass, no
\* file under, above or beside the anchor's listing holds the answer, but one that could
\* not be read, one an earlier question left at a worker, and one the search left unopened
\* because files outside the pool had given the module a file: whatever the filelists,
\* the pool is opened whole otherwise and each of its holders was tried.
THEOREM GateMisses == Spec => []GateMissesOnly
<1>1. Init => ScopeInv /\ StrayInv /\ GateInv
  BY DEF Init, ScopeInv, StrayInv, GateInv, GateRound, Deferred, Anchored, NoAsk, Inflight
<1>2. IInv /\ QuestionInv /\ ScopeInv /\ StrayInv /\ GateInv /\ [Next]_vars =>
        IInv' /\ QuestionInv' /\ ScopeInv' /\ StrayInv' /\ GateInv'
  BY NextInv, QuestionNext, ScopeNext, StrayNext, GateNext
<1>3. GateInv => GateMissesOnly
  <2> SUFFICES ASSUME GateInv, pc = "idle", answer = "defer", tree.via[ask.anchor] # None,
                      ~ShouldRetry(tree, ask.anchor),
                      NEW f \in RecoveryPool(tree, ask.anchor)
                                  \cup AncestorDirect(tree, tree.via[ask.anchor])
                                  \cup SiblingFiles(tree, tree.via[ask.anchor]),
                      Holds(f)
               PROVE  f \in lost \cup (stray \cup Unopened)
    BY DEF GateMissesOnly, GateIsRight
  <2>1. Confident /\ HoldersIn(Pool, lost \cup stray \cup Unopened)
    BY DEF GateInv, Deferred
  <2>2. f \in Pool
    BY <2>1, GateScope DEF Pool
  <2> QED
    BY <2>1, <2>2 DEF HoldersIn
<1> QED
  BY <1>1, <1>2, <1>3, InitInv, QuestionInit, PTL DEF Spec
=============================================================================
