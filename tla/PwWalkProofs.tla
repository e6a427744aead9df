---------------------------- MODULE PwWalkProofs ----------------------------
(* Theorems about PwWalk, for every hierarchy, design, list of checks and cap. *)
EXTENDS PwWalk, SequenceTheorems, FiniteSetTheorems, TLAPS

-----------------------------------------------------------------------------
(* No deferred item is dropped.                                            *)

Collecting == {"recover", "ensure", "retry", "reensure", "requeue"}

\* Items leave the batch before the pass moves on, and what a pass could not
\* recover is back in the queue when the next one takes it.
DeferInv ==
  /\ batch # {} => stage \in {"recover", "retry"}
  /\ stage \notin Collecting => skipped \cup missed \subseteq queue
  /\ NoDeferDropped

\* A step that only adds to the queue and the index, and remembers only keys of
\* queued items, keeps every item.
LEMMA Kept ==
  ASSUME DeferInv, known \subseteq known', loaded \subseteq loaded', queue \subseteq queue',
         UNCHANGED <<batch, skipped, missed>>,
         stage' = stage \/ {stage, stage'} \cap Collecting = {},
         \A k \in seen' \ seen : \E i \in queue' : Key(i) = k
  PROVE  DeferInv'
<1>1. stage' \notin Collecting => (skipped \cup missed \subseteq queue)'
  BY DEF DeferInv
<1>2. (batch # {} => stage \in {"recover", "retry"})'
  BY DEF DeferInv, Collecting
<1>3. NoDeferDropped'
  BY DEF DeferInv, NoDeferDropped
<1> QED
  BY <1>1, <1>2, <1>3 DEF DeferInv

LEMMA DeferKeeps ==
  ASSUME NEW i, Defer(i)
  PROVE  queue \subseteq queue' /\ \A k \in seen' \ seen : \E j \in queue' : Key(j) = k
BY DEF Defer

LEMMA WalkKeeps ==
  ASSUME DeferInv,
         \/ \E p \in Paths : SkipBlocked(p) \/ Begin(p) \/ GrowHit(p) \/ GrowMiss(p)
         \/ HopHit \/ LoadMiss \/ EdgeMiss \/ Arrive \/ GrowDone
  PROVE  DeferInv'
<1>1. CASE \E p \in Paths : SkipBlocked(p) \/ Begin(p)
  BY <1>1, Kept DEF SkipBlocked, Begin, db, pass, flow
<1>2. CASE \E p \in Paths : GrowHit(p)
  BY <1>2, Kept DEF GrowHit, pass, flow
<1>3. CASE \E p \in Paths : GrowMiss(p)
  <2>1. PICK p \in Paths : GrowMiss(p)
    BY <1>3
  <2>2. Defer(ModuleItem(p)) /\ UNCHANGED <<known, loaded, batch, skipped, missed, stage>>
    BY <2>1 DEF GrowMiss, pass, flow
  <2> QED
    BY <2>2, DeferKeeps, Kept
<1>4. CASE HopHit
  BY <1>4, Kept DEF HopHit, pass, flow
<1>5. CASE LoadMiss
  <2> DEFINE c == Hop(at, goal)
  <2>1. known \subseteq known' /\ UNCHANGED <<loaded, batch, skipped, missed, stage>>
    BY <1>5 DEF LoadMiss, pass, flow
  <2>2. UNCHANGED <<queue, seen>> \/ Defer(ModuleItem(c))
    BY <1>5 DEF LoadMiss
  <2> QED
    BY <2>1, <2>2, DeferKeeps, Kept
<1>6. CASE EdgeMiss
  <2> DEFINE c == Hop(at, goal)
  <2>1. UNCHANGED <<known, loaded, batch, skipped, missed, stage>>
    BY <1>6 DEF EdgeMiss, pass, flow
  <2>2. UNCHANGED <<queue, seen>> \/ Defer(EdgeItem(c, goal))
    BY <1>6 DEF EdgeMiss
  <2> QED
    BY <2>1, <2>2, DeferKeeps, Kept
<1>7. CASE Arrive
  BY <1>7, Kept DEF Arrive, db, pass, flow
<1>8. CASE GrowDone
  BY <1>8, Kept DEF GrowDone, db, pass, flow
<1> QED
  BY <1>1, <1>2, <1>3, <1>4, <1>5, <1>6, <1>7, <1>8

LEMMA TakeQueueKeeps ==
  ASSUME DeferInv, stage \notin Collecting, TakeQueue
  PROVE  DeferInv'
<1>1. queue \cup batch \cup skipped \cup missed = batch'
  BY DEF DeferInv, TakeQueue, Collecting
<1>2. UNCHANGED <<known, loaded, seen>> /\ skipped' = {} /\ missed' = {} /\ stage' = "recover"
  BY DEF TakeQueue
<1>3. NoDeferDropped'
  BY <1>1, <1>2 DEF DeferInv, NoDeferDropped
<1> QED
  BY <1>2, <1>3 DEF DeferInv, Collecting

\* An item that is tried is settled, or it is skipped or missed.
LEMMA RecoverKeeps ==
  ASSUME DeferInv, NEW i \in batch, RecoverItem(i)
  PROVE  DeferInv'
<1>1. batch' = batch \ {i} /\ UNCHANGED <<queue, seen, stage>>
      /\ stage \in {"recover", "retry"}
  BY DEF RecoverItem, flow
<1>2. known \subseteq known' /\ loaded \subseteq loaded'
      /\ skipped \subseteq skipped' /\ missed \subseteq missed'
  BY DEF RecoverItem
<1>3. \/ i \in skipped' \cup missed'
      \/ IF i.kind = "edge" THEN ItemEdge(i) \in known' ELSE i.mod \in loaded'
  BY DEF RecoverItem
<1>4. /\ Key(i)[1] = i.kind /\ Key(i)[2] = i.mod
      /\ <<Key(i)[2], Key(i)[3]>> = ItemEdge(i)
  BY DEF Key, ItemEdge
<1>5. NoDeferDropped'
  <2> SUFFICES ASSUME NEW k \in seen, k = Key(i)
               PROVE  \/ IF k[1] = "edge" THEN <<k[2], k[3]>> \in known' ELSE k[2] \in loaded'
                      \/ \E j \in (queue \cup batch \cup skipped \cup missed)' : Key(j) = k
    BY <1>1, <1>2 DEF DeferInv, NoDeferDropped
  <2> QED
    BY <1>3, <1>4
<1> QED
  BY <1>1, <1>5 DEF DeferInv, Collecting

LEMMA PassKeeps ==
  ASSUME DeferInv, Apply \/ Retry \/ Reensured \/ Requeue
  PROVE  DeferInv'
<1>1. CASE Apply
  <2>1. batch = {} /\ UNCHANGED <<known, loaded, queue, seen, batch, skipped, missed>>
    BY <1>1 DEF Apply, db
  <2>2. stage' \in Collecting
    BY <1>1 DEF Apply, Collecting
  <2> QED
    BY <2>1, <2>2 DEF DeferInv, NoDeferDropped
<1>2. CASE Retry
  <2>1. batch = {} /\ batch' = skipped /\ skipped' = {}
        /\ UNCHANGED <<known, loaded, queue, seen, missed>>
    BY <1>2 DEF Retry, db, DeferInv
  <2>2. stage' = IF batch' = {} THEN "requeue" ELSE "retry"
    BY <1>2 DEF Retry
  <2>3. queue' \cup batch' \cup skipped' \cup missed' = queue \cup batch \cup skipped \cup missed
    BY <2>1
  <2>4. NoDeferDropped'
    BY <2>1, <2>3 DEF DeferInv, NoDeferDropped
  <2> QED
    BY <2>2, <2>4 DEF DeferInv, Collecting
<1>3. CASE Reensured
  <2>1. batch = {} /\ stage' = "requeue"
        /\ UNCHANGED <<known, loaded, queue, seen, batch, skipped, missed>>
    BY <1>3 DEF Reensured, db, pass, DeferInv
  <2> QED
    BY <2>1 DEF DeferInv, NoDeferDropped, Collecting
<1>4. CASE Requeue
  <2>1. batch = {} /\ queue' = queue \cup skipped \cup missed
        /\ UNCHANGED <<known, loaded, seen, batch, skipped, missed>>
    BY <1>4 DEF Requeue, pass, DeferInv
  <2>2. NoDeferDropped'
    BY <2>1 DEF DeferInv, NoDeferDropped
  <2> QED
    BY <2>1, <2>2 DEF DeferInv
<1> QED
  BY <1>1, <1>2, <1>3, <1>4

LEMMA FlowKeeps ==
  ASSUME DeferInv,
         \/ StartCheck \/ Walked \/ PassOver \/ Rewalked \/ PassAgain \/ DrainOver
         \/ NextCheck \/ AllChecked \/ RootsGrown \/ Finish
  PROVE  DeferInv'
<1>1. UNCHANGED <<known, loaded, queue, seen, batch, skipped, missed>>
  BY DEF StartCheck, Walked, PassOver, Rewalked, PassAgain, DrainOver, NextCheck,
         AllChecked, RootsGrown, Finish, Goto, db, pass
<1>2. stage \notin Collecting /\ stage' \notin Collecting
  BY DEF StartCheck, Walked, PassOver, Rewalked, PassAgain, DrainOver, NextCheck,
         AllChecked, RootsGrown, Finish, Goto, Collecting
<1> QED
  BY <1>1, <1>2, Kept

LEMMA DeferNext == DeferInv /\ [Next]_vars => DeferInv'
<1> SUFFICES ASSUME DeferInv, [Next]_vars PROVE DeferInv'
  OBVIOUS
<1>1. CASE StartPass
  BY <1>1, TakeQueueKeeps DEF StartPass, Collecting
<1>2. CASE LastPass
  BY <1>2, TakeQueueKeeps DEF LastPass, Collecting
<1>3. CASE \E i \in batch : RecoverItem(i)
  BY <1>3, RecoverKeeps
<1>4. CASE UNCHANGED vars
  BY <1>4 DEF vars, db, pass, flow, DeferInv, NoDeferDropped
<1> QED
  BY <1>1, <1>2, <1>3, <1>4, WalkKeeps, PassKeeps, FlowKeeps DEF Next, Done

LEMMA DeferInitially == Init => DeferInv
BY DEF Init, DeferInv, NoDeferDropped, Collecting

\* Every deferred item is settled, queued or in the hands of the running pass:
\* take_deferred_resolves hands out what requeue_deferred_resolves gets back.
THEOREM NothingDropped == Spec => []NoDeferDropped
<1>1. DeferInv => NoDeferDropped
  BY DEF DeferInv
<1> QED
  BY <1>1, DeferInitially, DeferNext, PTL DEF Spec

-----------------------------------------------------------------------------
(* Paths.                                                                  *)

\* The hop after a proper prefix of a path is a path, and its front the prefix.
LEMMA HopIsPath ==
  ASSUME NEW t \in Paths, NEW p \in Prefixes(t), p # t
  PROVE  /\ Hop(p, t) \in Paths /\ Hop(p, t) \in Prefixes(t)
         /\ Hop(p, t) # <<>> /\ Front(Hop(p, t)) = p
<1>1. t \in Seq(Leaves) /\ Len(t) \in Nat
  BY PwWalkAssumption
<1>2. PICK l \in 0 .. Len(t) : p = SubSeq(t, 1, l)
  BY DEF Prefixes
<1>3. Len(p) = l
  BY <1>1, <1>2
<1>4. l # Len(t)
  BY <1>1, <1>2
<1>5. l + 1 \in 0 .. Len(t) /\ Hop(p, t) = SubSeq(t, 1, l + 1)
  BY <1>1, <1>3, <1>4 DEF Hop
<1>6. Hop(p, t) \in Prefixes(t)
  BY <1>5 DEF Prefixes
<1>7. Len(Hop(p, t)) = l + 1
  BY <1>1, <1>5
<1>8. Front(Hop(p, t)) = SubSeq(t, 1, l)
  BY <1>1, <1>5, <1>7 DEF Front
<1> QED
  BY <1>2, <1>6, <1>7, <1>8, PwWalkAssumption

LEMMA PrefixFacts ==
  ASSUME NEW t \in Paths
  PROVE  /\ t \in Prefixes(t) /\ <<>> \in Prefixes(t)
         /\ Prefixes(t) \subseteq Paths
<1>1. t \in Seq(Leaves) /\ Len(t) \in Nat
  BY PwWalkAssumption
<1>2. 0 \in 0 .. Len(t) /\ Len(t) \in 0 .. Len(t)
  BY <1>1
<1>3. SubSeq(t, 1, Len(t)) = t
  BY <1>1, SubSeqFull
<1>4. SubSeq(t, 1, 0) = <<>>
  BY SubSeqEmpty
<1> QED
  BY <1>2, <1>3, <1>4, PwWalkAssumption DEF Prefixes

\* What lies under a prefix of the front lies under a prefix of the path.
LEMMA UnderFront ==
  ASSUME NEW p \in Paths, p # <<>>, NEW q \in Paths, IsPrefix(q, Front(p))
  PROVE  IsPrefix(q, p)
<1>1. p \in Seq(Leaves) /\ q \in Seq(Leaves) /\ Len(p) \in Nat /\ Len(q) \in Nat
      /\ Len(p) # 0
  BY PwWalkAssumption, EmptySeq
<1>2. PICK m \in Nat : Len(p) = m + 1
  <2>1. Len(p) - 1 \in Nat /\ Len(p) = (Len(p) - 1) + 1
    BY <1>1
  <2> QED
    BY <2>1
<1>3. Front(p) = SubSeq(p, 1, m) /\ Len(Front(p)) = m /\ \A i \in 1 .. m : Front(p)[i] = p[i]
  <2>1. Front(p) = SubSeq(p, 1, m)
    BY <1>1, <1>2 DEF Front
  <2>2. \A i \in 1 .. m : p[i] \in Leaves
    BY <1>1, <1>2
  <2> QED
    BY <1>2, <2>1, <2>2, SubSeqProperties
<1>4. SubSeq(Front(p), 1, Len(q)) = SubSeq(p, 1, Len(q)) /\ Len(q) <= m
  BY <1>1, <1>2, <1>3 DEF IsPrefix
<1> QED
  BY <1>1, <1>2, <1>4 DEF IsPrefix

-----------------------------------------------------------------------------
(* Rows stand on rows.                                                     *)

EnsureStages ==
  {"walk", "ensure", "reensure", "persist", "rewalk", "lca", "roots", "extra", "finalize"}

\* Rows are dropped only between walks, and a walk goes on from a row.
RowsInv ==
  /\ stage \notin EnsureStages => Idle
  /\ goal # None => goal \in Paths /\ at \in Prefixes(goal) /\ at \in rows
  /\ rows \subseteq Paths
  /\ RowsStand

Walking ==
  \/ \E p \in Paths : SkipBlocked(p) \/ Begin(p) \/ GrowHit(p) \/ GrowMiss(p)
  \/ HopHit \/ LoadMiss \/ EdgeMiss \/ Arrive \/ GrowDone

\* Adding a row whose parent is a row, whose edge is known and whose module is
\* loaded, or adding the top, keeps every row standing.
LEMMA RowAdded ==
  ASSUME RowsInv, known \subseteq known', loaded \subseteq loaded', NEW c \in Paths,
         rows' = rows \cup {c},
         c # <<>> => Front(c) \in rows /\ Edge(c) \in known' /\ Of[c] \in loaded'
  PROVE  rows' \subseteq Paths /\ RowsStand'
BY DEF RowsInv, RowsStand

LEMMA RowsKept ==
  ASSUME RowsInv, known \subseteq known', loaded \subseteq loaded', rows' = rows
  PROVE  rows' \subseteq Paths /\ RowsStand'
BY DEF RowsInv, RowsStand

\* Whatever rows a reset drops, it drops all that stand on them.
LEMMA RowsReset ==
  ASSUME RowsInv, known \subseteq known', loaded \subseteq loaded',
         NEW P \in SUBSET Paths, rows' = ResetRows(P)
  PROVE  rows' \subseteq Paths /\ RowsStand'
<1>1. rows' \subseteq rows /\ rows \subseteq Paths
  BY DEF ResetRows, RowsInv
<1>2. ASSUME NEW p \in rows', p # <<>> PROVE Front(p) \in rows'
  <2>1. p \in rows /\ p \in Paths /\ Front(p) \in rows
    BY <1>1, <1>2 DEF RowsInv, RowsStand
  <2>2. \A q \in P : ~IsPrefix(q, p)
    BY <1>2 DEF ResetRows, Under
  <2>3. \A q \in P : ~IsPrefix(q, Front(p))
    BY <1>2, <2>1, <2>2, UnderFront
  <2> QED
    BY <2>1, <2>3 DEF ResetRows, Under
<1> QED
  BY <1>1, <1>2 DEF RowsInv, RowsStand

LEMMA WalkingStage ==
  ASSUME RowsInv, Walking
  PROVE  stage \in EnsureStages /\ stage' = stage
<1>1. ~Idle
  BY DEF Walking, SkipBlocked, Begin, GrowHit, GrowMiss, HopHit, LoadMiss, EdgeMiss,
         Arrive, GrowDone, Idle
<1>2. stage' = stage
  BY DEF Walking, SkipBlocked, Begin, GrowHit, GrowMiss, HopHit, LoadMiss, EdgeMiss,
         Arrive, GrowDone, flow
<1> QED
  BY <1>1, <1>2 DEF RowsInv

LEMMA RowsWalking ==
  ASSUME RowsInv, Walking
  PROVE  RowsInv'
<1>0. (stage \notin EnsureStages => Idle)'
  BY WalkingStage
<1>1. ASSUME NEW p \in Paths, SkipBlocked(p) PROVE RowsInv'
  BY <1>0, <1>1, RowsKept DEF SkipBlocked, RowsInv, db
<1>2. ASSUME NEW p \in Paths, Begin(p) PROVE RowsInv'
  <2>1. UNCHANGED <<known, loaded>> /\ goal = None
    BY <1>2 DEF Begin, db
  <2>2. CASE UNCHANGED <<rows, goal, at>>
    BY <1>0, <2>1, <2>2, RowsKept DEF RowsInv
  <2>3. CASE ~UNCHANGED <<rows, goal, at>>
    <3>1. rows' = rows \cup {<<>>} /\ goal' = p
      BY <1>2, <2>3 DEF Begin
    <3>2. PICK q \in Prefixes(p) : KnownPrefix(q, p) /\ at' = q
      BY <1>2, <2>3 DEF Begin
    <3>3. q \in Paths
      BY <3>2, PrefixFacts
    <3>4. q \in rows'
      BY <3>1, <3>2, <3>3, PrefixFacts DEF KnownPrefix
    <3>5. rows' \subseteq Paths /\ RowsStand'
      BY <2>1, <3>1, RowAdded, PwWalkAssumption
    <3> QED
      BY <1>0, <3>1, <3>2, <3>4, <3>5 DEF RowsInv
  <2> QED
    BY <2>2, <2>3
<1>3. ASSUME NEW p \in Paths, GrowHit(p) PROVE RowsInv'
  <2>1. /\ Front(p) \in rows /\ Edge(p) \in known
        /\ rows' = rows \cup {p} /\ loaded' = loaded \cup {Of[p]}
        /\ UNCHANGED <<known, goal, at>>
    BY <1>3 DEF GrowHit, Growable, cursor
  <2>2. rows' \subseteq Paths /\ RowsStand'
    BY <2>1, RowAdded
  <2> QED
    BY <1>0, <2>1, <2>2 DEF RowsInv
<1>4. ASSUME NEW p \in Paths, GrowMiss(p) PROVE RowsInv'
  BY <1>0, <1>4, RowsKept DEF GrowMiss, RowsInv, walk
<1>5. CASE HopHit
  <2> DEFINE c == Hop(at, goal)
  <2>1. goal \in Paths /\ at \in Prefixes(goal) /\ at \in rows /\ at # goal
    BY <1>5 DEF HopHit, RowsInv
  <2>2. c \in Paths /\ c \in Prefixes(goal) /\ Front(c) = at
    BY <2>1, HopIsPath
  <2>3. /\ rows' = rows \cup {c} /\ at' = c /\ goal' = goal
        /\ known' = known \cup {Edge(c)} /\ loaded' = loaded \cup {Of[c]}
    BY <1>5 DEF HopHit
  <2>4. rows' \subseteq Paths /\ RowsStand'
    BY <2>1, <2>2, <2>3, RowAdded
  <2> QED
    BY <1>0, <2>1, <2>2, <2>3, <2>4 DEF RowsInv
<1>6. CASE LoadMiss
  BY <1>0, <1>6, RowsKept DEF LoadMiss, RowsInv
<1>7. CASE EdgeMiss
  BY <1>0, <1>7, RowsKept DEF EdgeMiss, RowsInv
<1>8. CASE Arrive
  BY <1>0, <1>8, RowsKept DEF Arrive, RowsInv, db
<1>9. CASE GrowDone
  BY <1>0, <1>9, RowsKept DEF GrowDone, RowsInv, db, walk
<1> QED
  BY <1>1, <1>2, <1>3, <1>4, <1>5, <1>6, <1>7, <1>8, <1>9 DEF Walking

\* The prefixes of an item are paths, so what a reset drops is well defined.
ItemsInv ==
  \A i \in queue \cup batch \cup fresh \cup recovered \cup skipped \cup missed : i.reset \in Paths

LEMMA HopItems ==
  ASSUME NEW t \in Paths, NEW p \in Prefixes(t), p # t
  PROVE  /\ EdgeItem(Hop(p, t), t).reset \in Paths
         /\ ModuleItem(Hop(p, t)).reset \in Paths
BY HopIsPath, PrefixFacts DEF EdgeItem, ModuleItem

LEMMA DeferItems ==
  ASSUME ItemsInv, NEW i, i.reset \in Paths, Defer(i),
         UNCHANGED <<batch, fresh, recovered, skipped, missed>>
  PROVE  ItemsInv'
BY DEF ItemsInv, Defer

LEMMA ItemsWalking ==
  ASSUME ItemsInv, RowsInv, Walking
  PROVE  ItemsInv'
<1>0. UNCHANGED <<batch, fresh, recovered, skipped, missed>>
  BY DEF Walking, SkipBlocked, Begin, GrowHit, GrowMiss, HopHit, LoadMiss, EdgeMiss,
         Arrive, GrowDone, pass
<1> USE <1>0
<1>1. ASSUME NEW p \in Paths, GrowMiss(p) PROVE ItemsInv'
  <2>1. Defer(ModuleItem(p)) /\ Front(p) \in rows
    BY <1>1 DEF GrowMiss, Growable
  <2>2. ModuleItem(p).reset \in Paths
    BY <2>1 DEF ModuleItem, RowsInv
  <2> QED
    BY <2>1, <2>2, DeferItems
<1>2. CASE UNCHANGED queue
  BY <1>2 DEF ItemsInv
<1>3. ASSUME NEW c, c = Hop(at, goal), goal # None, at # goal,
             Defer(ModuleItem(c)) \/ Defer(EdgeItem(c, goal))
      PROVE  ItemsInv'
  BY <1>3, HopItems, DeferItems DEF RowsInv
<1>4. CASE LoadMiss
  BY <1>2, <1>3, <1>4 DEF LoadMiss
<1>5. CASE EdgeMiss
  BY <1>2, <1>3, <1>5 DEF EdgeMiss
<1> QED
  BY <1>1, <1>2, <1>4, <1>5
  DEF Walking, SkipBlocked, Begin, GrowHit, HopHit, Arrive, GrowDone, db

LEMMA ResetsArePaths ==
  ASSUME ItemsInv
  PROVE  Resets(fresh) \in SUBSET Paths /\ Resets(Persistent) \in SUBSET Paths
BY DEF ItemsInv, Resets, Persistent

LEMMA PassItems ==
  ASSUME ItemsInv,
         \/ TakeQueue \/ (\E i \in batch : RecoverItem(i))
         \/ Apply \/ Retry \/ Reensured \/ Requeue
  PROVE  ItemsInv'
<1>1. CASE TakeQueue
  BY <1>1 DEF TakeQueue, ItemsInv
<1>2. CASE \E i \in batch : RecoverItem(i)
  BY <1>2 DEF RecoverItem, ItemsInv
<1>3. CASE Apply
  BY <1>3 DEF Apply, ItemsInv, db
<1>4. CASE Retry
  BY <1>4 DEF Retry, ItemsInv, db
<1>5. CASE Reensured
  BY <1>5 DEF Reensured, ItemsInv, db, pass
<1>6. CASE Requeue
  BY <1>6 DEF Requeue, ItemsInv, pass
<1> QED
  BY <1>1, <1>2, <1>3, <1>4, <1>5, <1>6

LEMMA PassRows ==
  ASSUME RowsInv, ItemsInv,
         \/ StartPass \/ LastPass \/ (\E i \in batch : RecoverItem(i))
         \/ Apply \/ Retry \/ Reensured \/ Requeue
  PROVE  RowsInv'
<1>0. UNCHANGED <<goal, at, grow>> /\ known \subseteq known' /\ loaded \subseteq loaded'
  BY DEF StartPass, LastPass, TakeQueue, RecoverItem, Apply, Retry, Reensured, Requeue,
         cursor, db
<1>1. CASE StartPass \/ LastPass
  <2>1. Idle /\ rows' = rows /\ todo' = todo
    BY <1>1 DEF StartPass, LastPass, TakeQueue, RowsInv, EnsureStages, cursor, walk
  <2> QED
    BY <1>0, <2>1, RowsKept DEF RowsInv, Idle
<1>2. CASE (\E i \in batch : RecoverItem(i)) \/ Reensured \/ Retry
  <2>1. Idle /\ rows' = rows /\ todo' = todo
    BY <1>2 DEF RecoverItem, Reensured, Retry, RowsInv, EnsureStages, cursor, walk
  <2> QED
    BY <1>0, <2>1, RowsKept DEF RowsInv, Idle
<1>3. CASE Apply
  <2>1. Idle /\ rows' = ResetRows(Resets(fresh)) /\ stage' \in EnsureStages
    BY <1>3 DEF Apply, RowsInv, EnsureStages
  <2>2. rows' \subseteq Paths /\ RowsStand'
    BY <1>0, <2>1, ResetsArePaths, RowsReset
  <2> QED
    BY <1>0, <2>1, <2>2 DEF RowsInv, Idle
<1>4. CASE Requeue
  <2>1. Idle /\ rows' = ResetRows(Resets(Persistent)) /\ stage' \in EnsureStages
    BY <1>4 DEF Requeue, RowsInv, EnsureStages
  <2>2. rows' \subseteq Paths /\ RowsStand'
    BY <1>0, <2>1, ResetsArePaths, RowsReset
  <2> QED
    BY <1>0, <2>1, <2>2 DEF RowsInv, Idle
<1> QED
  BY <1>1, <1>2, <1>3, <1>4

LEMMA FlowRows ==
  ASSUME RowsInv, ItemsInv,
         \/ StartCheck \/ Walked \/ PassOver \/ Rewalked \/ PassAgain \/ DrainOver
         \/ NextCheck \/ AllChecked \/ RootsGrown \/ Finish
  PROVE  RowsInv' /\ ItemsInv'
<1>1. UNCHANGED <<known, loaded, queue, rows, goal, at, grow,
                  batch, fresh, recovered, skipped, missed>>
  BY DEF StartCheck, Walked, PassOver, Rewalked, PassAgain, DrainOver, NextCheck,
         AllChecked, RootsGrown, Finish, Goto, db, pass, walk, cursor
<1>2. (stage \notin EnsureStages => Idle)'
  <2>1. CASE PassOver
    <3>1. CASE caller = "walk"
      BY <2>1, <3>1 DEF PassOver, Goto, EnsureStages
    <3>2. CASE caller # "walk"
      <4>1. Trie({}) = {}
        BY DEF Trie, Branches
      <4> QED
        BY <1>1, <2>1, <3>2, <4>1 DEF PassOver, Idle
    <3> QED
      BY <3>1, <3>2
  <2>2. CASE StartCheck \/ DrainOver \/ RootsGrown
    BY <2>2 DEF StartCheck, DrainOver, RootsGrown, Goto, EnsureStages
  <2>3. CASE AllChecked
    BY <1>1, <2>3 DEF AllChecked, EnsureStages, RowsInv, Idle
  <2>4. CASE Walked \/ Rewalked \/ PassAgain \/ NextCheck \/ Finish
    BY <1>1, <2>4 DEF Walked, Rewalked, PassAgain, NextCheck, Finish, Goto, cursor,
                      EnsureStages, RowsInv, Idle
  <2> QED
    BY <2>1, <2>2, <2>3, <2>4
<1> QED
  BY <1>1, <1>2, RowsKept DEF RowsInv, ItemsInv

LEMMA RowsInitially == Init => RowsInv /\ ItemsInv
<1> SUFFICES ASSUME Init PROVE RowsInv /\ ItemsInv
  OBVIOUS
<1>1. rows = {<<>>} /\ goal = None /\ Idle
  BY DEF Init, Idle
<1>2. RowsStand
  BY <1>1 DEF RowsStand
<1> QED
  BY <1>1, <1>2, PwWalkAssumption DEF Init, RowsInv, ItemsInv

LEMMA RowsNext == RowsInv /\ ItemsInv /\ [Next]_vars => RowsInv' /\ ItemsInv'
<1> SUFFICES ASSUME RowsInv, ItemsInv, [Next]_vars PROVE RowsInv' /\ ItemsInv'
  OBVIOUS
<1>1. CASE Walking
  BY <1>1, RowsWalking, ItemsWalking
<1>2. CASE \/ StartPass \/ LastPass \/ (\E i \in batch : RecoverItem(i))
           \/ Apply \/ Retry \/ Reensured \/ Requeue
  BY <1>2, PassRows, PassItems DEF StartPass, LastPass
<1>3. CASE UNCHANGED vars
  BY <1>3 DEF vars, db, walk, pass, flow, cursor, RowsInv, RowsStand, ItemsInv, Idle
<1> QED
  BY <1>1, <1>2, <1>3, FlowRows DEF Next, Done, Walking

\* A row always stands on its parent's row, on a known edge and on a loaded
\* module: _reset_walk_subtree drops whole subtrees.
THEOREM RowsAlwaysStand == Spec => []RowsStand
<1>1. RowsInv => RowsStand
  BY DEF RowsInv
<1> QED
  BY <1>1, RowsInitially, RowsNext, PTL DEF Spec

-----------------------------------------------------------------------------
(* No cached miss denies what the index knows.                             *)

Denied(x) == Edge(Hop(x[1], x[2]))

\* While a pass collects, a stale miss is one of a module whose item was found.
MissInv ==
  /\ \A x \in misses : x[2] \in Paths /\ x[1] \in Prefixes(x[2]) /\ x[1] # x[2]
  /\ fresh # {} => stage \in {"recover", "retry"}
  /\ \A x \in misses : Denied(x) \in known => \E i \in fresh : i.mod = Of[x[1]]

\* The edge a miss denies is one of the module it was cached under.
LEMMA DeniedEdge ==
  ASSUME MissInv, NEW x \in misses
  PROVE  Denied(x)[1] = Of[x[1]]
BY HopIsPath DEF Denied, Edge, MissInv

\* What a step learns of a module, it drops the misses of.
LEMMA Learnt ==
  ASSUME MissInv, NEW M, fresh' = fresh, stage' = stage, misses' = DropModules(misses, M),
         \A e \in known' \ known : e[1] \in M
  PROVE  MissInv'
<1>1. misses' \subseteq misses
  BY DEF DropModules
<1>2. ASSUME NEW x \in misses', Denied(x) \in known' PROVE Denied(x) \in known
  BY <1>1, <1>2, DeniedEdge DEF DropModules
<1> QED
  BY <1>1, <1>2 DEF MissInv

LEMMA MissesKept ==
  ASSUME MissInv, misses' \subseteq misses, known' = known, fresh' = fresh,
         stage' = stage \/ fresh = {}
  PROVE  MissInv'
BY DEF MissInv

LEMMA MissesWalking ==
  ASSUME MissInv, RowsInv, Walking
  PROVE  MissInv'
<1>0. stage' = stage /\ fresh' = fresh /\ fresh = {}
  <2>1. fresh' = fresh
    BY DEF Walking, SkipBlocked, Begin, GrowHit, GrowMiss, HopHit, LoadMiss, EdgeMiss,
           Arrive, GrowDone, pass
  <2> QED
    BY <2>1, WalkingStage DEF MissInv, EnsureStages
<1>1. CASE UNCHANGED <<misses, known>>
  BY <1>0, <1>1, MissesKept
<1>2. ASSUME NEW p \in Paths, GrowHit(p) PROVE MissInv'
  BY <1>0, <1>2, MissesKept DEF GrowHit, DropModules
<1>3. ASSUME goal # None, at # goal
      PROVE  /\ goal \in Paths /\ at \in Prefixes(goal)
             /\ Front(Hop(at, goal)) = at
             /\ Edge(Hop(at, goal))[1] = Of[at]
  BY <1>3, HopIsPath DEF RowsInv, Edge
<1>4. CASE HopHit
  <2> DEFINE c == Hop(at, goal)
             M == Fresh(c) \cup ({Of[c]} \ loaded)
  <2>1. goal # None /\ at # goal /\ misses' = DropModules(misses, M)
        /\ known' = known \cup {Edge(c)}
    BY <1>4 DEF HopHit
  <2>2. \A e \in known' \ known : e[1] \in M
    BY <2>1, <1>3 DEF Fresh
  <2> QED
    BY <1>0, <2>1, <2>2, Learnt
<1>5. CASE LoadMiss
  <2> DEFINE c == Hop(at, goal)
  <2>1. goal # None /\ at # goal /\ misses' = DropModules(misses, Fresh(c))
        /\ known' = known \cup {Edge(c)}
    BY <1>5 DEF LoadMiss
  <2>2. \A e \in known' \ known : e[1] \in Fresh(c)
    BY <2>1, <1>3 DEF Fresh
  <2> QED
    BY <1>0, <2>1, <2>2, Learnt
<1>6. CASE EdgeMiss
  <2> DEFINE c == Hop(at, goal)
             y == <<at, goal>>
  <2>1. goal # None /\ at # goal /\ ~Finds(c, goal) /\ known' = known
        /\ misses' = misses \cup {y}
    BY <1>6 DEF EdgeMiss
  <2>2. y[1] = at /\ y[2] = goal
    OBVIOUS
  <2>3. Denied(y) = Edge(c)
    BY <2>2 DEF Denied
  <2>4. y \in misses \/ Edge(c) \notin known
    BY <2>1, <1>3 DEF Finds
  <2>5. Denied(y) \notin known
    BY <1>0, <2>3, <2>4 DEF MissInv
  <2> QED
    BY <1>0, <1>3, <2>1, <2>2, <2>5 DEF MissInv
<1> QED
  BY <1>1, <1>2, <1>4, <1>5, <1>6
  DEF Walking, SkipBlocked, Begin, GrowMiss, Arrive, GrowDone, db, walk

LEMMA MissesInPass ==
  ASSUME MissInv,
         \/ StartPass \/ LastPass \/ (\E i \in batch : RecoverItem(i))
         \/ Apply \/ Retry \/ Reensured \/ Requeue
  PROVE  MissInv'
<1>1. CASE StartPass \/ LastPass
  <2>1. UNCHANGED <<misses, known>> /\ fresh = {} /\ fresh' = {}
    BY <1>1 DEF StartPass, LastPass, TakeQueue, walk, MissInv
  <2> QED
    BY <2>1, MissesKept
<1>2. ASSUME NEW i \in batch, RecoverItem(i) PROVE MissInv'
  <2>1. UNCHANGED <<misses, stage>> /\ stage \in {"recover", "retry"}
    BY <1>2 DEF RecoverItem, walk, flow
  <2>2. \/ UNCHANGED <<known, fresh>>
        \/ fresh' = fresh \cup {i} /\ known' \subseteq known \cup {ItemEdge(i)}
    BY <1>2 DEF RecoverItem
  <2>3. ItemEdge(i)[1] = i.mod
    BY DEF ItemEdge
  <2>4. ASSUME NEW x \in misses, Denied(x) \in known'
        PROVE  \E j \in fresh' : j.mod = Of[x[1]]
    BY <2>2, <2>3, <2>4, DeniedEdge DEF MissInv
  <2> QED
    BY <2>1, <2>4 DEF MissInv
<1>3. CASE Apply
  <2>1. misses' = DropModules(ResetMisses(Resets(fresh)), {i.mod : i \in fresh})
        /\ known' = known /\ fresh' = {}
    BY <1>3 DEF Apply, db
  <2>2. misses' \subseteq misses /\ \A x \in misses' : ~\E i \in fresh : i.mod = Of[x[1]]
    BY <2>1 DEF DropModules, ResetMisses
  <2> QED
    BY <2>1, <2>2 DEF MissInv
<1>4. CASE Retry \/ Reensured
  <2>1. UNCHANGED <<misses, known, fresh>> /\ fresh = {}
    BY <1>4 DEF Retry, Reensured, walk, db, pass, MissInv
  <2> QED
    BY <2>1, MissesKept
<1>5. CASE Requeue
  <2>1. UNCHANGED <<known, fresh>> /\ fresh = {} /\ misses' \subseteq misses
    BY <1>5 DEF Requeue, ResetMisses, pass, MissInv
  <2> QED
    BY <2>1, MissesKept
<1> QED
  BY <1>1, <1>2, <1>3, <1>4, <1>5

LEMMA MissesInFlow ==
  ASSUME MissInv,
         \/ StartCheck \/ Walked \/ PassOver \/ Rewalked \/ PassAgain \/ DrainOver
         \/ NextCheck \/ AllChecked \/ RootsGrown \/ Finish
  PROVE  MissInv'
<1>1. UNCHANGED <<misses, known, fresh>>
  BY DEF StartCheck, Walked, PassOver, Rewalked, PassAgain, DrainOver, NextCheck,
         AllChecked, RootsGrown, Finish, Goto, db, walk, pass
<1>2. stage \notin {"recover", "retry"}
  BY DEF StartCheck, Walked, PassOver, Rewalked, PassAgain, DrainOver, NextCheck,
         AllChecked, RootsGrown, Finish
<1> QED
  BY <1>1, <1>2, MissesKept DEF MissInv

LEMMA MissInitially == Init => MissInv
BY DEF Init, MissInv

LEMMA MissNext == RowsInv /\ MissInv /\ [Next]_vars => MissInv'
<1> SUFFICES ASSUME RowsInv, MissInv, [Next]_vars PROVE MissInv'
  OBVIOUS
<1>1. CASE Walking
  BY <1>1, MissesWalking
<1>2. CASE UNCHANGED vars
  BY <1>2, MissesKept DEF vars, db, walk, pass, flow
<1> QED
  BY <1>1, <1>2, MissesInPass, MissesInFlow DEF Next, Done, Walking

\* Outside a collecting pass no cached miss denies a known edge, for the index
\* is only ever extended together with _invalidate_walk_caches.
THEOREM NoMissIsStale == Spec => []NoStaleMiss
<1>1. MissInv => NoStaleMiss
  BY DEF MissInv, NoStaleMiss, Denied
<1> QED
  BY <1>1, RowsInitially, RowsNext, MissInitially, MissNext, PTL DEF Spec

-----------------------------------------------------------------------------
(* Types.                                                                  *)

\* A walk for a check has a check to walk, a drain before connect has none left
\* to return to, and a last pass goes on to nothing.
FlowInv ==
  /\ design \in Designs /\ request \in Requests
  /\ stage \in Stages /\ caller \in {"walk", "final", "last"}
  /\ check \in 1 .. Len(request.checks) + 1 /\ passes \in 0 .. PassCap
  /\ stalled \in BOOLEAN
  /\ caller = "last" => stage \in Collecting \cup {"persist", "done"}
  /\ caller = "final" => stage \notin {"check", "walk", "lca", "roots", "extra"}
  /\ caller = "walk" /\ stage \notin {"check", "finalize", "done"}
       => check <= Len(request.checks)

LEMMA RequestFacts ==
  ASSUME request \in Requests
  PROVE  /\ request.checks \in Seq(SUBSET Paths) /\ request.roots \subseteq Paths
         /\ Len(request.checks) \in Nat /\ Specs \subseteq Paths
         /\ \A n \in 1 .. Len(request.checks) : request.checks[n] \subseteq Paths
<1>1. request.checks \in Seq(SUBSET Paths) /\ request.roots \subseteq Paths
  BY PwWalkAssumption DEF Request
<1>2. \A n \in 1 .. Len(request.checks) : request.checks[n] \in SUBSET Paths
  BY <1>1
<1>3. Specs \subseteq Paths
  BY <1>1, <1>2 DEF Specs, Range
<1> QED
  BY <1>1, <1>2, <1>3

LEMMA FlowInitially == Init => FlowInv
<1> SUFFICES ASSUME Init PROVE FlowInv
  OBVIOUS
<1>1. Len(request.checks) \in Nat /\ PassCap \in Nat
  BY RequestFacts, PwWalkAssumption DEF Init
<1>2. /\ design \in Designs /\ request \in Requests /\ passes = 0 /\ stalled = FALSE
      /\ stage = "check" /\ caller = "walk" /\ check = 1
  BY DEF Init
<1>3. check \in 1 .. Len(request.checks) + 1 /\ passes \in 0 .. PassCap
  BY <1>1, <1>2
<1> QED
  BY <1>2, <1>3 DEF FlowInv, Stages

LEMMA FlowNext == FlowInv /\ [Next]_vars => FlowInv'
<1> SUFFICES ASSUME FlowInv, [Next]_vars PROVE FlowInv'
  OBVIOUS
<1>0. UNCHANGED <<design, request>> /\ Len(request.checks) \in Nat /\ PassCap \in Nat
  <2>1. UNCHANGED input
    BY DEF Next, SkipBlocked, Begin, GrowHit, GrowMiss, HopHit, LoadMiss, EdgeMiss, Arrive,
           GrowDone, StartPass, TakeQueue, RecoverItem, Apply, Retry, Reensured, Requeue,
           StartCheck, Walked, PassOver, Rewalked, PassAgain, DrainOver, NextCheck,
           AllChecked, RootsGrown, LastPass, Finish, Goto, Done, vars
  <2> QED
    BY <2>1, RequestFacts, PwWalkAssumption DEF input, FlowInv
<1> USE <1>0
<1>1. CASE Walking \/ \E i \in batch : RecoverItem(i)
  <2>1. UNCHANGED flow
    BY <1>1 DEF Walking, SkipBlocked, Begin, GrowHit, GrowMiss, HopHit, LoadMiss, EdgeMiss,
                Arrive, GrowDone, RecoverItem
  <2> QED
    BY <2>1 DEF flow, FlowInv
<1>2. CASE StartPass
  BY <1>2 DEF StartPass, TakeQueue, FlowInv, Stages, Collecting
<1>3. CASE LastPass
  BY <1>3 DEF LastPass, TakeQueue, FlowInv, Stages, Collecting
<1>4. CASE Apply \/ Retry \/ Reensured \/ Requeue
  BY <1>4 DEF Apply, Retry, Reensured, Requeue, FlowInv, Stages, Collecting
<1>5. CASE StartCheck \/ Walked \/ Rewalked \/ PassAgain \/ RootsGrown
  BY <1>5 DEF StartCheck, Walked, Rewalked, PassAgain, RootsGrown, Goto, FlowInv,
              Stages, Collecting
<1>6. CASE PassOver
  BY <1>6 DEF PassOver, Goto, FlowInv, Stages, Collecting
<1>7. CASE DrainOver
  BY <1>7 DEF DrainOver, Goto, FlowInv, Stages, Collecting
<1>8. CASE NextCheck \/ AllChecked \/ Finish
  BY <1>8 DEF NextCheck, AllChecked, Finish, Goto, FlowInv, Stages, Collecting
<1>9. CASE UNCHANGED vars
  BY <1>9 DEF vars, flow, FlowInv
<1> QED
  BY <1>1, <1>2, <1>3, <1>4, <1>5, <1>6, <1>7, <1>8, <1>9 DEF Next, Done, Walking

\* A path below the top names an edge of the module above it.
LEMMA EdgeFacts ==
  ASSUME NEW c \in Paths, c # <<>>
  PROVE  /\ Front(c) \in Paths /\ Last(c) \in Leaves /\ Of[c] \in Mods
         /\ Edge(c) \in Edges /\ Of[Front(c)] \in Mods
<1>1. c \in Seq(Leaves) /\ Len(c) \in Nat /\ Len(c) # 0
  BY PwWalkAssumption, EmptySeq
<1>2. Len(c) \in 1 .. Len(c) /\ Len(c) - 1 \in 0 .. Len(c)
  BY <1>1
<1>3. Last(c) \in Leaves
  BY <1>1, <1>2 DEF Last
<1>4. Front(c) \in Prefixes(c)
  BY <1>2 DEF Front, Prefixes
<1>5. Front(c) \in Paths
  BY <1>4, PrefixFacts
<1>6. Of[c] \in Mods /\ Of[Front(c)] \in Mods
  BY <1>5 DEF Mods
<1> QED
  BY <1>3, <1>5, <1>6 DEF Edge, Edges

LEMMA NewItems ==
  ASSUME NEW c \in Paths, c # <<>>, NEW t \in Paths
  PROVE  /\ EdgeItem(c, t) \in Item /\ EdgeItem(c, t).leaf \in Leaves
         /\ ModuleItem(c) \in Item /\ ModuleItem(c).kind = "module"
<1>1. Front(c) \in Paths /\ Last(c) \in Leaves /\ Of[c] \in Mods /\ Of[Front(c)] \in Mods
  BY EdgeFacts
<1> QED
  BY <1>1 DEF EdgeItem, ModuleItem, Item

\* What is deferred is an item, and an edge item names a leaf; what was deferred
\* can be counted.
ItemsOK ==
  /\ queue \cup batch \cup fresh \cup recovered \cup skipped \cup missed \subseteq Item
  /\ \A i \in queue \cup batch \cup fresh \cup recovered \cup skipped \cup missed :
       i.kind = "edge" => i.leaf \in Leaves
  /\ seen \subseteq {"edge", "module"} \X Mods \X (Leaves \cup {None}) \X Mods
  /\ \A S \in {queue, batch, skipped, missed, seen} : IsFiniteSet(S)
  /\ before \in Nat

LEMMA DeferTyped ==
  ASSUME ItemsOK, NEW i \in Item, i.kind = "edge" => i.leaf \in Leaves, Defer(i),
         UNCHANGED pass
  PROVE  ItemsOK'
<1>1. CASE UNCHANGED <<queue, seen>>
  BY <1>1 DEF ItemsOK, pass
<1>2. CASE queue' = queue \cup {i} /\ seen' = seen \cup {Key(i)}
  <2>1. Key(i) \in {"edge", "module"} \X Mods \X (Leaves \cup {None}) \X Mods
    BY DEF Key, Item
  <2>2. IsFiniteSet(queue') /\ IsFiniteSet(seen')
    BY <1>2, FS_AddElement DEF ItemsOK
  <2>3. UNCHANGED <<batch, fresh, recovered, skipped, missed, before>>
    BY DEF pass
  <2> QED
    BY <1>2, <2>1, <2>2, <2>3 DEF ItemsOK
<1> QED
  BY <1>1, <1>2 DEF Defer

LEMMA ItemsTypedWalking ==
  ASSUME ItemsOK, RowsInv, Walking
  PROVE  ItemsOK'
<1>0. UNCHANGED pass
  BY DEF Walking, SkipBlocked, Begin, GrowHit, GrowMiss, HopHit, LoadMiss, EdgeMiss,
         Arrive, GrowDone
<1>1. CASE UNCHANGED <<queue, seen>>
  BY <1>0, <1>1 DEF ItemsOK, pass
<1>2. ASSUME NEW p \in Paths, GrowMiss(p) PROVE ItemsOK'
  <2>1. Defer(ModuleItem(p)) /\ p # <<>>
    BY <1>2 DEF GrowMiss, Growable
  <2> QED
    BY <1>0, <2>1, NewItems, DeferTyped
<1>3. ASSUME NEW c, c = Hop(at, goal), goal # None, at # goal,
             Defer(ModuleItem(c)) \/ Defer(EdgeItem(c, goal))
      PROVE  ItemsOK'
  <2>1. goal \in Paths /\ c \in Paths /\ c # <<>>
    BY <1>3, HopIsPath DEF RowsInv
  <2> QED
    BY <1>0, <1>3, <2>1, NewItems, DeferTyped
<1>4. CASE LoadMiss
  BY <1>1, <1>3, <1>4 DEF LoadMiss
<1>5. CASE EdgeMiss
  BY <1>1, <1>3, <1>5 DEF EdgeMiss
<1> QED
  BY <1>1, <1>2, <1>4, <1>5
  DEF Walking, SkipBlocked, Begin, GrowHit, HopHit, Arrive, GrowDone, db

LEMMA ItemsTyped == ItemsOK /\ RowsInv /\ [Next]_vars => ItemsOK'
<1> SUFFICES ASSUME ItemsOK, RowsInv, [Next]_vars PROVE ItemsOK'
  OBVIOUS
<1>1. CASE StartPass \/ LastPass
  <2>1. /\ batch' = queue /\ queue' = {} /\ fresh' = {} /\ recovered' = {}
        /\ skipped' = {} /\ missed' = {} /\ seen' = seen /\ before' = Cardinality(queue)
    BY <1>1 DEF StartPass, LastPass, TakeQueue
  <2>2. before' \in Nat /\ IsFiniteSet({})
    BY <2>1, FS_CardinalityType, FS_EmptySet DEF ItemsOK
  <2> QED
    BY <2>1, <2>2 DEF ItemsOK
<1>2. ASSUME NEW i \in batch, RecoverItem(i) PROVE ItemsOK'
  <2>1. UNCHANGED <<queue, seen, recovered, before>> /\ batch' = batch \ {i}
        /\ fresh' \in {fresh, fresh \cup {i}} /\ skipped' \in {skipped, skipped \cup {i}}
        /\ missed' \in {missed, missed \cup {i}}
    BY <1>2 DEF RecoverItem
  <2>2. IsFiniteSet(batch') /\ IsFiniteSet(skipped') /\ IsFiniteSet(missed')
    BY <2>1, FS_AddElement, FS_Subset DEF ItemsOK
  <2> QED
    BY <2>1, <2>2 DEF ItemsOK
<1>3. CASE Apply \/ Retry
  <2>1. UNCHANGED <<queue, seen, missed, before>> /\ fresh' \subseteq fresh
        /\ recovered' \subseteq recovered \cup fresh
        /\ \/ UNCHANGED <<batch, skipped>>
           \/ batch' = skipped /\ skipped' = {}
    BY <1>3 DEF Apply, Retry, db
  <2> QED
    BY <2>1, FS_EmptySet DEF ItemsOK
<1>4. CASE Requeue
  <2>1. queue' = queue \cup skipped \cup missed /\ UNCHANGED <<seen, pass>>
    BY <1>4 DEF Requeue
  <2>2. IsFiniteSet(queue')
    BY <2>1, FS_Union DEF ItemsOK
  <2> QED
    BY <2>1, <2>2 DEF ItemsOK, pass
<1>5. CASE UNCHANGED <<queue, seen, pass>>
  BY <1>5 DEF ItemsOK, pass
<1>6. CASE \/ Reensured \/ StartCheck \/ Walked \/ PassOver \/ Rewalked \/ PassAgain
           \/ DrainOver \/ NextCheck \/ AllChecked \/ RootsGrown \/ Finish
           \/ UNCHANGED vars
  BY <1>5, <1>6 DEF Reensured, StartCheck, Walked, PassOver, Rewalked, PassAgain, DrainOver,
         NextCheck, AllChecked, RootsGrown, Finish, Goto, db, vars
<1> QED
  BY <1>1, <1>2, <1>3, <1>4, <1>6, ItemsTypedWalking DEF Next, Done, Walking

IndexOK == known \subseteq Edges /\ loaded \subseteq Mods

LEMMA IndexTyped == IndexOK /\ ItemsOK /\ RowsInv /\ [Next]_vars => IndexOK'
<1> SUFFICES ASSUME IndexOK, ItemsOK, RowsInv, [Next]_vars PROVE IndexOK'
  OBVIOUS
<1>1. ASSUME goal # None, at # goal
      PROVE  Of[Hop(at, goal)] \in Mods /\ Edge(Hop(at, goal)) \in Edges
  BY <1>1, HopIsPath, EdgeFacts DEF RowsInv
<1>2. CASE HopHit \/ LoadMiss
  <2>1. /\ goal # None /\ at # goal
        /\ known' = known \cup {Edge(Hop(at, goal))}
        /\ loaded' \subseteq loaded \cup {Of[Hop(at, goal)]}
    BY <1>2 DEF HopHit, LoadMiss
  <2> QED
    BY <1>1, <2>1 DEF IndexOK
<1>3. ASSUME NEW p \in Paths, GrowHit(p) PROVE IndexOK'
  <2>1. p # <<>> /\ known' = known /\ loaded' = loaded \cup {Of[p]}
    BY <1>3 DEF GrowHit, Growable
  <2> QED
    BY <2>1, EdgeFacts DEF IndexOK
<1>4. ASSUME NEW i \in batch, RecoverItem(i) PROVE IndexOK'
  <2>1. i \in Item /\ (i.kind = "edge" => i.leaf \in Leaves)
    BY DEF ItemsOK
  <2>2. i.mod \in Mods /\ (i.kind = "edge" => ItemEdge(i) \in Edges)
    BY <2>1 DEF Item, ItemEdge, Edges
  <2>3. \/ UNCHANGED <<known, loaded>>
        \/ /\ known' = IF i.kind = "edge" THEN known \cup {ItemEdge(i)} ELSE known
           /\ loaded' = IF i.kind = "edge" THEN loaded ELSE loaded \cup {i.mod}
    BY <1>4 DEF RecoverItem
  <2> QED
    BY <2>2, <2>3 DEF IndexOK
<1>5. CASE UNCHANGED <<known, loaded>>
  BY <1>5 DEF IndexOK
<1>6. CASE \/ \E p \in Paths : SkipBlocked(p) \/ Begin(p) \/ GrowMiss(p)
           \/ EdgeMiss \/ Arrive \/ GrowDone \/ UNCHANGED vars
  BY <1>5, <1>6 DEF SkipBlocked, Begin, GrowMiss, EdgeMiss, Arrive, GrowDone, db, vars
<1>7. CASE \/ StartPass \/ Apply \/ Retry \/ Reensured \/ Requeue \/ LastPass
           \/ StartCheck \/ Walked \/ PassOver \/ Rewalked \/ PassAgain
           \/ DrainOver \/ NextCheck \/ AllChecked \/ RootsGrown \/ Finish
  BY <1>5, <1>7 DEF StartPass, LastPass, TakeQueue, Apply, Retry, Reensured, Requeue,
         StartCheck, Walked, PassOver, Rewalked, PassAgain, DrainOver, NextCheck,
         AllChecked, RootsGrown, Finish, Goto, db
<1> QED
  BY <1>2, <1>3, <1>4, <1>6, <1>7 DEF Next, Done

PlacesOK ==
  /\ blocked \subseteq Paths /\ tried \subseteq Paths
  /\ pending \subseteq [at : Paths, target : Paths] /\ misses \subseteq Paths \X Paths
  /\ targets \subseteq Paths /\ todo \subseteq Paths /\ skip \subseteq Paths
  /\ found \subseteq Paths
  /\ grow \in Paths \cup {None} /\ at \in Paths

LEMMA PlacesTypedWalking ==
  ASSUME PlacesOK, RowsInv, Walking
  PROVE  PlacesOK'
<1>0. UNCHANGED <<skip, targets>>
  BY DEF Walking, SkipBlocked, Begin, GrowHit, GrowMiss, HopHit, LoadMiss, EdgeMiss,
         Arrive, GrowDone, pass, flow
<1>1. ASSUME NEW p \in Paths, SkipBlocked(p) PROVE PlacesOK'
  <2>1. blocked' \subseteq blocked
    BY <1>1 DEF SkipBlocked, Cleared
  <2> QED
    BY <1>0, <1>1, <2>1 DEF SkipBlocked, PlacesOK
<1>2. ASSUME NEW p \in Paths, Begin(p) PROVE PlacesOK'
  <2>1. blocked' \subseteq blocked
    BY <1>2 DEF Begin, Cleared
  <2>2. at' \in Paths
    <3>1. CASE UNCHANGED at
      BY <3>1 DEF PlacesOK
    <3>2. CASE \E q \in Prefixes(p) : KnownPrefix(q, p) /\ at' = q
      BY <3>2, PrefixFacts
    <3> QED
      BY <1>2, <3>1, <3>2 DEF Begin
  <2> QED
    BY <1>0, <1>2, <2>1, <2>2 DEF Begin, PlacesOK
<1>3. ASSUME NEW p \in Paths, GrowHit(p) \/ GrowMiss(p) PROVE PlacesOK'
  <2>1. misses' \subseteq misses /\ tried' \subseteq tried \cup {p}
    BY <1>3 DEF GrowHit, GrowMiss, DropModules, walk, cursor
  <2> QED
    BY <1>0, <1>3, <2>1 DEF GrowHit, GrowMiss, PlacesOK, walk, cursor
<1>4. ASSUME goal # None, at # goal
      PROVE  /\ goal \in Paths /\ Hop(at, goal) \in Paths
             /\ QueueMiss(Hop(at, goal), goal) \subseteq [at : Paths, target : Paths]
  <2>1. goal \in Paths /\ Hop(at, goal) \in Paths
    BY <1>4, HopIsPath DEF RowsInv
  <2> QED
    BY <2>1 DEF QueueMiss, PlacesOK
<1>5. CASE HopHit
  <2>1. misses' \subseteq misses
    BY <1>5 DEF HopHit, DropModules
  <2> QED
    BY <1>0, <1>4, <1>5, <2>1 DEF HopHit, PlacesOK
<1>6. CASE LoadMiss
  <2>1. misses' \subseteq misses
    BY <1>6 DEF LoadMiss, DropModules
  <2> QED
    BY <1>0, <1>4, <1>6, <2>1 DEF LoadMiss, PlacesOK
<1>7. CASE EdgeMiss
  <2>1. blocked' \subseteq blocked \cup {Hop(at, goal)}
    BY <1>7 DEF EdgeMiss
  <2> QED
    BY <1>0, <1>4, <1>7, <2>1 DEF EdgeMiss, PlacesOK
<1>8. CASE Arrive
  <2>1. blocked' \subseteq blocked
    BY <1>8 DEF Arrive, Unblock
  <2> QED
    BY <1>0, <1>8, <2>1 DEF Arrive, PlacesOK, RowsInv
<1>9. CASE GrowDone
  BY <1>0, <1>9 DEF GrowDone, PlacesOK, walk
<1> QED
  BY <1>1, <1>2, <1>3, <1>5, <1>6, <1>7, <1>8, <1>9 DEF Walking

LEMMA ResetPlaces ==
  ASSUME PlacesOK, NEW P
  PROVE  /\ ResetPending(P) \subseteq pending /\ ResetBlocked(P) \subseteq blocked
         /\ ResetMisses(P) \subseteq misses
BY DEF ResetPending, ResetBlocked, ResetMisses

LEMMA AffectedPaths ==
  ASSUME NEW S \in SUBSET Item, targets \subseteq Paths
  PROVE  Targets(S) \subseteq Paths /\ Affected(S) \subseteq Paths
BY DEF Targets, Affected, Touching, Item

LEMMA TriePaths ==
  ASSUME NEW S \in SUBSET Paths
  PROVE  Trie(S) \subseteq Paths
BY DEF Trie, Branches

LEMMA PlacesTyped ==
  PlacesOK /\ ItemsOK /\ RowsInv /\ FlowInv /\ [Next]_vars => PlacesOK'
<1> SUFFICES ASSUME PlacesOK, ItemsOK, RowsInv, FlowInv, [Next]_vars PROVE PlacesOK'
  OBVIOUS
<1>1. CASE StartPass \/ LastPass
  BY <1>1 DEF StartPass, LastPass, TakeQueue, walk, cursor, PlacesOK
<1>2. CASE (\E i \in batch : RecoverItem(i)) \/ Retry \/ Reensured
  BY <1>2 DEF RecoverItem, Retry, Reensured, walk, cursor, pass, flow, PlacesOK
<1>3. CASE Apply
  <2>1. Targets(fresh) \subseteq Paths
    BY AffectedPaths DEF ItemsOK, PlacesOK
  <2>2. /\ pending' \subseteq pending /\ blocked' \subseteq blocked /\ misses' \subseteq misses
    BY <1>3, ResetPlaces DEF Apply, Unblocked, DropModules
  <2>3. todo' \subseteq Targets(fresh) /\ skip' \subseteq skip \cup Targets(fresh)
    BY <1>3 DEF Apply, Covered
  <2> QED
    BY <1>3, <2>1, <2>2, <2>3 DEF Apply, PlacesOK
<1>4. CASE Requeue
  <2>1. Targets(Persistent) \subseteq Paths
    <3>1. Persistent \in SUBSET Item
      BY DEF Persistent, ItemsOK
    <3> QED
      BY <3>1, AffectedPaths DEF PlacesOK
  <2>2. /\ pending' \subseteq pending /\ blocked' \subseteq blocked /\ misses' \subseteq misses
        /\ todo' \subseteq Targets(Persistent)
    BY <1>4, ResetPlaces DEF Requeue
  <2> QED
    BY <1>4, <2>1, <2>2 DEF Requeue, PlacesOK, pass
<1>5. CASE PassOver
  <2> DEFINE again == IF caller = "walk" /\ recovered # {} THEN Affected(recovered) ELSE {}
  <2>1. again \subseteq Paths
    BY AffectedPaths DEF ItemsOK, PlacesOK
  <2>2. todo' = Trie(again) /\ targets' = targets \cup again
    BY <1>5 DEF PassOver
  <2> QED
    BY <1>5, <2>1, <2>2, TriePaths DEF PassOver, Goto, walk, pass, PlacesOK
<1>6. ASSUME NEW n \in 1 .. Len(request.checks)
      PROVE  request.checks[n] \subseteq Paths /\ Trie(request.checks[n]) \subseteq Paths
  BY <1>6, RequestFacts, TriePaths DEF FlowInv
<1>7. CASE StartCheck
  <2>1. check \in 1 .. Len(request.checks)
    BY <1>7, RequestFacts DEF StartCheck, FlowInv
  <2>2. /\ targets' = targets \cup request.checks[check]
        /\ todo' = Trie(request.checks[check])
    BY <1>7 DEF StartCheck
  <2> QED
    BY <1>6, <1>7, <2>1, <2>2 DEF StartCheck, Goto, walk, pass, PlacesOK
<1>8. CASE DrainOver
  <2>1. \/ todo' = Specs
        \/ todo' = request.roots
        \/ caller = "walk" /\ todo' = request.checks[check]
    BY <1>8 DEF DrainOver, FlowInv, Collecting
  <2>2. caller = "walk" => check \in 1 .. Len(request.checks)
    BY <1>8, RequestFacts DEF DrainOver, FlowInv
  <2>3. todo' \subseteq Paths
    BY <1>6, <2>1, <2>2, RequestFacts DEF FlowInv
  <2> QED
    BY <1>8, <2>3 DEF DrainOver, Goto, walk, pass, PlacesOK
<1>9. CASE AllChecked \/ RootsGrown
  <2>1. todo' \subseteq Paths /\ pending' = {}
    BY <1>9, RequestFacts DEF AllChecked, RootsGrown, FlowInv, PlacesOK
  <2> QED
    BY <1>9, <2>1 DEF AllChecked, RootsGrown, pass, PlacesOK
<1>10. CASE Walked \/ Rewalked \/ PassAgain \/ NextCheck \/ Finish \/ UNCHANGED vars
  BY <1>10 DEF Walked, Rewalked, PassAgain, NextCheck, Finish, Goto, walk, cursor, pass,
               flow, vars, PlacesOK
<1> QED
  BY <1>1, <1>2, <1>3, <1>4, <1>5, <1>7, <1>8, <1>9, <1>10, PlacesTypedWalking
  DEF Next, Done, Walking

\* Every variable stays in its domain: what a reset, a pass or a driver puts in
\* one is a path, an item or an edge of the hierarchy.
TypeInv == FlowInv /\ RowsInv /\ ItemsInv /\ ItemsOK /\ IndexOK /\ PlacesOK

LEMMA TypesInitially == Init => TypeInv
<1> SUFFICES ASSUME Init PROVE TypeInv
  OBVIOUS
<1>1. FlowInv /\ RowsInv /\ ItemsInv
  BY FlowInitially, RowsInitially
<1>2. ItemsOK
  BY FS_EmptySet DEF Init, ItemsOK
<1>3. IndexOK
  BY PwWalkAssumption DEF Init, IndexOK, Design, Mods
<1>4. PlacesOK
  BY PwWalkAssumption DEF Init, PlacesOK
<1> QED
  BY <1>1, <1>2, <1>3, <1>4 DEF TypeInv

LEMMA TypesNext == TypeInv /\ [Next]_vars => TypeInv'
BY FlowNext, RowsNext, ItemsTyped, IndexTyped, PlacesTyped DEF TypeInv

\* Every variable stays in its domain in every run of the walk.
THEOREM TypeCorrect == Spec => []TypeOK
<1>1. TypeInv => TypeOK
  <2> SUFFICES ASSUME TypeInv PROVE TypeOK
    OBVIOUS
  <2>1. design \in Design /\ request \in Requests
    BY PwWalkAssumption DEF TypeInv, FlowInv
  <2>2. \A items \in {queue, batch, fresh, recovered, skipped, missed} : items \subseteq Item
    BY DEF TypeInv, ItemsOK
  <2>3. rows \subseteq Paths /\ goal \in Paths \cup {None}
    BY DEF TypeInv, RowsInv
  <2> QED
    BY <2>1, <2>2, <2>3 DEF TypeOK, TypeInv, FlowInv, ItemsOK, IndexOK, PlacesOK
<1> QED
  BY <1>1, TypesInitially, TypesNext, PTL DEF Spec

-----------------------------------------------------------------------------
(* Recovery passes are bounded.                                            *)

Passing == Collecting \cup {"persist", "rewalk", "judge"}
Held == queue \cup batch \cup skipped \cup missed

Deferred == Cardinality(seen) + check
\* Every pass but the last of a drain shrinks the queue, so the passes so far and
\* the items still held are never more than the items ever deferred and the
\* drains begun.
BoundInv ==
  /\ passes <= Deferred
  /\ stage \in Passing /\ caller # "last" =>
       passes + before <= Deferred /\ passes + Cardinality(Held) <= Deferred
  /\ stage \in {"check", "walk", "drain"} => passes + Cardinality(queue) + 1 <= Deferred
  /\ stage \in {"lca", "roots", "extra"} => passes + Cardinality(queue) <= Deferred

LEMMA Countable ==
  ASSUME TypeInv
  PROVE  /\ IsFiniteSet(queue) /\ IsFiniteSet(seen) /\ IsFiniteSet(Held)
         /\ Cardinality(queue) \in Nat /\ Cardinality(seen) \in Nat
         /\ Cardinality(Held) \in Nat /\ Cardinality(queue) <= Cardinality(Held)
         /\ passes \in Nat /\ check \in Nat /\ before \in Nat /\ Deferred \in Nat
<1>1. IsFiniteSet(queue) /\ IsFiniteSet(seen) /\ IsFiniteSet(Held)
  <2>1. IsFiniteSet(queue) /\ IsFiniteSet(batch) /\ IsFiniteSet(skipped)
        /\ IsFiniteSet(missed) /\ IsFiniteSet(seen)
    BY DEF TypeInv, ItemsOK
  <2>2. IsFiniteSet(queue \cup batch)
    BY <2>1, FS_Union
  <2>3. IsFiniteSet((queue \cup batch) \cup skipped)
    BY <2>1, <2>2, FS_Union
  <2>4. IsFiniteSet(((queue \cup batch) \cup skipped) \cup missed)
    BY <2>1, <2>3, FS_Union
  <2> QED
    BY <2>1, <2>4 DEF Held
<1>2. Cardinality(queue) <= Cardinality(Held)
  BY <1>1, FS_Subset DEF Held
<1>3. passes \in Nat /\ check \in Nat /\ before \in Nat
  BY RequestFacts, PwWalkAssumption DEF TypeInv, FlowInv, ItemsOK
<1> QED
  BY <1>1, <1>2, <1>3, FS_CardinalityType DEF Deferred

\* A newly deferred item brings a key that was never seen.
LEMMA DeferCounts ==
  ASSUME TypeInv, NEW i, Defer(i), UNCHANGED <<batch, skipped, missed>>
  PROVE  \/ UNCHANGED <<queue, seen>>
         \/ /\ Cardinality(seen') = Cardinality(seen) + 1
            /\ Cardinality(queue') \in Nat /\ Cardinality(Held') \in Nat
            /\ Cardinality(queue') <= Cardinality(queue) + 1
            /\ Cardinality(Held') <= Cardinality(Held) + 1
<1>1. CASE Key(i) \in seen
  BY <1>1 DEF Defer
<1>2. CASE Key(i) \notin seen
  <2>1. queue' = queue \cup {i} /\ seen' = seen \cup {Key(i)}
    BY <1>2 DEF Defer
  <2>2. Held' = Held \cup {i}
    BY <2>1 DEF Held
  <2>3. Cardinality(seen') = Cardinality(seen) + 1
    BY <1>2, <2>1, Countable, FS_AddElement
  <2>4. \A S : IsFiniteSet(S) => /\ Cardinality(S \cup {i}) \in Nat
                                 /\ Cardinality(S \cup {i}) <= Cardinality(S) + 1
    <3> SUFFICES ASSUME NEW S, IsFiniteSet(S)
                 PROVE  /\ Cardinality(S \cup {i}) \in Nat
                        /\ Cardinality(S \cup {i}) <= Cardinality(S) + 1
      OBVIOUS
    <3>1. Cardinality(S) \in Nat
      BY FS_CardinalityType
    <3>2. Cardinality(S \cup {i}) \in {Cardinality(S), Cardinality(S) + 1}
      BY FS_AddElement
    <3> QED
      BY <3>1, <3>2
  <2> QED
    BY <2>1, <2>2, <2>3, <2>4, Countable
<1> QED
  BY <1>1, <1>2

LEMMA BoundWalking ==
  ASSUME BoundInv, TypeInv, Walking
  PROVE  BoundInv'
<1>0. UNCHANGED <<passes, check, stage, caller, batch, skipped, missed, before>>
  BY DEF Walking, SkipBlocked, Begin, GrowHit, GrowMiss, HopHit, LoadMiss, EdgeMiss,
         Arrive, GrowDone, pass, flow
<1>1. CASE UNCHANGED <<queue, seen>>
  BY <1>0, <1>1 DEF BoundInv, Deferred, Held
<1>2. ASSUME NEW i, Defer(i) PROVE BoundInv'
  <2>1. CASE UNCHANGED <<queue, seen>>
    BY <1>1, <2>1
  <2>2. CASE /\ Cardinality(seen') = Cardinality(seen) + 1
             /\ Cardinality(queue') \in Nat /\ Cardinality(Held') \in Nat
             /\ Cardinality(queue') <= Cardinality(queue) + 1
             /\ Cardinality(Held') <= Cardinality(Held) + 1
    <3>1. Deferred' = Deferred + 1
      BY <1>0, <2>2, Countable DEF Deferred
    <3> QED
      BY <1>0, <2>2, <3>1, Countable DEF BoundInv
  <2> QED
    BY <1>0, <1>2, <2>1, <2>2, DeferCounts
<1>3. CASE \/ (\E p \in Paths : GrowMiss(p)) \/ LoadMiss \/ EdgeMiss
  BY <1>1, <1>2, <1>3 DEF GrowMiss, LoadMiss, EdgeMiss
<1> QED
  BY <1>1, <1>3 DEF Walking, SkipBlocked, Begin, GrowHit, HopHit, Arrive, GrowDone, db

LEMMA BoundPass ==
  ASSUME BoundInv, TypeInv,
         \/ StartPass \/ LastPass \/ (\E i \in batch : RecoverItem(i))
         \/ Apply \/ Retry \/ Reensured \/ Requeue
  PROVE  BoundInv'
<1>1. CASE StartPass \/ LastPass
  <2>1. /\ Held' = queue /\ queue' = {} /\ before' = Cardinality(queue) /\ stage' = "recover"
        /\ UNCHANGED <<seen, check>>
    BY <1>1 DEF StartPass, LastPass, TakeQueue, Held
  <2>2. Deferred' = Deferred
    BY <2>1 DEF Deferred
  <2>3. CASE StartPass
    <3>1. stage = "drain" /\ passes' = passes + 1
      BY <2>3 DEF StartPass
    <3> QED
      BY <2>1, <2>2, <3>1, Countable DEF BoundInv
  <2>4. CASE LastPass
    <3>1. caller' = "last" /\ passes' = passes
      BY <2>4 DEF LastPass
    <3> QED
      BY <2>1, <2>2, <3>1 DEF BoundInv
  <2> QED
    BY <1>1, <2>3, <2>4
<1>2. ASSUME Held' \subseteq Held, UNCHANGED <<seen, check, passes, caller, before>>,
             stage \in Passing, stage' \in Collecting \cup {"persist"}
      PROVE  BoundInv'
  <2>1. Cardinality(Held') <= Cardinality(Held) /\ Cardinality(Held') \in Nat
    BY <1>2, Countable, FS_Subset, FS_CardinalityType
  <2>2. Deferred' = Deferred
    BY <1>2 DEF Deferred
  <2>3. stage' \in Passing /\ stage' \notin {"check", "walk", "drain", "lca", "roots", "extra"}
    BY <1>2 DEF Passing, Collecting
  <2> QED
    BY <1>2, <2>1, <2>2, <2>3, Countable DEF BoundInv
<1>3. CASE \E i \in batch : RecoverItem(i)
  <2>1. Held' \subseteq Held
    BY <1>3 DEF RecoverItem, Held
  <2> QED
    BY <1>2, <1>3, <2>1 DEF RecoverItem, Passing, Collecting, flow
<1>4. CASE Apply \/ Retry \/ Reensured \/ Requeue
  <2>1. Held' \subseteq Held
    BY <1>4 DEF Apply, Retry, Reensured, Requeue, Held, db, pass
  <2> QED
    BY <1>2, <1>4, <2>1 DEF Apply, Retry, Reensured, Requeue, Passing, Collecting, db, pass
<1> QED
  BY <1>1, <1>3, <1>4

LEMMA BoundFlow ==
  ASSUME BoundInv, TypeInv,
         \/ StartCheck \/ Walked \/ PassOver \/ Rewalked \/ PassAgain \/ DrainOver
         \/ NextCheck \/ AllChecked \/ RootsGrown \/ Finish
  PROVE  BoundInv'
<1>0. UNCHANGED <<queue, seen, batch, skipped, missed, passes, before>> /\ Held' = Held
  BY DEF StartCheck, Walked, PassOver, Rewalked, PassAgain, DrainOver, NextCheck,
         AllChecked, RootsGrown, Finish, Goto, db, pass, Held
<1> DEFINE Begun == {"check", "walk", "drain"}
           Left == {"lca", "roots", "extra"}
<1>1. CASE NextCheck
  <2>1. stage = "lca" /\ stage' = "check" /\ check' = check + 1
    BY <1>1 DEF NextCheck
  <2>2. Deferred' = Deferred + 1
    BY <1>0, <2>1, Countable DEF Deferred
  <2> QED
    BY <1>0, <2>1, <2>2, Countable DEF BoundInv, Passing, Collecting
<1>2. CASE ~NextCheck
  <2>0. Deferred' = Deferred
    BY <1>0, <1>2 DEF StartCheck, Walked, PassOver, Rewalked, PassAgain, DrainOver,
       AllChecked, RootsGrown, Finish, Goto, Deferred
  <2>1. CASE PassAgain
    <3>1. stage = "judge" /\ stage' = "drain" /\ Cardinality(queue) < before /\ caller # "last"
      BY <2>1, Countable DEF PassAgain, NoProgress, Goto, TypeInv, FlowInv, Collecting
    <3> QED
      BY <1>0, <2>0, <3>1, Countable DEF BoundInv, Passing, Collecting
  <2>2. CASE DrainOver
    <3>1. stage \in {"judge", "drain"} /\ caller # "last" /\ stage' \in Left \cup {"finalize"}
      BY <2>2 DEF DrainOver, Goto, TypeInv, FlowInv, Collecting
    <3>2. passes + Cardinality(queue) <= Deferred
      BY <3>1, Countable DEF BoundInv, Passing
    <3> QED
      BY <1>0, <2>0, <3>1, <3>2 DEF BoundInv, Passing, Collecting
  <2>3. CASE StartCheck \/ Walked \/ AllChecked
    <3>1. stage \in Begun /\ stage' \in Begun \cup {"finalize", "done"}
      BY <2>3 DEF StartCheck, Walked, AllChecked, Goto
    <3> QED
      BY <1>0, <2>0, <3>1 DEF BoundInv, Passing, Collecting
  <2>4. CASE PassOver \/ Rewalked
    <3>1. /\ stage \in {"persist", "rewalk"} /\ stage' \in {"done", "judge", "rewalk"}
          /\ caller' = caller /\ (stage = "rewalk" => caller # "last")
          /\ (caller = "last" => stage' = "done")
      BY <2>4 DEF PassOver, Rewalked, Goto, TypeInv, FlowInv, Collecting
    <3> QED
      BY <1>0, <2>0, <3>1 DEF BoundInv, Passing, Collecting
  <2>5. CASE RootsGrown \/ Finish
    <3>1. stage' = "done" \/ (stage = "roots" /\ stage' = "extra")
      BY <2>5 DEF RootsGrown, Finish, Goto
    <3> QED
      BY <1>0, <2>0, <3>1 DEF BoundInv, Passing, Collecting
  <2> QED
    BY <1>2, <2>1, <2>2, <2>3, <2>4, <2>5
<1> QED
  BY <1>1, <1>2

\* A request takes at most one pass for each item it ever deferred, one for each
\* of its checks and one before connect, with whatever cap.
THEOREM PassesAreBounded == Spec => []PassesBounded
<1>1. Init => BoundInv
  <2> SUFFICES ASSUME Init PROVE BoundInv
    OBVIOUS
  <2>1. /\ passes = 0 /\ check = 1 /\ stage = "check" /\ seen = {} /\ queue = {}
    BY DEF Init
  <2>2. Cardinality({}) = 0
    BY FS_EmptySet
  <2> QED
    BY <2>1, <2>2 DEF BoundInv, Deferred, Passing, Collecting
<1>2. BoundInv /\ TypeInv /\ [Next]_vars => BoundInv'
  <2> SUFFICES ASSUME BoundInv, TypeInv, [Next]_vars PROVE BoundInv'
    OBVIOUS
  <2>1. CASE Walking
    BY <2>1, BoundWalking
  <2>2. CASE UNCHANGED vars
    BY <2>2 DEF vars, db, pass, flow, BoundInv, Deferred, Held
  <2> QED
    BY <2>1, <2>2, BoundPass, BoundFlow DEF Next, Done, Walking
<1>3. BoundInv /\ TypeInv => PassesBounded
  <2> SUFFICES ASSUME BoundInv, TypeInv PROVE PassesBounded
    OBVIOUS
  <2>1. check <= Len(request.checks) + 1 /\ Len(request.checks) \in Nat
    BY RequestFacts DEF TypeInv, FlowInv
  <2> QED
    BY <2>1, Countable DEF BoundInv, Deferred, PassesBounded
<1> QED
  BY <1>1, <1>2, <1>3, TypesInitially, TypesNext, PTL DEF Spec

-----------------------------------------------------------------------------
(* Prefixes.                                                               *)

LEMMA PathFacts ==
  ASSUME NEW p \in Paths
  PROVE  p \in Seq(Leaves) /\ Len(p) \in Nat
BY PwWalkAssumption

LEMMA PrefixesAre ==
  ASSUME NEW p \in Paths, NEW q \in Paths
  PROVE  q \in Prefixes(p) <=> IsPrefix(q, p)
<1>1. p \in Seq(Leaves) /\ q \in Seq(Leaves) /\ Len(p) \in Nat /\ Len(q) \in Nat
  BY PathFacts
<1>2. SubSeq(q, 1, Len(q)) = q
  BY <1>1, SubSeqFull
<1>3. ASSUME IsPrefix(q, p) PROVE q \in Prefixes(p)
  <2>1. Len(q) \in 0 .. Len(p) /\ q = SubSeq(p, 1, Len(q))
    BY <1>1, <1>2, <1>3 DEF IsPrefix
  <2>2. \E l \in 0 .. Len(p) : q = SubSeq(p, 1, l)
    BY <2>1, Zenon
  <2> QED
    BY <2>2 DEF Prefixes
<1>4. ASSUME q \in Prefixes(p) PROVE IsPrefix(q, p)
  <2>1. PICK l \in 0 .. Len(p) : q = SubSeq(p, 1, l)
    BY <1>4 DEF Prefixes
  <2>2. Len(q) = l
    BY <1>1, <2>1
  <2> QED
    BY <1>1, <1>2, <2>1, <2>2 DEF IsPrefix
<1> QED
  BY <1>3, <1>4

\* A prefix is what agrees on all of its length.
LEMMA PrefixAgrees ==
  ASSUME NEW p \in Paths, NEW q \in Paths
  PROVE  IsPrefix(q, p) <=> Len(q) <= Len(p) /\ \A i \in 1 .. Len(q) : q[i] = p[i]
<1>1. p \in Seq(Leaves) /\ q \in Seq(Leaves) /\ Len(p) \in Nat /\ Len(q) \in Nat
  BY PathFacts
<1>2. SubSeq(q, 1, Len(q)) = q
  BY <1>1, SubSeqFull
<1>3. CASE Len(q) <= Len(p)
  <2>1. \A i \in 1 .. Len(q) : p[i] \in Leaves
    BY <1>1, <1>3
  <2>2. /\ SubSeq(p, 1, Len(q)) \in Seq(Leaves) /\ Len(SubSeq(p, 1, Len(q))) = Len(q)
        /\ \A i \in 1 .. Len(q) : SubSeq(p, 1, Len(q))[i] = p[i]
    BY <1>1, <2>1, SubSeqProperties
  <2>3. SubSeq(p, 1, Len(q)) = q <=> \A i \in 1 .. Len(q) : q[i] = p[i]
    BY <1>1, <2>2, SeqEqual
  <2> QED
    BY <1>2, <1>3, <2>3 DEF IsPrefix
<1>4. CASE ~(Len(q) <= Len(p))
  BY <1>4 DEF IsPrefix
<1> QED
  BY <1>3, <1>4

LEMMA PrefixTrans ==
  ASSUME NEW p \in Paths, NEW q \in Paths, NEW r \in Paths, IsPrefix(p, q), IsPrefix(q, r)
  PROVE  IsPrefix(p, r)
<1>1. Len(p) \in Nat /\ Len(q) \in Nat /\ Len(r) \in Nat
  BY PathFacts
<1>2. Len(p) <= Len(q) /\ Len(q) <= Len(r)
      /\ (\A i \in 1 .. Len(p) : p[i] = q[i]) /\ (\A i \in 1 .. Len(q) : q[i] = r[i])
  BY PrefixAgrees
<1> QED
  BY <1>1, <1>2, PrefixAgrees

\* Two prefixes of a path: one is a prefix of the other.
LEMMA PrefixesCompare ==
  ASSUME NEW r \in Paths, NEW p \in Paths, NEW q \in Paths, IsPrefix(p, r), IsPrefix(q, r),
         Len(p) <= Len(q)
  PROVE  IsPrefix(p, q)
<1>1. Len(p) \in Nat /\ Len(q) \in Nat
  BY PathFacts
<1>2. (\A i \in 1 .. Len(p) : p[i] = r[i]) /\ (\A i \in 1 .. Len(q) : q[i] = r[i])
  BY PrefixAgrees
<1> QED
  BY <1>1, <1>2, PrefixAgrees

LEMMA PrefixSelf ==
  ASSUME NEW p \in Paths
  PROVE  IsPrefix(p, p) /\ IsPrefix(<<>>, p)
BY PrefixFacts, PrefixesAre, PwWalkAssumption

\* The front of a path, and the prefixes below it.
LEMMA FrontFacts ==
  ASSUME NEW p \in Paths, p # <<>>
  PROVE  /\ Front(p) \in Paths /\ IsPrefix(Front(p), p) /\ Len(p) = Len(Front(p)) + 1
         /\ \A q \in Paths : IsPrefix(q, p) => q = p \/ IsPrefix(q, Front(p))
<1>1. Front(p) \in Paths
  BY EdgeFacts
<1>2. p \in Seq(Leaves) /\ Len(p) \in Nat /\ Len(p) # 0
  BY PathFacts, EmptySeq
<1>3. PICK m \in Nat : Len(p) = m + 1
  <2>1. Len(p) - 1 \in Nat /\ Len(p) = (Len(p) - 1) + 1
    BY <1>2
  <2> QED
    BY <2>1, Zenon
<1>4. Front(p) = SubSeq(p, 1, m) /\ Len(Front(p)) = m /\ m \in 0 .. Len(p)
  BY <1>2, <1>3 DEF Front
<1>5. Front(p) \in Prefixes(p)
  <2>1. \E l \in 0 .. Len(p) : Front(p) = SubSeq(p, 1, l)
    BY <1>4, Zenon
  <2> QED
    BY <2>1 DEF Prefixes
<1>6. IsPrefix(Front(p), p)
  BY <1>1, <1>5, PrefixesAre
<1>7. ASSUME NEW q \in Paths, IsPrefix(q, p), q # p PROVE IsPrefix(q, Front(p))
  <2>1. q \in Seq(Leaves) /\ Len(q) \in Nat
    BY PathFacts
  <2>2. Len(q) <= Len(p) /\ \A i \in 1 .. Len(q) : q[i] = p[i]
    BY <1>7, PrefixAgrees
  <2>3. Len(q) # Len(p)
    BY <1>2, <1>7, <2>1, <2>2, SeqEqual
  <2>4. Len(q) <= Len(Front(p))
    BY <1>3, <1>4, <2>1, <2>2, <2>3
  <2> QED
    BY <1>1, <1>6, <1>7, <2>4, PrefixesCompare
<1> QED
  BY <1>1, <1>3, <1>4, <1>6, <1>7

\* A hop is beyond a prefix of its path, or the prefix is behind it.
LEMMA HopPasses ==
  ASSUME NEW u \in Paths, NEW p \in Prefixes(u), p # u, NEW t \in Paths, IsPrefix(t, u)
  PROVE  IsPrefix(Hop(p, u), t) \/ IsPrefix(t, p)
<1>1. p \in Paths /\ Hop(p, u) \in Paths /\ Hop(p, u) # <<>> /\ Front(Hop(p, u)) = p
  BY HopIsPath, PrefixFacts
<1>2. IsPrefix(p, u) /\ IsPrefix(Hop(p, u), u)
  BY <1>1, HopIsPath, PrefixesAre
<1>3. Len(Hop(p, u)) = Len(p) + 1
  BY <1>1, FrontFacts
<1>4. Len(p) \in Nat /\ Len(t) \in Nat
  BY <1>1, PathFacts
<1>5. CASE Len(t) <= Len(p)
  BY <1>1, <1>2, <1>5, PrefixesCompare
<1>6. CASE Len(p) + 1 <= Len(t)
  BY <1>1, <1>2, <1>3, <1>6, PrefixesCompare
<1> QED
  BY <1>4, <1>5, <1>6
-----------------------------------------------------------------------------
(* The last chance before connect.                                         *)

EdgeKey(e) == <<"edge", e[1], e[2], e[1]>>

\* A cached miss of what the recovery policy finds was made by the confident one,
\* which deferred it.
SeenInv ==
  /\ design.indexed \subseteq known
  /\ \A x \in misses : Resolves(Denied(x), TRUE) => EdgeKey(Denied(x)) \in seen

LEMMA SeenGrows ==
  ASSUME SeenInv, design' = design, known \subseteq known', seen \subseteq seen',
         misses' \subseteq misses
  PROVE  SeenInv'
<1>1. \A e : Resolves(e, TRUE)' <=> Resolves(e, TRUE)
  BY DEF Resolves
<1> QED
  BY <1>1 DEF SeenInv, Denied

LEMMA InputKept ==
  ASSUME [Next]_vars
  PROVE  design' = design /\ request' = request /\ Specs' = Specs
<1>1. UNCHANGED input
  BY DEF Next, SkipBlocked, Begin, GrowHit, GrowMiss, HopHit, LoadMiss, EdgeMiss, Arrive,
         GrowDone, StartPass, TakeQueue, RecoverItem, Apply, Retry, Reensured, Requeue,
         StartCheck, Walked, PassOver, Rewalked, PassAgain, DrainOver, NextCheck,
         AllChecked, RootsGrown, LastPass, Finish, Goto, Done, vars
<1> QED
  BY <1>1 DEF input, Specs

\* The index and the keys of the deferred items only grow; only a hop without an
\* edge adds a miss.
LEMMA IndexGrows ==
  ASSUME [Next]_vars
  PROVE  /\ known \subseteq known' /\ loaded \subseteq loaded' /\ seen \subseteq seen'
         /\ EdgeMiss \/ misses' \subseteq misses
<1>1. CASE \E p \in Paths : SkipBlocked(p) \/ Begin(p) \/ GrowHit(p) \/ GrowMiss(p)
  BY <1>1 DEF SkipBlocked, Begin, GrowHit, GrowMiss, Defer, DropModules, db, walk
<1>2. CASE HopHit \/ LoadMiss \/ EdgeMiss \/ Arrive \/ GrowDone
  BY <1>2 DEF HopHit, LoadMiss, EdgeMiss, Arrive, GrowDone, Defer, DropModules, db, walk
<1>3. CASE \/ StartPass \/ LastPass \/ (\E i \in batch : RecoverItem(i))
           \/ Apply \/ Retry \/ Reensured \/ Requeue
  BY <1>3 DEF StartPass, LastPass, TakeQueue, RecoverItem, Apply, Retry, Reensured, Requeue,
              ResetMisses, DropModules, db, walk
<1>4. CASE \/ StartCheck \/ Walked \/ PassOver \/ Rewalked \/ PassAgain \/ DrainOver
           \/ NextCheck \/ AllChecked \/ RootsGrown \/ Finish \/ UNCHANGED vars
  BY <1>4 DEF StartCheck, Walked, PassOver, Rewalked, PassAgain, DrainOver, NextCheck,
              AllChecked, RootsGrown, Finish, Goto, db, walk, vars
<1> QED
  BY <1>1, <1>2, <1>3, <1>4 DEF Next, Done

LEMMA SeenInitially == Init => SeenInv
BY DEF Init, SeenInv

LEMMA SeenNext == SeenInv /\ RowsInv /\ [Next]_vars => SeenInv'
<1> SUFFICES ASSUME SeenInv, RowsInv, [Next]_vars PROVE SeenInv'
  OBVIOUS
<1>1. CASE misses' \subseteq misses
  BY <1>1, InputKept, IndexGrows, SeenGrows
<1>2. CASE EdgeMiss
  <2> DEFINE c == Hop(at, goal)
             y == <<at, goal>>
  <2>1. /\ ~Finds(c, goal) /\ misses' = misses \cup {y}
        /\ (Late \/ SegmentFailed(c)) \/ Defer(EdgeItem(c, goal))
        /\ goal # None /\ at # goal
    BY <1>2 DEF EdgeMiss
  <2>2. Denied(y) = Edge(c) /\ Front(c) = at
    BY <2>1, HopIsPath DEF Denied, RowsInv
  <2>3. design' = design /\ known \subseteq known' /\ seen \subseteq seen'
    BY InputKept, IndexGrows
  <2>4. ASSUME Resolves(Edge(c), TRUE) PROVE EdgeKey(Edge(c)) \in seen'
    <3>1. CASE y \in misses
      BY <2>2, <2>3, <2>4, <3>1 DEF SeenInv
    <3>2. CASE SegmentFailed(c)
      <4>1. PICK x \in misses : Hop(x[1], x[2]) = c
        BY <3>2 DEF SegmentFailed
      <4>2. Denied(x) = Edge(c)
        BY <4>1 DEF Denied
      <4> QED
        BY <2>3, <2>4, <4>2 DEF SeenInv
    <3>3. CASE Defer(EdgeItem(c, goal))
      <4>1. Key(EdgeItem(c, goal)) \in seen'
        BY <3>3 DEF Defer
      <4>2. Key(EdgeItem(c, goal)) = EdgeKey(Edge(c))
        BY DEF Key, EdgeItem, EdgeKey, Edge
      <4> QED
        BY <4>1, <4>2
    <3>4. CASE Late /\ y \notin misses /\ ~SegmentFailed(c)
      <4>1. ~Resolves(Edge(c), Late)
        BY <2>1, <2>2, <3>4 DEF Finds
      <4> QED
        BY <2>4, <3>4, <4>1 DEF Resolves
    <3> QED
      BY <2>1, <3>1, <3>2, <3>3, <3>4
  <2> HIDE DEF c, y
  <2>5. \A e : Resolves(e, TRUE)' <=> Resolves(e, TRUE)
    BY <2>3 DEF Resolves
  <2>6. ASSUME NEW x \in misses', Resolves(Denied(x), TRUE)'
        PROVE  EdgeKey(Denied(x)) \in seen'
    <3>1. Resolves(Denied(x), TRUE)
      BY <2>3, <2>6 DEF Resolves, Denied
    <3> QED
      BY <2>1, <2>2, <2>3, <2>4, <3>1 DEF SeenInv
  <2> QED
    BY <2>3, <2>6 DEF SeenInv, Denied
<1> QED
  BY <1>1, <1>2, IndexGrows

\* Subtrees are expanded only for run_path_walk_index; the last chance is not taken
\* with items in the queue unless a drain gave them up.
ConnectInv ==
  /\ grow # None => stage \in {"roots", "extra"}
  /\ stage \in {"roots", "extra"} \/ caller = "last" => ~request.connect
  /\ stage = "finalize" => queue = {} \/ stalled

Settled(t) == t \in rows \/ ~Walkable(t) \/ GivenUp(t)

LastChance ==
  /\ stage = "finalize" => \A t \in Specs : t \in todo \/ t = goal \/ Settled(t)
  /\ stage = "done" /\ request.connect => \A t \in Specs : Settled(t)

LEMMA ConnectInitially == Init => ConnectInv
BY DEF Init, ConnectInv

\* The recovery policy defers nothing, so the last chance leaves the queue alone.
LEMMA LateDefersNothing ==
  ASSUME Walking, grow = None, Late
  PROVE  UNCHANGED <<queue, seen>>
BY DEF Walking, SkipBlocked, Begin, GrowHit, GrowMiss, HopHit, LoadMiss, EdgeMiss,
       Arrive, GrowDone, db

LEMMA ConnectWalking ==
  ASSUME ConnectInv, Walking
  PROVE  ConnectInv'
<1>0. UNCHANGED <<flow, request>>
  BY DEF Walking, SkipBlocked, Begin, GrowHit, GrowMiss, HopHit, LoadMiss, EdgeMiss,
         Arrive, GrowDone, input
<1>1. stage' = stage /\ caller' = caller /\ stalled' = stalled
  BY <1>0 DEF flow
<1>2. (grow # None => stage \in {"roots", "extra"})'
  BY <1>1 DEF Walking, SkipBlocked, Begin, GrowHit, GrowMiss, HopHit, LoadMiss, EdgeMiss,
         Arrive, GrowDone, cursor, ConnectInv
<1>3. (stage = "finalize" => queue = {} \/ stalled)'
  <2> SUFFICES ASSUME stage = "finalize" PROVE UNCHANGED queue
    BY <1>1 DEF ConnectInv
  <2>1. Late /\ grow = None
    BY DEF Late, ConfidentStages, ConnectInv
  <2> QED
    BY <2>1, LateDefersNothing
<1> QED
  BY <1>0, <1>1, <1>2, <1>3 DEF ConnectInv

LEMMA ConnectNext == ConnectInv /\ FlowInv /\ RowsInv /\ [Next]_vars => ConnectInv'
<1> SUFFICES ASSUME ConnectInv, FlowInv, RowsInv, [Next]_vars PROVE ConnectInv'
  OBVIOUS
<1>0. request' = request
  BY InputKept
<1>1. CASE \/ StartPass \/ (\E i \in batch : RecoverItem(i)) \/ Apply \/ Retry \/ Reensured
           \/ Requeue
  BY <1>0, <1>1 DEF StartPass, TakeQueue, RecoverItem, Apply, Retry, Reensured, Requeue,
         cursor, flow, ConnectInv
<1>2. CASE LastPass
  BY <1>0, <1>2 DEF LastPass, TakeQueue, Idle, cursor, ConnectInv
<1>3. CASE StartCheck \/ Walked \/ PassOver \/ Rewalked \/ PassAgain \/ NextCheck
  BY <1>0, <1>3 DEF StartCheck, Walked, PassOver, Rewalked, PassAgain, NextCheck, Goto, cursor,
         ConnectInv
<1>4. CASE DrainOver
  <2>1. grow' = grow /\ grow = None /\ queue' = queue /\ caller' = caller
    BY <1>4 DEF DrainOver, Goto, db, RowsInv, EnsureStages, Idle
  <2>2. caller # "last"
    BY <1>4 DEF DrainOver, FlowInv, Collecting
  <2>3. stalled' = (stalled \/ queue # {})
    BY <1>4 DEF DrainOver
  <2>4. stage' \in {"finalize", "lca"} \/ (stage' = "roots" /\ ~request.connect)
    BY <1>4 DEF DrainOver, Goto
  <2> QED
    BY <1>0, <2>1, <2>2, <2>3, <2>4 DEF ConnectInv
<1>5. CASE AllChecked \/ RootsGrown \/ Finish
  BY <1>0, <1>5 DEF AllChecked, RootsGrown, Finish, Goto, Idle, db, ConnectInv, FlowInv
<1>6. CASE UNCHANGED vars
  BY <1>0, <1>6 DEF vars, db, flow, cursor, ConnectInv
<1> QED
  BY <1>1, <1>2, <1>3, <1>4, <1>5, <1>6, ConnectWalking DEF Next, Done, Walking

\* What an endpoint cannot find at its last chance the sources do not have, or the
\* item that was deferred for it is in the queue of a drain that gave up.
LEMMA MissExplained ==
  ASSUME stage = "finalize", SeenInv, MissInv, DeferInv, RowsInv, ConnectInv,
         goal # None, at # goal, ~Finds(Hop(at, goal), goal), Walkable(goal)
  PROVE  GivenUp(goal)
<1> DEFINE c == Hop(at, goal)
<1>1. c \in Prefixes(goal) /\ c # <<>> /\ Front(c) = at
  BY HopIsPath DEF RowsInv
<1>2. Late
  BY DEF Late, ConfidentStages
<1>3. Edge(c) \in design.indexed \/ Resolves(Edge(c), TRUE)
  BY <1>1 DEF Walkable
<1>4. PICK x \in misses : Denied(x) = Edge(c)
  <2>1. CASE <<Front(c), goal>> \in misses
    BY <1>1, <2>1 DEF Denied
  <2>2. CASE SegmentFailed(c)
    BY <2>2 DEF SegmentFailed, Denied
  <2>3. CASE <<Front(c), goal>> \notin misses /\ ~SegmentFailed(c)
    <3>1. Edge(c) \notin known /\ ~Resolves(Edge(c), Late)
      BY <2>3 DEF Finds
    <3>2. ~Resolves(Edge(c), TRUE)
      BY <3>1, <1>2 DEF Resolves
    <3> QED
      BY <1>3, <3>1, <3>2 DEF SeenInv
  <2> QED
    BY <2>1, <2>2, <2>3
<1>5. Edge(c) \notin known
  BY <1>4 DEF MissInv
<1>6. EdgeKey(Edge(c)) \in seen
  BY <1>3, <1>4, <1>5 DEF SeenInv
<1>7. queue \cup batch \cup skipped \cup missed = queue
  BY DEF DeferInv, Collecting
<1>8. PICK i \in queue : Key(i) = EdgeKey(Edge(c))
  <2>1. EdgeKey(Edge(c))[1] = "edge" /\ EdgeKey(Edge(c))[2] = Edge(c)[1]
        /\ EdgeKey(Edge(c))[3] = Edge(c)[2]
    BY DEF EdgeKey
  <2>2. Edge(c) = <<Edge(c)[1], Edge(c)[2]>>
    BY DEF Edge
  <2> HIDE DEF c
  <2>3. <<EdgeKey(Edge(c))[2], EdgeKey(Edge(c))[3]>> \notin known
    BY <1>5, <2>1, <2>2
  <2> QED
    BY <1>6, <1>7, <2>1, <2>3 DEF DeferInv, NoDeferDropped
<1>9. i.kind = "edge" /\ ItemEdge(i) = Edge(c)
  BY <1>8 DEF Key, EdgeKey, ItemEdge, Edge
<1>10. stalled
  BY <1>8 DEF ConnectInv
<1> QED
  BY <1>1, <1>8, <1>9, <1>10 DEF GivenUp

LEMMA AllCleared ==
  ASSUME stage = "finalize", PlacesOK, NEW t \in Paths
  PROVE  Cleared(t) = {}
<1>1. \A b \in blocked : Comparable(b, <<>>)
  BY PrefixSelf DEF PlacesOK, Comparable
<1>2. <<>> \in Prefixes(t)
  BY PrefixFacts
<1> QED
  BY <1>1, <1>2 DEF Cleared

\* What the last chance does not change of what explains an endpoint.
LEMMA SettledStays ==
  ASSUME design' = design, queue' = queue, stalled' = stalled, rows \subseteq rows',
         NEW t, Settled(t)
  PROVE  Settled(t)'
<1>1. Walkable(t)' <=> Walkable(t)
  BY DEF Walkable, Resolves
<1>2. GivenUp(t)' <=> GivenUp(t)
  BY DEF GivenUp
<1> QED
  BY <1>1, <1>2 DEF Settled

AllInv == TypeInv /\ DeferInv /\ MissInv /\ SeenInv /\ ConnectInv

LEMMA LastChanceWalking ==
  ASSUME AllInv, LastChance, Walking
  PROVE  LastChance'
<1> USE DEF AllInv, TypeInv
<1>0. stage' = stage /\ stage \in EnsureStages
  BY WalkingStage
<1> SUFFICES ASSUME stage = "finalize", NEW t \in Specs'
             PROVE  t \in todo' \/ t = goal' \/ Settled(t)'
  BY <1>0 DEF LastChance, EnsureStages
<1>1. Late /\ grow = None
  BY DEF Late, ConfidentStages, ConnectInv
<1>2. UNCHANGED <<queue, stalled, design, request>>
  <2>1. UNCHANGED flow /\ UNCHANGED input
    BY DEF Walking, SkipBlocked, Begin, GrowHit, GrowMiss, HopHit, LoadMiss, EdgeMiss,
           Arrive, GrowDone
  <2> QED
    BY <1>1, <2>1, LateDefersNothing DEF flow, input
<1>3. t \in Specs /\ t \in Paths /\ (t \in todo \/ t = goal \/ Settled(t))
  BY <1>2, RequestFacts DEF LastChance, Specs, FlowInv
<1>4. rows \subseteq rows'
  BY DEF Walking, SkipBlocked, Begin, GrowHit, GrowMiss, HopHit, LoadMiss, EdgeMiss,
         Arrive, GrowDone, walk
<1>5. Settled(t) => Settled(t)'
  BY <1>2, <1>4, SettledStays
<1>6. CASE \E p \in Paths : SkipBlocked(p)
  BY <1>6, AllCleared DEF SkipBlocked
<1>7. ASSUME NEW p \in Paths, Begin(p)
      PROVE  t \in todo' \/ t = goal' \/ Settled(t)'
  <2>1. goal = None /\ todo' = todo \ {p}
        /\ (goal' = p \/ (p \in rows /\ goal' = goal))
    BY <1>7 DEF Begin
  <2>2. None \notin Paths
    BY PwWalkAssumption
  <2>3. t = p /\ p \in rows => Settled(t)
    BY DEF Settled
  <2> QED
    BY <1>3, <1>5, <2>1, <2>2, <2>3
<1>8. CASE HopHit
  BY <1>3, <1>5, <1>8 DEF HopHit
<1>9. ASSUME LoadMiss \/ EdgeMiss
      PROVE  t \in todo' \/ t = goal' \/ Settled(t)'
  <2> DEFINE c == Hop(at, goal)
  <2>1. goal # None /\ at # goal /\ todo' = todo
    BY <1>9 DEF LoadMiss, EdgeMiss
  <2>2. c \in Prefixes(goal) /\ c # <<>> /\ Front(c) = at
    BY <2>1, HopIsPath DEF RowsInv
  <2>3. CASE LoadMiss
    <3>1. ~Loads(Of[at], Of[c], Late)
      BY <2>3 DEF LoadMiss
    <3>2. <<Of[Front(c)], Of[c]>> \notin design.loads \cup design.lateLoads
      BY <1>1, <2>2, <3>1 DEF Loads
    <3>3. ~Walkable(goal)
      BY <2>2, <3>2 DEF Walkable
    <3> QED
      BY <1>3, <1>5, <2>1, <3>3 DEF Settled
  <2>4. CASE EdgeMiss
    <3>1. ~Finds(c, goal)
      BY <2>4 DEF EdgeMiss
    <3>2. Walkable(goal) => GivenUp(goal)
      BY <2>1, <3>1, MissExplained
    <3> QED
      BY <1>3, <1>5, <2>1, <3>2 DEF Settled
  <2> QED
    BY <1>9, <2>3, <2>4
<1>10. CASE Arrive
  <2>1. goal \in rows /\ todo' = todo
    BY <1>10 DEF Arrive, RowsInv
  <2> QED
    BY <1>3, <1>5, <2>1 DEF Settled
<1>11. CASE GrowDone \/ \E p \in Paths : GrowHit(p) \/ GrowMiss(p)
  BY <1>1, <1>11 DEF GrowHit, GrowMiss, GrowDone
<1> QED
  BY <1>6, <1>7, <1>8, <1>9, <1>10, <1>11 DEF Walking

LEMMA LastChanceNext == AllInv /\ LastChance /\ [Next]_vars => LastChance'
<1> SUFFICES ASSUME AllInv, LastChance, [Next]_vars PROVE LastChance'
  OBVIOUS
<1> USE DEF AllInv, TypeInv
<1>0. design' = design /\ request' = request /\ Specs' = Specs
  BY InputKept
<1>1. CASE stage' \notin {"finalize", "done"}
  BY <1>1 DEF LastChance
<1>2. CASE DrainOver
  BY <1>0, <1>2 DEF DrainOver, Goto, LastChance
<1>3. CASE AllChecked
  <2>1. CASE stage' = "done"
    BY <1>0, <1>3, <2>1 DEF AllChecked, LastChance, Settled
  <2>2. CASE stage' # "done"
    BY <1>0, <1>3, <2>2 DEF AllChecked, LastChance
  <2> QED
    BY <2>1, <2>2
<1>4. CASE PassOver /\ stage' = "done"
  <2>1. caller = "last"
    BY <1>4 DEF PassOver, Goto
  <2> QED
    BY <1>0, <1>4, <2>1 DEF ConnectInv, LastChance
<1>5. CASE Finish
  <2>1. stage' = "done" /\ Idle /\ UNCHANGED <<queue, stalled, rows>>
    BY <1>5 DEF Finish, Goto, db, walk
  <2>2. CASE stage = "extra"
    BY <1>0, <2>1, <2>2 DEF ConnectInv, LastChance
  <2>3. CASE stage = "finalize"
    <3>1. None \notin Specs
      BY RequestFacts, PwWalkAssumption DEF FlowInv
    <3>2. \A t \in Specs : Settled(t)
      BY <2>1, <2>3, <3>1 DEF LastChance, Idle
    <3> QED
      BY <1>0, <2>1, <3>2, SettledStays DEF LastChance
  <2> QED
    BY <1>5, <2>2, <2>3 DEF Finish
<1>6. CASE Walking
  BY <1>6, LastChanceWalking
<1>7. CASE UNCHANGED vars
  <2>1. UNCHANGED <<stage, queue, stalled, rows, todo, goal>>
    BY <1>7 DEF vars, db, walk, flow, cursor
  <2> QED
    BY <1>0, <2>1, SettledStays DEF LastChance
<1>8. CASE \/ StartPass \/ LastPass \/ (\E i \in batch : RecoverItem(i))
           \/ Apply \/ Retry \/ Reensured \/ Requeue \/ StartCheck \/ Walked \/ Rewalked
           \/ PassAgain \/ NextCheck \/ RootsGrown \/ (PassOver /\ stage' # "done")
  <2>1. stage' \notin {"finalize", "done"}
    BY <1>8 DEF StartPass, LastPass, TakeQueue, RecoverItem, Apply, Retry, Reensured,
       Requeue, StartCheck, Walked, Rewalked, PassAgain, NextCheck, RootsGrown, PassOver,
       Goto, flow
  <2> QED
    BY <1>1, <2>1
<1> QED
  BY <1>2, <1>3, <1>4, <1>5, <1>6, <1>7, <1>8 DEF Next, Done, Walking

\* When connect starts, every endpoint the sources have a way to has its row, or a
\* drain gave it up: a cached miss of a hop that the recovery policy finds stands
\* for an item that is in the queue, and no block survives to the last chance.
THEOREM EndpointsAreWalked == Spec => []EndpointsWalked
<1>1. Init => AllInv /\ LastChance
  <2>1. Init => LastChance
    BY DEF Init, LastChance
  <2> QED
    BY <2>1, TypesInitially, DeferInitially, MissInitially, SeenInitially, ConnectInitially
    DEF AllInv
<1>2. AllInv /\ [Next]_vars => AllInv'
  BY TypesNext, DeferNext, MissNext, SeenNext, ConnectNext DEF AllInv, TypeInv
<1>3. LastChance => EndpointsWalked
  BY DEF LastChance, Settled, EndpointsWalked
<1> QED
  BY <1>1, <1>2, <1>3, LastChanceNext, PTL DEF Spec
-----------------------------------------------------------------------------
(* What a recovery drops comes back.                                       *)

LEMMA PrefixOfTop ==
  ASSUME NEW q \in Paths, IsPrefix(q, <<>>)
  PROVE  q = <<>>
<1>1. q \in Seq(Leaves) /\ Len(q) \in Nat
  BY PathFacts
<1>2. Len(q) <= Len(<<>>)
  BY DEF IsPrefix
<1>3. Len(q) = 0
  BY <1>1, <1>2
<1> QED
  BY <1>1, <1>3, EmptySeq

\* The rows are a tree, and a block hangs on one of its rows.
TreeInv ==
  /\ \A p \in rows, q \in Paths : IsPrefix(q, p) => q \in rows
  /\ \A b \in blocked : b \in Paths /\ b # <<>> /\ Front(b) \in rows

LEMMA TreeGrows ==
  ASSUME TreeInv, RowsInv, NEW c \in Paths, c # <<>> => Front(c) \in rows,
         rows' = rows \cup {c}
  PROVE  \A p \in rows', q \in Paths : IsPrefix(q, p) => q \in rows'
<1> SUFFICES ASSUME NEW p \in rows', NEW q \in Paths, IsPrefix(q, p) PROVE q \in rows'
  OBVIOUS
<1>1. CASE p \in rows
  BY <1>1 DEF TreeInv
<1>2. CASE p = c /\ c = <<>>
  BY <1>2, PrefixOfTop
<1>3. CASE p = c /\ c # <<>>
  BY <1>3, FrontFacts DEF TreeInv
<1> QED
  BY <1>1, <1>2, <1>3

LEMMA TreeWalking ==
  ASSUME TreeInv, RowsInv, Walking
  PROVE  TreeInv'
<1>1. \A p \in rows', q \in Paths : IsPrefix(q, p) => q \in rows'
  <2>1. CASE rows' = rows
    BY <2>1 DEF TreeInv
  <2>2. ASSUME NEW p \in Paths, Begin(p), rows' = rows \cup {<<>>}
        PROVE  \A r \in rows', q \in Paths : IsPrefix(q, r) => q \in rows'
    BY <2>2, TreeGrows, PwWalkAssumption
  <2>3. ASSUME NEW p \in Paths, GrowHit(p)
        PROVE  \A r \in rows', q \in Paths : IsPrefix(q, r) => q \in rows'
    BY <2>3, TreeGrows DEF GrowHit, Growable
  <2>4. CASE HopHit
    <3>1. /\ Hop(at, goal) \in Paths /\ Front(Hop(at, goal)) \in rows
          /\ rows' = rows \cup {Hop(at, goal)}
      BY <2>4, HopIsPath DEF HopHit, RowsInv
    <3> QED
      BY <3>1, TreeGrows
  <2> QED
    BY <2>1, <2>2, <2>3, <2>4
    DEF Walking, SkipBlocked, Begin, GrowMiss, LoadMiss, EdgeMiss, Arrive, GrowDone, walk
<1>2. rows \subseteq rows'
  BY DEF Walking, SkipBlocked, Begin, GrowHit, GrowMiss, HopHit, LoadMiss, EdgeMiss,
         Arrive, GrowDone, walk
<1>3. \/ blocked' \subseteq blocked
      \/ /\ goal # None /\ at # goal
         /\ blocked' \subseteq blocked \cup {Hop(at, goal)}
  BY DEF Walking, SkipBlocked, Begin, GrowHit, GrowMiss, HopHit, LoadMiss, EdgeMiss,
         Arrive, GrowDone, Cleared, Unblock, walk
<1>4. \A b \in blocked' : b \in Paths /\ b # <<>> /\ Front(b) \in rows
  BY <1>3, HopIsPath DEF TreeInv, RowsInv
<1> QED
  BY <1>1, <1>2, <1>4 DEF TreeInv

LEMMA TreeReset ==
  ASSUME TreeInv, RowsInv, NEW P \in SUBSET Paths, rows' = ResetRows(P),
         blocked' \subseteq ResetBlocked(P)
  PROVE  TreeInv'
<1>1. ASSUME NEW p \in rows', NEW q \in Paths, IsPrefix(q, p) PROVE q \in rows'
  <2>1. p \in rows /\ p \in Paths /\ q \in rows
    BY <1>1 DEF ResetRows, TreeInv, RowsInv
  <2>2. \A r \in P : ~IsPrefix(r, q)
    BY <1>1, <2>1, PrefixTrans DEF ResetRows, Under
  <2> QED
    BY <2>1, <2>2 DEF ResetRows, Under
<1>2. ASSUME NEW b \in blocked' PROVE b \in Paths /\ b # <<>> /\ Front(b) \in rows'
  <2>1. b \in Paths /\ b # <<>> /\ Front(b) \in rows
    BY <1>2 DEF ResetBlocked, TreeInv
  <2>2. \A r \in P : ~IsPrefix(r, b)
    BY <1>2 DEF ResetBlocked, Comparable
  <2>3. \A r \in P : ~IsPrefix(r, Front(b))
    BY <2>1, <2>2, UnderFront
  <2> QED
    BY <2>1, <2>3 DEF ResetRows, Under
<1> QED
  BY <1>1, <1>2 DEF TreeInv

LEMMA TreeInitially == Init => TreeInv
BY PrefixOfTop DEF Init, TreeInv

LEMMA TreeNext == TreeInv /\ RowsInv /\ ItemsInv /\ [Next]_vars => TreeInv'
<1> SUFFICES ASSUME TreeInv, RowsInv, ItemsInv, [Next]_vars PROVE TreeInv'
  OBVIOUS
<1>1. CASE Apply
  <2>1. rows' = ResetRows(Resets(fresh)) /\ blocked' \subseteq ResetBlocked(Resets(fresh))
    BY <1>1 DEF Apply, Unblocked
  <2> QED
    BY <2>1, ResetsArePaths, TreeReset
<1>2. CASE Requeue
  <2>1. /\ rows' = ResetRows(Resets(Persistent))
        /\ blocked' \subseteq ResetBlocked(Resets(Persistent))
    BY <1>2 DEF Requeue
  <2> QED
    BY <2>1, ResetsArePaths, TreeReset
<1>3. CASE \/ StartPass \/ LastPass \/ (\E i \in batch : RecoverItem(i)) \/ Retry \/ Reensured
           \/ StartCheck \/ Walked \/ PassOver \/ Rewalked \/ PassAgain \/ DrainOver
           \/ NextCheck \/ AllChecked \/ RootsGrown \/ Finish \/ UNCHANGED vars
  <2>1. UNCHANGED <<rows, blocked>>
    BY <1>3 DEF StartPass, LastPass, TakeQueue, RecoverItem, Retry, Reensured, StartCheck,
       Walked, PassOver, Rewalked, PassAgain, DrainOver, NextCheck, AllChecked, RootsGrown,
       Finish, Goto, walk, vars
  <2> QED
    BY <2>1 DEF TreeInv
<1> QED
  BY <1>1, <1>2, <1>3, TreeWalking DEF Next, Done, Walking

\* The way to an endpoint that was walked to once stays in the index, and no block
\* is put on it again.
FoundInv ==
  /\ found \subseteq Specs
  /\ \A t \in found, q \in Paths :
       IsPrefix(q, t) /\ q # <<>> => Edge(q) \in known /\ Of[q] \in loaded
  /\ \A t \in found, b \in blocked : ~IsPrefix(b, t)

\* A walk does not fail on such a way.
LEMMA WayIsOpen ==
  ASSUME FoundInv, MissInv, RowsInv, NEW t \in found, LoadMiss \/ EdgeMiss
  PROVE  /\ Hop(at, goal) \in Paths /\ Hop(at, goal) # <<>>
         /\ ~IsPrefix(Hop(at, goal), t)
<1> DEFINE c == Hop(at, goal)
<1>1. goal # None /\ at # goal
  BY DEF LoadMiss, EdgeMiss
<1>2. c \in Paths /\ c # <<>> /\ Front(c) = at
  BY <1>1, HopIsPath DEF RowsInv
<1>3. ASSUME IsPrefix(c, t) PROVE FALSE
  <2>1. Edge(c) \in known /\ Of[c] \in loaded
    BY <1>2, <1>3 DEF FoundInv
  <2>2. stage \in EnsureStages
    BY WalkingStage DEF Walking
  <2>3. CASE LoadMiss
    BY <2>1, <2>3 DEF LoadMiss, Loads
  <2>4. CASE EdgeMiss
    <3>1. <<Front(c), goal>> \in misses
      BY <2>1, <2>4 DEF EdgeMiss, Finds
    <3>2. Denied(<<Front(c), goal>>) = Edge(c)
      BY <1>2 DEF Denied
    <3>3. fresh # {}
      BY <2>1, <3>1, <3>2 DEF MissInv
    <3> QED
      BY <2>2, <3>3 DEF MissInv, EnsureStages
  <2> QED
    BY <2>3, <2>4
<1> QED
  BY <1>2, <1>3

LEMMA FoundKept ==
  ASSUME FoundInv, Specs' = Specs, found' = found, blocked' \subseteq blocked,
         known \subseteq known', loaded \subseteq loaded'
  PROVE  FoundInv'
BY DEF FoundInv

LEMMA FoundNext ==
  FoundInv /\ TreeInv /\ MissInv /\ RowsInv /\ PlacesOK /\ FlowInv /\ [Next]_vars => FoundInv'
<1> SUFFICES ASSUME FoundInv, TreeInv, MissInv, RowsInv, PlacesOK, FlowInv, [Next]_vars
             PROVE FoundInv'
  OBVIOUS
<1>0. Specs' = Specs /\ known \subseteq known' /\ loaded \subseteq loaded'
  BY InputKept, IndexGrows
<1>1. CASE Arrive
  <2>1. /\ goal \in rows /\ goal \in Paths /\ found' = found \cup ({goal} \cap Specs)
        /\ blocked' = Unblock(blocked, goal)
    BY <1>1 DEF Arrive, RowsInv
  <2>2. ASSUME NEW q \in Paths, IsPrefix(q, goal), q # <<>>
        PROVE  Edge(q) \in known /\ Of[q] \in loaded
    BY <2>1, <2>2 DEF TreeInv, RowsInv, RowsStand
  <2>3. \A b \in blocked' : b \in blocked /\ ~IsPrefix(b, goal)
    BY <2>1 DEF Unblock, Comparable
  <2> QED
    BY <1>0, <2>1, <2>2, <2>3 DEF FoundInv
<1>2. CASE LoadMiss \/ EdgeMiss
  <2>1. found' = found /\ blocked' \subseteq blocked \cup {Hop(at, goal)}
    BY <1>2 DEF LoadMiss, EdgeMiss
  <2>2. \A t \in found, b \in blocked' : ~IsPrefix(b, t)
    BY <1>2, <2>1, WayIsOpen DEF FoundInv
  <2> QED
    BY <1>0, <2>1, <2>2 DEF FoundInv
<1>3. CASE found' = found /\ blocked' \subseteq blocked
  BY <1>0, <1>3, FoundKept
<1>4. CASE \/ \E p \in Paths : SkipBlocked(p) \/ Begin(p) \/ GrowHit(p) \/ GrowMiss(p)
           \/ HopHit \/ GrowDone
  <2>1. found' = found /\ blocked' \subseteq blocked
    BY <1>4 DEF SkipBlocked, Begin, GrowHit, GrowMiss, HopHit, GrowDone, Cleared, walk
  <2> QED
    BY <1>3, <2>1
<1>5. CASE \/ StartPass \/ LastPass \/ (\E i \in batch : RecoverItem(i))
           \/ Apply \/ Retry \/ Reensured \/ Requeue
  <2>1. found' = found /\ blocked' \subseteq blocked
    BY <1>5 DEF StartPass, LastPass, TakeQueue, RecoverItem, Apply, Retry, Reensured, Requeue,
       Unblocked, ResetBlocked, walk
  <2> QED
    BY <1>3, <2>1
<1>6. CASE \/ StartCheck \/ Walked \/ PassOver \/ Rewalked \/ PassAgain \/ DrainOver
           \/ NextCheck \/ AllChecked \/ RootsGrown \/ Finish \/ UNCHANGED vars
  <2>1. found' = found /\ blocked' = blocked
    BY <1>6 DEF StartCheck, Walked, PassOver, Rewalked, PassAgain, DrainOver, NextCheck,
       AllChecked, RootsGrown, Finish, Goto, walk, vars
  <2> QED
    BY <1>3, <2>1
<1> QED
  BY <1>1, <1>2, <1>4, <1>5, <1>6 DEF Next, Done

-----------------------------------------------------------------------------
(* What a pass works on lies on the way to an endpoint.                    *)

Items == queue \cup batch \cup fresh \cup recovered \cup skipped \cup missed

\* An item resets where its target passes.
LieInv == \A i \in Items : IsPrefix(i.reset, i.target)

Asked(p) == \E u \in targets : IsPrefix(p, u)
\* The walks of the checks and their drains, before anything else is walked.
Checking == caller = "walk" /\ stage \notin {"roots", "extra", "finalize", "done"}

\* What the checks walk, defer and find lies on the way to one of the endpoints the
\* passes walk again.
AskedInv ==
  Checking =>
    /\ \A p \in todo \cup found : Asked(p)
    /\ goal # None => Asked(goal)
    /\ \A i \in Items : Asked(i.target)
    /\ stage # "check" => request.checks[check] \subseteq targets

LEMMA NewItemsLie ==
  ASSUME NEW c \in Paths, c # <<>>, NEW t \in Paths, IsPrefix(c, t)
  PROVE  /\ IsPrefix(ModuleItem(c).reset, ModuleItem(c).target)
         /\ IsPrefix(EdgeItem(c, t).reset, EdgeItem(c, t).target)
<1>1. Front(c) \in Paths /\ IsPrefix(Front(c), c)
  BY FrontFacts
<1>2. IsPrefix(Front(c), t)
  BY <1>1, PrefixTrans
<1> QED
  BY <1>1, <1>2 DEF ModuleItem, EdgeItem

\* Items change hands in a pass, and only a walk makes new ones.
LEMMA ItemsFrom ==
  ASSUME [Next]_vars, RowsInv
  PROVE  \/ Items' \subseteq Items
         \/ \E p \in Paths : /\ GrowMiss(p) /\ Items' \subseteq Items \cup {ModuleItem(p)}
         \/ /\ LoadMiss \/ EdgeMiss
            /\ \E c \in Paths : /\ c # <<>> /\ IsPrefix(c, goal)
                                /\ Items' \subseteq Items \cup {ModuleItem(c), EdgeItem(c, goal)}
<1>1. ASSUME NEW p \in Paths, GrowMiss(p) PROVE Items' \subseteq Items \cup {ModuleItem(p)}
  BY <1>1 DEF GrowMiss, Defer, Items, pass
<1>2. CASE LoadMiss \/ EdgeMiss
  <2> DEFINE c == Hop(at, goal)
  <2>1. goal # None /\ at # goal
    BY <1>2 DEF LoadMiss, EdgeMiss
  <2>2. c \in Paths /\ c # <<>> /\ IsPrefix(c, goal)
    BY <2>1, HopIsPath, PrefixesAre DEF RowsInv
  <2>3. queue' \subseteq queue \cup {ModuleItem(c), EdgeItem(c, goal)} /\ UNCHANGED pass
    BY <1>2 DEF LoadMiss, EdgeMiss, Defer
  <2>4. Items' \subseteq Items \cup {ModuleItem(c), EdgeItem(c, goal)}
    BY <2>3 DEF Items, pass
  <2> QED
    BY <1>2, <2>2, <2>4
<1>3. CASE \/ \E p \in Paths : SkipBlocked(p) \/ Begin(p) \/ GrowHit(p)
           \/ HopHit \/ Arrive \/ GrowDone
  <2>1. UNCHANGED <<queue, pass>>
    BY <1>3 DEF SkipBlocked, Begin, GrowHit, HopHit, Arrive, GrowDone, db
  <2> QED
    BY <2>1 DEF Items, pass
<1>4. CASE StartPass \/ LastPass
  BY <1>4 DEF StartPass, LastPass, TakeQueue, Items
<1>5. CASE \E i \in batch : RecoverItem(i)
  BY <1>5 DEF RecoverItem, Items
<1>6. CASE Apply
  BY <1>6 DEF Apply, Items, db
<1>7. CASE Retry
  BY <1>7 DEF Retry, Items, db
<1>8. CASE Requeue
  BY <1>8 DEF Requeue, Items, pass
<1>9. CASE \/ Reensured \/ StartCheck \/ Walked \/ PassOver \/ Rewalked \/ PassAgain
           \/ DrainOver \/ NextCheck \/ AllChecked \/ RootsGrown \/ Finish \/ UNCHANGED vars
  <2>1. UNCHANGED <<queue, pass>>
    BY <1>9 DEF Reensured, StartCheck, Walked, PassOver, Rewalked, PassAgain, DrainOver,
       NextCheck, AllChecked, RootsGrown, Finish, Goto, db, vars
  <2> QED
    BY <2>1 DEF Items, pass
<1> QED
  BY <1>1, <1>2, <1>3, <1>4, <1>5, <1>6, <1>7, <1>8, <1>9 DEF Next, Done

LEMMA LieNext == LieInv /\ RowsInv /\ [Next]_vars => LieInv'
<1> SUFFICES ASSUME LieInv, RowsInv, [Next]_vars PROVE LieInv'
  OBVIOUS
<1>1. CASE Items' \subseteq Items
  BY <1>1 DEF LieInv
<1>2. ASSUME NEW p \in Paths, GrowMiss(p), Items' \subseteq Items \cup {ModuleItem(p)}
      PROVE  LieInv'
  <2>1. IsPrefix(ModuleItem(p).reset, ModuleItem(p).target)
    BY <1>2, PrefixSelf, NewItemsLie DEF GrowMiss, Growable
  <2> QED
    BY <1>2, <2>1 DEF LieInv
<1>3. ASSUME NEW c \in Paths, c # <<>>, IsPrefix(c, goal), LoadMiss \/ EdgeMiss,
             Items' \subseteq Items \cup {ModuleItem(c), EdgeItem(c, goal)}
      PROVE  LieInv'
  <2>1. goal \in Paths
    BY <1>3 DEF LoadMiss, EdgeMiss, RowsInv
  <2>2. /\ IsPrefix(ModuleItem(c).reset, ModuleItem(c).target)
        /\ IsPrefix(EdgeItem(c, goal).reset, EdgeItem(c, goal).target)
    BY <1>3, <2>1, NewItemsLie
  <2> QED
    BY <1>3, <2>2 DEF LieInv
<1> QED
  BY <1>1, <1>2, <1>3, ItemsFrom

LEMMA AskedOnTheWay ==
  ASSUME targets \subseteq Paths, NEW p \in Paths, NEW q \in Paths, IsPrefix(p, q), Asked(q)
  PROVE  Asked(p)
BY PrefixTrans DEF Asked

LEMMA TrieLeads ==
  ASSUME NEW S \in SUBSET Paths, NEW p \in Trie(S)
  PROVE  \E u \in S : IsPrefix(p, u)
<1>1. CASE p \in S
  BY <1>1, PrefixSelf
<1>2. CASE p \in Branches(S)
  BY <1>2 DEF Branches, IsStrictPrefix
<1> QED
  BY <1>1, <1>2 DEF Trie

LEMMA AskedWalking ==
  ASSUME AskedInv, TypeInv, ConnectInv, Walking
  PROVE  AskedInv'
<1> USE DEF TypeInv
<1>0. UNCHANGED <<stage, caller, check, targets, request>>
  BY DEF Walking, SkipBlocked, Begin, GrowHit, GrowMiss, HopHit, LoadMiss, EdgeMiss,
         Arrive, GrowDone, flow, input
<1>1. \A p : Asked(p)' <=> Asked(p)
  BY <1>0 DEF Asked
<1> SUFFICES ASSUME Checking
             PROVE  /\ \A p \in (todo \cup found)' : Asked(p)
                    /\ goal' # None => Asked(goal')
                    /\ \A i \in Items' : Asked(i.target)
  BY <1>0, <1>1 DEF AskedInv, Checking
<1>2. grow = None
  BY DEF ConnectInv, Checking
<1>3. \A p \in (todo \cup found)' : Asked(p)
  <2>1. todo' \subseteq todo /\ (found' = found \/ (goal # None /\ found' \subseteq found \cup {goal}))
    BY <1>2 DEF Walking, SkipBlocked, Begin, GrowHit, GrowMiss, HopHit, LoadMiss, EdgeMiss,
         Arrive, GrowDone
  <2> QED
    BY <2>1 DEF AskedInv
<1>4. goal' # None => Asked(goal')
  <2>1. goal' = goal \/ goal' = None \/ goal' \in todo
    BY <1>2 DEF Walking, SkipBlocked, Begin, GrowHit, GrowMiss, HopHit, LoadMiss, EdgeMiss,
         Arrive, GrowDone
  <2> QED
    BY <2>1 DEF AskedInv
<1>5. \A i \in Items' : Asked(i.target)
  <2>1. CASE Items' \subseteq Items
    BY <2>1 DEF AskedInv
  <2>2. ASSUME NEW c \in Paths, c # <<>>, IsPrefix(c, goal), LoadMiss \/ EdgeMiss,
               Items' \subseteq Items \cup {ModuleItem(c), EdgeItem(c, goal)}
        PROVE  \A i \in Items' : Asked(i.target)
    <3>1. goal # None /\ goal \in Paths
      BY <2>2 DEF LoadMiss, EdgeMiss, RowsInv
    <3>2. Asked(goal)
      BY <3>1 DEF AskedInv
    <3>3. Asked(c)
      BY <2>2, <3>1, <3>2, AskedOnTheWay DEF PlacesOK
    <3>4. ModuleItem(c).target = c /\ EdgeItem(c, goal).target = goal
      BY DEF ModuleItem, EdgeItem
    <3> QED
      BY <2>2, <3>2, <3>3, <3>4 DEF AskedInv
  <2>3. \A p \in Paths : ~GrowMiss(p)
    BY <1>2 DEF GrowMiss
  <2>4. [Next]_vars
    BY DEF Walking, Next
  <2> QED
    BY <2>1, <2>2, <2>3, <2>4, ItemsFrom
<1> QED
  BY <1>3, <1>4, <1>5

LEMMA AskedInPass ==
  ASSUME AskedInv, TypeInv,
         \/ StartPass \/ LastPass \/ (\E i \in batch : RecoverItem(i))
         \/ Apply \/ Retry \/ Reensured \/ Requeue
  PROVE  AskedInv'
<1> USE DEF TypeInv
<1>1. CASE LastPass
  BY <1>1 DEF LastPass, AskedInv, Checking
<1>2. CASE ~LastPass
  <2>1. UNCHANGED <<caller, check, targets, request, found, goal>>
    BY <1>2 DEF StartPass, TakeQueue, RecoverItem, Apply, Retry, Reensured, Requeue, flow,
       input, cursor
  <2>2. Checking' => Checking /\ stage # "check"
    BY <1>2, <2>1 DEF StartPass, TakeQueue, RecoverItem, Apply, Retry, Reensured, Requeue,
       Checking
  <2>3. \A p : Asked(p)' <=> Asked(p)
    BY <2>1 DEF Asked
  <2>4. todo' \subseteq todo \cup {i.target : i \in Items}
    BY <1>2 DEF StartPass, TakeQueue, RecoverItem, Apply, Retry, Reensured, Requeue, Targets,
       Persistent, Items, cursor
  <2>5. Items' \subseteq Items
    <3>1. [Next]_vars
      BY DEF Next
    <3>2. ~LoadMiss /\ ~EdgeMiss /\ \A p \in Paths : ~GrowMiss(p)
      <4>1. stage \notin EnsureStages \/ stage \in {"ensure", "reensure", "extra"}
        BY <1>2 DEF StartPass, RecoverItem, Apply, Retry, Reensured, Requeue, EnsureStages
      <4>2. Idle
        BY <1>2, <4>1 DEF StartPass, RecoverItem, Apply, Retry, Reensured, Requeue, RowsInv,
           EnsureStages
      <4> QED
        BY <4>2 DEF Idle, LoadMiss, EdgeMiss, GrowMiss
    <3> QED
      BY <3>1, <3>2, ItemsFrom
  <2> QED
    BY <2>1, <2>2, <2>3, <2>4, <2>5 DEF AskedInv
<1> QED
  BY <1>1, <1>2

LEMMA AskedInFlow ==
  ASSUME AskedInv, TypeInv,
         \/ StartCheck \/ Walked \/ PassOver \/ Rewalked \/ PassAgain \/ DrainOver
         \/ NextCheck \/ AllChecked \/ RootsGrown \/ Finish
  PROVE  AskedInv'
<1> USE DEF TypeInv
<1>0. UNCHANGED <<request, found, goal>> /\ Items' = Items
  <2>1. UNCHANGED <<request, found, goal, queue>> /\ UNCHANGED pass
    BY DEF StartCheck, Walked, PassOver, Rewalked, PassAgain, DrainOver, NextCheck,
           AllChecked, RootsGrown, Finish, Goto, db, input, cursor
  <2> QED
    BY <2>1 DEF Items, pass
<1>1. targets \subseteq targets' /\ \A p : Asked(p) => Asked(p)'
  BY DEF StartCheck, Walked, PassOver, Rewalked, PassAgain, DrainOver, NextCheck,
         AllChecked, RootsGrown, Finish, Goto, Asked
<1>2. Checking' => Checking
  BY DEF StartCheck, Walked, PassOver, Rewalked, PassAgain, DrainOver, NextCheck,
         AllChecked, RootsGrown, Finish, Goto, Checking
<1> SUFFICES ASSUME Checking', Checking
             PROVE  /\ \A p \in todo' : Asked(p)'
                    /\ stage' # "check" => request.checks[check'] \subseteq targets'
  BY <1>0, <1>1, <1>2 DEF AskedInv
<1>3. CASE StartCheck
  <2>1. /\ targets' = targets \cup request.checks[check] /\ check' = check
        /\ todo' = Trie(request.checks[check]) /\ check \in 1 .. Len(request.checks)
    BY <1>3, RequestFacts DEF StartCheck, Goto, FlowInv
  <2>2. request.checks[check] \in SUBSET Paths
    BY <2>1, RequestFacts DEF FlowInv
  <2>3. \A p \in todo' : Asked(p)'
    BY <2>1, <2>2, TrieLeads DEF Asked
  <2> QED
    BY <2>1, <2>3
<1>4. CASE PassOver
  <2> DEFINE again == IF caller = "walk" /\ recovered # {} THEN Affected(recovered) ELSE {}
  <2>1. again \subseteq Paths
    BY AffectedPaths DEF ItemsOK, PlacesOK
  <2>2. todo' = Trie(again) /\ targets' = targets \cup again /\ check' = check /\ stage # "check"
    BY <1>4 DEF PassOver, Goto
  <2> HIDE DEF again
  <2>3. \A p \in todo' : Asked(p)'
    BY <2>1, <2>2, TrieLeads DEF Asked
  <2> QED
    BY <2>2, <2>3, <1>1 DEF AskedInv
<1>5. CASE DrainOver
  <2>1. request.checks[check] \subseteq targets
    BY <1>5 DEF AskedInv, DrainOver
  <2>2. todo' = request.checks[check] /\ check' = check
    BY <1>5 DEF DrainOver, Goto, Checking
  <2>3. request.checks[check] \subseteq Paths
    BY <2>1 DEF PlacesOK
  <2>4. \A p \in todo' : Asked(p)
    BY <2>1, <2>2, <2>3, PrefixSelf DEF Asked
  <2> QED
    BY <1>1, <2>1, <2>2, <2>4
<1>6. CASE Walked \/ Rewalked \/ PassAgain
  <2>1. todo' = todo /\ check' = check /\ stage # "check"
    BY <1>6 DEF Walked, Rewalked, PassAgain, Goto
  <2> QED
    BY <1>1, <2>1 DEF AskedInv
<1>7. CASE NextCheck
  <2>1. todo' = todo /\ stage' = "check"
    BY <1>7 DEF NextCheck, cursor
  <2> QED
    BY <1>1, <2>1 DEF AskedInv
<1>8. CASE AllChecked \/ RootsGrown \/ Finish
  BY <1>8 DEF AllChecked, RootsGrown, Finish, Goto, Checking
<1> QED
  BY <1>3, <1>4, <1>5, <1>6, <1>7, <1>8

LEMMA AskedNext == AskedInv /\ TypeInv /\ ConnectInv /\ [Next]_vars => AskedInv'
<1> SUFFICES ASSUME AskedInv, TypeInv, ConnectInv, [Next]_vars PROVE AskedInv'
  OBVIOUS
<1>1. CASE UNCHANGED vars
  BY <1>1 DEF vars, input, db, pass, flow, cursor, AskedInv, Asked, Items, Checking
<1> QED
  BY <1>1, AskedWalking, AskedInPass, AskedInFlow DEF Next, Done, Walking
-----------------------------------------------------------------------------
(* Rows are restored.                                                      *)

\* t has its row, or a walk to it or past it is to come or under way.
Ahead(t) ==
  \/ t \in rows
  \/ goal # None /\ IsPrefix(t, goal)
  \/ \E u \in todo : IsPrefix(t, u)

RestoreInv ==
  /\ stage \in {"rewalk", "judge"} /\ caller = "walk" =>
       \A t \in found : \A i \in recovered : Comparable(t, i.reset) => Ahead(t)
  /\ stage = "finalize" => \A t \in found : Ahead(t)
  /\ stage = "done" /\ request.connect => found \subseteq rows

WalkInv == AllInv /\ TreeInv /\ FoundInv /\ LieInv /\ AskedInv

FoundPaths == found \subseteq Paths

LEMMA FoundAre ==
  ASSUME FlowInv, FoundInv
  PROVE  FoundPaths /\ found \subseteq Specs
BY RequestFacts DEF FoundInv, FlowInv, FoundPaths

\* A walk to a place beyond what was once walked to brings its row, even if it is
\* skipped or fails.
LEMMA AheadWalking ==
  ASSUME WalkInv, Walking, grow = None, NEW t \in found, Ahead(t)
  PROVE  Ahead(t)'
<1> USE DEF WalkInv, AllInv, TypeInv
<1>0. t \in Paths
  BY FoundAre DEF FoundPaths
<1>1. rows \subseteq rows'
  BY DEF Walking, SkipBlocked, Begin, GrowHit, GrowMiss, HopHit, LoadMiss, EdgeMiss,
         Arrive, GrowDone, walk
<1>2. CASE t \in rows
  BY <1>1, <1>2 DEF Ahead
<1>3. ASSUME NEW p \in Paths, SkipBlocked(p) PROVE Ahead(t)'
  <2>1. todo' = todo \ {p} /\ goal' = goal /\ rows' = rows
    BY <1>3 DEF SkipBlocked
  <2>2. ASSUME IsPrefix(t, p) PROVE t \in rows
    <3>1. PICK b \in blocked : IsPrefix(b, p)
      BY <1>3 DEF SkipBlocked, Cleared
    <3>2. b \in Paths /\ b # <<>> /\ Front(b) \in rows /\ ~IsPrefix(b, t)
      BY <3>1 DEF TreeInv, FoundInv
    <3>3. Len(b) \in Nat /\ Len(t) \in Nat
      BY <1>0, <3>2, PathFacts
    <3>4. ~(Len(b) <= Len(t))
      BY <1>0, <2>2, <3>1, <3>2, PrefixesCompare
    <3>5. IsPrefix(t, b)
      BY <1>0, <2>2, <3>1, <3>2, <3>3, <3>4, PrefixesCompare
    <3>6. IsPrefix(t, Front(b))
      BY <1>0, <3>2, <3>4, <3>5, <3>3, FrontFacts
    <3> QED
      BY <1>0, <3>2, <3>6 DEF TreeInv
  <2> QED
    BY <2>1, <2>2 DEF Ahead
<1>4. ASSUME NEW p \in Paths, Begin(p) PROVE Ahead(t)'
  <2>1. /\ goal = None /\ todo' = todo \ {p}
        /\ goal' = p \/ (p \in rows /\ goal' = goal)
    BY <1>4 DEF Begin
  <2>2. p # None
    BY PwWalkAssumption
  <2>3. p \in rows /\ IsPrefix(t, p) => t \in rows'
    BY <1>0, <1>1 DEF TreeInv
  <2> QED
    BY <1>1, <2>1, <2>2, <2>3 DEF Ahead
<1>5. CASE HopHit
  <2>1. todo' = todo /\ goal' = goal
    BY <1>5 DEF HopHit
  <2> QED
    BY <1>1, <2>1 DEF Ahead
<1>6. CASE LoadMiss \/ EdgeMiss
  <2>1. goal # None /\ at # goal /\ todo' = todo /\ rows' = rows
    BY <1>6 DEF LoadMiss, EdgeMiss
  <2>2. ASSUME IsPrefix(t, goal) PROVE t \in rows
    <3>1. IsPrefix(Hop(at, goal), t) \/ IsPrefix(t, at)
      BY <1>0, <2>1, <2>2, HopPasses DEF RowsInv
    <3>2. IsPrefix(t, at)
      BY <1>6, <3>1, WayIsOpen
    <3> QED
      BY <1>0, <2>1, <3>2 DEF TreeInv, RowsInv
  <2> QED
    BY <2>1, <2>2 DEF Ahead
<1>7. CASE Arrive
  <2>1. goal \in rows /\ todo' = todo /\ rows' = rows
    BY <1>7 DEF Arrive, RowsInv
  <2>2. IsPrefix(t, goal) => t \in rows
    BY <1>0, <2>1 DEF TreeInv
  <2> QED
    BY <2>1, <2>2 DEF Ahead
<1>8. CASE GrowDone \/ \E p \in Paths : GrowHit(p) \/ GrowMiss(p)
  BY <1>8 DEF GrowHit, GrowMiss, GrowDone
<1> QED
  BY <1>3, <1>4, <1>5, <1>6, <1>7, <1>8 DEF Walking

\* The endpoints that a pass walks again lead past all it dropped.
LEMMA AgainLeads ==
  ASSUME AskedInv, LieInv, TypeInv, FoundInv, Checking, NEW t \in found,
         NEW i \in recovered, Comparable(t, i.reset)
  PROVE  \E u \in Affected(recovered) : IsPrefix(t, u)
<1> USE DEF TypeInv
<1>0. t \in Paths /\ targets \subseteq Paths
  BY FoundAre DEF FoundPaths, PlacesOK
<1>1. i \in Items /\ i.reset \in Paths /\ i.target \in Paths /\ i.reset \in Resets(recovered)
  BY DEF Items, ItemsOK, Item, Resets
<1>2. PICK u \in targets : IsPrefix(t, u) /\ Comparable(u, i.reset)
  <2>1. CASE IsPrefix(t, i.reset)
    <3>1. IsPrefix(i.reset, i.target)
      BY <1>1 DEF LieInv
    <3>2. PICK u \in targets : IsPrefix(i.target, u)
      BY <1>1 DEF AskedInv, Asked
    <3>3. IsPrefix(i.reset, u)
      BY <1>0, <1>1, <3>1, <3>2, PrefixTrans
    <3>4. IsPrefix(t, u)
      BY <1>0, <1>1, <2>1, <3>2, <3>3, PrefixTrans
    <3> QED
      BY <3>2, <3>3, <3>4 DEF Comparable
  <2>2. CASE IsPrefix(i.reset, t)
    <3>1. PICK u \in targets : IsPrefix(t, u)
      BY DEF AskedInv, Asked
    <3>2. IsPrefix(i.reset, u)
      BY <1>0, <1>1, <2>2, <3>1, PrefixTrans
    <3> QED
      BY <3>1, <3>2 DEF Comparable
  <2> QED
    BY <2>1, <2>2 DEF Comparable
<1>3. u \in Touching(recovered)
  BY <1>1, <1>2 DEF Touching
<1> QED
  BY <1>2, <1>3 DEF Affected

LEMMA RestoreWalking ==
  ASSUME RestoreInv, WalkInv, Walking
  PROVE  RestoreInv'
<1> USE DEF WalkInv, AllInv, TypeInv
<1>0. stage' = stage /\ stage \in EnsureStages
  BY WalkingStage
<1>1. UNCHANGED <<caller, recovered, request>>
  BY DEF Walking, SkipBlocked, Begin, GrowHit, GrowMiss, HopHit, LoadMiss, EdgeMiss,
         Arrive, GrowDone, pass, flow, input
<1>2. CASE stage \notin {"rewalk", "finalize"}
  BY <1>0, <1>2 DEF RestoreInv, EnsureStages
<1>3. CASE stage \in {"rewalk", "finalize"}
  <2>1. grow = None
    BY <1>3 DEF ConnectInv
  <2>2. \A t \in found : Ahead(t) => Ahead(t)'
    BY <2>1, AheadWalking
  <2>3. ASSUME NEW t \in found' \ found PROVE Ahead(t)'
    <3>1. found' = found \/ Arrive
      BY DEF Walking, SkipBlocked, Begin, GrowHit, GrowMiss, HopHit, LoadMiss, EdgeMiss,
         GrowDone
    <3>2. t = goal /\ t \in rows /\ rows' = rows
      BY <2>3, <3>1 DEF Arrive, RowsInv
    <3> QED
      BY <3>2 DEF Ahead
  <2> QED
    BY <1>0, <1>1, <1>3, <2>2, <2>3 DEF RestoreInv
<1> QED
  BY <1>2, <1>3

LEMMA RestoreFlow ==
  ASSUME RestoreInv, WalkInv,
         \/ StartCheck \/ Walked \/ PassOver \/ Rewalked \/ PassAgain \/ DrainOver
         \/ NextCheck \/ AllChecked \/ RootsGrown \/ Finish
  PROVE  RestoreInv'
<1> USE DEF WalkInv, AllInv, TypeInv
<1>0. /\ UNCHANGED <<request, found, goal, rows, recovered>>
      /\ found \subseteq Specs /\ found \subseteq Paths
  <2>1. UNCHANGED <<request, found, goal>> /\ UNCHANGED pass /\ UNCHANGED rows
    BY DEF StartCheck, Walked, PassOver, Rewalked, PassAgain, DrainOver, NextCheck,
           AllChecked, RootsGrown, Finish, Goto, input, walk, cursor
  <2> QED
    BY <2>1, FoundAre DEF pass, FoundPaths
<1>1. CASE stage' \notin {"rewalk", "judge", "finalize", "done"}
  BY <1>1 DEF RestoreInv
<1>2. CASE PassOver
  <2>1. stage = "persist" /\ caller' = caller /\ stage' # "finalize"
    BY <1>2 DEF PassOver, Goto
  <2>2. stage' = "done" => ~request.connect
    BY <1>2 DEF PassOver, Goto, ConnectInv
  <2>3. ASSUME caller = "walk", NEW t \in found, NEW i \in recovered, Comparable(t, i.reset)
        PROVE  Ahead(t)'
    <3>1. Checking /\ recovered # {}
      BY <2>1, <2>3 DEF Checking
    <3>2. PICK u \in Affected(recovered) : IsPrefix(t, u)
      BY <2>3, <3>1, AgainLeads
    <3>3. todo' = Trie(Affected(recovered))
      BY <1>2, <2>3, <3>1 DEF PassOver
    <3>4. u \in todo'
      BY <3>2, <3>3 DEF Trie
    <3> QED
      BY <3>2, <3>4 DEF Ahead
  <2> QED
    BY <1>0, <2>1, <2>2, <2>3 DEF RestoreInv
<1>3. CASE Rewalked
  <2>1. stage = "rewalk" /\ stage' = "judge" /\ caller' = caller /\ todo' = todo
    BY <1>3 DEF Rewalked, Goto
  <2>2. \A t : Ahead(t) => Ahead(t)'
    BY <1>0, <2>1 DEF Ahead
  <2> QED
    BY <1>0, <2>1, <2>2 DEF RestoreInv
<1>4. ASSUME Specs \subseteq todo' PROVE \A t \in found : Ahead(t)'
  BY <1>0, <1>4, PrefixSelf DEF Ahead
<1>5. CASE DrainOver
  <2>1. stage' \in {"finalize", "lca", "roots"} /\ (stage' = "finalize" => todo' = Specs)
    BY <1>5 DEF DrainOver, Goto
  <2> QED
    BY <1>0, <1>4, <2>1 DEF RestoreInv
<1>6. CASE AllChecked
  <2>1. \/ stage' = "drain"
        \/ stage' = "finalize" /\ todo' = Specs
        \/ stage' = "done" /\ Specs \subseteq rows
    BY <1>6 DEF AllChecked
  <2> QED
    BY <1>0, <1>4, <2>1 DEF RestoreInv
<1>7. CASE Finish
  <2>1. stage' = "done" /\ Idle
    BY <1>7 DEF Finish, Goto
  <2>2. CASE stage = "extra"
    BY <1>0, <2>1, <2>2 DEF ConnectInv, RestoreInv
  <2>3. CASE stage = "finalize"
    BY <1>0, <2>1, <2>3 DEF RestoreInv, Ahead, Idle
  <2> QED
    BY <1>7, <2>2, <2>3 DEF Finish
<1>8. CASE PassAgain
  BY <1>1, <1>8 DEF PassAgain, Goto
<1>9. CASE StartCheck \/ Walked \/ NextCheck \/ RootsGrown
  BY <1>1, <1>9 DEF StartCheck, Walked, NextCheck, RootsGrown, Goto
<1> QED
  BY <1>2, <1>3, <1>5, <1>6, <1>7, <1>8, <1>9

LEMMA RestoreNext == RestoreInv /\ WalkInv /\ [Next]_vars => RestoreInv'
<1> SUFFICES ASSUME RestoreInv, WalkInv, [Next]_vars PROVE RestoreInv'
  OBVIOUS
<1>1. CASE \/ StartPass \/ LastPass \/ (\E i \in batch : RecoverItem(i))
           \/ Apply \/ Retry \/ Reensured \/ Requeue
  <2>1. stage' \notin {"rewalk", "judge", "finalize", "done"}
    BY <1>1 DEF StartPass, LastPass, TakeQueue, RecoverItem, Apply, Retry, Reensured, Requeue,
       flow
  <2> QED
    BY <2>1 DEF RestoreInv
<1>2. CASE UNCHANGED vars
  <2>1. UNCHANGED <<stage, caller, found, recovered, rows, goal, todo, request>>
    BY <1>2 DEF vars, input, walk, pass, flow, cursor
  <2> QED
    BY <2>1 DEF RestoreInv, Ahead
<1> QED
  BY <1>1, <1>2, RestoreWalking, RestoreFlow DEF Next, Done, Walking

\* A pass of a check walks again what it dropped before the drain goes on, and an
\* endpoint that was ever walked to has its row when connect starts: its way stays
\* in the index, no block is put on it, and the endpoints walked again lead past it.
THEOREM RowsAreRestored == Spec => []RecoveryRestores
<1>1. Init => AllInv /\ TreeInv /\ FoundInv /\ LieInv /\ AskedInv /\ RestoreInv
  <2> SUFFICES ASSUME Init PROVE AllInv /\ TreeInv /\ FoundInv /\ LieInv /\ AskedInv /\ RestoreInv
    OBVIOUS
  <2>1. AllInv /\ TreeInv
    BY TypesInitially, DeferInitially, MissInitially, SeenInitially, ConnectInitially,
       TreeInitially DEF AllInv
  <2>2. FoundInv /\ RestoreInv
    BY DEF Init, FoundInv, RestoreInv
  <2>3. LieInv /\ AskedInv
    BY DEF Init, LieInv, AskedInv, Items
  <2> QED
    BY <2>1, <2>2, <2>3
<1>2. AllInv /\ [Next]_vars => AllInv'
  BY TypesNext, DeferNext, MissNext, SeenNext, ConnectNext DEF AllInv, TypeInv
<1>3. WalkInv /\ [Next]_vars => WalkInv'
  BY <1>2, TreeNext, FoundNext, LieNext, AskedNext DEF WalkInv, AllInv, TypeInv
<1>4. WalkInv /\ RestoreInv => RecoveryRestores
  <2> SUFFICES ASSUME WalkInv, RestoreInv PROVE RecoveryRestores
    OBVIOUS
  <2>1. ASSUME stage = "judge", NEW t, Ahead(t) PROVE t \in rows
    <3>1. Idle
      BY <2>1 DEF WalkInv, AllInv, TypeInv, RowsInv, EnsureStages
    <3> QED
      BY <2>1, <3>1 DEF Idle, Ahead
  <2> QED
    BY <2>1 DEF RestoreInv, RecoveryRestores
<1>5. Init => WalkInv /\ RestoreInv
  BY <1>1 DEF WalkInv
<1> QED
  BY <1>3, <1>4, <1>5, RestoreNext, PTL DEF Spec
=============================================================================
