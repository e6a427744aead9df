------------------------------- MODULE PwWalk -------------------------------
(***************************************************************************)
(* The hierarchy walk (path_walk.py, PathWalkState) and the queue of       *)
(* deferred resolutions it shares with the module database                 *)
(* (path_walk_db.py): endpoint paths are walked hop by hop under the       *)
(* confident policy, a hop that cannot be resolved blocks its prefix and   *)
(* defers an item, and recovery passes retry the deferred items, drop the  *)
(* rows under what they recovered and walk the endpoints again.            *)
(*                                                                         *)
(* A path is the sequence of instance leaves below the top.  Resolving an  *)
(* instance of a module to a child module (an edge) and loading the child  *)
(* module are abstracted to what they answer: already in the index, found  *)
(* by the confident policy, found by the recovery policy only, or never.   *)
(* All files of a module are one, so the scope anchor of an item is the    *)
(* module whose file it is.  ensure_path holds _walk_lock, so parallel     *)
(* branch workers differ from one thread only in the order of their paths. *)
(***************************************************************************)
EXTENDS Naturals, FiniteSets, SequencesExt

CONSTANTS
  Paths,     \* every path a walk may name, <<>> (the top) included
  Of,        \* Of[p]: the module instantiated at p
  Designs,   \* what resolution answers, see Design
  Requests,  \* what is asked, see Request
  Parallel,  \* jobs > 1
  PassCap,   \* HIERWALK_PW_RECOVERY_CAP
  None

Mods == {Of[p] : p \in Paths}
Leaves == UNION {Range(p) : p \in Paths}
Edges == Mods \X Leaves
Design == [indexed : SUBSET Edges, confident : SUBSET Edges, late : SUBSET Edges,
           loads : SUBSET (Mods \X Mods), lateLoads : SUBSET (Mods \X Mods),
           retry : SUBSET Mods]
\* The endpoint paths of each check in order, expand_subtrees, and whether the
\* checks are walked one by one and finalized or by run_path_walk_index.
Request == [checks : Seq(SUBSET Paths), roots : SUBSET Paths, connect : BOOLEAN]

ASSUME PwWalkAssumption ==
  /\ <<>> \in Paths /\ Paths \subseteq Seq(Leaves)
  /\ \A p \in Paths : Prefixes(p) \subseteq Paths
  /\ Of \in [Paths -> Mods]
  /\ Designs \subseteq Design
  /\ Requests \subseteq Request
  /\ Parallel \in BOOLEAN
  /\ PassCap \in Nat
  /\ None \notin Paths

\* A DeferredResolve; module items have no leaf.
Item == [kind : {"edge", "module"}, mod : Mods, leaf : Leaves \cup {None},
         anchor : Mods, reset : Paths, target : Paths]
Key(i) == <<i.kind, i.mod, i.leaf, i.anchor>>

VARIABLES
  design,     \* what is in the sources; never changes
  request,    \* never changes
  rows,       \* rows_by_path
  blocked,    \* _walk_blocked_prefixes
  pending,    \* _pending_misses
  misses,     \* the misses in _resolve_step_cache, and with them _failed_edge_cache
  known,      \* edges in the index
  loaded,     \* modules in the index
  queue,      \* _defer_queue
  seen,       \* _defer_seen
  targets,    \* _spec_targets
  passes,     \* stats.recovery_passes
  stalled,    \* stats.recovery_stalled
  stage,      \* where the driver is
  caller,     \* who drains: "walk", "final" (before connect) or "last"
  check,      \* the check being walked
  todo,       \* paths the current loop has yet to ensure
  goal, at,   \* the ensure_path in progress and the prefix it has reached
  grow,       \* the root _expand_subtree works under
  tried,      \* children it failed to attach
  batch, fresh, recovered, skipped, missed, skip, before,  \* run_recovery_pass
  found       \* history: endpoints that were walked to

input == <<design, request>>
db == <<known, loaded, queue, seen>>
walk == <<rows, blocked, pending, misses>>
pass == <<batch, fresh, recovered, skipped, missed, skip, before>>
flow == <<stage, caller, check, targets, passes, stalled>>
cursor == <<todo, goal, at, grow, tried>>
vars == <<input, db, walk, pass, flow, cursor, found>>

Specs == UNION Range(request.checks)

Stages == {"check", "walk", "drain", "recover", "ensure", "retry", "reensure",
           "requeue", "persist", "rewalk", "judge", "lca", "roots", "extra",
           "finalize", "done"}
\* In these the code passes RESOLVE_CONFIDENT; in all others RESOLVE_RECOVERY.
ConfidentStages == {"walk", "lca", "roots", "extra"}
Late == stage \notin ConfidentStages

Comparable(p, q) == IsPrefix(p, q) \/ IsPrefix(q, p)
Edge(c) == <<Of[Front(c)], Last(c)>>
Hop(p, t) == SubSeq(t, 1, Len(p) + 1)
Idle == todo = {} /\ goal = None /\ grow = None

Init ==
  /\ design \in Designs /\ request \in Requests
  /\ rows = {<<>>} /\ blocked = {} /\ pending = {} /\ misses = {}
  /\ known = design.indexed /\ loaded = {Of[<<>>]} /\ queue = {} /\ seen = {}
  /\ targets = {} /\ passes = 0 /\ stalled = FALSE
  /\ stage = "check" /\ caller = "walk" /\ check = 1
  /\ todo = {} /\ goal = None /\ at = <<>> /\ grow = None /\ tried = {}
  /\ batch = {} /\ fresh = {} /\ recovered = {} /\ skipped = {} /\ missed = {}
  /\ skip = {} /\ before = 0
  /\ found = {}

-----------------------------------------------------------------------------
(* Blocks, misses and deferred items.                                      *)

IsBlocked(p) == \E b \in blocked : IsPrefix(b, p)
Unblock(B, p) == {b \in B : ~Comparable(b, p)}
PendingAt(c) == \E x \in pending : x.at = c
QueueMiss(c, t) ==
  IF PendingAt(c) THEN pending
  ELSE {x \in pending : x.target # t} \cup {[at |-> c, target |-> t]}

\* Mutant of DropModules: cached misses outlive what was learnt of the module.
DropModulesNot(M, ms) == M
\* _load_module and _child_edge drop what is cached under a module's parents.
DropModules(M, ms) == {x \in M : Of[x[1]] \notin ms}

EdgeItem(c, t) == [kind |-> "edge", mod |-> Of[Front(c)], leaf |-> Last(c),
                   anchor |-> Of[Front(c)], reset |-> Front(c), target |-> t]
ModuleItem(c) == [kind |-> "module", mod |-> Of[c], leaf |-> None,
                  anchor |-> Of[Front(c)], reset |-> Front(c), target |-> c]
Defer(i) ==
  IF Key(i) \in seen THEN UNCHANGED <<queue, seen>>
  ELSE queue' = queue \cup {i} /\ seen' = seen \cup {Key(i)}

Resolves(e, late) == e \in design.confident \/ (late /\ e \in design.late)
Loads(m, c, late) ==
  \/ c \in loaded
  \/ <<m, c>> \in design.loads
  \/ late /\ <<m, c>> \in design.lateLoads

-----------------------------------------------------------------------------
(* ensure_path.                                                            *)

\* Walks and finalize go shallow first, recovery sorts the longest first, the
\* endpoints of a check and the roots come in the caller's order.
InOrder(t) ==
  \A u \in todo : CASE stage \in {"ensure", "reensure", "persist"} -> ~IsStrictPrefix(t, u)
                   [] stage \in {"walk", "rewalk", "finalize"} -> ~IsStrictPrefix(u, t)
                   [] OTHER -> TRUE

\* The longest prefix of t all of whose prefixes are rows.
KnownPrefix(p, t) ==
  LET solid(q) == \A r \in Prefixes(q) : r \in rows \cup {<<>>}
  IN  /\ p \in Prefixes(t) /\ solid(p)
      /\ \A q \in Prefixes(t) : solid(q) => Len(q) <= Len(p)

\* Mutant of Cleared: the last-chance walk leaves the blocks of earlier stages.
ClearedNever(t) == blocked
\* Before its last chance an endpoint is unblocked, with every prefix of it.
Cleared(t) ==
  IF stage = "finalize" THEN {b \in blocked : \A p \in Prefixes(t) : ~Comparable(b, p)}
                        ELSE blocked

SkipBlocked(t) ==
  /\ goal = None /\ grow = None /\ t \in todo /\ InOrder(t)
  /\ \E b \in Cleared(t) : IsPrefix(b, t)
  /\ blocked' = Cleared(t)
  /\ todo' = todo \ {t}
  /\ UNCHANGED <<input, db, rows, pending, misses, pass, flow, goal, at, grow, tried, found>>

Begin(t) ==
  /\ goal = None /\ grow = None /\ t \in todo /\ InOrder(t)
  /\ \A b \in Cleared(t) : ~IsPrefix(b, t)
  /\ blocked' = Cleared(t)
  /\ todo' = todo \ {t}
  /\ IF stage = "finalize" /\ t \in rows
     THEN UNCHANGED <<rows, goal, at>>
     ELSE /\ rows' = rows \cup {<<>>}
          /\ goal' = t
          /\ \E p \in Prefixes(t) : KnownPrefix(p, t) /\ at' = p
  /\ UNCHANGED <<input, db, pending, misses, pass, flow, grow, tried, found>>

\* _resolve_child_step: the cached answer, then the index, then a resolution
\* unless one already failed for the same leaf.
SegmentFailed(c) == \E x \in misses : x[1] = Front(c) /\ Hop(x[1], x[2]) = c
Finds(c, t) ==
  /\ <<Front(c), t>> \notin misses
  /\ Edge(c) \in known \/ (~SegmentFailed(c) /\ Resolves(Edge(c), Late))
Fresh(c) == IF Edge(c) \in known THEN {} ELSE {Of[Front(c)]}

HopHit ==
  /\ goal # None /\ at # goal
  /\ LET c == Hop(at, goal) IN
     /\ Finds(c, goal) /\ Loads(Of[at], Of[c], Late)
     /\ rows' = rows \cup {c}
     /\ at' = c
     /\ known' = known \cup {Edge(c)}
     /\ loaded' = loaded \cup {Of[c]}
     /\ misses' = DropModules(misses, Fresh(c) \cup ({Of[c]} \ loaded))
  /\ UNCHANGED <<input, queue, seen, blocked, pending, pass, flow,
                 todo, goal, grow, tried, found>>

LoadMiss ==
  /\ goal # None /\ at # goal
  /\ LET c == Hop(at, goal) IN
     /\ Finds(c, goal) /\ ~Loads(Of[at], Of[c], Late)
     /\ known' = known \cup {Edge(c)}
     /\ misses' = DropModules(misses, Fresh(c))
     /\ IF Late THEN UNCHANGED <<queue, seen>> ELSE Defer(ModuleItem(c))
     /\ blocked' = blocked \cup {c}
     /\ pending' = QueueMiss(c, goal)
  /\ goal' = None
  /\ UNCHANGED <<input, loaded, rows, pass, flow, todo, at, grow, tried, found>>

EdgeMiss ==
  /\ goal # None /\ at # goal
  /\ LET c == Hop(at, goal) IN
     /\ ~Finds(c, goal)
     /\ IF Late \/ SegmentFailed(c) THEN UNCHANGED <<queue, seen>>
        ELSE Defer(EdgeItem(c, goal))
     /\ misses' = misses \cup {<<at, goal>>}
     /\ blocked' = IF PendingAt(c) THEN blocked ELSE blocked \cup {c}
     /\ pending' = QueueMiss(c, goal)
  /\ goal' = None
  /\ UNCHANGED <<input, known, loaded, rows, pass, flow, todo, at, grow, tried, found>>

Arrive ==
  /\ goal # None /\ at = goal
  /\ pending' = {x \in pending : x.target # goal}
  /\ blocked' = Unblock(blocked, goal)
  /\ found' = found \cup ({goal} \cap Specs)
  /\ grow' = IF stage \in {"roots", "extra"} THEN goal ELSE None
  /\ goal' = None
  /\ UNCHANGED <<input, db, rows, misses, pass, flow, todo, at, tried>>

-----------------------------------------------------------------------------
(* _expand_subtree; siblings are tried in any order.                       *)

Growable(c) ==
  /\ c # <<>> /\ c \notin rows \cup tried
  /\ IsPrefix(grow, Front(c)) /\ Front(c) \in rows
  /\ Edge(c) \in known

GrowHit(c) ==
  /\ grow # None /\ Growable(c) /\ Loads(Of[Front(c)], Of[c], FALSE)
  /\ rows' = rows \cup {c}
  /\ loaded' = loaded \cup {Of[c]}
  /\ misses' = DropModules(misses, {Of[c]} \ loaded)
  /\ UNCHANGED <<input, known, queue, seen, blocked, pending, pass, flow, cursor, found>>

GrowMiss(c) ==
  /\ grow # None /\ Growable(c) /\ ~Loads(Of[Front(c)], Of[c], FALSE)
  /\ Defer(ModuleItem(c))
  /\ tried' = tried \cup {c}
  /\ UNCHANGED <<input, known, loaded, walk, pass, flow, todo, goal, at, grow, found>>

GrowDone ==
  /\ grow # None /\ \A c \in Paths : ~Growable(c)
  /\ grow' = None /\ tried' = {}
  /\ UNCHANGED <<input, db, walk, pass, flow, todo, goal, at, found>>

-----------------------------------------------------------------------------
(* run_recovery_pass.                                                      *)

\* The walk calls run_recovery_pass with plan_rewalk, run_path_walk_index
\* without it at its end.
TakeQueue ==
  /\ batch' = queue /\ queue' = {}
  /\ fresh' = {} /\ recovered' = {} /\ skipped' = {} /\ missed' = {} /\ skip' = {}
  /\ before' = Cardinality(queue)
  /\ stage' = "recover"
  /\ UNCHANGED <<input, known, loaded, seen, walk, check, targets, stalled, cursor,
                 found>>

StartPass ==
  /\ stage = "drain" /\ queue # {} /\ passes < PassCap
  /\ passes' = passes + 1 /\ UNCHANGED caller
  /\ TakeQueue

BlockCandidates(i) ==
  {Append(i.reset, i.leaf)} \cup {p \in Prefixes(i.target) : p # <<>> /\ Last(p) = i.leaf}
StaysBlocked(i) ==
  /\ i.kind = "edge" /\ i.anchor \notin design.retry
  /\ \E p \in BlockCandidates(i) : IsBlocked(p)
ItemEdge(i) == <<i.mod, i.leaf>>
Recovers(i) ==
  IF i.kind = "edge" THEN ItemEdge(i) \in known \/ Resolves(ItemEdge(i), TRUE)
                     ELSE Loads(i.anchor, i.mod, TRUE)

\* _recover_defer_item answers skip_blocked, ok or miss.
RecoverItem(i) ==
  /\ stage \in {"recover", "retry"} /\ i \in batch
  /\ batch' = batch \ {i}
  /\ \/ /\ StaysBlocked(i)
        /\ skipped' = skipped \cup {i}
        /\ UNCHANGED <<known, loaded, fresh, missed>>
     \/ /\ ~StaysBlocked(i) /\ Recovers(i)
        /\ fresh' = fresh \cup {i}
        /\ known' = IF i.kind = "edge" THEN known \cup {ItemEdge(i)} ELSE known
        /\ loaded' = IF i.kind = "edge" THEN loaded ELSE loaded \cup {i.mod}
        /\ UNCHANGED <<skipped, missed>>
     \/ /\ ~StaysBlocked(i) /\ ~Recovers(i)
        /\ missed' = missed \cup {i}
        /\ UNCHANGED <<known, loaded, fresh, skipped>>
  /\ UNCHANGED <<input, queue, seen, walk, flow, cursor, recovered, skip, before, found>>

Under(prefixes, p) == \E q \in prefixes : IsPrefix(q, p)
\* Mutant of ResetRows: only the row of the prefix itself is dropped.
ResetRowsExactly(prefixes) == rows \ prefixes
ResetRows(prefixes) == {p \in rows : ~Under(prefixes, p)}
ResetPending(prefixes) ==
  {x \in pending : ~Under(prefixes, Front(x.at)) /\ ~Under(prefixes, x.target)}
ResetBlocked(prefixes) == {b \in blocked : \A q \in prefixes : ~Comparable(b, q)}
ResetMisses(prefixes) == {x \in misses : ~Under(prefixes, x[1])}
Resets(items) == {i.reset : i \in items}
Targets(items) == {i.target : i \in items}

\* _unblock_deferred_recovery, for every item.
Unblocked(B, items) ==
  {b \in B : \A i \in items : \A p \in Prefixes(i.target) : p # <<>> => ~Comparable(b, p)}

Touching(items) ==
  {t \in targets : \E p \in Resets(items) \cup Targets(items) : Comparable(t, p)}
\* Mutant of Affected: only the endpoints that were deferred are walked again.
AffectedTargets(items) == Targets(items)
Affected(items) == IF Touching(items) = {} THEN Targets(items) ELSE Touching(items)
Covered(items, all) ==
  {p \in Targets(items) : \E t \in Affected(all) : IsPrefix(p, t)}

Apply ==
  /\ stage \in {"recover", "retry"} /\ batch = {}
  /\ rows' = ResetRows(Resets(fresh))
  /\ pending' = ResetPending(Resets(fresh))
  /\ blocked' = Unblocked(ResetBlocked(Resets(fresh)), fresh)
  /\ misses' = DropModules(ResetMisses(Resets(fresh)), {i.mod : i \in fresh})
  /\ LET planned == IF caller = "last" THEN {} ELSE Covered(fresh, recovered \cup fresh)
     IN  /\ todo' = Targets(fresh) \ planned
         /\ skip' = IF stage = "recover" THEN planned ELSE skip
  /\ recovered' = recovered \cup fresh
  /\ fresh' = {}
  /\ stage' = IF stage = "recover" THEN "ensure" ELSE "reensure"
  /\ UNCHANGED <<input, db, caller, check, targets, passes, stalled, goal, at, grow,
                 tried, batch, skipped, missed, before, found>>

\* Mutant of Retry: skipped items count as done once the ensures are through.
RetryForgets ==
  /\ stage = "ensure" /\ Idle
  /\ batch' = {} /\ skipped' = {}
  /\ stage' = "requeue"
  /\ UNCHANGED <<input, db, walk, caller, check, targets, passes, stalled, cursor,
                 fresh, recovered, missed, skip, before, found>>

\* should_retry_deferred_recovery is cached, so an item skipped as blocked is
\* not unblocked before it is tried again.
Retry ==
  /\ stage = "ensure" /\ Idle
  /\ batch' = skipped /\ skipped' = {}
  /\ stage' = IF skipped = {} THEN "requeue" ELSE "retry"
  /\ UNCHANGED <<input, db, walk, caller, check, targets, passes, stalled, cursor,
                 fresh, recovered, missed, skip, before, found>>

Reensured ==
  /\ stage = "reensure" /\ Idle
  /\ stage' = "requeue"
  /\ UNCHANGED <<input, db, walk, pass, caller, check, targets, passes, stalled,
                 cursor, found>>

Persistent == {i \in missed : i.kind = "module" /\ i.anchor \notin design.retry}

Requeue ==
  /\ stage = "requeue"
  /\ queue' = queue \cup skipped \cup missed
  /\ rows' = ResetRows(Resets(Persistent))
  /\ pending' = ResetPending(Resets(Persistent))
  /\ blocked' = ResetBlocked(Resets(Persistent))
  /\ misses' = ResetMisses(Resets(Persistent))
  /\ todo' = Targets(Persistent) \ skip
  /\ stage' = "persist"
  /\ UNCHANGED <<input, known, loaded, seen, pass, caller, check, targets, passes,
                 stalled, goal, at, grow, tried, found>>

-----------------------------------------------------------------------------
(* The drivers.                                                            *)

\* With workers the trie walk also ensures every branching prefix.
Branches(S) ==
  {p \in Paths : \E s, t \in S : /\ IsStrictPrefix(p, s) /\ IsStrictPrefix(p, t)
                                  /\ Hop(p, s) # Hop(p, t)}
Trie(S) == IF Parallel THEN S \cup Branches(S) ELSE S

Goto(s) ==
  /\ stage' = s
  /\ UNCHANGED <<input, db, walk, pass, check, passes, goal, at, grow, tried, found>>

StartCheck ==
  /\ stage = "check" /\ check <= Len(request.checks)
  /\ targets' = targets \cup request.checks[check]
  /\ todo' = Trie(request.checks[check])
  /\ Goto("walk")
  /\ UNCHANGED <<caller, stalled>>

\* Mutant of Walked: a check is walked until each of its endpoints has a row.
WalkedToAll ==
  /\ stage = "walk" /\ Idle
  /\ IF request.checks[check] \subseteq rows THEN Goto("drain") /\ UNCHANGED todo
     ELSE Goto("walk") /\ todo' = Trie(request.checks[check])
  /\ UNCHANGED <<caller, targets, stalled>>

Walked ==
  /\ stage = "walk" /\ Idle
  /\ Goto("drain")
  /\ UNCHANGED <<caller, targets, stalled, todo>>

\* Only _walk_specs_with_recovery walks the affected endpoints again.
PassOver ==
  /\ stage = "persist" /\ Idle
  /\ LET again == IF caller = "walk" /\ recovered # {} THEN Affected(recovered) ELSE {}
     IN todo' = Trie(again) /\ targets' = targets \cup again
  /\ Goto(CASE caller = "last" -> "done"
            [] caller = "final" -> "judge"
            [] OTHER -> "rewalk")
  /\ UNCHANGED <<caller, stalled>>

Rewalked ==
  /\ stage = "rewalk" /\ Idle
  /\ Goto("judge")
  /\ UNCHANGED <<caller, targets, stalled, todo>>

\* Mutant of NoProgress: a pass that leaves as much as it took counts as progress.
NoProgressGrown ==
  \/ recovered = {} /\ skipped \cup missed = {}
  \/ Cardinality(queue) > before

NoProgress ==
  \/ recovered = {} /\ skipped \cup missed = {}
  \/ Cardinality(queue) >= before

PassAgain ==
  /\ stage = "judge" /\ ~NoProgress
  /\ Goto("drain")
  /\ UNCHANGED <<caller, targets, stalled, todo>>

DrainOver ==
  /\ \/ stage = "judge" /\ NoProgress
     \/ stage = "drain" /\ (queue = {} \/ passes >= PassCap)
  /\ stalled' = (stalled \/ queue # {})
  /\ IF caller = "final" THEN todo' = Specs /\ Goto("finalize")
     ELSE IF request.connect THEN todo' = request.checks[check] /\ Goto("lca")
     ELSE todo' = request.roots /\ Goto("roots")
  /\ UNCHANGED <<caller, targets>>

\* ensure_lca_subtree ensures both endpoints; their lowest common ancestor is
\* then a row or blocked.
NextCheck ==
  /\ stage = "lca" /\ Idle
  /\ check' = check + 1
  /\ stage' = "check"
  /\ UNCHANGED <<input, db, walk, pass, caller, targets, passes, stalled, cursor, found>>

\* flush_pending_misses, then finalize_logical_walk_before_connect.
AllChecked ==
  /\ stage = "check" /\ check > Len(request.checks)
  /\ pending' = {}
  /\ \/ /\ queue # {} /\ ~stalled
        /\ caller' = "final" /\ stage' = "drain" /\ UNCHANGED todo
     \/ /\ queue = {} \/ stalled
        /\ stage' = "finalize" /\ todo' = Specs /\ UNCHANGED caller
     \/ /\ queue = {} /\ Specs \subseteq rows   \* text_hierarchy_complete
        /\ stage' = "done" /\ UNCHANGED <<caller, todo>>
  /\ UNCHANGED <<input, db, rows, blocked, misses, pass, check, targets, passes,
                 stalled, goal, at, grow, tried, found>>

\* flush_pending_misses, then run_path_walk_index expands roots and endpoints.
RootsGrown ==
  /\ stage = "roots" /\ Idle
  /\ pending' = {}
  /\ todo' = request.roots \cup Specs
  /\ stage' = "extra"
  /\ UNCHANGED <<input, db, rows, blocked, misses, pass, caller, check, targets,
                 passes, stalled, goal, at, grow, tried, found>>

LastPass ==
  /\ stage = "extra" /\ Idle /\ queue # {} /\ ~stalled
  /\ caller' = "last" /\ UNCHANGED passes
  /\ TakeQueue

Finish ==
  /\ Idle
  /\ \/ stage = "finalize"
     \/ stage = "extra" /\ (queue = {} \/ stalled)
  /\ Goto("done")
  /\ UNCHANGED <<caller, targets, stalled, todo>>

Done == stage = "done" /\ UNCHANGED vars

Next ==
  \/ \E p \in Paths : SkipBlocked(p) \/ Begin(p) \/ GrowHit(p) \/ GrowMiss(p)
  \/ HopHit \/ LoadMiss \/ EdgeMiss \/ Arrive \/ GrowDone
  \/ StartPass \/ (\E i \in batch : RecoverItem(i)) \/ Apply \/ Retry \/ Reensured \/ Requeue
  \/ StartCheck \/ Walked \/ PassOver \/ Rewalked \/ PassAgain \/ DrainOver
  \/ NextCheck \/ AllChecked \/ RootsGrown \/ LastPass \/ Finish \/ Done

Spec == Init /\ [][Next]_vars
FairSpec == Spec /\ WF_vars(Next)

-----------------------------------------------------------------------------
(* Properties.                                                             *)

\* Every variable stays in its domain.
TypeOK ==
  /\ design \in Design /\ request \in Requests
  /\ rows \subseteq Paths /\ blocked \subseteq Paths /\ tried \subseteq Paths
  /\ pending \subseteq [at : Paths, target : Paths] /\ misses \subseteq Paths \X Paths
  /\ known \subseteq Edges /\ loaded \subseteq Mods
  /\ \A items \in {queue, batch, fresh, recovered, skipped, missed} : items \subseteq Item
  /\ seen \subseteq {"edge", "module"} \X Mods \X (Leaves \cup {None}) \X Mods
  /\ \A ps \in {targets, todo, skip, found} : ps \subseteq Paths
  /\ goal \in Paths \cup {None} /\ grow \in Paths \cup {None} /\ at \in Paths
  /\ stage \in Stages /\ caller \in {"walk", "final", "last"}
  /\ check \in 1 .. Len(request.checks) + 1 /\ passes \in 0 .. PassCap
  /\ stalled \in BOOLEAN /\ before \in Nat

\* A row stands on its parent's row, on an edge of the index and on a loaded
\* module, also after recovery has dropped subtrees in the middle of a walk.
RowsStand ==
  \A p \in rows : p # <<>> =>
    Front(p) \in rows /\ Edge(p) \in known /\ Of[p] \in loaded

\* An item once deferred is retried until the index has it: it is queued or in
\* the hands of the running pass.
NoDeferDropped ==
  LET held == queue \cup batch \cup skipped \cup missed IN
  \A k \in seen :
    \/ IF k[1] = "edge" THEN <<k[2], k[3]>> \in known ELSE k[2] \in loaded
    \/ \E i \in held : Key(i) = k

\* Outside a pass that is still collecting, no cached miss denies an edge that
\* is in the index.
NoStaleMiss ==
  stage \notin {"recover", "retry"} =>
    \A x \in misses : Edge(Hop(x[1], x[2])) \notin known

\* Recovery passes are at most one for each deferred item and one for each check.
PassesBounded == passes <= Cardinality(seen) + Len(request.checks) + 1

\* The sources have a way to p, for the recovery policy at the latest.
Walkable(p) ==
  \A q \in Prefixes(p) : q # <<>> =>
    /\ Edge(q) \in design.indexed \/ Resolves(Edge(q), TRUE)
    /\ <<Of[Front(q)], Of[q]>> \in design.loads \cup design.lateLoads

\* A drain gave up with an edge on the way to p still in the queue.
GivenUp(p) ==
  /\ stalled
  /\ \E q \in Prefixes(p), i \in queue :
       q # <<>> /\ i.kind = "edge" /\ ItemEdge(i) = Edge(q)

\* Once finalize_logical_walk_before_connect is through, every endpoint the
\* sources have a way to has its row, or a drain gave it up before its last chance
\* (_finalize_walk_endpoint_targets does not try again what already failed).
EndpointsWalked ==
  stage = "done" /\ request.connect =>
    \A t \in Specs : Walkable(t) => t \in rows \/ GivenUp(t)

\* A pass of a check that drops rows for what it recovered walks every endpoint
\* that stood there again before the drain goes on, and whatever the passes dropped,
\* an endpoint once walked to has its row when connect starts.
RecoveryRestores ==
  /\ stage = "judge" /\ caller = "walk" =>
       \A t \in found : \A i \in recovered : Comparable(t, i.reset) => t \in rows
  /\ stage = "done" /\ request.connect => found \subseteq rows

\* Every request comes to its end, whatever the index has and whatever passes put back.
Finishes == <>(stage = "done")

\* When a drain ends, no blocked prefix is one the index can resolve.
RecoveredIsUnblocked ==
  stage \in {"lca", "roots"} =>
    \A b \in blocked : ~(Edge(b) \in known /\ Of[b] \in loaded)

=============================================================================
