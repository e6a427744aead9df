------------------------------ MODULE NetWalk ------------------------------
(***************************************************************************)
(* One connectivity session walking the nets of a design, one check after  *)
(* another: the two-sided search between two nets and the forward search   *)
(* from a net to an instance, of the text walk (connect/text/walk.py,      *)
(* connect/text/pair.py) and of the logical walk (connect/logical).        *)
(*                                                                         *)
(* A check sees the rows of the whole design or those its gate left        *)
(* (view).  Two caches outlive it, in the text walk: the parent nets found *)
(* above a net (parent_up_cache) and the verdicts (walk_verdict_cache).    *)
(***************************************************************************)
EXTENDS NetGraph

CONSTANTS
  Designs,    \* graphs the session may be about
  Views,      \* rows a check may see, all of them or fewer
  Questions,  \* checks: two nets, or a net and an instance
  MaxAsks     \* bound on the checks of a session

Sides == {"forward", "backward"}
Other(side) == CHOOSE o \in Sides : o # side

\* kind: _mode of the two endpoints.  The goal of port-hierarchy is an instance.
Question ==
  [kind : {"port-port", "port-hierarchy"}, start : Scopes \X Wires, goal : Scopes \X Wires, trace : BOOLEAN]

ASSUME WalkAssumption ==
  /\ Designs \subseteq Graph
  /\ \A g \in Designs : Read(g)
  /\ Views \subseteq SUBSET Scopes
  /\ Questions \subseteq Question
  /\ MaxAsks \in Nat

VARIABLES
  design,    \* the rows and the bodies
  view,      \* rows_by_path of the check under way
  ask,       \* its endpoints
  phase,     \* "idle", "walking" or "answered"
  prev,      \* prev_f and prev_b: the net each net was first reached from
  front,     \* front_f and front_b
  side,      \* the frontier that is expanded
  todo,      \* its nets not yet expanded
  next,      \* next_front
  answer,    \* the verdict, whether it was served from the cache, and where the hops end
  ups,       \* parent_up_cache
  verdicts,  \* walk_verdict_cache
  asked
walk == <<prev, front, side, todo, next>>
vars == <<design, view, ask, phase, walk, answer, ups, verdicts, asked>>

-----------------------------------------------------------------------------
(* The check.                                                              *)

RepKey(g, s) == <<s[1], Rep(g, s[1], s[2])>>

\* Where a side starts: the text walk between two nets keeps a select of the question.
Seed(g, x, sd) ==
  LET s == IF sd = "forward" THEN x.start ELSE x.goal IN
  IF g.logical \/ x.kind = "port-hierarchy" THEN RepKey(g, s) ELSE s
Seen(sd) == DOMAIN prev[sd] \cup {Seed(design, ask, sd)}

\* _goal_match: no step is needed.
AtGoal(g, x) ==
  IF x.kind = "port-hierarchy" THEN x.start[1] = x.goal[1] ELSE RepKey(g, x.start) = RepKey(g, x.goal)

\* text_walk_verdict_key; the mutant leaves the net of the goal out.
VerdictKeyOfScope(g, x) == <<x.kind, RepKey(g, x.start), <<x.goal[1], None>>>>
VerdictKey(g, x) ==
  <<x.kind, RepKey(g, x.start),
    IF x.kind = "port-hierarchy" THEN <<x.goal[1], None>> ELSE RepKey(g, x.goal)>>
Cached(g, x) == ~ g.logical /\ ~ x.trace

Empty == [s \in {} |-> None]
Answer(ok, served, ends) == [ok |-> ok, served |-> served, ends |-> ends]

\* A cache keeps the first value of a key.
Stored(table, key, value) ==
  IF key \in DOMAIN table THEN table
  ELSE [k \in DOMAIN table \cup {key} |-> IF k = key THEN value ELSE table[k]]

\* The check ends; _store_walk_verdict.
Answered(x, a) ==
  /\ phase' = "answered"
  /\ answer' = a
  /\ verdicts' = IF Cached(design, x) THEN Stored(verdicts, VerdictKey(design, x), a.ok) ELSE verdicts

Init ==
  /\ design \in Designs
  /\ view = {}
  /\ ask = None
  /\ phase = "idle"
  /\ prev = [sd \in Sides |-> Empty]
  /\ front = [sd \in Sides |-> {}]
  /\ side = "forward"
  /\ todo = {}
  /\ next = {}
  /\ answer = Answer(FALSE, FALSE, <<>>)
  /\ ups = Empty
  /\ verdicts = Empty
  /\ asked = 0

\* A check whose endpoints both have a row; one without is an error before the walk.
Check(x, v) ==
  /\ phase # "walking"
  /\ asked < MaxAsks
  /\ {x.start[1], x.goal[1]} \subseteq v
  /\ view' = v
  /\ ask' = x
  /\ prev' = [sd \in Sides |-> Empty]
  /\ asked' = asked + 1
  /\ UNCHANGED <<design, ups>>

Known(x) == Cached(design, x) /\ VerdictKey(design, x) \in DOMAIN verdicts

\* The cache knows the verdict.
Serve(x, v) ==
  /\ Check(x, v)
  /\ Known(x)
  /\ phase' = "answered"
  /\ answer' = Answer(verdicts[VerdictKey(design, x)], TRUE, <<>>)
  /\ UNCHANGED <<front, side, todo, next, verdicts>>

\* The two ends are one.
Shortcut(x, v) ==
  /\ Check(x, v)
  /\ ~ Known(x)
  /\ AtGoal(design, x)
  /\ Answered(x, Answer(TRUE, FALSE, <<>>))
  /\ UNCHANGED <<front, side, todo, next>>

\* bidirectional_text_grep and forward_text_grep_to_scope, up to their loop.
Begin(x, v) ==
  /\ Check(x, v)
  /\ ~ Known(x)
  /\ ~ AtGoal(design, x)
  /\ phase' = "walking"
  /\ front' = [forward |-> {Seed(design, x, "forward")},
               backward |-> IF x.kind = "port-port" THEN {Seed(design, x, "backward")} ELSE {}]
  /\ side' = "forward"
  /\ todo' = {Seed(design, x, "forward")}
  /\ next' = {}
  /\ UNCHANGED <<answer, verdicts>>

-----------------------------------------------------------------------------
(* The search.  Nets of a frontier are expanded in any order, their edges   *)
(* are taken in any order: both depend on hashing.                          *)

\* The mutant leaves the net out of the key of the parent cache.
UpKeyOfRep(s) == RepKey(design, s)
UpKey(s) == s

\* What is above net s, by the cache where the text walk has it.
Above(s) ==
  IF ~ design.logical /\ UpKey(s) \in DOMAIN ups THEN ups[UpKey(s)]
  ELSE UpTargets(design, view, s[1], s[2])

\* The nets reached from s for the first time; the mutant takes them all.
FreshAlways(s) == Expand(design, view, s, Above(s))
Fresh(s) == Expand(design, view, s, Above(s)) \ Seen(side)

\* Reaching t answers the check.
Hit(t) ==
  IF ask.kind = "port-hierarchy" THEN t[1] = ask.goal[1]
  ELSE FindIn(design, t, Seen(Other(side))) # {}

Reached(from, s, found) == [t \in DOMAIN from \cup found |-> IF t \in found THEN s ELSE from[t]]

\* _find_equivalent_with_prev: the net a side's hops end at, the sides having met at m;
\* in the mutant, at m.
MeetOfItself(m, came, sd) == {m}
MeetOf(m, came, sd) ==
  LET own == DOMAIN came[sd] \cup {Seed(design, ask, sd)}
      like == {t \in own : Equivalent(design, m, t)}
  IN  IF m \in own \/ like = {} THEN {m} ELSE like

\* _reconstruct_bidirectional, _reconstruct_forward: no trace, no hops.
Ends(m, came) ==
  CASE ~ ask.trace -> {<<>>}
    [] ask.trace /\ ask.kind = "port-hierarchy" -> {<<m>>}
    [] ask.trace /\ ask.kind = "port-port" ->
         {<<mf, mb>> : mf \in MeetOf(m, came, "forward"), mb \in MeetOf(m, came, "backward")}

\* A net of the frontier is expanded: every new net joins the next frontier, or one of
\* them ends the check and the edges after it are not looked at.
Open(s) ==
  LET new == Fresh(s)
      hits == {t \in new : Hit(t)}
  IN  /\ phase = "walking"
      /\ s \in todo
      /\ ups' = IF design.logical \/ s[1] \notin view THEN ups ELSE Stored(ups, UpKey(s), Above(s))
      /\ \/ /\ hits = {}
            /\ prev' = [prev EXCEPT ![side] = Reached(prev[side], s, new)]
            /\ todo' = todo \ {s}
            /\ next' = next \cup new
            /\ UNCHANGED <<phase, answer, verdicts>>
         \/ \E m \in hits, before \in SUBSET (new \ hits) :
              LET came == [prev EXCEPT ![side] = Reached(prev[side], s, before \cup {m})] IN
              /\ prev' = came
              /\ \E ends \in Ends(m, came) : Answered(ask, Answer(TRUE, FALSE, ends))
              /\ UNCHANGED <<todo, next>>
      /\ UNCHANGED <<design, view, ask, front, side, asked>>

\* The smaller frontier is next, the forward one of two alike.
NextSide(f) ==
  IF f.forward # {} /\ (f.backward = {} \/ Cardinality(f.forward) <= Cardinality(f.backward))
    THEN "forward" ELSE "backward"
\* The mutant gives up with one side exhausted.
ExhaustedSide(f) == f.forward = {} \/ f.backward = {}
Exhausted(f) == f.forward = {} /\ f.backward = {}

\* The loop of the search turns.  The meetings it looks for here and after the loop were
\* found when the nets were reached.
Turn ==
  LET f == [front EXCEPT ![side] = next] IN
  /\ phase = "walking"
  /\ todo = {}
  /\ front' = f
  /\ \/ /\ Exhausted(f)
        /\ Answered(ask, Answer(FALSE, FALSE, <<>>))
        /\ UNCHANGED <<side, todo, next>>
     \/ /\ ~ Exhausted(f)
        /\ side' = NextSide(f)
        /\ todo' = f[side']
        /\ next' = {}
        /\ UNCHANGED <<phase, answer, verdicts>>
  /\ UNCHANGED <<design, view, ask, prev, ups, asked>>

Proceed == (\E s \in todo : Open(s)) \/ Turn
Next ==
  \/ \E x \in Questions, v \in Views : Serve(x, v) \/ Shortcut(x, v) \/ Begin(x, v)
  \/ Proceed

Spec == Init /\ [][Next]_vars

\* A check runs to its end on its thread.
FairSpec == Spec /\ WF_vars(Proceed)

-----------------------------------------------------------------------------
(* What is checked.                                                        *)

\* The walk a check would make of design g if it saw every row and had no cache.
Edges(g, s) == Expand(g, Scopes, s, UpTargets(g, Scopes, s[1], s[2]))
AsText(g) == [g EXCEPT !.logical = FALSE]
Closure(g) ==
  LET closed[found \in SUBSET States] ==
        LET more == found \cup UNION {Edges(g, t) : t \in found} IN
        IF more = found THEN found ELSE closed[more]
  IN  [s \in States |-> closed[{s}]]
Reach == [d \in Designs |-> Closure(d)]
TextReach == [d \in Designs |-> Closure(AsText(d))]
Touch(g, s, t) ==
  \/ s = t
  \/ /\ ~ g.logical
     /\ RepKey(g, s) = RepKey(g, t)
     /\ ~ (Sliced(s[2]) /\ Sliced(t[2]) /\ s[2][2] # t[2][2])
Meets(g, reach, x) ==
  \/ AtGoal(g, x)
  \/ IF x.kind = "port-hierarchy" THEN \E s \in reach[Seed(g, x, "forward")] : s[1] = x.goal[1]
     ELSE \E s \in reach[Seed(g, x, "forward")], t \in reach[Seed(g, x, "backward")] : Touch(g, s, t)
Joined(x) == Meets(design, Reach[design], x)

\* The variables have their types.
TypeOK ==
  /\ design \in Designs
  /\ view \in Views \cup {{}}
  /\ ask \in Questions \cup {None}
  /\ phase \in {"idle", "walking", "answered"}
  /\ DOMAIN prev = Sides
  /\ \A sd \in Sides : DOMAIN prev[sd] \subseteq States /\ \A s \in DOMAIN prev[sd] : prev[sd][s] \in States
  /\ DOMAIN front = Sides
  /\ \A sd \in Sides : front[sd] \subseteq States
  /\ side \in Sides
  /\ todo \subseteq States
  /\ next \subseteq States
  /\ answer.ok \in BOOLEAN /\ answer.served \in BOOLEAN
  /\ Len(answer.ends) \in 0 .. 2 /\ \A i \in DOMAIN answer.ends : answer.ends[i] \in States
  /\ DOMAIN ups \subseteq States /\ \A s \in DOMAIN ups : ups[s] \subseteq Nets
  /\ \A k \in DOMAIN verdicts : verdicts[k] \in BOOLEAN
  /\ asked \in 0 .. MaxAsks

\* A check that answers "connected" by walking has found a path of the whole design, in
\* whatever rows it saw and whatever earlier checks left in the parent cache
\* (walk.py:982-1000, 1507-1535).
YesIsPath == phase = "answered" /\ ~ answer.served /\ answer.ok => Joined(ask)

\* A check that sees every row and answers "not connected" by walking leaves no path
\* unfound, although it alternates between two frontiers, leaves a frontier at the first
\* net that meets the other side and compares the two sides through a rep index
\* (walk.py:1202-1236, 1496-1622): unless an earlier check that saw fewer rows left a
\* wrong parent in the cache (walk.py:968-981).
UpsAreWhole == \A s \in DOMAIN ups : ups[s] = UpTargets(design, Scopes, s[1], s[2])
NoIsNoPath ==
  phase = "answered" /\ ~ answer.served /\ view = Scopes /\ UpsAreWhole =>
    (Joined(ask) => answer.ok)

\* A "connected" served from the verdict cache is the answer of a question of the same
\* kind between the same two nets, up to their selects (walk.py:1105-1161).
ServedIsOfItsClass ==
  phase = "answered" /\ answer.served /\ answer.ok =>
    \E x \in Questions :
      /\ x.kind = ask.kind
      /\ RepKey(design, x.start) = RepKey(design, ask.start)
      /\ x.goal[1] = ask.goal[1]
      /\ x.kind = "port-port" => RepKey(design, x.goal) = RepKey(design, ask.goal)
      /\ Joined(x)

\* The hops of a traced answer lead from the start to the goal, an edge of the design
\* each; where the two sides met by their rep, both have a net there.  Two equally
\* selected bits of different names meet in the rep index alone, and the hops of one
\* side are lost (walk.py:1228-1233, 528-531).
HopsLead(sd, s) ==
  LET leads[k \in Nat] ==   \* the nets whose hops reach the end of side sd in k steps
        IF k = 0 THEN {Seed(design, ask, sd)}
        ELSE LET near == leads[k - 1] IN
             near \cup {t \in DOMAIN prev[sd] : prev[sd][t] \in near /\ t \in Edges(design, prev[sd][t])}
  IN  s \in leads[Cardinality(DOMAIN prev[sd])]
BitsMeet(s, t) == s # t /\ Sliced(s[2]) /\ Sliced(t[2]) /\ Touch(design, s, t)
TraceIsWhole ==
  phase = "answered" /\ answer.ok /\ answer.ends # <<>> =>
    LET e == answer.ends IN
    IF Len(e) = 1 THEN HopsLead("forward", e[1])
    ELSE \/ HopsLead("forward", e[1]) /\ HopsLead("backward", e[2]) /\ Touch(design, e[1], e[2])
         \/ e[1] = e[2] /\ \E s \in Seen("forward"), t \in Seen("backward") : BitsMeet(s, t) /\ e[1] \in {s, t}

\* What the logical walk connects, the text walk connects: it is the coarse answer the
\* logical one refines (text/pair.py:62-67).  Only where no bit of a net has a name of
\* its own, though: below a port of which a bit is mapped on, the text walk knows the
\* port of the bit from above as the whole port, and the bit does not leave a
\* concatenation (core.py:5120-5131, walk.py:895, 190-197); and where no net has more
\* binds than the text walk follows (walk.py:884-887).
Whole(g) ==
  \A s \in Scopes :
    /\ \A n \in Nets : g.net_rep[s][n] # None => ~ Sliced(n) /\ ~ Sliced(g.net_rep[s][n])
    /\ \A t \in g.adj[s] \cup g.hier[s] : ~ Sliced(t[1])
    /\ \A p \in Bases : LET e == g.ports[s][p] IN e.kind # "concat" /\ \A n \in Roots(e) : ~ Sliced(n)
    /\ \A r \in Nets : Cardinality(Ties(g, s, r)) <= FanoutCap
TextCoversLogical ==
  phase = "answered" /\ design.logical /\ answer.ok /\ ~ answer.served /\ Whole(design)
    => Meets(AsText(design), TextReach[design], ask)

\* Every check is answered.
Answers == phase = "walking" ~> phase = "answered"

\* A trace without hops lost; the walk does not keep this.
TraceLeads ==
  phase = "answered" /\ Len(answer.ends) = 2 =>
    HopsLead("forward", answer.ends[1]) /\ HopsLead("backward", answer.ends[2])
\* A served verdict is that of the question; the cache does not keep this.
ServedIsRight == phase = "answered" /\ answer.served => (answer.ok <=> Joined(ask))
=============================================================================
