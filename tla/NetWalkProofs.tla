--------------------------- MODULE NetWalkProofs ---------------------------
(* Theorems about NetWalk, for every design, question and view.            *)
EXTENDS NetWalk, FiniteSetTheorems, WellFoundedInduction, TLAPS

-----------------------------------------------------------------------------
(* The graph: its operators stay among nets and states.                    *)

LEMMA GraphType ==
  ASSUME NEW g \in Graph, NEW scope \in Scopes
  PROVE  /\ g.net_rep[scope] \in [Nets -> Nets \cup {None}]
         /\ g.adj[scope] \subseteq Nets \X Nets
         /\ g.ports[scope] \in [Bases -> Expr]
         /\ g.hier[scope] \subseteq Nets \X Scopes \X Nets
         /\ g.parent[scope] \in Scopes \cup {None}
         /\ g.logical \in BOOLEAN
<1>1. Wires \subseteq Nets
  BY DEF Nets
<1>2. /\ g.net_rep[scope] \in [Nets -> Wires \cup {None}]
      /\ g.adj[scope] \subseteq Wires \X Wires
      /\ g.hier[scope] \subseteq Wires \X Scopes \X Wires
  BY DEF Graph
<1>3. g.net_rep[scope] \in [Nets -> Nets \cup {None}]
  BY <1>1, <1>2
<1>4. g.adj[scope] \subseteq Nets \X Nets
  BY <1>1, <1>2
<1>5. g.hier[scope] \subseteq Nets \X Scopes \X Nets
  BY <1>1, <1>2
<1>6. g.ports[scope] \in [Bases -> Expr]
  BY DEF Graph
<1>7. g.parent[scope] \in Scopes \cup {None} /\ g.logical \in BOOLEAN
  BY DEF Graph
<1> QED
  BY <1>3, <1>4, <1>5, <1>6, <1>7

LEMMA NetOf ==
  ASSUME NEW n \in Nets
  PROVE  /\ n[1] \in Bases \cup Texts
         /\ n[1] \in Bases => n[2] \in Bits \cup {None} /\ <<n[1], None>> \in Nets
BY DEF Nets, Wires

LEMMA RepType ==
  ASSUME NEW g \in Graph, NEW scope \in Scopes, NEW n \in Nets
  PROVE  Rep(g, scope, n) \in Nets
<1> DEFINE of == g.net_rep[scope]
           whole == <<n[1], None>>
           bits == {of[m] : m \in {<<n[1], b>> : b \in Bits} \cap g.assigned[scope]} \ {None}
<1>1. of \in [Nets -> Nets \cup {None}]
  BY GraphType
<1>2. n[1] \in Texts \/ n[1] \in Bases
  BY NetOf
<1>3. CASE n[1] \in Texts
  BY <1>3, GraphAssumption DEF Rep
<1>4. CASE n[1] \in Bases /\ n[1] \notin Texts
  <2>1. whole \in Nets /\ \A b \in Bits : <<n[1], b>> \in Nets
    BY <1>4 DEF Nets, Wires
  <2>2. bits \subseteq Nets
    BY <1>1, <2>1
  <2>3. CASE of[n] # None
    <3>1. Rep(g, scope, n) = of[n]
      BY <1>4, <2>3 DEF Rep
    <3> QED
      BY <1>1, <2>3, <3>1
  <2>4. CASE of[n] = None /\ Sliced(n) /\ g.logical
    <3>1. Rep(g, scope, n) = n
      BY <1>4, <2>4 DEF Rep
    <3> QED
      BY <3>1
  <2>5. CASE of[n] = None /\ ~ (Sliced(n) /\ g.logical)
    <3>1. Rep(g, scope, n) = IF of[whole] # None THEN of[whole]
                             ELSE IF Cardinality(bits) = 1 THEN CHOOSE r \in bits : TRUE ELSE whole
      BY <1>4, <2>5 DEF Rep
    <3>2. CASE Cardinality(bits) = 1
      <4> HIDE DEF bits
      <4>1. bits # {}
        <5>1. SUFFICES ASSUME bits = {} PROVE FALSE
          OBVIOUS
        <5>2. Cardinality({}) = 0
          BY FS_EmptySet
        <5> QED
          BY <3>2, <5>1, <5>2
      <4>2. (CHOOSE r \in bits : TRUE) \in bits
        BY <4>1
      <4> QED
        BY <1>1, <2>1, <2>2, <3>1, <4>2
    <3> QED
      BY <1>1, <2>1, <3>1, <3>2
  <2> QED
    BY <2>3, <2>4, <2>5
<1> QED
  BY <1>2, <1>3, <1>4

LEMMA StateKeyType ==
  ASSUME NEW g \in Graph, NEW scope \in Scopes, NEW n \in Nets, NEW preserve
  PROVE  StateKey(g, scope, n, preserve) \in States
BY RepType DEF StateKey, States

LEMMA RootsType ==
  ASSUME NEW e \in Expr
  PROVE  /\ Roots(e) \subseteq Nets
         /\ \A i \in DOMAIN e.parts : e.parts[i] \in Nets
         /\ e.kind # "concat" => \A i \in DOMAIN e.parts : e.parts[i][1] \in Bases
         /\ e.text \in Texts \cup {None}
         /\ e.parts \in Seq(Nets)
BY DEF Expr, Roots

LEMMA BlackboxType ==
  ASSUME NEW g \in Graph, NEW c \in Scopes, NEW port
  PROVE  BlackboxRoots(g, c, port) \subseteq Nets
<1>1. \A q \in Bases : g.ports[c][q] \in Expr
  BY GraphType
<1> QED
  BY <1>1, RootsType DEF BlackboxRoots

LEMMA ChildPortsType ==
  ASSUME NEW g, NEW scope, NEW c, NEW r
  PROVE  ChildPorts(g, scope, c, r) \subseteq Nets
BY DEF ChildPorts, Nets, Wires

LEMMA PortMapRootsType ==
  ASSUME NEW g \in Graph, NEW p \in Bases, NEW e \in Expr, NEW n \in Nets
  PROVE  PortMapRoots(g, p, e, n) \subseteq Nets
<1>1. e.kind \in {"net", "concat", "mixed", "const"}
  BY DEF Expr
<1>2. n[1] = p => n[2] \in Bits \cup {None}
  BY NetOf
<1>3. \A m \in Nets : m[1] \in Bases => \A b \in Bits \cup {None} : <<m[1], b>> \in Nets
  BY DEF Nets, Wires
<1>4. CASE e.parts = <<>>
  BY <1>4 DEF PortMapRoots
<1>5. CASE e.parts # <<>>
  <2>1. 1 \in DOMAIN e.parts
    BY <1>5, RootsType
  <2>2. CASE e.kind = "net"
    <3>1. e.parts[1] \in Nets /\ e.parts[1][1] \in Bases
      BY <2>1, <2>2, RootsType
    <3>2. n[1] = p => <<e.parts[1][1], n[2]>> \in Nets
      BY <1>2, <1>3, <3>1
    <3> QED
      BY <1>5, <2>2, <3>1, <3>2 DEF PortMapRoots
  <2>3. CASE e.kind = "concat"
    <3>1. PortMapRoots(g, p, e, n) \subseteq {e.parts[i] : i \in DOMAIN e.parts}
      BY <1>5, <2>3 DEF PortMapRoots
    <3> QED
      BY <3>1, RootsType
  <2>4. CASE e.kind = "mixed"
    <3>1. Roots(e) \subseteq Nets /\ \A m \in Roots(e) : m[1] \in Bases
      BY <2>4, RootsType DEF Roots
    <3>2. n[1] = p => \A m \in Roots(e) : <<m[1], n[2]>> \in Nets
      BY <1>2, <1>3, <3>1
    <3> QED
      BY <1>5, <2>4, <3>1, <3>2 DEF PortMapRoots
  <2> QED
    BY <1>1, <1>5, <2>2, <2>3, <2>4 DEF Expr
<1> QED
  BY <1>4, <1>5

\* The parents of a net are the same in every view that shows any.
LEMMA UpTargetsType ==
  ASSUME NEW g \in Graph, NEW rows \in SUBSET Scopes, NEW scope \in Scopes, NEW n \in Nets
  PROVE  /\ UpTargets(g, rows, scope, n) \subseteq Nets
         /\ UpTargets(g, rows, scope, n) # {} => g.parent[scope] \in Scopes
         /\ UpTargets(g, rows, scope, n) \subseteq UpTargets(g, Scopes, scope, n)
<1> DEFINE AboveOf(e, roots) == IF roots = {} /\ e.text # None THEN {TextNet(e, n)} ELSE roots
           all == UNION {AboveOf(g.ports[scope][p], PortMapRoots(g, p, g.ports[scope][p], n))
                           : p \in {q \in Bases : PortMatches(g, scope, q, n)}}
<1>1. ASSUME NEW p \in Bases
      PROVE  AboveOf(g.ports[scope][p], PortMapRoots(g, p, g.ports[scope][p], n)) \subseteq Nets
  <2> DEFINE e == g.ports[scope][p]
  <2>1. e \in Expr
    BY GraphType
  <2>2. PortMapRoots(g, p, e, n) \subseteq Nets
    BY <2>1, PortMapRootsType
  <2>3. e.text # None => TextNet(e, n) \in Nets
    BY <2>1, RootsType DEF TextNet, Nets
  <2> QED
    BY <2>2, <2>3
<1>2. all \subseteq Nets
  BY <1>1
<1>3. \A view2 : UpTargets(g, view2, scope, n) = IF g.parent[scope] \notin view2 THEN {} ELSE all
  BY DEF UpTargets
<1> HIDE DEF all
<1> QED
  BY <1>2, <1>3

LEMMA ChildrenType ==
  ASSUME NEW g, NEW s
  PROVE  Children(g, s) \subseteq Scopes
BY DEF Children

LEMMA PeersType ==
  ASSUME NEW g \in Graph, NEW scope \in Scopes, NEW r
  PROVE  Peers(g, scope, r) \subseteq Nets
BY DEF Peers, Ties

\* The edges of a net, over some rows and some of its parents.
LEMMA ExpandType ==
  ASSUME NEW g \in Graph, NEW rows \in SUBSET Scopes, NEW s \in States, NEW up \in SUBSET Nets,
         up # {} => g.parent[s[1]] \in Scopes
  PROVE  Expand(g, rows, s, up) \subseteq States
<1> DEFINE scope == s[1]
           n == s[2]
           r == Rep(g, scope, n)
           kids == Children(g, scope)
           over == g.parent[scope]
           Key(t, m) == StateKey(g, t, m, TRUE)
           within == {StateKey(g, scope, p, FALSE) : p \in Peers(g, scope, r)}
           below == UNION {{<<c, p>> : p \in ChildPorts(g, scope, c, r)} : c \in kids}
           down == {Key(x[1], x[2]) : x \in {y \in below : y[1] \in rows}}
           through == IF g.logical THEN {}
                      ELSE UNION {LET out == BlackboxRoots(g, x[1], x[2]) IN
                                  {Key(scope, m) : m \in out}
                                  \cup {Key(scope, h[1]) : h \in {k \in g.hier[scope] :
                                          k[2] = x[1] /\ \E m \in out : k[3] = <<m[1], None>>}}
                             : x \in below}
           hierDown == {Key(h[2], h[3]) : h \in {k \in g.hier[scope] :
                          k[1] = r /\ k[2] \in rows /\ k[2] \notin g.iface}}
           above == {Key(over, m) : m \in up}
           hierUp == IF over \notin rows \/ scope \in g.iface THEN {}
                     ELSE {StateKey(g, over, h[1], FALSE) : h \in {k \in g.hier[over] :
                             k[2] = scope /\ PortMatches(g, scope, k[3][1], n)}}
<1>1. scope \in Scopes /\ n \in Nets
  BY DEF States
<1>2. \A t \in Scopes, m \in Nets : Key(t, m) \in States /\ StateKey(g, t, m, FALSE) \in States
  BY StateKeyType
<1>3. below \subseteq Scopes \X Nets
  BY ChildrenType, ChildPortsType
<1>4. g.hier[scope] \subseteq Nets \X Scopes \X Nets
  BY <1>1, GraphType
<1>5. within \subseteq States
  BY <1>1, <1>2, PeersType
<1> HIDE DEF below
<1>6. down \subseteq States
  BY <1>2, <1>3
<1>7. through \subseteq States
  <2>1. ASSUME NEW x \in below
        PROVE  /\ \A m \in BlackboxRoots(g, x[1], x[2]) : Key(scope, m) \in States
               /\ \A h \in g.hier[scope] : Key(scope, h[1]) \in States
    <3>1. x[1] \in Scopes
      BY <1>3
    <3>2. BlackboxRoots(g, x[1], x[2]) \subseteq Nets
      BY <3>1, BlackboxType
    <3> QED
      BY <1>1, <1>2, <1>4, <3>2
  <2> HIDE DEF Key
  <2> QED
    BY <2>1
<1>8. hierDown \subseteq States
  BY <1>2, <1>4
<1>9. above \subseteq States
  BY <1>2
<1>10. hierUp \subseteq States
  <2>1. over \in rows => g.hier[over] \subseteq Nets \X Scopes \X Nets
    BY GraphType
  <2> QED
    BY <1>2, <2>1
<1>11. Expand(g, rows, s, up) =
         IF scope \in rows THEN within \cup down \cup through \cup hierDown \cup above \cup hierUp ELSE {}
  BY DEF Expand, below
<1> HIDE DEF within, down, through, hierDown, above, hierUp
<1> QED
  BY <1>5, <1>6, <1>7, <1>8, <1>9, <1>10, <1>11

\* More rows and more parents have more edges.
LEMMA ExpandGrows ==
  ASSUME NEW g, NEW rows \in SUBSET Scopes, NEW s, NEW up, NEW more, up \subseteq more
  PROVE  Expand(g, rows, s, up) \subseteq Expand(g, Scopes, s, more)
<1> DEFINE scope == s[1]
           n == s[2]
           r == Rep(g, scope, n)
           over == g.parent[scope]
           Key(t, m) == StateKey(g, t, m, TRUE)
           within == {StateKey(g, scope, p, FALSE) : p \in Peers(g, scope, r)}
           below == UNION {{<<c, p>> : p \in ChildPorts(g, scope, c, r)} : c \in Children(g, scope)}
           down(v) == {Key(x[1], x[2]) : x \in {y \in below : y[1] \in v}}
           through == IF g.logical THEN {}
                      ELSE UNION {LET out == BlackboxRoots(g, x[1], x[2]) IN
                                  {Key(scope, m) : m \in out}
                                  \cup {Key(scope, h[1]) : h \in {k \in g.hier[scope] :
                                          k[2] = x[1] /\ \E m \in out : k[3] = <<m[1], None>>}}
                             : x \in below}
           hierDown(v) == {Key(h[2], h[3]) : h \in {k \in g.hier[scope] :
                             k[1] = r /\ k[2] \in v /\ k[2] \notin g.iface}}
           above(u) == {Key(over, m) : m \in u}
           hierUp(v) == IF over \notin v \/ scope \in g.iface THEN {}
                        ELSE {StateKey(g, over, h[1], FALSE) : h \in {k \in g.hier[over] :
                                k[2] = scope /\ PortMatches(g, scope, k[3][1], n)}}
<1>1. down(rows) \subseteq down(Scopes)
  OBVIOUS
<1>2. hierDown(rows) \subseteq hierDown(Scopes)
  OBVIOUS
<1>3. above(up) \subseteq above(more)
  OBVIOUS
<1>4. hierUp(rows) \subseteq hierUp(Scopes)
  OBVIOUS
<1>5. \A v, u : Expand(g, v, s, u) =
         IF scope \in v THEN within \cup down(v) \cup through \cup hierDown(v) \cup above(u) \cup hierUp(v)
         ELSE {}
  BY DEF Expand
<1> HIDE DEF within, down, through, hierDown, above, hierUp
<1>6. scope \in rows => scope \in Scopes
  OBVIOUS
<1> QED
  BY <1>1, <1>2, <1>3, <1>4, <1>5, <1>6

-----------------------------------------------------------------------------
(* Types.  The parents a check left in the cache are parents of the net in *)
(* the whole design: what the cache may lack, it never invents.            *)

Trees == UNION {[D -> States] : D \in SUBSET States}

UpsTrue == /\ DOMAIN ups \subseteq States
           /\ \A s \in DOMAIN ups : ups[s] \subseteq UpTargets(design, Scopes, s[1], s[2])

IInv ==
  /\ design \in Designs /\ view \in Views \cup {{}} /\ ask \in Questions \cup {None}
  /\ phase \in {"idle", "walking", "answered"}
  /\ phase # "idle" => ask \in Questions
  /\ prev \in [Sides -> Trees] /\ front \in [Sides -> SUBSET States]
  /\ side \in Sides /\ todo \subseteq States /\ next \subseteq States
  /\ answer.ok \in BOOLEAN /\ answer.served \in BOOLEAN
  /\ answer.ends \in Seq(States) /\ Len(answer.ends) \in 0 .. 2
  /\ UpsTrue
  /\ \A k \in DOMAIN verdicts : verdicts[k] \in BOOLEAN
  /\ asked \in 0 .. MaxAsks

LEMMA TreesType ==
  ASSUME NEW t \in Trees
  PROVE  DOMAIN t \subseteq States /\ \A s \in DOMAIN t : t[s] \in States
BY DEF Trees

LEMMA ViewType == IInv => view \subseteq Scopes /\ design \in Graph
BY WalkAssumption DEF IInv

LEMMA InvTypes == IInv => TypeOK
<1> SUFFICES ASSUME IInv PROVE TypeOK
  OBVIOUS
<1>1. \A sd \in Sides : DOMAIN prev[sd] \subseteq States /\ \A s \in DOMAIN prev[sd] : prev[sd][s] \in States
  BY TreesType DEF IInv
<1>2. \A s \in DOMAIN ups : ups[s] \subseteq Nets
  <2>1. ASSUME NEW s \in DOMAIN ups PROVE ups[s] \subseteq Nets
    <3>1. s[1] \in Scopes /\ s[2] \in Nets
      BY DEF IInv, UpsTrue, States
    <3> QED
      BY <3>1, ViewType, UpTargetsType DEF IInv, UpsTrue
  <2> QED
    BY <2>1
<1>3. \A i \in DOMAIN answer.ends : answer.ends[i] \in States
  BY DEF IInv
<1> QED
  BY <1>1, <1>2, <1>3 DEF IInv, TypeOK, UpsTrue

LEMMA SidesTwo ==
  /\ "forward" \in Sides /\ "backward" \in Sides
  /\ \A sd \in Sides : Other(sd) \in Sides /\ Other(sd) # sd
  /\ Other("forward") = "backward" /\ Other("backward") = "forward"
<1>1. Sides = {"forward", "backward"} /\ "forward" # "backward"
  BY DEF Sides
<1>2. ASSUME NEW sd \in Sides
      PROVE  Other(sd) \in Sides /\ Other(sd) # sd
  <2>1. \E o \in Sides : o # sd
    BY <1>1
  <2> QED
    BY <2>1 DEF Other
<1> QED
  BY <1>1, <1>2

LEMMA SeedType ==
  ASSUME NEW g \in Graph, NEW x \in Questions, NEW sd
  PROVE  Seed(g, x, sd) \in States
<1>1. x.start \in States /\ x.goal \in States
  BY WalkAssumption DEF Question, States, Nets
<1>2. \A s \in States : RepKey(g, s) \in States
  BY RepType DEF RepKey, States
<1> QED
  BY <1>1, <1>2 DEF Seed

LEMMA SeenType ==
  ASSUME IInv, phase # "idle", NEW sd \in Sides
  PROVE  Seen(sd) \subseteq States
BY TreesType, SeedType, ViewType DEF IInv, Seen

LEMMA AboveType ==
  ASSUME IInv, NEW s \in States
  PROVE  /\ Above(s) \subseteq UpTargets(design, Scopes, s[1], s[2])
         /\ Above(s) \subseteq Nets
         /\ Above(s) # {} => design.parent[s[1]] \in Scopes
<1>1. s[1] \in Scopes /\ s[2] \in Nets
  BY DEF States
<1>2. Above(s) \subseteq UpTargets(design, Scopes, s[1], s[2])
  <2>1. CASE ~ design.logical /\ UpKey(s) \in DOMAIN ups
    BY <2>1 DEF Above, UpKey, IInv, UpsTrue
  <2>2. CASE ~ (~ design.logical /\ UpKey(s) \in DOMAIN ups)
    BY <1>1, <2>2, ViewType, UpTargetsType DEF Above
  <2> QED
    BY <2>1, <2>2
<1> QED
  BY <1>1, <1>2, ViewType, UpTargetsType

\* The edges a check follows are edges of the design.
LEMMA WalkEdges ==
  ASSUME IInv, NEW s \in States
  PROVE  /\ Expand(design, view, s, Above(s)) \subseteq States
         /\ Expand(design, view, s, Above(s)) \subseteq Edges(design, s)
BY AboveType, ViewType, ExpandType, ExpandGrows DEF Edges

LEMMA StoredKeeps ==
  ASSUME NEW table, NEW key, NEW value, NEW k \in DOMAIN table
  PROVE  k \in DOMAIN Stored(table, key, value) /\ Stored(table, key, value)[k] = table[k]
BY DEF Stored

LEMMA StoredAdds ==
  ASSUME NEW table, NEW key, NEW value
  PROVE  /\ key \in DOMAIN Stored(table, key, value)
         /\ key \notin DOMAIN table => Stored(table, key, value)[key] = value
BY DEF Stored

LEMMA StoredOnly ==
  ASSUME NEW table, NEW key, NEW value, NEW k \in DOMAIN Stored(table, key, value)
  PROVE  k \in DOMAIN table \/ (k = key /\ k \notin DOMAIN table)
BY DEF Stored

LEMMA ReachedType ==
  ASSUME NEW from \in Trees, NEW s \in States, NEW found \in SUBSET States
  PROVE  /\ Reached(from, s, found) \in Trees
         /\ DOMAIN Reached(from, s, found) = DOMAIN from \cup found
<1> DEFINE D == DOMAIN from \cup found
<1>1. D \in SUBSET States
  BY TreesType
<1>2. Reached(from, s, found) \in [D -> States]
  BY TreesType DEF Reached
<1> QED
  BY <1>1, <1>2 DEF Trees

LEMMA AnsweredType ==
  ASSUME IInv, NEW x, NEW a, a.ok \in BOOLEAN, Answered(x, a)
  PROVE  \A k \in DOMAIN verdicts' : verdicts'[k] \in BOOLEAN
<1>1. CASE Cached(design, x)
  <2> DEFINE key == VerdictKey(design, x)
  <2>1. verdicts' = Stored(verdicts, key, a.ok)
    BY <1>1 DEF Answered
  <2> HIDE DEF key
  <2>2. ASSUME NEW k \in DOMAIN Stored(verdicts, key, a.ok)
        PROVE  Stored(verdicts, key, a.ok)[k] \in BOOLEAN
    <3>1. CASE k \in DOMAIN verdicts
      BY <3>1, StoredKeeps DEF IInv
    <3>2. CASE k = key /\ k \notin DOMAIN verdicts
      BY <3>2, StoredAdds
    <3> QED
      BY <2>2, <3>1, <3>2, StoredOnly
  <2> QED
    BY <2>1, <2>2
<1>2. CASE ~ Cached(design, x)
  BY <1>2 DEF IInv, Answered
<1> QED
  BY <1>1, <1>2

-----------------------------------------------------------------------------
(* The steps keep the types.                                               *)

LEMMA CheckInv ==
  ASSUME IInv, NEW x \in Questions, NEW v \in Views, Serve(x, v) \/ Shortcut(x, v) \/ Begin(x, v)
  PROVE  IInv'
<1>1. /\ view' = v /\ ask' = x /\ prev' = [sd \in Sides |-> Empty] /\ asked' = asked + 1
      /\ asked < MaxAsks /\ UNCHANGED <<design, ups>>
  BY DEF Serve, Shortcut, Begin, Check
<1>2. Empty \in Trees
  <2>1. Empty \in [{} -> States]
    BY DEF Empty
  <2> QED
    BY <2>1 DEF Trees
<1>3. prev' \in [Sides -> Trees] /\ asked' \in 0 .. MaxAsks
  BY <1>1, <1>2, WalkAssumption DEF IInv
<1>4. UpsTrue'
  BY <1>1 DEF IInv, UpsTrue
<1>5. <<>> \in Seq(States) /\ Len(<<>>) = 0
  OBVIOUS
<1>6. CASE Serve(x, v)
  <2>1. /\ phase' = "answered" /\ UNCHANGED <<front, side, todo, next, verdicts>>
        /\ answer' = Answer(verdicts[VerdictKey(design, x)], TRUE, <<>>)
        /\ VerdictKey(design, x) \in DOMAIN verdicts
    BY <1>6 DEF Serve, Known
  <2> QED
    BY <1>1, <1>3, <1>4, <1>5, <2>1 DEF IInv, Answer
<1>7. CASE Shortcut(x, v)
  <2>1. /\ phase' = "answered" /\ UNCHANGED <<front, side, todo, next>>
        /\ answer' = Answer(TRUE, FALSE, <<>>) /\ Answered(x, Answer(TRUE, FALSE, <<>>))
    BY <1>7 DEF Shortcut, Answered
  <2>2. \A k \in DOMAIN verdicts' : verdicts'[k] \in BOOLEAN
    <3> DEFINE a == Answer(TRUE, FALSE, <<>>)
    <3>1. a.ok \in BOOLEAN /\ Answered(x, a)
      BY <2>1 DEF Answer
    <3> HIDE DEF a
    <3> QED
      BY <3>1, AnsweredType
  <2> QED
    BY <1>1, <1>3, <1>4, <1>5, <2>1, <2>2 DEF IInv, Answer
<1>8. CASE Begin(x, v)
  <2>1. /\ phase' = "walking" /\ UNCHANGED <<answer, verdicts>>
        /\ front' = [forward |-> {Seed(design, x, "forward")},
                     backward |-> IF x.kind = "port-port" THEN {Seed(design, x, "backward")} ELSE {}]
        /\ side' = "forward" /\ todo' = {Seed(design, x, "forward")} /\ next' = {}
    BY <1>8 DEF Begin
  <2>2. \A sd \in Sides : Seed(design, x, sd) \in States
    BY SeedType, ViewType
  <2>3. front' \in [Sides -> SUBSET States]
    <3> DEFINE F == Seed(design, x, "forward")
               B == Seed(design, x, "backward")
    <3>1. F \in States /\ B \in States
      BY <2>2, SidesTwo
    <3> HIDE DEF F, B
    <3>2. front' = [forward |-> {F}, backward |-> IF x.kind = "port-port" THEN {B} ELSE {}]
      BY <2>1 DEF F, B
    <3> QED
      BY <3>1, <3>2 DEF Sides
  <2> QED
    BY <1>1, <1>3, <1>4, <2>1, <2>2, <2>3, SidesTwo DEF IInv
<1> QED
  BY <1>6, <1>7, <1>8

LEMMA EndsType ==
  ASSUME IInv, ask \in Questions, NEW came \in [Sides -> Trees], NEW m \in States,
         NEW ends \in Ends(m, came)
  PROVE  ends \in Seq(States) /\ Len(ends) \in 0 .. 2
<1>1. \A sd \in Sides : MeetOf(m, came, sd) \subseteq States
  BY TreesType, SeedType, ViewType DEF MeetOf
<1>2. ask.kind \in {"port-port", "port-hierarchy"} /\ ask.trace \in BOOLEAN
  BY WalkAssumption DEF Question
<1>3. CASE ~ ask.trace
  <2>1. ends = <<>>
    BY <1>2, <1>3 DEF Ends
  <2> QED
    BY <2>1
<1>4. CASE ask.trace /\ ask.kind = "port-hierarchy"
  <2>1. ends = <<m>>
    BY <1>2, <1>4 DEF Ends
  <2> QED
    BY <2>1
<1>5. CASE ask.trace /\ ask.kind = "port-port"
  <2>1. PICK mf \in MeetOf(m, came, "forward"), mb \in MeetOf(m, came, "backward") : ends = <<mf, mb>>
    BY <1>2, <1>5 DEF Ends
  <2>2. mf \in States /\ mb \in States
    BY <1>1, SidesTwo
  <2> QED
    BY <2>1, <2>2
<1> QED
  BY <1>2, <1>3, <1>4, <1>5

\* What an expansion does to the parent cache.
LEMMA OpenUps ==
  ASSUME IInv, NEW s \in States,
         ups' = IF design.logical \/ s[1] \notin view THEN ups ELSE Stored(ups, UpKey(s), Above(s)),
         UNCHANGED <<design, view>>
  PROVE  /\ UpsTrue'
         /\ \A t \in States : Above(t)' = Above(t)
<1>1. CASE ups' = ups
  BY <1>1 DEF IInv, UpsTrue, Above, UpKey
<1>2. CASE ~ design.logical /\ ups' = Stored(ups, UpKey(s), Above(s))
  <2> DEFINE new == Above(s)
  <2>1. ups' = Stored(ups, s, new)
    BY <1>2 DEF UpKey
  <2>2. new \subseteq UpTargets(design, Scopes, s[1], s[2])
    BY AboveType
  <2>3. s \notin DOMAIN ups => new = UpTargets(design, view, s[1], s[2])
    BY DEF Above, UpKey
  <2> HIDE DEF new
  <2>4. UpsTrue'
    <3>1. ASSUME NEW k \in DOMAIN ups'
          PROVE  k \in States /\ ups'[k] \subseteq UpTargets(design, Scopes, k[1], k[2])
      <4>1. CASE k \in DOMAIN ups
        BY <2>1, <4>1, StoredKeeps DEF IInv, UpsTrue
      <4>2. CASE k = s /\ k \notin DOMAIN ups
        BY <2>1, <2>2, <4>2, StoredAdds
      <4> QED
        BY <2>1, <3>1, <4>1, <4>2, StoredOnly
    <3> QED
      BY <3>1 DEF UpsTrue
  <2>5. ASSUME NEW t \in States
        PROVE  Above(t)' = Above(t)
    <3>1. CASE t \in DOMAIN ups
      <4>1. t \in DOMAIN ups' /\ ups'[t] = ups[t]
        BY <2>1, <3>1, StoredKeeps
      <4> QED
        BY <1>2, <3>1, <4>1 DEF Above, UpKey
    <3>2. CASE t \notin DOMAIN ups /\ t = s
      <4>1. t \in DOMAIN ups' /\ ups'[t] = new
        BY <2>1, <3>2, StoredAdds
      <4> QED
        BY <1>2, <2>3, <3>2, <4>1 DEF Above, UpKey
    <3>3. CASE t \notin DOMAIN ups /\ t # s
      <4>1. t \notin DOMAIN ups'
        BY <2>1, <3>3, StoredOnly
      <4> QED
        BY <1>2, <3>3, <4>1 DEF Above, UpKey
    <3> QED
      BY <3>1, <3>2, <3>3
  <2> QED
    BY <2>4, <2>5
<1> QED
  BY <1>1, <1>2

LEMMA OpenInv ==
  ASSUME IInv, NEW s \in todo, Open(s)
  PROVE  IInv'
<1> DEFINE new == Fresh(s)
           hits == {t \in new : Hit(t)}
<1>1. /\ phase = "walking" /\ UNCHANGED <<design, view, ask, front, side, asked>>
      /\ ups' = IF design.logical \/ s[1] \notin view THEN ups ELSE Stored(ups, UpKey(s), Above(s))
  BY DEF Open
<1>2. s \in States /\ ask \in Questions /\ side \in Sides
  BY <1>1 DEF IInv
<1>3. new \subseteq States
  BY <1>2, WalkEdges DEF Fresh
<1>4. UpsTrue'
  BY <1>1, <1>2, OpenUps
<1>5. ASSUME NEW found \in SUBSET States
      PROVE  [prev EXCEPT ![side] = Reached(prev[side], s, found)] \in [Sides -> Trees]
  BY <1>2, ReachedType DEF IInv
<1> HIDE DEF new
<1>6. CASE /\ prev' = [prev EXCEPT ![side] = Reached(prev[side], s, new)]
           /\ todo' = todo \ {s} /\ next' = next \cup new /\ UNCHANGED <<phase, answer, verdicts>>
  BY <1>1, <1>2, <1>3, <1>4, <1>5, <1>6 DEF IInv
<1>7. ASSUME NEW m \in hits, NEW before \in SUBSET (new \ hits),
             prev' = [prev EXCEPT ![side] = Reached(prev[side], s, before \cup {m})],
             NEW ends \in Ends(m, prev'), Answered(ask, Answer(TRUE, FALSE, ends)),
             UNCHANGED <<todo, next>>
      PROVE  IInv'
  <2>1. m \in States /\ before \cup {m} \in SUBSET States
    BY <1>3
  <2>2. prev' \in [Sides -> Trees]
    BY <1>5, <1>7, <2>1
  <2>3. ends \in Seq(States) /\ Len(ends) \in 0 .. 2
    BY <1>2, <2>1, <2>2, EndsType
  <2>4. \A k \in DOMAIN verdicts' : verdicts'[k] \in BOOLEAN
    <3> DEFINE a == Answer(TRUE, FALSE, ends)
    <3>1. a.ok \in BOOLEAN /\ Answered(ask, a)
      BY <1>7 DEF Answer
    <3> HIDE DEF a
    <3> QED
      BY <3>1, AnsweredType
  <2>5. phase' = "answered" /\ answer' = Answer(TRUE, FALSE, ends)
    BY <1>7 DEF Answered
  <2> QED
    BY <1>1, <1>2, <1>4, <1>7, <2>2, <2>3, <2>4, <2>5 DEF IInv, Answer
<1> QED
  BY <1>6, <1>7 DEF Open, new

LEMMA TurnInv ==
  ASSUME IInv, Turn
  PROVE  IInv'
<1> DEFINE f == [front EXCEPT ![side] = next]
<1>1. phase = "walking" /\ todo = {} /\ front' = f /\ UNCHANGED <<design, view, ask, prev, ups, asked>>
  BY DEF Turn
<1>2. front' \in [Sides -> SUBSET States] /\ ask \in Questions
  BY <1>1 DEF IInv
<1>3. UpsTrue'
  BY <1>1 DEF IInv, UpsTrue
<1>4. CASE Answered(ask, Answer(FALSE, FALSE, <<>>)) /\ UNCHANGED <<side, todo, next>>
  <2>1. \A k \in DOMAIN verdicts' : verdicts'[k] \in BOOLEAN
    <3> DEFINE a == Answer(FALSE, FALSE, <<>>)
    <3>1. a.ok \in BOOLEAN /\ Answered(ask, a)
      BY <1>4 DEF Answer
    <3> HIDE DEF a
    <3> QED
      BY <3>1, AnsweredType
  <2>2. <<>> \in Seq(States) /\ Len(<<>>) = 0
    OBVIOUS
  <2>3. phase' = "answered" /\ answer' = Answer(FALSE, FALSE, <<>>) /\ UNCHANGED <<side, todo, next>>
    BY <1>4 DEF Answered
  <2> HIDE DEF f
  <2> QED
    BY <1>1, <1>2, <1>3, <2>1, <2>2, <2>3 DEF IInv, Answer
<1>5. CASE side' = NextSide(f) /\ todo' = f[side'] /\ next' = {} /\ UNCHANGED <<phase, answer, verdicts>>
  <2>1. side' \in Sides
    BY <1>5 DEF NextSide, Sides
  <2>2. todo' \subseteq States
    BY <1>1, <1>2, <1>5, <2>1
  <2> QED
    BY <1>1, <1>2, <1>3, <1>5, <2>1, <2>2 DEF IInv
<1> QED
  BY <1>4, <1>5 DEF Turn

LEMMA InitInv == Init => IInv
<1> SUFFICES ASSUME Init PROVE IInv
  OBVIOUS
<1>1. Empty \in [{} -> States]
  BY DEF Empty
<1>2. Empty \in Trees
  BY <1>1 DEF Trees
<1>3. <<>> \in Seq(States) /\ Len(<<>>) = 0 /\ DOMAIN Empty = {}
  BY DEF Empty
<1> QED
  BY <1>2, <1>3, SidesTwo, WalkAssumption DEF Init, IInv, UpsTrue, Answer

LEMMA NextInv ==
  ASSUME IInv, [Next]_vars
  PROVE  IInv'
<1>1. CASE UNCHANGED vars
  BY <1>1 DEF vars, walk, IInv, UpsTrue
<1> QED
  BY <1>1, CheckInv, OpenInv, TurnInv DEF Next, Proceed

\* The variables have their types, for every design and every sequence of checks: an
\* edge of a net leads to a net of an instance that exists, also through a parent that
\* another check left in the cache (walk.py:833-1043).
THEOREM TypeCorrect == Spec => []TypeOK
<1>1. IInv /\ [Next]_vars => IInv'
  BY NextInv
<1> QED
  BY <1>1, InitInv, InvTypes, PTL DEF Spec

-----------------------------------------------------------------------------
(* The verdicts.  What a side has seen is part of every set of nets that   *)
(* holds its start and is closed under the edges of the design; every net  *)
(* it has seen waits or is done, which is to say that all its edges lead   *)
(* to nets seen; and the two sides stay apart until the check is answered. *)

ClosedUnder(g, C) == \A s \in C : Edges(g, s) \subseteq C

SeenIsReal ==
  phase # "idle" =>
    \A sd \in Sides, C \in SUBSET States :
      Seed(design, ask, sd) \in C /\ ClosedUnder(design, C) => Seen(sd) \subseteq C

FrontsSeen ==
  phase = "walking" => /\ todo \cup next \subseteq Seen(side)
                       /\ \A sd \in Sides : front[sd] \subseteq Seen(sd)

Together ==
  IF ask.kind = "port-hierarchy" THEN \E s \in Seen("forward") : s[1] = ask.goal[1]
  ELSE \E s \in Seen("forward"), t \in Seen("backward") : Touch(design, s, t)

Walks(sd) == ask.kind = "port-port" \/ sd = "forward"
Waiting(sd) == IF sd = side THEN todo \cup next ELSE front[sd]
Done(sd, s) == Expand(design, view, s, Above(s)) \subseteq Seen(sd)

Searching ==
  phase = "walking" =>
    /\ ~ AtGoal(design, ask) /\ ~ Together
    /\ ask.kind = "port-hierarchy" => side = "forward" /\ front["backward"] = {}
    /\ \A sd \in Sides : Walks(sd) => \A s \in Seen(sd) : s \in Waiting(sd) \/ Done(sd, s)

Found ==
  phase = "answered" /\ ~ answer.served =>
    IF answer.ok THEN AtGoal(design, ask) \/ Together
    ELSE /\ ~ AtGoal(design, ask) /\ ~ Together
         /\ \A sd \in Sides : Walks(sd) => \A s \in Seen(sd) : Done(sd, s)

WalkInv == SeenIsReal /\ FrontsSeen /\ Searching /\ Found

LEMMA TouchSymmetric ==
  ASSUME NEW g, NEW s, NEW t, Touch(g, s, t)
  PROVE  Touch(g, t, s)
BY DEF Touch

\* The rep index finds a net of C for t just where t touches C.
LEMMA FindInTouch ==
  ASSUME NEW g \in Graph, NEW t \in States, NEW C \in SUBSET States
  PROVE  FindIn(g, t, C) # {} <=> \E c \in C : Touch(g, t, c)
<1> DEFINE Near(c) == c[1] = t[1] /\ Rep(g, c[1], c[2]) = Rep(g, t[1], t[2])
           near == {c \in C : Near(c)}
           base == {c \in near : ~ Sliced(c[2])}
           slice == {c \in near : c[2][2] = t[2][2]}
           indexed == IF ~ Sliced(t[2]) THEN near ELSE IF base # {} THEN base ELSE slice
<1>1. \A c \in States : Near(c) <=> RepKey(g, c) = RepKey(g, t)
  BY DEF RepKey
<1>2. FindIn(g, t, C) = IF t \in C THEN {t} ELSE IF g.logical THEN {}
                        ELSE IF indexed # {} THEN indexed ELSE {c \in C : Equivalent(g, t, c)}
  BY DEF FindIn
<1>3. \A c \in C : c \in States
  OBVIOUS
<1> HIDE DEF Near
<1>4. CASE t \in C
  BY <1>2, <1>4 DEF Touch
<1>5. CASE t \notin C /\ g.logical
  BY <1>2, <1>5 DEF Touch
<1>6. CASE t \notin C /\ ~ g.logical
  <2>1. \A c \in C : Touch(g, t, c) <=> Near(c) /\ ~ (Sliced(t[2]) /\ Sliced(c[2]) /\ t[2][2] # c[2][2])
    BY <1>1, <1>3, <1>6 DEF Touch
  <2>2. \A c \in C : Touch(g, t, c) => indexed # {}
    <3>1. ASSUME NEW c \in C, Touch(g, t, c)
          PROVE  indexed # {}
      <4>1. Near(c) /\ ~ (Sliced(t[2]) /\ Sliced(c[2]) /\ t[2][2] # c[2][2])
        BY <2>1, <3>1
      <4>2. c \in near
        BY <4>1
      <4>3. CASE ~ Sliced(t[2])
        BY <4>2, <4>3
      <4>4. CASE Sliced(t[2]) /\ ~ Sliced(c[2])
        <5>1. c \in base
          BY <4>2, <4>4
        <5> HIDE DEF base, slice, near
        <5> QED
          BY <4>4, <5>1
      <4>5. CASE Sliced(t[2]) /\ t[2][2] = c[2][2]
        <5>1. c \in slice
          BY <4>2, <4>5
        <5> HIDE DEF base, slice, near
        <5> QED
          BY <4>5, <5>1
      <4> QED
        BY <4>1, <4>3, <4>4, <4>5
    <3> QED
      BY <3>1
  <2>3. \A c \in indexed : c \in C /\ Touch(g, t, c)
    <3>1. ASSUME NEW c \in indexed
          PROVE  c \in C /\ Near(c) /\ ~ (Sliced(t[2]) /\ Sliced(c[2]) /\ t[2][2] # c[2][2])
      <4>1. CASE ~ Sliced(t[2])
        BY <3>1, <4>1
      <4>2. CASE Sliced(t[2]) /\ base # {}
        <5>1. c \in base
          BY <3>1, <4>2
        <5> QED
          BY <5>1
      <4>3. CASE Sliced(t[2]) /\ base = {}
        <5>1. c \in slice
          BY <3>1, <4>3
        <5> QED
          BY <5>1
      <4> QED
        BY <4>1, <4>2, <4>3
    <3> QED
      BY <2>1, <3>1
  <2>4. \A c \in C : Equivalent(g, t, c) => Touch(g, t, c)
    BY DEF Equivalent, Touch, RepKey
  <2> HIDE DEF indexed
  <2> QED
    BY <1>2, <1>6, <2>2, <2>3, <2>4
<1> QED
  BY <1>4, <1>5, <1>6

\* A check begins with its two seeds, which do not touch: they would be the same net.
LEMMA CheckWalk ==
  ASSUME IInv, NEW x \in Questions, NEW v \in Views, Serve(x, v) \/ Shortcut(x, v) \/ Begin(x, v)
  PROVE  WalkInv'
<1>1. view' = v /\ ask' = x /\ prev' = [sd \in Sides |-> Empty] /\ UNCHANGED <<design, ups>>
  BY DEF Serve, Shortcut, Begin, Check
<1>2. \A sd \in Sides : Seen(sd)' = {Seed(design, x, sd)}
  <2>1. DOMAIN Empty = {}
    BY DEF Empty
  <2> QED
    BY <1>1, <2>1 DEF Seen
<1>3. SeenIsReal'
  BY <1>1, <1>2 DEF SeenIsReal
<1>4. CASE Serve(x, v)
  <2>1. phase' = "answered" /\ answer'.served
    BY <1>4 DEF Serve, Answer
  <2> QED
    BY <1>3, <2>1 DEF WalkInv, FrontsSeen, Searching, Found
<1>5. CASE Shortcut(x, v)
  <2>1. phase' = "answered" /\ answer'.ok /\ AtGoal(design, x)
    BY <1>5 DEF Shortcut, Answered, Answer
  <2>2. AtGoal(design, ask)'
    BY <1>1, <2>1
  <2> QED
    BY <1>3, <2>1, <2>2 DEF WalkInv, FrontsSeen, Searching, Found
<1>6. CASE Begin(x, v)
  <2> DEFINE F == Seed(design, x, "forward")
             B == Seed(design, x, "backward")
  <2>1. /\ phase' = "walking" /\ ~ AtGoal(design, x)
        /\ front' = [forward |-> {F}, backward |-> IF x.kind = "port-port" THEN {B} ELSE {}]
        /\ side' = "forward" /\ todo' = {F} /\ next' = {}
    BY <1>6 DEF Begin
  <2>2. Seen("forward")' = {F} /\ Seen("backward")' = {B}
    BY <1>2, SidesTwo
  <2>3. x.kind \in {"port-port", "port-hierarchy"}
    BY WalkAssumption DEF Question
  <2>4. CASE x.kind = "port-hierarchy"
    <3>1. F[1] = x.start[1] /\ x.start[1] # x.goal[1]
      BY <2>1, <2>4 DEF Seed, RepKey, AtGoal
    <3>2. ~ Together'
      BY <1>1, <2>2, <2>4, <3>1 DEF Together
    <3> HIDE DEF F, B
    <3>3. FrontsSeen'
      BY <2>1, <2>2, <2>4 DEF FrontsSeen, Sides
    <3>4. Searching'
      <4>1. ~ AtGoal(design, ask)'
        BY <1>1, <2>1
      <4> QED
        BY <1>1, <2>1, <2>2, <2>4, <3>2, <4>1 DEF Searching, Walks, Waiting
    <3> QED
      BY <1>3, <2>1, <3>3, <3>4 DEF WalkInv, Found
  <2>5. CASE x.kind = "port-port"
    <3>1. ~ Touch(design, F, B)
      <4>1. RepKey(design, x.start) # RepKey(design, x.goal)
        BY <2>1, <2>5 DEF AtGoal
      <4>2. CASE design.logical
        BY <4>1, <4>2, SidesTwo DEF Touch, Seed
      <4>3. CASE ~ design.logical
        <5>1. F = x.start /\ B = x.goal
          BY <2>5, <4>3 DEF Seed
        <5> QED
          BY <4>1, <5>1 DEF Touch
      <4> QED
        BY <4>2, <4>3
    <3>2. ~ Together'
      BY <1>1, <2>2, <2>5, <3>1 DEF Together
    <3> HIDE DEF F, B
    <3>3. FrontsSeen'
      BY <2>1, <2>2, <2>5 DEF FrontsSeen, Sides
    <3>4. Searching'
      <4>1. ~ AtGoal(design, ask)'
        BY <1>1, <2>1
      <4> QED
        BY <1>1, <2>1, <2>2, <2>5, <3>2, <4>1 DEF Searching, Walks, Waiting, Sides
    <3> QED
      BY <1>3, <2>1, <3>3, <3>4 DEF WalkInv, Found
  <2> QED
    BY <2>3, <2>4, <2>5
<1> QED
  BY <1>4, <1>5, <1>6

\* What an expansion adds to the nets seen.
LEMMA OpenSeen ==
  ASSUME IInv, phase = "walking", NEW s \in States, NEW found \in SUBSET States,
         prev' = [prev EXCEPT ![side] = Reached(prev[side], s, found)], UNCHANGED <<design, ask>>
  PROVE  \A sd \in Sides : Seen(sd)' = IF sd = side THEN Seen(sd) \cup found ELSE Seen(sd)
<1>1. side \in Sides /\ prev \in [Sides -> Trees]
  BY DEF IInv
<1>2. DOMAIN Reached(prev[side], s, found) = DOMAIN prev[side] \cup found
  BY <1>1, ReachedType
<1>3. ASSUME NEW sd \in Sides
      PROVE  Seen(sd)' = IF sd = side THEN Seen(sd) \cup found ELSE Seen(sd)
  <2>1. Seen(sd)' = DOMAIN prev'[sd] \cup {Seed(design, ask, sd)}
    BY DEF Seen
  <2>2. DOMAIN prev'[sd] = IF sd = side THEN DOMAIN prev[sd] \cup found ELSE DOMAIN prev[sd]
    BY <1>1, <1>2
  <2> QED
    BY <2>1, <2>2 DEF Seen
<1> QED
  BY <1>3

LEMMA OpenReal ==
  ASSUME IInv, WalkInv, phase = "walking", NEW s \in todo, NEW found \in SUBSET Fresh(s),
         prev' = [prev EXCEPT ![side] = Reached(prev[side], s, found)], UNCHANGED <<design, ask>>
  PROVE  SeenIsReal'
<1>1. s \in States /\ side \in Sides /\ s \in Seen(side)
  BY DEF IInv, WalkInv, FrontsSeen
<1>2. found \subseteq Edges(design, s) /\ found \subseteq States
  BY <1>1, WalkEdges DEF Fresh
<1>3. \A sd \in Sides : Seen(sd)' = IF sd = side THEN Seen(sd) \cup found ELSE Seen(sd)
  BY <1>1, <1>2, OpenSeen
<1>4. ASSUME NEW sd \in Sides, NEW C \in SUBSET States,
             Seed(design, ask, sd) \in C, ClosedUnder(design, C)
      PROVE  Seen(sd)' \subseteq C
  <2>1. Seen(sd) \subseteq C
    BY <1>4 DEF WalkInv, SeenIsReal
  <2>2. sd = side => found \subseteq C
    BY <1>1, <1>2, <1>4, <2>1 DEF ClosedUnder
  <2> QED
    BY <1>3, <2>1, <2>2
<1>5. design' = design /\ ask' = ask
  OBVIOUS
<1> HIDE DEF ClosedUnder
<1> QED
  BY <1>4, <1>5 DEF SeenIsReal

\* No new net answers the check: the expanded net is done and the sides stay apart.
LEMMA OpenMiss ==
  ASSUME IInv, WalkInv, phase = "walking", NEW s \in todo,
         \A t \in Fresh(s) : ~ Hit(t),
         prev' = [prev EXCEPT ![side] = Reached(prev[side], s, Fresh(s))],
         todo' = todo \ {s}, next' = next \cup Fresh(s),
         \A t \in States : Above(t)' = Above(t),
         UNCHANGED <<design, view, ask, phase, front, side>>
  PROVE  WalkInv'
<1> DEFINE new == Fresh(s)
<1>1. /\ s \in States /\ side \in Sides /\ s \in Seen(side) /\ ask \in Questions
      /\ design \in Graph /\ \A sd \in Sides : Seen(sd) \subseteq States
  BY SeenType, ViewType DEF IInv, WalkInv, FrontsSeen
<1>2. new \subseteq States /\ Expand(design, view, s, Above(s)) \subseteq Seen(side) \cup new
  BY <1>1, WalkEdges DEF Fresh
<1>3. \A sd \in Sides : Seen(sd)' = IF sd = side THEN Seen(sd) \cup new ELSE Seen(sd)
  BY <1>1, <1>2, OpenSeen
<1>4. SeenIsReal'
  BY OpenReal
<1>5. /\ ~ AtGoal(design, ask) /\ ~ Together
      /\ ask.kind = "port-hierarchy" => side = "forward" /\ front["backward"] = {}
      /\ \A sd \in Sides : Walks(sd) => \A t \in Seen(sd) : t \in Waiting(sd) \/ Done(sd, t)
  BY DEF WalkInv, Searching
<1>6. todo \cup next \subseteq Seen(side) /\ \A sd \in Sides : front[sd] \subseteq Seen(sd)
  BY DEF WalkInv, FrontsSeen
<1>7. ~ Together'
  <2>1. CASE ask.kind = "port-hierarchy"
    <3>1. Seen("forward")' = Seen("forward") \cup new
      BY <1>1, <1>3, <1>5, <2>1
    <3>2. \A t \in new : t[1] # ask.goal[1]
      BY <2>1 DEF Hit
    <3>3. \A t \in Seen("forward") : t[1] # ask.goal[1]
      BY <1>5, <2>1 DEF Together
    <3> HIDE DEF new
    <3> QED
      BY <2>1, <3>1, <3>2, <3>3 DEF Together
  <2>2. CASE ask.kind # "port-hierarchy"
    <3>1. \A t \in new : \A c \in Seen(Other(side)) : ~ Touch(design, t, c)
      <4>1. \A t \in new : FindIn(design, t, Seen(Other(side))) = {}
        BY <2>2 DEF Hit
      <4>2. Seen(Other(side)) \subseteq States
        BY <1>1, SidesTwo
      <4> HIDE DEF new
      <4> QED
        BY <1>1, <1>2, <4>1, <4>2, FindInTouch
    <3>2. \A t \in Seen("forward"), c \in Seen("backward") : ~ Touch(design, t, c)
      BY <1>5, <2>2 DEF Together
    <3>3. \A t \in Seen("forward")', c \in Seen("backward")' : ~ Touch(design, t, c)
      <4> HIDE DEF new
      <4>1. CASE side = "forward"
        <5>1. Seen("forward")' = Seen("forward") \cup new /\ Seen("backward")' = Seen("backward")
          BY <1>3, <4>1, SidesTwo
        <5> QED
          BY <3>1, <3>2, <4>1, <5>1, SidesTwo
      <4>2. CASE side = "backward"
        <5>1. Seen("forward")' = Seen("forward") /\ Seen("backward")' = Seen("backward") \cup new
          BY <1>3, <4>2, SidesTwo
        <5>2. \A t \in new, c \in Seen("forward") : ~ Touch(design, c, t)
          BY <3>1, <4>2, SidesTwo, TouchSymmetric
        <5> QED
          BY <3>2, <5>1, <5>2
      <4> QED
        BY <1>1, <4>1, <4>2 DEF Sides
    <3> QED
      BY <2>2, <3>3 DEF Together
  <2> QED
    BY <2>1, <2>2
<1>8. \A sd \in Sides, t \in States : Done(sd, t) => Done(sd, t)'
  <2> HIDE DEF new
  <2> QED
    BY <1>3 DEF Done
<1>9. Done(side, s)'
  <2> HIDE DEF new
  <2> QED
    BY <1>1, <1>2, <1>3 DEF Done
<1>10. ASSUME NEW sd \in Sides, Walks(sd), NEW t \in Seen(sd)'
       PROVE  t \in Waiting(sd)' \/ Done(sd, t)'
  <2> HIDE DEF new
  <2>1. Waiting(sd)' = IF sd = side THEN (todo \ {s}) \cup (next \cup new) ELSE front[sd]
    BY DEF Waiting, new
  <2>2. CASE t \in Seen(sd)
    <3>1. t \in Waiting(sd) \/ Done(sd, t)'
      BY <1>1, <1>5, <1>8, <1>10, <2>2
    <3> QED
      BY <1>9, <2>1, <3>1 DEF Waiting
  <2>3. CASE sd = side /\ t \in new
    BY <2>1, <2>3
  <2> QED
    BY <1>3, <1>10, <2>2, <2>3
<1>11. FrontsSeen'
  <2> HIDE DEF new
  <2>1. next' = next \cup new
    BY DEF new
  <2> QED
    BY <1>1, <1>3, <1>6, <2>1 DEF FrontsSeen
<1>12. Searching'
  <2>1. ~ AtGoal(design, ask)' /\ (\A sd \in Sides : Walks(sd)' = Walks(sd))
    BY <1>5 DEF Walks
  <2> HIDE DEF new
  <2> QED
    BY <1>5, <1>7, <1>10, <2>1 DEF Searching
<1> QED
  BY <1>4, <1>11, <1>12 DEF WalkInv, Found

\* A new net answers the check: the sides are together.
LEMMA OpenHit ==
  ASSUME IInv, WalkInv, phase = "walking", NEW s \in todo,
         NEW m \in Fresh(s), Hit(m), NEW before \in SUBSET Fresh(s),
         prev' = [prev EXCEPT ![side] = Reached(prev[side], s, before \cup {m})],
         phase' = "answered", answer'.ok,
         UNCHANGED <<design, view, ask, front, side>>
  PROVE  WalkInv'
<1> DEFINE found == before \cup {m}
<1>1. /\ s \in States /\ side \in Sides /\ s \in Seen(side) /\ ask \in Questions
      /\ design \in Graph /\ \A sd \in Sides : Seen(sd) \subseteq States
  BY SeenType, ViewType DEF IInv, WalkInv, FrontsSeen
<1>2. found \subseteq Fresh(s) /\ found \subseteq States /\ m \in States
  BY <1>1, WalkEdges DEF Fresh
<1>3. \A sd \in Sides : Seen(sd)' = IF sd = side THEN Seen(sd) \cup found ELSE Seen(sd)
  BY <1>1, <1>2, OpenSeen
<1>4. SeenIsReal'
  BY <1>2, OpenReal
<1>5. Together'
  <2>1. CASE ask.kind = "port-hierarchy"
    <3>1. side = "forward" /\ m[1] = ask.goal[1]
      BY <2>1 DEF Hit, WalkInv, Searching
    <3>2. m \in Seen("forward")'
      BY <1>3, <3>1, SidesTwo
    <3> QED
      BY <2>1, <3>1, <3>2 DEF Together
  <2>2. CASE ask.kind # "port-hierarchy"
    <3>1. FindIn(design, m, Seen(Other(side))) # {} /\ Seen(Other(side)) \subseteq States
      BY <1>1, <2>2, SidesTwo DEF Hit
    <3>2. PICK c \in Seen(Other(side)) : Touch(design, m, c)
      BY <1>1, <1>2, <3>1, FindInTouch
    <3>3. Touch(design, c, m)
      BY <3>2, TouchSymmetric
    <3>4. CASE side = "forward"
      <4>1. m \in Seen("forward")' /\ c \in Seen("backward")'
        BY <1>3, <3>2, <3>4, SidesTwo
      <4> QED
        BY <2>2, <3>2, <4>1 DEF Together
    <3>5. CASE side = "backward"
      <4>1. c \in Seen("forward")' /\ m \in Seen("backward")'
        BY <1>3, <3>2, <3>5, SidesTwo
      <4> QED
        BY <2>2, <3>3, <4>1 DEF Together
    <3> QED
      BY <1>1, <3>4, <3>5 DEF Sides
  <2> QED
    BY <2>1, <2>2
<1> QED
  BY <1>4, <1>5 DEF WalkInv, FrontsSeen, Searching, Found

LEMMA OpenWalk ==
  ASSUME IInv, WalkInv, NEW s \in todo, Open(s)
  PROVE  WalkInv'
<1> DEFINE new == Fresh(s)
           hits == {t \in new : Hit(t)}
<1>1. /\ phase = "walking" /\ UNCHANGED <<design, view, ask, front, side, asked>> /\ s \in States
      /\ ups' = IF design.logical \/ s[1] \notin view THEN ups ELSE Stored(ups, UpKey(s), Above(s))
  BY DEF Open, IInv
<1>2. \A t \in States : Above(t)' = Above(t)
  BY <1>1, OpenUps
<1>3. CASE /\ hits = {} /\ prev' = [prev EXCEPT ![side] = Reached(prev[side], s, new)]
           /\ todo' = todo \ {s} /\ next' = next \cup new /\ UNCHANGED <<phase, answer, verdicts>>
  <2>1. \A t \in Fresh(s) : ~ Hit(t)
    BY <1>3
  <2> QED
    BY <1>1, <1>2, <1>3, <2>1, OpenMiss
<1>4. ASSUME NEW m \in hits, NEW before \in SUBSET (new \ hits),
             prev' = [prev EXCEPT ![side] = Reached(prev[side], s, before \cup {m})],
             NEW ends, Answered(ask, Answer(TRUE, FALSE, ends))
      PROVE  WalkInv'
  <2>1. phase' = "answered" /\ answer'.ok
    BY <1>4 DEF Answered, Answer
  <2>2. m \in Fresh(s) /\ Hit(m) /\ before \in SUBSET Fresh(s)
    OBVIOUS
  <2> QED
    BY <1>1, <1>4, <2>1, <2>2, OpenHit
<1> QED
  BY <1>3, <1>4 DEF Open

\* The loop turns: a net of a frontier of which nothing is left is done.
LEMMA TurnWalk ==
  ASSUME IInv, WalkInv, Turn
  PROVE  WalkInv'
<1> DEFINE f == [front EXCEPT ![side] = next]
<1>1. phase = "walking" /\ todo = {} /\ front' = f /\ UNCHANGED <<design, view, ask, prev, ups, asked>>
  BY DEF Turn
<1>2. \A sd \in Sides : Seen(sd)' = Seen(sd)
  BY <1>1 DEF Seen
<1>3. \A sd \in Sides, t \in States : Done(sd, t) => Done(sd, t)'
  <2>1. \A t \in States : Above(t)' = Above(t)
    BY <1>1 DEF Above, UpKey
  <2> QED
    BY <1>1, <1>2, <2>1 DEF Done
<1>4. SeenIsReal' /\ (~ Together => ~ Together') /\ \A sd \in Sides : Walks(sd)' = Walks(sd)
  BY <1>1, <1>2, SidesTwo DEF WalkInv, SeenIsReal, Together, Walks
<1>5. /\ ~ AtGoal(design, ask) /\ ~ Together
      /\ ask.kind = "port-hierarchy" => side = "forward" /\ front["backward"] = {}
      /\ \A sd \in Sides : Walks(sd) => \A t \in Seen(sd) : t \in Waiting(sd) \/ Done(sd, t)
      /\ next \subseteq Seen(side) /\ \A sd \in Sides : front[sd] \subseteq Seen(sd)
  BY <1>1 DEF WalkInv, Searching, FrontsSeen
<1>6. /\ side \in Sides /\ f \in [Sides -> SUBSET States]
      /\ \A sd \in Sides : f[sd] = (IF sd = side THEN next ELSE front[sd]) /\ Waiting(sd) = f[sd]
      /\ \A sd \in Sides : Seen(sd) \subseteq States
  BY <1>1, SeenType DEF IInv, Waiting
<1> HIDE DEF f
<1>7. CASE /\ Exhausted(f) /\ Answered(ask, Answer(FALSE, FALSE, <<>>))
  <2>1. phase' = "answered" /\ ~ answer'.ok
    BY <1>7 DEF Answered, Answer
  <2>2. \A sd \in Sides : f[sd] = {}
    BY <1>7 DEF Exhausted, Sides
  <2>3. \A sd \in Sides : Walks(sd)' => \A t \in Seen(sd)' : Done(sd, t)'
    BY <1>2, <1>3, <1>4, <1>5, <1>6, <2>2
  <2>4. ~ AtGoal(design, ask)'
    BY <1>1, <1>5
  <2> QED
    BY <1>4, <1>5, <2>1, <2>3, <2>4 DEF WalkInv, FrontsSeen, Searching, Found
<1>8. CASE /\ ~ Exhausted(f) /\ side' = NextSide(f) /\ todo' = f[side'] /\ next' = {}
           /\ UNCHANGED <<phase, answer, verdicts>>
  <2>1. side' \in Sides
    BY <1>8 DEF NextSide, Sides
  <2>2. \A sd \in Sides : Waiting(sd)' = f[sd]
    BY <1>1, <1>8, <2>1 DEF Waiting
  <2>3. \A sd \in Sides : f[sd] \subseteq Seen(sd)'
    BY <1>2, <1>5, <1>6
  <2>4. FrontsSeen'
    <3>1. f[side'] \subseteq Seen(side)'
      <4>1. \A sd \in Sides : f[sd] \subseteq DOMAIN prev[sd] \cup {Seed(design, ask, sd)}
        BY <1>5, <1>6 DEF Seen
      <4>2. Seen(side)' = DOMAIN prev[side'] \cup {Seed(design, ask, side')}
        BY <1>1 DEF Seen
      <4> QED
        BY <2>1, <4>1, <4>2
    <3> QED
      BY <1>1, <1>8, <2>1, <2>3, <3>1 DEF FrontsSeen
  <2>5. ask.kind = "port-hierarchy" => side' = "forward" /\ f["backward"] = {}
    <3>1. SUFFICES ASSUME ask.kind = "port-hierarchy"
          PROVE  side' = "forward" /\ f["backward"] = {}
      OBVIOUS
    <3>2. f["backward"] = {}
      BY <1>5, <1>6, <3>1, SidesTwo
    <3>3. f["forward"] # {}
      BY <1>8, <3>2 DEF Exhausted
    <3> QED
      BY <1>8, <3>2, <3>3 DEF NextSide
  <2>6. \A sd \in Sides : Walks(sd)' => \A t \in Seen(sd)' : t \in Waiting(sd)' \/ Done(sd, t)'
    BY <1>2, <1>3, <1>4, <1>5, <1>6, <2>2
  <2>7. ~ AtGoal(design, ask)' /\ ask' = ask /\ phase' = "walking"
    BY <1>1, <1>5, <1>8
  <2>8. Searching'
    BY <1>1, <1>4, <1>5, <2>5, <2>6, <2>7 DEF Searching
  <2> QED
    BY <1>4, <2>4, <2>7, <2>8 DEF WalkInv, Found
<1> QED
  BY <1>7, <1>8 DEF Turn, f

LEMMA InitWalk == Init => WalkInv
BY DEF Init, WalkInv, SeenIsReal, FrontsSeen, Searching, Found

LEMMA NextWalk ==
  ASSUME IInv, WalkInv, [Next]_vars
  PROVE  WalkInv'
<1>1. CASE UNCHANGED vars
  <2>1. UNCHANGED <<design, view, ask, phase, prev, front, side, todo, next, answer, ups>>
    BY <1>1 DEF vars, walk
  <2>2. SeenIsReal' /\ FrontsSeen'
    BY <2>1 DEF WalkInv, SeenIsReal, FrontsSeen, Seen
  <2>3. Searching'
    BY <2>1 DEF WalkInv, Searching, Together, Seen, Walks, Waiting, Done, Above, UpKey
  <2>4. Found'
    BY <2>1 DEF WalkInv, Found, Together, Seen, Walks, Done, Above, UpKey
  <2> QED
    BY <2>2, <2>3, <2>4 DEF WalkInv
<1> QED
  BY <1>1, CheckWalk, OpenWalk, TurnWalk DEF Next, Proceed

-----------------------------------------------------------------------------
(* What a verdict means, without a recursive definition: a net is reachable *)
(* when it is in every set that holds the start and is closed under the     *)
(* edges of the design.                                                     *)

Closed(g, s) == {C \in SUBSET States : s \in C /\ ClosedUnder(g, C)}
Reachable(g, s) == {t \in States : \A C \in Closed(g, s) : t \in C}

\* The closure the runs compute adds to a set what its nets lead to until nothing is new.
More(g, X) == X \cup UNION {Edges(g, t) : t \in X}
IsClosure(g, f) == f = [X \in SUBSET States |-> IF More(g, X) = X THEN X ELSE f[More(g, X)]]
ClosureOf(g, X) == {t \in States : \A C \in SUBSET States : X \subseteq C /\ ClosedUnder(g, C) => t \in C}

LEMMA StatesFinite == IsFiniteSet(States)
<1>1. IsFiniteSet(Bits \cup {None})
  BY FiniteAssumption, FS_Singleton, FS_Union
<1>2. IsFiniteSet(Bases \X (Bits \cup {None})) /\ IsFiniteSet(Texts \X {None})
  BY <1>1, FiniteAssumption, FS_Singleton, FS_Product
<1>3. IsFiniteSet(Nets)
  BY <1>2, FS_Union DEF Nets, Wires
<1> QED
  BY <1>3, FiniteAssumption, FS_Product DEF States

LEMMA EdgesType ==
  ASSUME NEW g \in Graph, NEW s \in States
  PROVE  Edges(g, s) \subseteq States
<1>1. s[1] \in Scopes /\ s[2] \in Nets /\ Scopes \in SUBSET Scopes
  BY DEF States
<1>2. /\ UpTargets(g, Scopes, s[1], s[2]) \in SUBSET Nets
      /\ UpTargets(g, Scopes, s[1], s[2]) # {} => g.parent[s[1]] \in Scopes
  BY <1>1, UpTargetsType
<1> QED
  BY <1>1, <1>2, ExpandType DEF Edges

LEMMA MoreType ==
  ASSUME NEW g \in Graph, NEW X \in SUBSET States
  PROVE  /\ More(g, X) \in SUBSET States /\ X \subseteq More(g, X)
         /\ More(g, X) = X => ClosureOf(g, X) = X
         /\ ClosureOf(g, More(g, X)) = ClosureOf(g, X)
<1>1. \A s \in X : Edges(g, s) \subseteq States
  BY EdgesType
<1>2. More(g, X) \in SUBSET States /\ X \subseteq More(g, X)
  BY <1>1 DEF More
<1>3. ASSUME More(g, X) = X
      PROVE  ClosureOf(g, X) = X
  <2>1. ClosedUnder(g, X)
    BY <1>3 DEF More, ClosedUnder
  <2> QED
    BY <2>1 DEF ClosureOf
<1>4. \A C \in SUBSET States : ClosedUnder(g, C) => (X \subseteq C <=> More(g, X) \subseteq C)
  BY DEF More, ClosedUnder
<1> QED
  BY <1>2, <1>3, <1>4 DEF ClosureOf

LEMMA LeastOf ==
  ASSUME NEW T \in SUBSET Nat, T # {}
  PROVE  \E n \in T : \A k \in T : n <= k
<1> DEFINE R == {ss \in Nat \X Nat : ss[1] < ss[2]}
<1>1. OpToRel(<, Nat) = R
  BY Zenon DEF OpToRel
<1>2. IsWellFoundedOn(R, Nat)
  BY <1>1, NatLessThanWellFounded, Zenon
<1> HIDE DEF R
<1>3. PICK n \in T : \A k \in T : ~ (<<k, n>> \in R)
  BY <1>2, WFMin
<1>4. ASSUME NEW k \in T
      PROVE  n <= k
  <2>1. n \in Nat /\ k \in Nat
    OBVIOUS
  <2>2. ~ (<<k, n>> \in R)
    BY <1>3
  <2> QED
    BY <2>1, <2>2 DEF R
<1> QED
  BY <1>4

\* A recursion that stops where nothing is new computes the least closed set: the largest set
\* for which it did not would have a larger one.
LEMMA ClosureComputes ==
  ASSUME NEW g \in Graph, NEW f, IsClosure(g, f), NEW X \in SUBSET States
  PROVE  f[X] = ClosureOf(g, X)
<1> DEFINE Wrong == {Y \in SUBSET States : f[Y] # ClosureOf(g, Y)}
           Room(Y) == Cardinality(States \ Y)
           T == {Room(Y) : Y \in Wrong}
<1> SUFFICES ASSUME X \in Wrong PROVE FALSE
  OBVIOUS
<1>1. \A Y \in SUBSET States : IsFiniteSet(States \ Y) /\ Room(Y) \in Nat
  BY StatesFinite, FS_Difference, FS_CardinalityType
<1>2. T \in SUBSET Nat /\ T # {}
  BY <1>1
<1>3. PICK n \in T : \A k \in T : n <= k
  <2> HIDE DEF T
  <2> QED
    BY <1>2, LeastOf
<1>4. PICK Y \in Wrong : n = Room(Y)
  BY <1>3
<1>5. f[Y] = IF More(g, Y) = Y THEN Y ELSE f[More(g, Y)]
  BY DEF IsClosure
<1>6. More(g, Y) # Y
  BY <1>4, <1>5, MoreType
<1> DEFINE Z == More(g, Y)
<1>7. Z \in SUBSET States /\ Y \subseteq Z /\ Z # Y /\ ClosureOf(g, Z) = ClosureOf(g, Y)
  BY <1>6, MoreType
<1>8. Z \in Wrong
  BY <1>4, <1>5, <1>6, <1>7
<1> HIDE DEF Z
<1>9. Room(Z) < Room(Y)
  <2>1. States \ Z \in SUBSET (States \ Y) /\ States \ Z # States \ Y
    BY <1>7
  <2>2. Room(Z) <= Room(Y) /\ Room(Z) # Room(Y)
    BY <1>1, <2>1, FS_Subset
  <2> QED
    BY <1>1, <1>7, <2>2
<1>10. n <= Room(Z)
  BY <1>3, <1>8
<1>11. Room(Y) \in Nat /\ Room(Z) \in Nat
  BY <1>1, <1>7
<1> HIDE DEF Room, Wrong, T
<1> QED
  BY <1>4, <1>9, <1>10, <1>11

LEMMA ClosureIsReachable ==
  ASSUME NEW g \in Graph, NEW s \in States
  PROVE  Closure(g)[s] = Reachable(g, s)
<1> DEFINE f == CHOOSE h : IsClosure(g, h)
           c == [X \in SUBSET States |-> ClosureOf(g, X)]
<1>1. Closure(g) = [r \in States |-> f[{r}]]
  BY DEF Closure, IsClosure, More
<1>2. IsClosure(g, c)
  BY MoreType DEF IsClosure
<1>3. IsClosure(g, f)
  BY <1>2
<1> HIDE DEF f
<1>4. f[{s}] = ClosureOf(g, {s})
  BY <1>3, ClosureComputes
<1>5. ClosureOf(g, {s}) = Reachable(g, s)
  BY DEF ClosureOf, Reachable, Closed
<1> QED
  BY <1>1, <1>4, <1>5

Connected(g, x) ==
  LET F == Reachable(g, Seed(g, x, "forward"))
      B == Reachable(g, Seed(g, x, "backward"))
  IN  \/ AtGoal(g, x)
      \/ IF x.kind = "port-hierarchy" THEN \E s \in F : s[1] = x.goal[1]
         ELSE \E s \in F, t \in B : Touch(g, s, t)

YesIsConnected ==
  phase = "answered" /\ ~ answer.served /\ answer.ok => Connected(design, ask)
NoIsNotConnected ==
  phase = "answered" /\ ~ answer.served /\ view = Scopes /\ UpsAreWhole =>
    (Connected(design, ask) => answer.ok)

LEMMA SeenReachable ==
  ASSUME IInv, WalkInv, phase # "idle", NEW sd \in Sides
  PROVE  Seen(sd) \subseteq Reachable(design, Seed(design, ask, sd))
<1>1. Seen(sd) \subseteq States
  BY SeenType
<1>2. \A C \in Closed(design, Seed(design, ask, sd)) : Seen(sd) \subseteq C
  BY DEF WalkInv, SeenIsReal, Closed
<1> QED
  BY <1>1, <1>2 DEF Reachable

LEMMA WalkYes == IInv /\ WalkInv => YesIsConnected
<1> SUFFICES ASSUME IInv, WalkInv, phase = "answered", ~ answer.served, answer.ok
             PROVE  Connected(design, ask)
  BY DEF YesIsConnected
<1>1. AtGoal(design, ask) \/ Together
  BY DEF WalkInv, Found
<1>2. \A sd \in Sides : Seen(sd) \subseteq Reachable(design, Seed(design, ask, sd))
  BY SeenReachable
<1>3. /\ Seen("forward") \subseteq Reachable(design, Seed(design, ask, "forward"))
      /\ Seen("backward") \subseteq Reachable(design, Seed(design, ask, "backward"))
  BY <1>2, SidesTwo
<1> QED
  BY <1>1, <1>3 DEF Connected, Together

\* A side that is done with all it has seen has seen everything reachable.
LEMMA DoneIsAll ==
  ASSUME IInv, phase # "idle", view = Scopes, UpsAreWhole, NEW sd \in Sides,
         \A s \in Seen(sd) : Done(sd, s)
  PROVE  Reachable(design, Seed(design, ask, sd)) \subseteq Seen(sd)
<1>1. Seen(sd) \in SUBSET States /\ Seed(design, ask, sd) \in Seen(sd)
  BY SeenType DEF Seen
<1>2. ASSUME NEW s \in Seen(sd)
      PROVE  Edges(design, s) \subseteq Seen(sd)
  <2>1. Above(s) = UpTargets(design, Scopes, s[1], s[2])
    BY DEF Above, UpKey, UpsAreWhole
  <2> QED
    BY <2>1 DEF Done, Edges
<1>3. Seen(sd) \in Closed(design, Seed(design, ask, sd))
  BY <1>1, <1>2 DEF Closed, ClosedUnder
<1> QED
  BY <1>3 DEF Reachable

LEMMA WalkNo == IInv /\ WalkInv => NoIsNotConnected
<1> SUFFICES ASSUME IInv, WalkInv, phase = "answered", ~ answer.served, view = Scopes, UpsAreWhole,
                    ~ answer.ok
             PROVE  ~ Connected(design, ask)
  BY DEF NoIsNotConnected
<1>1. /\ ~ AtGoal(design, ask) /\ ~ Together
      /\ \A sd \in Sides : Walks(sd) => \A s \in Seen(sd) : Done(sd, s)
  BY DEF WalkInv, Found
<1>2. Reachable(design, Seed(design, ask, "forward")) \subseteq Seen("forward")
  BY <1>1, SidesTwo, DoneIsAll DEF Walks
<1>3. CASE ask.kind = "port-hierarchy"
  BY <1>1, <1>2, <1>3 DEF Connected, Together
<1>4. CASE ask.kind # "port-hierarchy"
  <2>1. ask.kind = "port-port"
    BY <1>4, WalkAssumption DEF IInv, Question
  <2>2. Reachable(design, Seed(design, ask, "backward")) \subseteq Seen("backward")
    BY <1>1, <2>1, SidesTwo, DoneIsAll DEF Walks
  <2> QED
    BY <1>1, <1>2, <1>4, <2>2 DEF Connected, Together
<1> QED
  BY <1>3, <1>4

LEMMA InvAlways == Spec => [](IInv /\ WalkInv)
<1>1. Init => IInv /\ WalkInv
  BY InitInv, InitWalk
<1>2. IInv /\ WalkInv /\ [Next]_vars => IInv' /\ WalkInv'
  BY NextInv, NextWalk
<1> QED
  BY <1>1, <1>2, PTL DEF Spec

-----------------------------------------------------------------------------
(* The verdict cache: a "connected" it holds was found for a question of   *)
(* its key.                                                                *)

Alike(k) == \E x \in Questions : VerdictKey(design, x) = k /\ Connected(design, x)

CacheInv ==
  /\ \A k \in DOMAIN verdicts : verdicts[k] => Alike(k)
  /\ phase = "answered" /\ answer.served /\ answer.ok => Alike(VerdictKey(design, ask))

ServedIsAlike ==
  phase = "answered" /\ answer.served /\ answer.ok =>
    \E x \in Questions :
      /\ x.kind = ask.kind
      /\ RepKey(design, x.start) = RepKey(design, ask.start)
      /\ x.goal[1] = ask.goal[1]
      /\ x.kind = "port-port" => RepKey(design, x.goal) = RepKey(design, ask.goal)
      /\ Connected(design, x)

LEMMA CacheAnswered ==
  ASSUME CacheInv, NEW x \in Questions, NEW a, Answered(x, a), a.ok => Connected(design, x),
         ~ a.served, UNCHANGED design
  PROVE  CacheInv'
<1>1. \A k : Alike(k)' = Alike(k)
  BY DEF Alike
<1>2. phase' = "answered" /\ answer' = a
  BY DEF Answered
<1>3. ASSUME NEW k \in DOMAIN verdicts', verdicts'[k]
      PROVE  Alike(k)
  <2>1. CASE Cached(design, x)
    <3> DEFINE key == VerdictKey(design, x)
    <3>1. verdicts' = Stored(verdicts, key, a.ok) /\ (a.ok => Alike(key))
      BY <2>1 DEF Answered, Alike
    <3> HIDE DEF key
    <3>2. CASE k \in DOMAIN verdicts
      BY <1>3, <3>1, <3>2, StoredKeeps DEF CacheInv
    <3>3. CASE k = key /\ k \notin DOMAIN verdicts
      BY <1>3, <3>1, <3>3, StoredAdds
    <3> QED
      BY <1>3, <3>1, <3>2, <3>3, StoredOnly
  <2>2. CASE ~ Cached(design, x)
    BY <1>3, <2>2 DEF Answered, CacheInv
  <2> QED
    BY <2>1, <2>2
<1> QED
  BY <1>1, <1>2, <1>3 DEF CacheInv

LEMMA InitCache == Init => CacheInv
BY DEF Init, CacheInv, Empty

LEMMA NextCache ==
  ASSUME IInv, WalkInv, CacheInv, [Next]_vars
  PROVE  CacheInv'
<1>1. \A k : UNCHANGED design => Alike(k)' = Alike(k)
  BY DEF Alike
<1>2. ASSUME NEW x \in Questions, NEW v \in Views, Serve(x, v)
      PROVE  CacheInv'
  <2> DEFINE key == VerdictKey(design, x)
  <2>1. /\ UNCHANGED <<design, verdicts>> /\ ask' = x /\ key \in DOMAIN verdicts
        /\ answer'.ok = verdicts[key] /\ VerdictKey(design, ask)' = key
    BY <1>2 DEF Serve, Check, Known, Answer
  <2> HIDE DEF key
  <2> QED
    BY <1>1, <2>1 DEF CacheInv
<1>3. ASSUME NEW x \in Questions, NEW v \in Views, Shortcut(x, v)
      PROVE  CacheInv'
  <2> DEFINE a == Answer(TRUE, FALSE, <<>>)
  <2>1. Answered(x, a) /\ Connected(design, x) /\ UNCHANGED design /\ ~ a.served
    BY <1>3 DEF Shortcut, Check, Connected, Answer
  <2> HIDE DEF a
  <2> QED
    BY <2>1, CacheAnswered
<1>4. ASSUME NEW x \in Questions, NEW v \in Views, Begin(x, v)
      PROVE  CacheInv'
  <2>1. phase' = "walking" /\ UNCHANGED <<design, verdicts>>
    BY <1>4 DEF Begin, Check
  <2> QED
    BY <1>1, <2>1 DEF CacheInv
<1>5. ASSUME NEW s \in todo, Open(s)
      PROVE  CacheInv'
  <2>1. phase = "walking" /\ ask \in Questions /\ UNCHANGED <<design, ask>>
    BY <1>5 DEF Open, IInv
  <2>2. CASE UNCHANGED <<phase, answer, verdicts>>
    BY <1>1, <2>1, <2>2 DEF CacheInv
  <2>3. ASSUME NEW ends, Answered(ask, Answer(TRUE, FALSE, ends))
        PROVE  CacheInv'
    <3> DEFINE a == Answer(TRUE, FALSE, ends)
    <3>1. phase' = "answered" /\ ~ answer'.served /\ answer'.ok /\ ~ a.served
      BY <2>3 DEF Answered, Answer
    <3>2. YesIsConnected'
      <4>1. IInv' /\ WalkInv'
        BY <1>5, OpenInv, OpenWalk
      <4> QED
        BY <4>1, WalkYes, PTL
    <3>3. Connected(design, ask)
      <4>1. Connected(design, ask)'
        BY <3>1, <3>2 DEF YesIsConnected
      <4> QED
        BY <2>1, <4>1
    <3>4. Answered(ask, a)
      BY <2>3
    <3> HIDE DEF a
    <3> QED
      BY <2>1, <3>1, <3>3, <3>4, CacheAnswered
  <2> QED
    BY <1>5, <2>2, <2>3 DEF Open
<1>6. CASE Turn
  <2>1. phase = "walking" /\ ask \in Questions /\ UNCHANGED <<design, ask>>
    BY <1>6 DEF Turn, IInv
  <2>2. CASE UNCHANGED <<phase, answer, verdicts>>
    BY <1>1, <2>1, <2>2 DEF CacheInv
  <2>3. CASE Answered(ask, Answer(FALSE, FALSE, <<>>))
    <3> DEFINE a == Answer(FALSE, FALSE, <<>>)
    <3>1. Answered(ask, a) /\ ~ a.ok /\ ~ a.served
      BY <2>3 DEF Answer
    <3> HIDE DEF a
    <3> QED
      BY <2>1, <3>1, CacheAnswered
  <2> QED
    BY <1>6, <2>2, <2>3 DEF Turn
<1>7. CASE UNCHANGED vars
  BY <1>1, <1>7 DEF vars, CacheInv
<1> QED
  BY <1>2, <1>3, <1>4, <1>5, <1>6, <1>7 DEF Next, Proceed

LEMMA ServedAlike == IInv /\ CacheInv => ServedIsAlike
<1> SUFFICES ASSUME IInv, CacheInv, phase = "answered", answer.served, answer.ok
             PROVE  \E x \in Questions :
                      /\ x.kind = ask.kind
                      /\ RepKey(design, x.start) = RepKey(design, ask.start)
                      /\ x.goal[1] = ask.goal[1]
                      /\ x.kind = "port-port" => RepKey(design, x.goal) = RepKey(design, ask.goal)
                      /\ Connected(design, x)
  BY DEF ServedIsAlike
<1>1. PICK x \in Questions : VerdictKey(design, x) = VerdictKey(design, ask) /\ Connected(design, x)
  BY DEF CacheInv, Alike
<1>2. x.kind = ask.kind /\ RepKey(design, x.start) = RepKey(design, ask.start)
  BY <1>1 DEF VerdictKey
<1>3. CASE x.kind = "port-hierarchy"
  BY <1>1, <1>2, <1>3 DEF VerdictKey
<1>4. CASE x.kind # "port-hierarchy"
  <2>1. RepKey(design, x.goal) = RepKey(design, ask.goal)
    BY <1>1, <1>2, <1>4 DEF VerdictKey
  <2>2. x.goal[1] = ask.goal[1]
    BY <2>1 DEF RepKey
  <2> QED
    BY <1>1, <1>2, <2>1, <2>2
<1> QED
  BY <1>3, <1>4

LEMMA CacheAlways == Spec => [](IInv /\ CacheInv)
<1>1. Init => IInv /\ WalkInv /\ CacheInv
  BY InitInv, InitWalk, InitCache
<1>2. IInv /\ WalkInv /\ CacheInv /\ [Next]_vars => IInv' /\ WalkInv' /\ CacheInv'
  BY NextInv, NextWalk, NextCache
<1> QED
  BY <1>1, <1>2, PTL DEF Spec

-----------------------------------------------------------------------------
(* The verdicts, with the closure the runs compute.                        *)

LEMMA MeetsIsConnected ==
  ASSUME IInv, NEW x \in Questions
  PROVE  /\ Joined(x) <=> Connected(design, x)
         /\ Meets(AsText(design), TextReach[design], x) <=> Connected(AsText(design), x)
<1>1. design \in Designs /\ design \in Graph /\ AsText(design) \in Graph
  BY ViewType DEF IInv, AsText, Graph
<1>2. ASSUME NEW g \in Graph, NEW reach, reach = Closure(g)
      PROVE  Meets(g, reach, x) <=> Connected(g, x)
  <2>1. \A sd : Seed(g, x, sd) \in States
    BY SeedType
  <2>2. \A sd : reach[Seed(g, x, sd)] = Reachable(g, Seed(g, x, sd))
    BY <1>2, <2>1, ClosureIsReachable
  <2> QED
    BY <2>2 DEF Meets, Connected
<1>3. Reach[design] = Closure(design) /\ TextReach[design] = Closure(AsText(design))
  BY <1>1 DEF Reach, TextReach
<1> QED
  BY <1>1, <1>2, <1>3 DEF Joined

\* A "connected" found by walking is a path of the whole design, whatever rows the check
\* saw and whatever earlier checks left in the parent cache (walk.py:982-1000, 1507-1535).
THEOREM YesIsCertain == Spec => []YesIsPath
<1>1. IInv /\ WalkInv => YesIsPath
  <2> SUFFICES ASSUME IInv, WalkInv, phase = "answered", ~ answer.served, answer.ok
               PROVE  Joined(ask)
    BY DEF YesIsPath
  <2> QED
    BY WalkYes, MeetsIsConnected DEF IInv, YesIsConnected
<1> QED
  BY <1>1, InvAlways, PTL

\* A "not connected" found by walking over every row, with no clamped parent in the
\* cache, leaves no path unfound (walk.py:1202-1236, 1496-1622).
THEOREM NoIsCertain == Spec => []NoIsNoPath
<1>1. IInv /\ WalkInv => NoIsNoPath
  <2> SUFFICES ASSUME IInv, WalkInv, phase = "answered", ~ answer.served, view = Scopes, UpsAreWhole,
                      Joined(ask)
               PROVE  answer.ok
    BY DEF NoIsNoPath
  <2> QED
    BY WalkNo, MeetsIsConnected DEF IInv, NoIsNotConnected
<1> QED
  BY <1>1, InvAlways, PTL

\* A "connected" served from the verdict cache was found for a question of the same kind
\* between the same two nets, up to their selects (walk.py:1105-1161).
THEOREM ServedIsCertain == Spec => []ServedIsOfItsClass
<1>1. IInv /\ CacheInv => ServedIsOfItsClass
  BY ServedAlike, MeetsIsConnected DEF ServedIsAlike, ServedIsOfItsClass
<1> QED
  BY <1>1, CacheAlways, PTL
-----------------------------------------------------------------------------
(* The text walk covers the logical walk.  A net the logical walk reaches   *)
(* is covered by the text walk when that reaches the net, or a whole net of *)
(* the class text conn knows it by; a port map kept as text, which only the *)
(* logical walk keeps when a net mixed into it is known, is covered when    *)
(* every net of it is.                                                      *)

EdgeWithin(g, s, n, v) == \E p \in Peers(g, s, Rep(g, s, n)) : v = StateKey(g, s, p, FALSE)
EdgeDown(g, s, n, v) ==
  \E c \in Children(g, s) : \E p \in ChildPorts(g, s, c, Rep(g, s, n)) : v = StateKey(g, c, p, TRUE)
EdgeHierDown(g, s, n, v) ==
  \E h \in g.hier[s] : h[1] = Rep(g, s, n) /\ h[2] \notin g.iface /\ v = StateKey(g, h[2], h[3], TRUE)
AboveOf(g, e, p, n) ==
  LET roots == PortMapRoots(g, p, e, n) IN IF roots = {} /\ e.text # None THEN {TextNet(e, n)} ELSE roots
EdgeAbove(g, s, n, v) ==
  /\ g.parent[s] \in Scopes
  /\ \E p \in Bases : /\ PortMatches(g, s, p, n)
                      /\ \E m \in AboveOf(g, g.ports[s][p], p, n) : v = StateKey(g, g.parent[s], m, TRUE)
EdgeHierUp(g, s, n, v) ==
  /\ g.parent[s] \in Scopes /\ s \notin g.iface
  /\ \E h \in g.hier[g.parent[s]] :
       h[2] = s /\ PortMatches(g, s, h[3][1], n) /\ v = StateKey(g, g.parent[s], h[1], FALSE)

\* The edges of a net, one kind after the other; only text conn has more of them.
LEMMA EdgeKinds ==
  ASSUME NEW g \in Graph, NEW s \in Scopes, NEW n \in Nets, NEW v
  PROVE  LET some == \/ EdgeWithin(g, s, n, v) \/ EdgeDown(g, s, n, v) \/ EdgeHierDown(g, s, n, v)
                     \/ EdgeAbove(g, s, n, v) \/ EdgeHierUp(g, s, n, v)
         IN  (some => v \in Edges(g, <<s, n>>)) /\ (v \in Edges(g, <<s, n>>) => some \/ ~ g.logical)
<1> DEFINE r == Rep(g, s, n)
           over == g.parent[s]
           up == UpTargets(g, Scopes, s, n)
           Key(t, m) == StateKey(g, t, m, TRUE)
           within == {StateKey(g, s, p, FALSE) : p \in Peers(g, s, r)}
           below == UNION {{<<c, p>> : p \in ChildPorts(g, s, c, r)} : c \in Children(g, s)}
           down == {Key(x[1], x[2]) : x \in {y \in below : y[1] \in Scopes}}
           through == IF g.logical THEN {}
                      ELSE UNION {LET out == BlackboxRoots(g, x[1], x[2]) IN
                                  {Key(s, m) : m \in out}
                                  \cup {Key(s, h[1]) : h \in {k \in g.hier[s] :
                                          k[2] = x[1] /\ \E m \in out : k[3] = <<m[1], None>>}}
                             : x \in below}
           hierDown == {Key(h[2], h[3]) : h \in {k \in g.hier[s] :
                          k[1] = r /\ k[2] \in Scopes /\ k[2] \notin g.iface}}
           above == {Key(over, m) : m \in up}
           hierUp == IF over \notin Scopes \/ s \in g.iface THEN {}
                     ELSE {StateKey(g, over, h[1], FALSE) : h \in {k \in g.hier[over] :
                             k[2] = s /\ PortMatches(g, s, k[3][1], n)}}
<1>1. Edges(g, <<s, n>>) = within \cup down \cup through \cup hierDown \cup above \cup hierUp
  <2>1. <<s, n>>[1] = s /\ <<s, n>>[2] = n
    OBVIOUS
  <2> QED
    BY <2>1 DEF Edges, Expand
<1>2. v \in within <=> EdgeWithin(g, s, n, v)
  BY DEF EdgeWithin
<1>3. v \in down <=> EdgeDown(g, s, n, v)
  <2>1. \A y : y \in below <=> \E c \in Children(g, s) : \E p \in ChildPorts(g, s, c, r) : y = <<c, p>>
    OBVIOUS
  <2>2. ASSUME v \in down PROVE EdgeDown(g, s, n, v)
    <3>1. PICK y \in below : v = Key(y[1], y[2])
      BY <2>2
    <3>2. PICK c \in Children(g, s) : \E p \in ChildPorts(g, s, c, r) : y = <<c, p>>
      BY <2>1, <3>1
    <3>3. PICK p \in ChildPorts(g, s, c, r) : y = <<c, p>>
      BY <3>2
    <3>4. v = StateKey(g, c, p, TRUE)
      BY <3>1, <3>3
    <3> QED
      BY <3>4 DEF EdgeDown
  <2>3. ASSUME EdgeDown(g, s, n, v) PROVE v \in down
    <3>1. PICK c \in Children(g, s) : \E p \in ChildPorts(g, s, c, r) : v = Key(c, p)
      BY <2>3 DEF EdgeDown
    <3>2. PICK p \in ChildPorts(g, s, c, r) : v = Key(c, p)
      BY <3>1
    <3>3. <<c, p>> \in below /\ c \in Scopes
      BY <2>1, ChildrenType
    <3> HIDE DEF below, Key
    <3> QED
      BY <3>2, <3>3
  <2> QED
    BY <2>2, <2>3
<1>4. v \in hierDown <=> EdgeHierDown(g, s, n, v)
  <2>1. \A h \in g.hier[s] : h[2] \in Scopes
    BY GraphType
  <2> QED
    BY <2>1 DEF EdgeHierDown
<1>5. v \in above <=> EdgeAbove(g, s, n, v)
  <2>1. \A m : m \in up <=> over \in Scopes /\ \E p \in Bases :
               PortMatches(g, s, p, n) /\ m \in AboveOf(g, g.ports[s][p], p, n)
    BY DEF UpTargets, AboveOf
  <2> HIDE DEF up
  <2> QED
    BY <2>1 DEF EdgeAbove
<1>6. v \in hierUp <=> EdgeHierUp(g, s, n, v)
  BY DEF EdgeHierUp
<1>7. g.logical => through = {}
  OBVIOUS
<1>8. g.logical \in BOOLEAN
  BY GraphType
<1> HIDE DEF within, down, through, hierDown, above, hierUp
<1> QED
  BY <1>1, <1>2, <1>3, <1>4, <1>5, <1>6, <1>7, <1>8

\* A design no bit of which has a name of its own.
Unselected(g) == g \in Graph /\ g.logical /\ Read(g) /\ Whole(g)
WholeNet(n) == <<n[1], None>>
ClassOf(g, s, n) == Get(g, s, WholeNet(n))

LEMMA NetKinds ==
  ASSUME NEW n \in Nets
  PROVE  /\ WholeNet(n) \in Nets /\ ~ Sliced(WholeNet(n)) /\ WholeNet(n)[1] = n[1]
         /\ ~ Sliced(n) => WholeNet(n) = n
         /\ Sliced(n) => n \in Wires /\ n[2] \in Bits
         /\ n \in Wires <=> n[1] \in Bases
         /\ n \in Wires => WholeNet(n) \in Wires /\ n[2] \in Bits \cup {None}
         /\ n \notin Wires => n[1] \in Texts /\ n = WholeNet(n)
<1>1. n \in Wires \/ n \in Texts \X {None}
  BY DEF Nets
<1>2. CASE n \in Wires
  <2>1. n[1] \in Bases /\ n[2] \in Bits \cup {None} /\ n = <<n[1], n[2]>>
    BY <1>2 DEF Wires
  <2>2. WholeNet(n) \in Wires
    BY <2>1 DEF WholeNet, Wires
  <2> QED
    BY <1>2, <2>1, <2>2 DEF WholeNet, Nets, Sliced
<1>3. CASE n \in Texts \X {None}
  <2>1. n[1] \in Texts /\ n[2] = None /\ n = <<n[1], None>>
    BY <1>3
  <2>2. n[1] \notin Bases
    BY <2>1, GraphAssumption
  <2>3. n \notin Wires
    BY <2>2 DEF Wires
  <2> QED
    BY <2>1, <2>2, <2>3 DEF WholeNet, Sliced
<1> QED
  BY <1>1, <1>2, <1>3

\* Classes: those of the logical walk, and the coarser ones of text conn.
LEMMA GetFacts ==
  ASSUME NEW g, Unselected(g), NEW s \in Scopes, NEW n \in Nets
  PROVE  /\ Get(g, s, n) \in Nets
         /\ ~ Sliced(n) => ~ Sliced(Get(g, s, n))
         /\ Sliced(n) => Get(g, s, n) = n
         /\ Get(g, s, Get(g, s, n)) = Get(g, s, n)
         /\ n \in Wires => Get(g, s, n) \in Wires
         /\ n \notin Wires => Get(g, s, n) = n
<1> DEFINE of == g.net_rep[s]
<1>1. of \in [Nets -> Wires \cup {None}]
  BY DEF Unselected, Graph
<1>2. of[n] # None => ~ Sliced(n) /\ ~ Sliced(of[n]) /\ n \in Wires /\ of[of[n]] = of[n]
  BY DEF Unselected, Read, Whole
<1>3. Wires \subseteq Nets
  BY DEF Nets
<1> HIDE DEF of
<1>4. Get(g, s, n) = IF of[n] # None THEN of[n] ELSE n
  BY DEF Get, of
<1>5. \A m : Get(g, s, m) = IF of[m] # None THEN of[m] ELSE m
  BY DEF Get, of
<1>6. CASE of[n] = None
  BY <1>4, <1>6
<1>7. CASE of[n] # None
  <2>1. Get(g, s, n) = of[n] /\ of[n] \in Wires
    BY <1>1, <1>4, <1>7
  <2>2. Get(g, s, of[n]) = of[n]
    BY <1>2, <1>5, <1>7
  <2> QED
    BY <1>2, <1>3, <1>7, <2>1, <2>2
<1> QED
  BY <1>6, <1>7

LEMMA ClassFacts ==
  ASSUME NEW g, Unselected(g), NEW s \in Scopes, NEW n \in Nets
  PROVE  /\ ClassOf(g, s, n) \in Nets /\ ~ Sliced(ClassOf(g, s, n))
         /\ ~ Sliced(n) => Get(g, s, n) = ClassOf(g, s, n)
         /\ ClassOf(g, s, Get(g, s, n)) = ClassOf(g, s, n)
         /\ Get(g, s, ClassOf(g, s, n)) = ClassOf(g, s, n)
         /\ ~ Sliced(Get(g, s, n)) => ~ Sliced(n)
         /\ n \in Wires => ClassOf(g, s, n) \in Wires
<1>1. WholeNet(n) \in Nets /\ ~ Sliced(WholeNet(n)) /\ (~ Sliced(n) => WholeNet(n) = n)
  BY NetKinds
<1>2. ClassOf(g, s, n) \in Nets /\ ~ Sliced(ClassOf(g, s, n))
      /\ Get(g, s, ClassOf(g, s, n)) = ClassOf(g, s, n)
  BY <1>1, GetFacts DEF ClassOf
<1>3. ~ Sliced(n) => Get(g, s, n) = ClassOf(g, s, n)
  BY <1>1 DEF ClassOf
<1>4. CASE Sliced(n)
  <2>1. Get(g, s, n) = n
    BY <1>4, GetFacts
  <2>2. n \in Wires => ClassOf(g, s, n) \in Wires
    BY <1>1, NetKinds, GetFacts DEF ClassOf
  <2> QED
    BY <1>2, <1>4, <2>1, <2>2
<1>5. CASE ~ Sliced(n)
  <2>1. Get(g, s, n) \in Nets /\ ~ Sliced(Get(g, s, n)) /\ Get(g, s, Get(g, s, n)) = Get(g, s, n)
    BY <1>5, GetFacts
  <2>2. WholeNet(Get(g, s, n)) = Get(g, s, n)
    BY <2>1, NetKinds
  <2>3. ClassOf(g, s, Get(g, s, n)) = Get(g, s, n)
    BY <2>1, <2>2 DEF ClassOf
  <2>4. n \in Wires => Get(g, s, n) \in Wires
    BY GetFacts
  <2> QED
    BY <1>2, <1>3, <1>5, <2>3, <2>4
<1> QED
  BY <1>4, <1>5

LEMMA AsTextType ==
  ASSUME NEW g, Unselected(g)
  PROVE  /\ g \in Graph /\ AsText(g) \in Graph /\ g.logical /\ ~ AsText(g).logical
         /\ AsText(g).parent = g.parent /\ AsText(g).net_rep = g.net_rep
         /\ AsText(g).assigned = g.assigned /\ AsText(g).adj = g.adj /\ AsText(g).ports = g.ports
         /\ AsText(g).hier = g.hier /\ AsText(g).iface = g.iface
         /\ \A s : Children(AsText(g), s) = Children(g, s)
         /\ \A s, n : Get(AsText(g), s, n) = Get(g, s, n)
         /\ \A s, r : Ties(AsText(g), s, r) = Ties(g, s, r)
<1> DEFINE h == AsText(g)
<1>1. g \in Graph /\ g.logical
  BY DEF Unselected
<1>2. /\ h \in Graph /\ ~ h.logical /\ h.parent = g.parent /\ h.net_rep = g.net_rep
      /\ h.assigned = g.assigned /\ h.adj = g.adj /\ h.ports = g.ports
      /\ h.hier = g.hier /\ h.iface = g.iface
  BY <1>1 DEF AsText, Graph
<1> HIDE DEF h
<1>3. \A s, n : Get(h, s, n) = Get(g, s, n)
  BY <1>2 DEF Get
<1>4. \A s : Children(h, s) = Children(g, s)
  BY <1>2 DEF Children
<1>5. \A s, r : Ties(h, s, r) = Ties(g, s, r)
  BY <1>2 DEF Ties
<1> QED
  BY <1>1, <1>2, <1>3, <1>4, <1>5 DEF h

\* To the logical walk a net is of its own class, to text conn of that of its whole net.
LEMMA RepFacts ==
  ASSUME NEW g, Unselected(g), NEW s \in Scopes, NEW n \in Nets
  PROVE  Rep(g, s, n) = Get(g, s, n) /\ Rep(AsText(g), s, n) = ClassOf(g, s, n)
<1> DEFINE of == g.net_rep[s]
           whole == <<n[1], None>>
           bits == {of[m] : m \in {<<n[1], b>> : b \in Bits} \cap g.assigned[s]} \ {None}
           RepOf(l) ==
             CASE n[1] \in Texts -> n
               [] n[1] \in Bases /\ of[n] # None -> of[n]
               [] n[1] \in Bases /\ of[n] = None /\ Sliced(n) /\ l -> n
               [] OTHER -> IF of[whole] # None THEN of[whole]
                           ELSE IF Cardinality(bits) = 1 THEN CHOOSE r \in bits : TRUE ELSE whole
<1>1. Rep(g, s, n) = RepOf(TRUE) /\ Rep(AsText(g), s, n) = RepOf(FALSE)
  <2>1. g.logical = TRUE /\ AsText(g).logical = FALSE
    BY AsTextType, GraphType DEF Unselected, Graph
  <2>2. AsText(g).net_rep = g.net_rep /\ AsText(g).assigned = g.assigned
    BY AsTextType
  <2>3. Rep(g, s, n) = RepOf(TRUE)
    BY <2>1 DEF Rep
  <2>4. Rep(AsText(g), s, n) = RepOf(FALSE)
    BY <2>1, <2>2 DEF Rep
  <2> QED
    BY <2>3, <2>4
<1>2. \A m \in Nets : of[m] # None => ~ Sliced(m) /\ m \in Wires
  BY DEF Unselected, Read, Whole
<1>3. bits = {}
  <2>1. \A m \in g.assigned[s] : of[m] # None /\ m \in Nets
    <3>1. \A m \in g.assigned[s] : of[m] # None
      BY DEF Unselected, Read
    <3>2. g.assigned[s] \subseteq Wires /\ Wires \subseteq Nets
      BY DEF Unselected, Graph, Nets
    <3> QED
      BY <3>1, <3>2
  <2>2. \A b \in Bits : Sliced(<<n[1], b>>)
    BY GraphAssumption DEF Sliced
  <2> QED
    BY <1>2, <2>1, <2>2
<1>4. Cardinality(bits) # 1
  <2>1. Cardinality({}) = 0
    BY FS_EmptySet
  <2> HIDE DEF bits
  <2> QED
    BY <1>3, <2>1
<1> HIDE DEF bits
<1>5. CASE n \notin Wires
  <2>1. n[1] \in Texts /\ n = whole /\ of[n] = None
    BY <1>2, <1>5, NetKinds DEF WholeNet
  <2> QED
    BY <1>1, <2>1 DEF Get, ClassOf, WholeNet
<1>6. CASE n \in Wires
  <2>1. n[1] \in Bases /\ n[1] \notin Texts
    BY <1>6, NetKinds, GraphAssumption
  <2>2. ~ Sliced(n) => n = whole
    BY NetKinds DEF WholeNet
  <2>3. Sliced(n) => of[n] = None
    BY <1>2
  <2>4. RepOf(TRUE) = IF of[n] # None THEN of[n] ELSE n
    BY <1>4, <2>1, <2>2
  <2>5. RepOf(FALSE) = IF of[whole] # None THEN of[whole] ELSE whole
    BY <1>4, <2>1, <2>2, <2>3
  <2> QED
    BY <1>1, <2>4, <2>5 DEF Get, ClassOf, WholeNet
<1> QED
  BY <1>5, <1>6

\* A port reached from class r of the parent, its map being a net.
PortOf(g, s, c, r, p, b) ==
  /\ g.ports[c][p].kind = "net" /\ b \in Bits \cup {None}
  /\ \E n \in Roots(g.ports[c][p]) :
       \/ \E m \in Mapped(n) : Get(g, s, m) = r /\ b \in {None, m[2]}
       \/ /\ b # None /\ ~ Sliced(Get(g, s, n)) /\ Get(g, s, n) # r
          /\ Get(g, s, <<Get(g, s, n)[1], b>>) = r

LEMMA ChildPortsAre ==
  ASSUME NEW g \in Graph, NEW s \in Scopes, NEW c \in Scopes, NEW r, NEW y,
         \A p \in Bases : g.ports[c][p].kind # "concat"
  PROVE  y \in ChildPorts(g, s, c, r) <=>
           \E p \in Bases : \E b \in Bits \cup {None} : y = <<p, b>> /\ PortOf(g, s, c, r, p, b)
<1> DEFINE Is(n) == Get(g, s, n) = r
           Port(p) == LET e == g.ports[c][p] IN
             CASE e.kind = "net" ->
                    {b \in Bits \cup {None} : \E n \in Roots(e) :
                       \/ \E m \in Mapped(n) : Is(m) /\ b \in {None, m[2]}
                       \/ LET k == Get(g, s, n) IN
                          b # None /\ ~ Sliced(k) /\ k # r /\ Is(<<k[1], b>>)}
               [] e.kind = "concat" ->
                    {i - 1 : i \in {j \in DOMAIN e.parts : e.parts[j][1] \in Bases /\ Is(e.parts[j])}}
               [] e.kind \in {"mixed", "const"} -> {}
<1>1. ChildPorts(g, s, c, r) = UNION {{<<p, b>> : b \in Port(p) \cap (Bits \cup {None})} : p \in Bases}
  BY DEF ChildPorts
<1>2. ASSUME NEW p \in Bases, NEW b
      PROVE  b \in Port(p) \cap (Bits \cup {None}) <=> PortOf(g, s, c, r, p, b)
  <2>1. g.ports[c][p].kind \in {"net", "mixed", "const"}
    <3>1. g.ports[c][p] \in Expr
      BY GraphType
    <3> QED
      BY <3>1 DEF Expr
  <2>2. CASE g.ports[c][p].kind = "net"
    BY <2>2 DEF PortOf
  <2>3. CASE g.ports[c][p].kind # "net"
    <3>1. Port(p) = {}
      BY <2>1, <2>3
    <3> HIDE DEF Port
    <3> QED
      BY <2>3, <3>1 DEF PortOf
  <2> QED
    BY <2>2, <2>3
<1> HIDE DEF Port
<1>3. y \in ChildPorts(g, s, c, r) <=>
        \E p \in Bases : \E b \in Port(p) \cap (Bits \cup {None}) : y = <<p, b>>
  BY <1>1
<1> QED
  BY <1>2, <1>3

\* A bit is below a port where its net is below the whole port.
LEMMA PortsBelow ==
  ASSUME NEW g, Unselected(g), NEW s \in Scopes, NEW c \in Scopes, NEW n \in Nets,
         NEW y \in ChildPorts(g, s, c, Get(g, s, n))
  PROVE  LET below == ChildPorts(AsText(g), s, c, ClassOf(g, s, n))
         IN  y \in Wires /\ (y \in below \/ WholeNet(y) \in below)
<1> DEFINE h == AsText(g)
           r == Get(g, s, n)
           R == ClassOf(g, s, n)
<1>1. g \in Graph /\ h \in Graph /\ h.ports = g.ports /\ \A k : Get(h, s, k) = Get(g, s, k)
  BY AsTextType
<1>2. \A p \in Bases : /\ g.ports[c][p].kind # "concat"
                       /\ \A k \in Roots(g.ports[c][p]) : k \in Nets /\ ~ Sliced(k)
  <2>1. \A p \in Bases : g.ports[c][p] \in Expr
    BY <1>1, GraphType
  <2> QED
    BY <2>1, RootsType DEF Unselected, Whole
<1> HIDE DEF h
<1>3. PICK p \in Bases, b \in Bits \cup {None} : y = <<p, b>> /\ PortOf(g, s, c, r, p, b)
  BY <1>1, <1>2, ChildPortsAre
<1>4. \A k : \A q \in Bases, d \in Bits \cup {None} :
       PortOf(g, s, c, k, q, d) => <<q, d>> \in ChildPorts(h, s, c, k)
  <2>1. \A q, d, k : PortOf(g, s, c, k, q, d) => PortOf(h, s, c, k, q, d)
    BY <1>1 DEF PortOf
  <2>2. \A q \in Bases : h.ports[c][q].kind # "concat"
    BY <1>1, <1>2
  <2> QED
    BY <1>1, <2>1, <2>2, ChildPortsAre
<1>5. y \in Wires /\ WholeNet(y) = <<p, None>>
  BY <1>3 DEF Wires, WholeNet
<1>6. CASE r = R
  BY <1>3, <1>4, <1>5, <1>6 DEF h
<1>7. CASE r # R
  <2>1. Sliced(n) /\ r = n /\ ~ Sliced(R) /\ n \in Wires
    BY <1>7, ClassFacts, GetFacts, NetKinds
  <2>2. PICK k \in Roots(g.ports[c][p]) :
          \/ \E m \in Mapped(k) : Get(g, s, m) = n /\ b \in {None, m[2]}
          \/ /\ b # None /\ ~ Sliced(Get(g, s, k)) /\ Get(g, s, k) # n
             /\ Get(g, s, <<Get(g, s, k)[1], b>>) = n
    BY <1>3, <2>1 DEF PortOf
  <2>3. k \in Nets /\ ~ Sliced(k) /\ k \in Wires
    <3>1. g.ports[c][p].kind = "net" /\ g.ports[c][p] \in Expr
      BY <1>1, <1>3, GraphType DEF PortOf
    <3>2. k[1] \in Bases
      BY <3>1, RootsType DEF Roots
    <3> QED
      BY <1>2, <3>2, NetKinds
  <2>4. Get(g, s, k) = R
    <3>1. CASE \E m \in Mapped(k) : Get(g, s, m) = n /\ b \in {None, m[2]}
      <4>1. PICK m \in Mapped(k) : Get(g, s, m) = n
        BY <3>1
      <4>2. m[1] = k[1] /\ m \in Nets
        BY <2>3, <4>1, NetKinds DEF Mapped, Wires, Nets
      <4>3. m = n
        BY <2>1, <4>1, <4>2, GetFacts
      <4>4. WholeNet(n) = k
        BY <2>3, <4>2, <4>3, NetKinds DEF WholeNet
      <4> QED
        BY <4>4 DEF ClassOf
    <3>2. CASE /\ b # None /\ ~ Sliced(Get(g, s, k)) /\ Get(g, s, k) # n
               /\ Get(g, s, <<Get(g, s, k)[1], b>>) = n
      <4> DEFINE j == Get(g, s, k)
      <4>1. j \in Wires /\ j \in Nets /\ ~ Sliced(j) /\ Get(g, s, j) = j
        BY <2>3, <3>2, GetFacts
      <4> HIDE DEF j
      <4>2. <<j[1], b>> \in Nets /\ Sliced(<<j[1], b>>)
        BY <1>3, <3>2, <4>1, NetKinds DEF Nets, Wires, Sliced
      <4>3. <<j[1], b>> = n
        BY <3>2, <4>2, GetFacts DEF j
      <4>4. WholeNet(n) = j
        BY <4>1, <4>3, NetKinds DEF WholeNet
      <4> QED
        BY <4>1, <4>4 DEF ClassOf, j
    <3> QED
      BY <2>2, <3>1, <3>2
  <2>5. PortOf(g, s, c, R, p, None)
    <3>1. k \in Mapped(k)
      <4>1. k = <<k[1], None>>
        BY <2>3, NetKinds DEF WholeNet
      <4> QED
        BY <2>3, <4>1 DEF Mapped
    <3> QED
      BY <1>3, <2>2, <2>4, <3>1 DEF PortOf
  <2>6. WholeNet(y) \in ChildPorts(h, s, c, R)
    BY <1>4, <1>5, <2>5
  <2> QED
    BY <1>5, <2>6 DEF h
<1> QED
  BY <1>6, <1>7 DEF h

\* A net of T that stands for net n: n, or a whole net of the class text conn has it in.
Anchors(g, T, s, n, a) == <<s, a>> \in T /\ (a = n \/ (~ Sliced(a) /\ Get(g, s, a) = ClassOf(g, s, n)))
TextCovered(g, T, s, n) ==
  \E c \in Children(g, s), p \in Bases :
    /\ g.ports[c][p].text # None /\ n = <<g.ports[c][p].text, None>>
    /\ IF g.ports[c][p].parts = <<>> THEN <<s, n>> \in T
       ELSE \A m \in Roots(g.ports[c][p]) : <<s, Get(g, s, m)>> \in T
Covered(g, T, s, n) ==
  IF n \in Wires THEN \E a \in Nets : Anchors(g, T, s, n, a) ELSE TextCovered(g, T, s, n)

LEMMA KeyFacts ==
  ASSUME NEW g, Unselected(g), NEW s \in Scopes, NEW n \in Nets
  PROVE  /\ StateKey(g, s, n, TRUE) = <<s, Get(g, s, n)>>
         /\ StateKey(g, s, n, FALSE) = <<s, Get(g, s, n)>>
         /\ StateKey(AsText(g), s, n, FALSE) = <<s, ClassOf(g, s, n)>>
         /\ StateKey(AsText(g), s, n, TRUE) = IF Sliced(n) THEN <<s, n>> ELSE <<s, ClassOf(g, s, n)>>
BY AsTextType, RepFacts DEF StateKey

LEMMA AnchorClass ==
  ASSUME NEW g, Unselected(g), NEW T \in SUBSET States, NEW s \in Scopes, NEW n \in Nets, NEW a,
         Anchors(g, T, s, n, a)
  PROVE  a \in Nets /\ ClassOf(g, s, a) = ClassOf(g, s, n)
<1>1. a \in Nets
  BY DEF Anchors, States
<1>2. ~ Sliced(a) => ClassOf(g, s, a) = Get(g, s, a)
  BY <1>1, ClassFacts
<1> QED
  BY <1>1, <1>2 DEF Anchors

\* What text conn reaches by a key covers the net the logical walk reaches by it.
LEMMA KeyCovers ==
  ASSUME NEW g, Unselected(g), NEW T \in SUBSET States, NEW s \in Scopes, NEW n \in Wires,
         <<s, ClassOf(g, s, n)>> \in T \/ StateKey(AsText(g), s, n, TRUE) \in T
  PROVE  Covered(g, T, s, Get(g, s, n))
<1> DEFINE k == Get(g, s, n)
<1>1. n \in Nets
  BY DEF Nets
<1>2. k \in Wires /\ k \in Nets /\ ClassOf(g, s, k) = ClassOf(g, s, n) /\ (Sliced(n) => k = n)
  BY <1>1, GetFacts, ClassFacts
<1>3. /\ ClassOf(g, s, n) \in Nets /\ ~ Sliced(ClassOf(g, s, n))
      /\ Get(g, s, ClassOf(g, s, n)) = ClassOf(g, s, n)
  BY <1>1, ClassFacts
<1>4. CASE <<s, ClassOf(g, s, n)>> \in T
  <2>1. Anchors(g, T, s, k, ClassOf(g, s, n))
    BY <1>2, <1>3, <1>4 DEF Anchors
  <2> QED
    BY <1>2, <1>3, <2>1 DEF Covered
<1>5. CASE <<s, ClassOf(g, s, n)>> \notin T
  <2>1. Sliced(n) /\ <<s, n>> \in T
    BY <1>1, <1>5, KeyFacts
  <2>2. Anchors(g, T, s, k, n)
    BY <1>2, <2>1 DEF Anchors
  <2> QED
    BY <1>1, <1>2, <2>2 DEF Covered
<1> QED
  BY <1>4, <1>5

\* A port the logical walk finds net n on, text conn finds the net that stands for it on.
LEMMA PortCovers ==
  ASSUME NEW g, Unselected(g), NEW T \in SUBSET States, NEW s \in Scopes, NEW n \in Wires, NEW a,
         Anchors(g, T, s, n, a), NEW p \in Bases, PortMatches(g, s, p, n)
  PROVE  PortMatches(AsText(g), s, p, a)
<1> DEFINE q == <<p, None>>
<1>1. n \in Nets /\ a \in Nets /\ ClassOf(g, s, a) = ClassOf(g, s, n)
  BY AnchorClass DEF Nets
<1>2. q \in Nets /\ ~ Sliced(q)
  BY DEF Nets, Wires, Sliced
<1>3. Rep(AsText(g), s, a) = ClassOf(g, s, n)
  BY <1>1, RepFacts
<1>4. Rep(AsText(g), s, q) = Get(g, s, q) /\ Rep(g, s, q) = Get(g, s, q) /\ Rep(g, s, n) = Get(g, s, n)
  BY <1>1, <1>2, RepFacts, ClassFacts
<1>5. ~ Sliced(Get(g, s, q))
  BY <1>2, GetFacts
<1> HIDE DEF q
<1>6. n[1] = p \/ Get(g, s, q) = Get(g, s, n)
  BY <1>4 DEF PortMatches, q
<1>7. CASE n[1] = p
  <2>1. ClassOf(g, s, n) = Get(g, s, q)
    BY <1>7 DEF ClassOf, WholeNet, q
  <2> QED
    BY <1>3, <1>4, <2>1 DEF PortMatches, q
<1>8. CASE Get(g, s, q) = Get(g, s, n)
  <2>1. ClassOf(g, s, n) = Get(g, s, n)
    BY <1>1, <1>5, <1>8, ClassFacts
  <2> QED
    BY <1>3, <1>4, <1>8, <2>1 DEF PortMatches, q
<1> QED
  BY <1>6, <1>7, <1>8

CoveredBy(g, T) == {u \in States : Covered(g, T, u[1], u[2])}

LEMMA KeyIn ==
  ASSUME NEW g, Unselected(g), NEW T \in SUBSET States, NEW s \in Scopes, NEW n \in Wires, NEW preserve \in BOOLEAN,
         <<s, ClassOf(g, s, n)>> \in T \/ StateKey(AsText(g), s, n, TRUE) \in T
  PROVE  StateKey(g, s, n, preserve) \in CoveredBy(g, T)
<1>1. n \in Nets
  BY DEF Nets
<1>2. StateKey(g, s, n, preserve) = <<s, Get(g, s, n)>> /\ <<s, Get(g, s, n)>> \in States
  <2>1. Get(g, s, n) \in Nets
    BY <1>1, GetFacts
  <2>2. StateKey(g, s, n, preserve) = <<s, Get(g, s, n)>>
    BY <1>1, KeyFacts
  <2> QED
    BY <2>1, <2>2 DEF States
<1>3. Covered(g, T, s, Get(g, s, n))
  BY KeyCovers
<1> QED
  BY <1>2, <1>3 DEF CoveredBy

\* The ties of a class are few enough for text conn to follow them all.
LEMMA PeersAll ==
  ASSUME NEW g, Unselected(g), NEW s \in Scopes, NEW r \in Nets
  PROVE  Peers(AsText(g), s, r) = Ties(g, s, r)
<1> DEFINE all == Ties(g, s, r)
           Before(p) == {q \in all : Order[q] < Order[p]}
<1>1. all \subseteq Nets /\ IsFiniteSet(all) /\ Cardinality(all) <= FanoutCap
  <2>1. IsFiniteSet(Nets)
    <3>1. IsFiniteSet(Bits \cup {None})
      BY FiniteAssumption, FS_Singleton, FS_Union
    <3>2. IsFiniteSet(Bases \X (Bits \cup {None})) /\ IsFiniteSet(Texts \X {None})
      BY <3>1, FiniteAssumption, FS_Singleton, FS_Product
    <3> QED
      BY <3>2, FS_Union DEF Nets, Wires
  <2>2. all \subseteq Nets
    BY DEF Ties
  <2> QED
    BY <2>1, <2>2, FS_Subset DEF Unselected, Whole
<1>2. ASSUME NEW p \in all
      PROVE  Cardinality(Before(p)) < FanoutCap
  <2>1. Order[p] \in Nat
    BY <1>1, GraphAssumption
  <2>2. Before(p) \in SUBSET all /\ Before(p) # all
    BY <2>1
  <2>3. Cardinality(Before(p)) <= Cardinality(all) /\ Cardinality(Before(p)) # Cardinality(all)
    BY <1>1, <2>2, FS_Subset
  <2>4. Cardinality(Before(p)) \in Nat /\ Cardinality(all) \in Nat /\ FanoutCap \in Nat
    BY <1>1, <2>2, FS_Subset, FS_CardinalityType, GraphAssumption
  <2> HIDE DEF Before, all
  <2> QED
    BY <1>1, <2>3, <2>4
<1>3. Ties(AsText(g), s, r) = all
  BY AsTextType
<1>4. Peers(AsText(g), s, r) = {p \in all : AsText(g).logical \/ Cardinality(Before(p)) < FanoutCap}
  BY <1>3 DEF Peers, First
<1> HIDE DEF Before, all
<1> QED
  BY <1>2, <1>4 DEF all

LEMMA TextEdge ==
  ASSUME NEW g, Unselected(g), NEW T \in SUBSET States, ClosedUnder(AsText(g), T),
         NEW s \in Scopes, NEW a \in Nets, <<s, a>> \in T, NEW v,
         \/ EdgeWithin(AsText(g), s, a, v) \/ EdgeDown(AsText(g), s, a, v)
         \/ EdgeHierDown(AsText(g), s, a, v) \/ EdgeAbove(AsText(g), s, a, v)
         \/ EdgeHierUp(AsText(g), s, a, v)
  PROVE  v \in T
<1>1. AsText(g) \in Graph
  BY AsTextType
<1>2. v \in Edges(AsText(g), <<s, a>>)
  BY <1>1, EdgeKinds
<1> QED
  BY <1>2 DEF ClosedUnder

LEMMA StepWithin ==
  ASSUME NEW g, Unselected(g), NEW T \in SUBSET States, ClosedUnder(AsText(g), T),
         NEW s \in Scopes, NEW n \in Wires, NEW a, Anchors(g, T, s, n, a), NEW v, EdgeWithin(g, s, n, v)
  PROVE  v \in CoveredBy(g, T)
<1>1. n \in Nets /\ a \in Nets /\ <<s, a>> \in T /\ ClassOf(g, s, a) = ClassOf(g, s, n)
  BY AnchorClass DEF Anchors, Nets
<1>2. PICK p \in Peers(g, s, Get(g, s, n)) : v = StateKey(g, s, p, FALSE)
  BY <1>1, RepFacts DEF EdgeWithin
<1>3. p \in Ties(g, s, Get(g, s, n))
  BY <1>2 DEF Peers
<1>4. ~ Sliced(Get(g, s, n)) /\ p \in Wires
  <2>1. <<Get(g, s, n), p>> \in g.adj[s]
    BY <1>3 DEF Ties
  <2>2. g.adj[s] \subseteq Wires \X Wires
    BY DEF Unselected, Graph
  <2>3. \A t \in g.adj[s] : ~ Sliced(t[1])
    BY DEF Unselected, Whole
  <2> QED
    BY <2>1, <2>2, <2>3
<1>5. Get(g, s, n) = ClassOf(g, s, n) /\ Get(g, s, n) \in Nets
  BY <1>1, <1>4, ClassFacts, GetFacts
<1>6. p \in Peers(AsText(g), s, Rep(AsText(g), s, a))
  BY <1>1, <1>3, <1>5, PeersAll, RepFacts
<1>7. StateKey(AsText(g), s, p, FALSE) \in T
  BY <1>1, <1>6, TextEdge DEF EdgeWithin
<1>8. StateKey(AsText(g), s, p, FALSE) = <<s, ClassOf(g, s, p)>>
  BY <1>4, KeyFacts DEF Nets
<1> QED
  BY <1>2, <1>4, <1>7, <1>8, KeyIn

LEMMA StepDown ==
  ASSUME NEW g, Unselected(g), NEW T \in SUBSET States, ClosedUnder(AsText(g), T),
         NEW s \in Scopes, NEW n \in Wires, NEW a, Anchors(g, T, s, n, a), NEW v, EdgeDown(g, s, n, v)
  PROVE  v \in CoveredBy(g, T)
<1>1. n \in Nets /\ a \in Nets /\ <<s, a>> \in T /\ ClassOf(g, s, a) = ClassOf(g, s, n)
  BY AnchorClass DEF Anchors, Nets
<1>2. PICK c \in Children(g, s) : \E y \in ChildPorts(g, s, c, Get(g, s, n)) : v = StateKey(g, c, y, TRUE)
  BY <1>1, RepFacts DEF EdgeDown
<1>3. PICK y \in ChildPorts(g, s, c, Get(g, s, n)) : v = StateKey(g, c, y, TRUE)
  BY <1>2
<1>4. c \in Scopes /\ c \in Children(AsText(g), s)
  BY ChildrenType, AsTextType
<1>5. /\ y \in Wires /\ y \in Nets
      /\ \E z \in {y, WholeNet(y)} : z \in ChildPorts(AsText(g), s, c, Rep(AsText(g), s, a))
  <2>1. Rep(AsText(g), s, a) = ClassOf(g, s, n)
    BY <1>1, RepFacts
  <2> QED
    BY <1>1, <1>3, <1>4, <2>1, PortsBelow DEF Nets
<1>6. PICK z \in {y, WholeNet(y)} : z \in ChildPorts(AsText(g), s, c, Rep(AsText(g), s, a))
  BY <1>5
<1>7. StateKey(AsText(g), c, z, TRUE) \in T
  BY <1>1, <1>4, <1>6, TextEdge DEF EdgeDown
<1>8. z = y \/ StateKey(AsText(g), c, z, TRUE) = <<c, ClassOf(g, c, y)>>
  <2>1. CASE z = WholeNet(y)
    <3>1. z \in Nets /\ ~ Sliced(z) /\ WholeNet(z) = z
      BY <1>5, <2>1, NetKinds
    <3>2. StateKey(AsText(g), c, z, TRUE) = <<c, ClassOf(g, c, z)>>
      BY <1>4, <3>1, KeyFacts
    <3>3. ClassOf(g, c, z) = ClassOf(g, c, y)
      BY <2>1, <3>1 DEF ClassOf
    <3> QED
      BY <3>2, <3>3
  <2> QED
    BY <1>6, <2>1
<1> QED
  BY <1>3, <1>4, <1>5, <1>7, <1>8, KeyIn

LEMMA StepHierDown ==
  ASSUME NEW g, Unselected(g), NEW T \in SUBSET States, ClosedUnder(AsText(g), T),
         NEW s \in Scopes, NEW n \in Wires, NEW a, Anchors(g, T, s, n, a), NEW v, EdgeHierDown(g, s, n, v)
  PROVE  v \in CoveredBy(g, T)
<1>1. n \in Nets /\ a \in Nets /\ <<s, a>> \in T /\ ClassOf(g, s, a) = ClassOf(g, s, n)
  BY AnchorClass DEF Anchors, Nets
<1>2. PICK k \in g.hier[s] : k[1] = Get(g, s, n) /\ k[2] \notin g.iface /\ v = StateKey(g, k[2], k[3], TRUE)
  BY <1>1, RepFacts DEF EdgeHierDown
<1>3. k[2] \in Scopes /\ k[3] \in Wires /\ ~ Sliced(Get(g, s, n))
  <2>1. g.hier[s] \subseteq Wires \X Scopes \X Wires
    BY DEF Unselected, Graph
  <2>2. \A h \in g.hier[s] : ~ Sliced(h[1])
    BY DEF Unselected, Whole
  <2> QED
    BY <1>2, <2>1, <2>2
<1>4. Get(g, s, n) = Rep(AsText(g), s, a)
  BY <1>1, <1>3, ClassFacts, RepFacts
<1>5. StateKey(AsText(g), k[2], k[3], TRUE) \in T
  <2>1. k \in AsText(g).hier[s] /\ k[2] \notin AsText(g).iface
    BY <1>2, AsTextType
  <2> QED
    BY <1>1, <1>2, <1>4, <2>1, TextEdge DEF EdgeHierDown
<1> QED
  BY <1>2, <1>3, <1>5, KeyIn

LEMMA StepHierUp ==
  ASSUME NEW g, Unselected(g), NEW T \in SUBSET States, ClosedUnder(AsText(g), T),
         NEW s \in Scopes, NEW n \in Wires, NEW a, Anchors(g, T, s, n, a), NEW v, EdgeHierUp(g, s, n, v)
  PROVE  v \in CoveredBy(g, T)
<1>1. a \in Nets /\ <<s, a>> \in T
  BY DEF Anchors, States
<1> DEFINE over == g.parent[s]
<1>2. over \in Scopes /\ s \notin g.iface
  BY DEF EdgeHierUp
<1>3. PICK k \in g.hier[over] :
        k[2] = s /\ PortMatches(g, s, k[3][1], n) /\ v = StateKey(g, over, k[1], FALSE)
  BY DEF EdgeHierUp
<1>4. k[1] \in Wires /\ k[3][1] \in Bases
  <2>1. g.hier[over] \subseteq Wires \X Scopes \X Wires
    BY <1>2 DEF Unselected, Graph
  <2> QED
    BY <1>3, <2>1 DEF Wires
<1>5. PortMatches(AsText(g), s, k[3][1], a)
  BY <1>3, <1>4, PortCovers
<1>6. StateKey(AsText(g), over, k[1], FALSE) \in T
  <2>1. AsText(g).parent[s] = over /\ s \notin AsText(g).iface /\ k \in AsText(g).hier[over]
    BY <1>2, <1>3, AsTextType
  <2> QED
    BY <1>1, <1>2, <1>3, <1>5, <2>1, TextEdge DEF EdgeHierUp
<1>7. StateKey(AsText(g), over, k[1], FALSE) = <<over, ClassOf(g, over, k[1])>>
  BY <1>2, <1>4, KeyFacts DEF Nets
<1> HIDE DEF over
<1>8. StateKey(g, over, k[1], FALSE) \in CoveredBy(g, T)
  BY <1>2, <1>4, <1>6, <1>7, KeyIn
<1> QED
  BY <1>3, <1>8

\* What is behind a port, the maps of the design being nets of their own, mixed or constants.
LEMMA MapFacts ==
  ASSUME NEW g, Unselected(g), NEW s \in Scopes, NEW p \in Bases, NEW e, e = g.ports[s][p]
  PROVE  /\ e \in Expr /\ e.kind # "concat" /\ \A m \in Roots(e) : m \in Wires /\ m \in Nets /\ ~ Sliced(m)
         /\ e.parts # <<>> => e.parts[1] \in Roots(e) /\ e.kind \in {"net", "mixed"}
<1>1. e \in Expr /\ e.kind # "concat" /\ \A m \in Roots(e) : m \in Nets /\ ~ Sliced(m)
  <2>1. e \in Expr
    BY AsTextType, GraphType
  <2> QED
    BY <2>1, RootsType DEF Unselected, Whole
<1>2. e.kind \in {"net", "concat", "mixed", "const"} /\ e.parts \in Seq(Nets)
  BY <1>1 DEF Expr
<1>3. \A m \in Roots(e) : m \in Wires
  <2>1. \A m \in Roots(e) : m[1] \in Bases
    BY <1>1, RootsType DEF Roots
  <2> QED
    BY <1>1, <2>1, NetKinds
<1>4. ASSUME e.parts # <<>>
      PROVE  e.parts[1] \in Roots(e) /\ e.kind \in {"net", "mixed"}
  <2>1. 1 \in DOMAIN e.parts
    BY <1>2, <1>4
  <2>2. e.parts[1] \in Roots(e)
    BY <2>1 DEF Roots
  <2>3. e.kind # "const"
    BY <1>1, <1>4 DEF Expr
  <2> QED
    BY <1>1, <1>2, <2>2, <2>3
<1> QED
  BY <1>1, <1>3, <1>4

OwnBit(p, n) == n[1] = p /\ Sliced(n)

LEMMA RootsNone ==
  ASSUME NEW g, NEW p, NEW e, NEW n, e.parts = <<>>
  PROVE  PortMapRoots(g, p, e, n) = {}
BY DEF PortMapRoots

LEMMA RootsNet ==
  ASSUME NEW g, NEW p, NEW e, NEW n, e.parts # <<>>, e.kind = "net", ~ Sliced(e.parts[1])
  PROVE  PortMapRoots(g, p, e, n) = IF OwnBit(p, n) THEN {<<e.parts[1][1], n[2]>>} ELSE {e.parts[1]}
BY DEF PortMapRoots, OwnBit

LEMMA RootsMixed ==
  ASSUME NEW g, NEW p, NEW e, NEW n, e.parts # <<>>, e.kind = "mixed", \A k \in Roots(e) : ~ Sliced(k)
  PROVE  PortMapRoots(g, p, e, n) = IF OwnBit(p, n) THEN {<<m[1], n[2]>> : m \in Roots(e)}
                                    ELSE IF g.logical THEN {} ELSE Roots(e)
<1>1. {k \in Roots(e) : ~ Sliced(k)} = Roots(e)
  OBVIOUS
<1> QED
  BY <1>1 DEF PortMapRoots, OwnBit

LEMMA StepAbove ==
  ASSUME NEW g, Unselected(g), NEW T \in SUBSET States, ClosedUnder(AsText(g), T),
         NEW s \in Scopes, NEW n \in Wires, NEW a, Anchors(g, T, s, n, a), NEW v, EdgeAbove(g, s, n, v)
  PROVE  v \in CoveredBy(g, T)
<1> DEFINE h == AsText(g)
           over == g.parent[s]
<1>1. a \in Nets /\ <<s, a>> \in T /\ n \in Nets
  BY DEF Anchors, States, Nets
<1>2. over \in Scopes
  BY DEF EdgeAbove
<1>3. PICK p \in Bases : /\ PortMatches(g, s, p, n)
                         /\ \E m \in AboveOf(g, g.ports[s][p], p, n) : v = StateKey(g, over, m, TRUE)
  BY DEF EdgeAbove
<1> DEFINE e == g.ports[s][p]
           bit == OwnBit(p, n)
<1>4. PICK m \in AboveOf(g, e, p, n) : v = StateKey(g, over, m, TRUE)
  BY <1>3
<1>5. /\ h.parent[s] = over /\ h.ports[s][p] = e /\ ~ h.logical /\ g.logical
      /\ s \in Children(g, over)
  <2>1. s \in Children(g, over)
    BY DEF Children
  <2> QED
    BY <2>1, AsTextType
<1>6. \A k \in AboveOf(h, e, p, a) : StateKey(h, over, k, TRUE) \in T
  <2>1. PortMatches(h, s, p, a)
    BY <1>3, PortCovers
  <2>2. \A k \in AboveOf(h, e, p, a) : EdgeAbove(h, s, a, StateKey(h, over, k, TRUE))
    BY <1>2, <1>5, <2>1 DEF EdgeAbove
  <2> HIDE DEF h
  <2> QED
    BY <1>1, <2>2, TextEdge DEF h
<1>7. /\ e \in Expr /\ \A k \in Roots(e) : k \in Wires /\ k \in Nets /\ ~ Sliced(k)
      /\ e.parts # <<>> => e.parts[1] \in Roots(e) /\ e.kind \in {"net", "mixed"}
  BY MapFacts
<1>8. \A k \in Roots(e) : ClassOf(g, over, k) = Get(g, over, k) /\ StateKey(h, over, k, TRUE) = <<over, Get(g, over, k)>>
  <2>1. \A k \in Roots(e) : ClassOf(g, over, k) = Get(g, over, k)
    BY <1>2, <1>7, ClassFacts
  <2> HIDE DEF e, over
  <2> QED
    BY <1>2, <1>7, <2>1, KeyFacts
<1>9. \A k \in Roots(e) : bit => /\ <<k[1], n[2]>> \in Wires
                                 /\ ClassOf(g, over, <<k[1], n[2]>>) = ClassOf(g, over, k)
  <2>1. ASSUME NEW k \in Roots(e), bit
        PROVE  <<k[1], n[2]>> \in Wires /\ WholeNet(<<k[1], n[2]>>) = WholeNet(k)
    BY <1>1, <1>7, <2>1, NetKinds DEF Wires, WholeNet, OwnBit
  <2> QED
    BY <2>1 DEF ClassOf
<1> HIDE DEF h, over
<1>10. ASSUME NEW q, e.text # None, q = <<e.text, None>>
       PROVE  /\ q \in Nets /\ q \notin Wires /\ <<over, q>> \in States
              /\ StateKey(g, over, q, TRUE) = <<over, q>> /\ StateKey(h, over, q, TRUE) = <<over, q>>
  <2>1. e.text \in Texts
    BY <1>7, <1>10, RootsType
  <2>2. q \in Nets /\ q \notin Wires
    BY <1>10, <2>1, GraphAssumption DEF Nets, Wires
  <2>3. ClassOf(g, over, q) = q /\ Get(g, over, q) = q /\ ~ Sliced(q)
    <3>1. WholeNet(q) = q /\ ~ Sliced(q)
      BY <1>10 DEF WholeNet, Sliced
    <3> QED
      BY <1>2, <2>2, <3>1, GetFacts DEF ClassOf
  <2>4. StateKey(g, over, q, TRUE) = <<over, q>>
    BY <1>2, <2>2, <2>3, KeyFacts
  <2>5. StateKey(h, over, q, TRUE) = <<over, q>>
    BY <1>2, <2>2, <2>3, KeyFacts DEF h
  <2> QED
    BY <1>2, <2>2, <2>4, <2>5 DEF States
<1> HIDE DEF e
<1>11. CASE e.parts = <<>>
  <2>1. PortMapRoots(g, p, e, n) = {} /\ PortMapRoots(h, p, e, a) = {}
    BY <1>11, RootsNone
  <2>2. e.text # None /\ m = <<e.text, None>> /\ m \in AboveOf(h, e, p, a)
    BY <1>4, <2>1 DEF AboveOf, TextNet
  <2>3. <<over, m>> \in T /\ v = <<over, m>> /\ m \notin Wires /\ <<over, m>> \in States
    BY <1>4, <1>6, <1>10, <2>2
  <2>4. TextCovered(g, T, over, m)
    BY <1>5, <1>11, <2>2, <2>3 DEF TextCovered, e
  <2> QED
    BY <2>3, <2>4 DEF CoveredBy, Covered
<1>12. CASE e.parts # <<>> /\ e.kind = "net"
  <2> DEFINE k == e.parts[1]
             kb == <<k[1], n[2]>>
  <2>1. k \in Roots(e) /\ k \in Wires
    BY <1>7, <1>12
  <2>2. PortMapRoots(g, p, e, n) = IF bit THEN {kb} ELSE {k}
    BY <1>7, <1>12, RootsNet
  <2>3. PortMapRoots(h, p, e, a) = IF OwnBit(p, a) THEN {<<k[1], a[2]>>} ELSE {k}
    BY <1>7, <1>12, RootsNet
  <2>4. m = IF bit THEN kb ELSE k
    BY <1>4, <2>2 DEF AboveOf
  <2>5. m \in Wires /\ ClassOf(g, over, m) = ClassOf(g, over, k)
    BY <1>9, <2>1, <2>4
  <2>6. CASE a = n
    <3>1. m \in AboveOf(h, e, p, a)
      BY <2>3, <2>4, <2>6 DEF AboveOf
    <3>2. StateKey(h, over, m, TRUE) \in T
      BY <1>6, <3>1
    <3> QED
      BY <1>2, <1>4, <2>5, <3>2, KeyIn DEF h
  <2>7. CASE ~ Sliced(a)
    <3>1. k \in AboveOf(h, e, p, a)
      BY <2>3, <2>7 DEF AboveOf, OwnBit
    <3>2. <<over, ClassOf(g, over, m)>> \in T
      BY <1>6, <1>8, <2>1, <2>5, <3>1
    <3> QED
      BY <1>2, <1>4, <2>5, <3>2, KeyIn
  <2> QED
    BY <2>6, <2>7 DEF Anchors
<1>13. CASE e.parts # <<>> /\ e.kind = "mixed"
  <2>1. PortMapRoots(g, p, e, n) = IF bit THEN {<<k[1], n[2]>> : k \in Roots(e)} ELSE {}
    BY <1>5, <1>7, <1>13, RootsMixed
  <2>2. PortMapRoots(h, p, e, a) = IF OwnBit(p, a) THEN {<<k[1], a[2]>> : k \in Roots(e)} ELSE Roots(e)
    BY <1>5, <1>7, <1>13, RootsMixed
  <2>3. CASE bit
    <3>1. PICK k \in Roots(e) : m = <<k[1], n[2]>>
      BY <1>4, <1>7, <1>13, <2>1, <2>3 DEF AboveOf
    <3>2. m \in Wires /\ ClassOf(g, over, m) = ClassOf(g, over, k)
      BY <1>9, <2>3, <3>1
    <3>3. CASE a = n
      <4>1. m \in AboveOf(h, e, p, a)
        BY <2>2, <2>3, <3>1, <3>3 DEF AboveOf
      <4>2. StateKey(h, over, m, TRUE) \in T
        BY <1>6, <4>1
      <4> QED
        BY <1>2, <1>4, <3>2, <4>2, KeyIn DEF h
    <3>4. CASE ~ Sliced(a)
      <4>1. k \in AboveOf(h, e, p, a)
        BY <2>2, <3>1, <3>4 DEF AboveOf, OwnBit
      <4>2. <<over, ClassOf(g, over, m)>> \in T
        BY <1>6, <1>8, <3>1, <3>2, <4>1
      <4> QED
        BY <1>2, <1>4, <3>2, <4>2, KeyIn
    <3> QED
      BY <3>3, <3>4 DEF Anchors
  <2>4. CASE ~ bit
    <3>1. e.text # None /\ m = <<e.text, None>>
      BY <1>4, <2>1, <2>4 DEF AboveOf, TextNet
    <3>2. v = <<over, m>> /\ m \notin Wires /\ <<over, m>> \in States
      BY <1>4, <1>10, <3>1
    <3>3. ~ OwnBit(p, a)
      BY <2>4 DEF Anchors, OwnBit
    <3>4. \A k \in Roots(e) : k \in AboveOf(h, e, p, a)
      BY <2>2, <3>3 DEF AboveOf
    <3>5. \A k \in Roots(e) : <<over, Get(g, over, k)>> \in T
      BY <1>6, <1>8, <3>4
    <3>6. TextCovered(g, T, over, m)
      BY <1>5, <1>13, <3>1, <3>5 DEF TextCovered, e
    <3> QED
      BY <3>2, <3>6 DEF CoveredBy, Covered
  <2> QED
    BY <2>3, <2>4
<1> QED
  BY <1>7, <1>11, <1>12, <1>13

\* No way leads on from a port map kept as text.
LEMMA TextIsEnd ==
  ASSUME NEW g, Unselected(g), NEW s \in Scopes, NEW n \in Nets, n \notin Wires
  PROVE  Edges(g, <<s, n>>) = {}
<1>1. g \in Graph /\ g.logical
  BY AsTextType
<1>2. SUFFICES ASSUME NEW v \in Edges(g, <<s, n>>) PROVE FALSE
  OBVIOUS
<1>3. Rep(g, s, n) = n /\ n[1] \notin Bases
  BY RepFacts, GetFacts, NetKinds
<1>4. \A k \in Wires : Get(g, s, k) \in Wires
  BY GetFacts DEF Nets
<1>5. ~ EdgeWithin(g, s, n, v)
  <2>1. g.adj[s] \subseteq Wires \X Wires
    BY <1>1 DEF Graph
  <2> QED
    BY <1>3, <2>1 DEF EdgeWithin, Peers, Ties
<1>6. ~ EdgeDown(g, s, n, v)
  <2>1. SUFFICES ASSUME NEW c \in Children(g, s), NEW y \in ChildPorts(g, s, c, n) PROVE FALSE
    BY <1>3 DEF EdgeDown
  <2>2. c \in Scopes
    BY ChildrenType
  <2>3. \A p \in Bases : /\ g.ports[c][p].kind # "concat"
                         /\ \A m \in Roots(g.ports[c][p]) : m \in Wires /\ m \in Nets
    BY <2>2, MapFacts
  <2>4. PICK p \in Bases, b \in Bits \cup {None} : PortOf(g, s, c, n, p, b)
    BY <1>1, <2>2, <2>3, ChildPortsAre
  <2>5. PICK k \in Roots(g.ports[c][p]) :
          \/ \E m \in Mapped(k) : Get(g, s, m) = n
          \/ Get(g, s, <<Get(g, s, k)[1], b>>) = n
    BY <2>4 DEF PortOf
  <2>6. k \in Wires /\ k \in Nets /\ k[1] \in Bases
    BY <2>3, NetKinds
  <2>7. Mapped(k) \subseteq Wires
    BY <2>6 DEF Mapped, Wires
  <2>8. <<Get(g, s, k)[1], b>> \in Wires
    <3>1. Get(g, s, k) \in Wires
      BY <1>4, <2>6
    <3> QED
      BY <3>1 DEF Wires
  <2> QED
    BY <1>4, <2>5, <2>7, <2>8
<1>7. ~ EdgeHierDown(g, s, n, v)
  <2>1. g.hier[s] \subseteq Wires \X Scopes \X Wires
    BY <1>1 DEF Graph
  <2> QED
    BY <1>3, <2>1 DEF EdgeHierDown
<1>8. \A p \in Bases : ~ PortMatches(g, s, p, n)
  <2>1. \A p \in Bases : <<p, None>> \in Wires /\ <<p, None>> \in Nets
    BY DEF Wires, Nets
  <2>2. \A p \in Bases : Rep(g, s, <<p, None>>) \in Wires
    BY <1>4, <2>1, RepFacts
  <2> QED
    BY <1>3, <2>2 DEF PortMatches
<1>9. ~ EdgeAbove(g, s, n, v)
  BY <1>8 DEF EdgeAbove
<1>10. ~ EdgeHierUp(g, s, n, v)
  <2>1. g.parent[s] \in Scopes => \A h \in g.hier[g.parent[s]] : h[3][1] \in Bases
    BY <1>1 DEF Graph, Wires
  <2> QED
    BY <1>8, <2>1 DEF EdgeHierUp
<1> QED
  BY <1>1, <1>5, <1>6, <1>7, <1>9, <1>10, EdgeKinds

\* A set closed under the edges of text conn covers one closed under those of the logical walk.
LEMMA CoveredClosed ==
  ASSUME NEW g, Unselected(g), NEW T \in SUBSET States, ClosedUnder(AsText(g), T)
  PROVE  ClosedUnder(g, CoveredBy(g, T))
<1> SUFFICES ASSUME NEW u \in CoveredBy(g, T), NEW v \in Edges(g, u) PROVE v \in CoveredBy(g, T)
  BY DEF ClosedUnder
<1> DEFINE s == u[1]
           n == u[2]
<1>1. s \in Scopes /\ n \in Nets /\ u = <<s, n>> /\ Covered(g, T, s, n)
  BY DEF CoveredBy, States
<1> HIDE DEF s, n
<1>2. CASE n \notin Wires
  <2>1. Edges(g, <<s, n>>) = {}
    BY <1>1, <1>2, TextIsEnd
  <2> QED
    BY <1>1, <2>1
<1>3. CASE n \in Wires
  <2>1. PICK a \in Nets : Anchors(g, T, s, n, a)
    BY <1>1, <1>3 DEF Covered
  <2>2. g \in Graph /\ g.logical
    BY AsTextType
  <2>3. \/ EdgeWithin(g, s, n, v) \/ EdgeDown(g, s, n, v) \/ EdgeHierDown(g, s, n, v)
        \/ EdgeAbove(g, s, n, v) \/ EdgeHierUp(g, s, n, v)
    BY <1>1, <2>2, EdgeKinds
  <2> QED
    BY <1>1, <1>3, <2>1, <2>3, StepWithin, StepDown, StepHierDown, StepAbove, StepHierUp
<1> QED
  BY <1>2, <1>3

LEMMA ReachableClosed ==
  ASSUME NEW g \in Graph, NEW s \in States
  PROVE  Reachable(g, s) \in SUBSET States /\ s \in Reachable(g, s) /\ ClosedUnder(g, Reachable(g, s))
<1>1. \A u \in States : Edges(g, u) \subseteq States
  BY EdgesType
<1>2. \A C \in Closed(g, s) : s \in C /\ ClosedUnder(g, C)
  BY DEF Closed
<1>3. ASSUME NEW u \in Reachable(g, s), NEW v \in Edges(g, u)
      PROVE  v \in Reachable(g, s)
  <2>1. v \in States
    BY <1>1 DEF Reachable
  <2>2. \A C \in Closed(g, s) : v \in C
    BY <1>2 DEF Reachable, ClosedUnder
  <2> QED
    BY <2>1, <2>2 DEF Reachable
<1> QED
  BY <1>2, <1>3 DEF Reachable, ClosedUnder

LEMMA ReachCovered ==
  ASSUME NEW g, Unselected(g), NEW x \in Questions, NEW sd
  PROVE  Reachable(g, Seed(g, x, sd)) \subseteq CoveredBy(g, Reachable(AsText(g), Seed(AsText(g), x, sd)))
<1> DEFINE h == AsText(g)
           T == Reachable(h, Seed(h, x, sd))
           end == IF sd = "forward" THEN x.start ELSE x.goal
           s == end[1]
           n == end[2]
<1>1. g \in Graph /\ h \in Graph /\ g.logical /\ ~ h.logical
  BY AsTextType
<1>2. s \in Scopes /\ n \in Wires /\ end = <<s, n>>
  <2>1. x.start \in Scopes \X Wires /\ x.goal \in Scopes \X Wires
    BY WalkAssumption DEF Question
  <2> QED
    BY <2>1
<1>3. n \in Nets
  BY <1>2 DEF Nets
<1>4. Seed(g, x, sd) = <<s, Get(g, s, n)>>
  <2>1. Rep(g, s, n) = Get(g, s, n)
    BY <1>2, <1>3, RepFacts
  <2> QED
    BY <1>1, <2>1 DEF Seed, RepKey
<1>5. Seed(h, x, sd) = <<s, n>> \/ Seed(h, x, sd) = <<s, ClassOf(g, s, n)>>
  <2>1. Rep(h, s, n) = ClassOf(g, s, n)
    BY <1>2, <1>3, RepFacts
  <2> QED
    BY <1>1, <1>2, <2>1 DEF Seed, RepKey
<1> HIDE DEF h
<1>6. Seed(h, x, sd) \in States /\ Seed(g, x, sd) \in States
  BY <1>1, SeedType
<1>7. T \in SUBSET States /\ Seed(h, x, sd) \in T /\ ClosedUnder(h, T)
  BY <1>1, <1>6, ReachableClosed
<1> HIDE DEF T, s, n, end
<1>8. Covered(g, T, s, Get(g, s, n))
  <2>1. CASE <<s, ClassOf(g, s, n)>> \in T
    BY <1>2, <1>7, <2>1, KeyCovers
  <2>2. CASE <<s, n>> \in T
    <3> DEFINE k == Get(g, s, n)
    <3>1. k \in Wires /\ ClassOf(g, s, k) = ClassOf(g, s, n)
      BY <1>2, <1>3, GetFacts, ClassFacts
    <3>2. Sliced(n) => n = k
      BY <1>2, <1>3, GetFacts
    <3>3. ~ Sliced(n) => Get(g, s, n) = ClassOf(g, s, n)
      BY <1>2, <1>3, ClassFacts
    <3> HIDE DEF k
    <3>4. Anchors(g, T, s, k, n)
      BY <2>2, <3>1, <3>2, <3>3 DEF Anchors
    <3> QED
      BY <1>3, <3>1, <3>4 DEF Covered, k
  <2> QED
    BY <1>5, <1>7, <2>1, <2>2
<1>9. Seed(g, x, sd) \in CoveredBy(g, T)
  BY <1>4, <1>6, <1>8 DEF CoveredBy
<1>10. ClosedUnder(g, CoveredBy(g, T))
  BY <1>7, CoveredClosed DEF h
<1>11. CoveredBy(g, T) \in Closed(g, Seed(g, x, sd))
  BY <1>9, <1>10 DEF Closed, CoveredBy
<1> QED
  BY <1>11 DEF Reachable, T, h

\* A net both sides cover is a net both sides touch, to text conn.
LEMMA CoveredTouch ==
  ASSUME NEW g, Unselected(g), NEW F \in SUBSET States, NEW B \in SUBSET States,
         NEW u \in CoveredBy(g, F), u \in CoveredBy(g, B)
  PROVE  \E p \in F, q \in B : Touch(AsText(g), p, q)
<1> DEFINE s == u[1]
           n == u[2]
<1>1. s \in Scopes /\ n \in Nets /\ Covered(g, F, s, n) /\ Covered(g, B, s, n)
  BY DEF CoveredBy, States
<1> HIDE DEF s, n
<1>2. CASE n \in Wires
  <2>1. PICK a \in Nets : Anchors(g, F, s, n, a)
    BY <1>1, <1>2 DEF Covered
  <2>2. PICK b \in Nets : Anchors(g, B, s, n, b)
    BY <1>1, <1>2 DEF Covered
  <2>3. ClassOf(g, s, a) = ClassOf(g, s, b)
    BY <1>1, <2>1, <2>2, AnchorClass
  <2>4. Rep(AsText(g), s, a) = Rep(AsText(g), s, b)
    BY <1>1, <2>3, RepFacts
  <2>5. RepKey(AsText(g), <<s, a>>) = RepKey(AsText(g), <<s, b>>)
    BY <2>4 DEF RepKey
  <2>6. a = b \/ ~ (Sliced(a) /\ Sliced(b))
    BY <2>1, <2>2 DEF Anchors
  <2>7. Touch(AsText(g), <<s, a>>, <<s, b>>)
    BY <2>5, <2>6, AsTextType DEF Touch
  <2> QED
    BY <2>1, <2>2, <2>7 DEF Anchors
<1>3. CASE n \notin Wires
  <2>1. TextCovered(g, F, s, n) /\ TextCovered(g, B, s, n)
    BY <1>1, <1>3 DEF Covered
  <2>2. PICK c \in Children(g, s), p \in Bases :
          /\ g.ports[c][p].text # None /\ n = <<g.ports[c][p].text, None>>
          /\ IF g.ports[c][p].parts = <<>> THEN <<s, n>> \in F
             ELSE \A m \in Roots(g.ports[c][p]) : <<s, Get(g, s, m)>> \in F
    BY <2>1 DEF TextCovered
  <2>3. PICK d \in Children(g, s), q \in Bases :
          /\ g.ports[d][q].text # None /\ n = <<g.ports[d][q].text, None>>
          /\ IF g.ports[d][q].parts = <<>> THEN <<s, n>> \in B
             ELSE \A m \in Roots(g.ports[d][q]) : <<s, Get(g, s, m)>> \in B
    BY <2>1 DEF TextCovered
  <2> DEFINE e == g.ports[c][p]
             f == g.ports[d][q]
  <2>4. e.text = f.text
    BY <2>2, <2>3
  <2>5. e.parts = f.parts
    <3>1. e \in {g.ports[k][r] : k \in Children(g, s), r \in Bases}
          /\ f \in {g.ports[k][r] : k \in Children(g, s), r \in Bases}
      OBVIOUS
    <3>2. \A j, l \in {g.ports[k][r] : k \in Children(g, s), r \in Bases} :
            j.text # None /\ j.text = l.text => j.parts = l.parts
      BY <1>1 DEF Unselected, Read
    <3> HIDE DEF e, f
    <3>3. e.text # None
      BY <2>2 DEF e
    <3> QED
      BY <2>4, <3>1, <3>2, <3>3
  <2>6. CASE e.parts = <<>>
    <3>1. <<s, n>> \in F /\ <<s, n>> \in B
      BY <2>2, <2>3, <2>5, <2>6
    <3> QED
      BY <3>1 DEF Touch
  <2>7. CASE e.parts # <<>>
    <3>1. e.parts[1] \in Roots(e)
      <4>1. c \in Scopes
        BY ChildrenType
      <4> QED
        BY <2>7, <4>1, MapFacts
    <3>2. e.parts[1] \in Roots(f)
      BY <2>5, <3>1 DEF Roots
    <3>3. <<s, Get(g, s, e.parts[1])>> \in F /\ <<s, Get(g, s, e.parts[1])>> \in B
      BY <2>2, <2>3, <2>5, <2>7, <3>1, <3>2
    <3> QED
      BY <3>3 DEF Touch
  <2> QED
    BY <2>6, <2>7
<1> QED
  BY <1>2, <1>3

LEMMA CoveredScope ==
  ASSUME NEW g, Unselected(g), NEW T \in SUBSET States, NEW u \in CoveredBy(g, T)
  PROVE  \E t \in T : t[1] = u[1]
<1> DEFINE s == u[1]
           n == u[2]
<1>1. s \in Scopes /\ n \in Nets /\ Covered(g, T, s, n)
  BY DEF CoveredBy, States
<1> HIDE DEF s, n
<1>2. CASE n \in Wires
  <2>1. PICK a \in Nets : Anchors(g, T, s, n, a)
    BY <1>1, <1>2 DEF Covered
  <2>2. <<s, a>> \in T
    BY <2>1 DEF Anchors
  <2> QED
    BY <2>2 DEF s
<1>3. CASE n \notin Wires
  <2>1. PICK c \in Children(g, s), p \in Bases :
          IF g.ports[c][p].parts = <<>> THEN <<s, n>> \in T
          ELSE \A m \in Roots(g.ports[c][p]) : <<s, Get(g, s, m)>> \in T
    BY <1>1, <1>3 DEF Covered, TextCovered
  <2>2. c \in Scopes
    BY ChildrenType
  <2>3. g.ports[c][p].parts # <<>> => g.ports[c][p].parts[1] \in Roots(g.ports[c][p])
    BY <2>2, MapFacts
  <2>4. \E m : <<s, m>> \in T
    BY <2>1, <2>3
  <2> QED
    BY <2>4 DEF s
<1> QED
  BY <1>2, <1>3

LEMMA TextConnects ==
  ASSUME NEW g, Unselected(g), NEW x \in Questions, Connected(g, x)
  PROVE  Connected(AsText(g), x)
<1> DEFINE h == AsText(g)
           Of(sd) == Reachable(h, Seed(h, x, sd))
<1>1. g \in Graph /\ h \in Graph /\ g.logical /\ ~ h.logical
  BY AsTextType
<1>2. \A sd : Of(sd) \in SUBSET States
  BY DEF Reachable
<1>3. \A sd : Reachable(g, Seed(g, x, sd)) \subseteq CoveredBy(g, Of(sd))
  BY ReachCovered
<1>4. CASE AtGoal(g, x)
  <2>1. CASE x.kind = "port-hierarchy"
    BY <1>4, <2>1 DEF AtGoal, Connected
  <2>2. CASE x.kind # "port-hierarchy"
    <3>1. x.start \in Scopes \X Wires /\ x.goal \in Scopes \X Wires
      BY WalkAssumption DEF Question
    <3> DEFINE s == x.start[1]
               n == x.start[2]
               m == x.goal[2]
    <3>2. RepKey(g, x.start) = RepKey(g, x.goal)
      BY <1>4, <2>2 DEF AtGoal
    <3>3. s \in Scopes /\ x.goal[1] = s /\ n \in Nets /\ m \in Nets /\ Rep(g, s, n) = Rep(g, s, m)
      BY <3>1, <3>2 DEF RepKey, Nets
    <3> HIDE DEF s, n, m
    <3>4. ClassOf(g, s, n) = ClassOf(g, s, m)
      <4>1. Get(g, s, n) = Get(g, s, m)
        BY <3>3, RepFacts
      <4>2. ClassOf(g, s, Get(g, s, n)) = ClassOf(g, s, n) /\ ClassOf(g, s, Get(g, s, m)) = ClassOf(g, s, m)
        BY <3>3, ClassFacts
      <4> QED
        BY <4>1, <4>2
    <3>5. Rep(h, s, n) = Rep(h, s, m)
      BY <3>3, <3>4, RepFacts
    <3>6. RepKey(h, x.start) = RepKey(h, x.goal)
      BY <3>3, <3>5 DEF RepKey, s, n, m
    <3> HIDE DEF h
    <3> QED
      BY <2>2, <3>6 DEF AtGoal, Connected, h
  <2> QED
    BY <2>1, <2>2
<1>5. CASE ~ AtGoal(g, x) /\ x.kind = "port-hierarchy"
  <2>1. PICK u \in Reachable(g, Seed(g, x, "forward")) : u[1] = x.goal[1]
    BY <1>5 DEF Connected
  <2>2. \E t \in Of("forward") : t[1] = u[1]
    <3> HIDE DEF Of
    <3> QED
      BY <1>2, <1>3, <2>1, CoveredScope
  <2> QED
    BY <1>5, <2>1, <2>2 DEF Connected
<1>6. CASE ~ AtGoal(g, x) /\ x.kind # "port-hierarchy"
  <2>1. PICK u \in Reachable(g, Seed(g, x, "forward")), t \in Reachable(g, Seed(g, x, "backward")) : Touch(g, u, t)
    BY <1>6 DEF Connected
  <2>2. u = t
    BY <1>1, <2>1 DEF Touch
  <2>3. \E p \in Of("forward"), q \in Of("backward") : Touch(h, p, q)
    <3> HIDE DEF Of
    <3> QED
      BY <1>2, <1>3, <2>1, <2>2, CoveredTouch
  <2> QED
    BY <1>6, <2>3 DEF Connected
<1> QED
  BY <1>4, <1>5, <1>6

\* What the logical walk connects, the text walk connects, in a design no bit of which has
\* a name of its own (text/pair.py:62-67).
THEOREM TextIsCoarser == Spec => []TextCoversLogical
<1>1. IInv /\ WalkInv => TextCoversLogical
  <2> SUFFICES ASSUME IInv, WalkInv, phase = "answered", design.logical, answer.ok, ~ answer.served,
                      Whole(design)
               PROVE  Meets(AsText(design), TextReach[design], ask)
    BY DEF TextCoversLogical
  <2>1. ask \in Questions /\ Unselected(design)
    BY WalkAssumption DEF IInv, Unselected
  <2>2. Connected(design, ask)
    BY WalkYes DEF YesIsConnected
  <2>3. Connected(AsText(design), ask)
    BY <2>1, <2>2, TextConnects
  <2> QED
    BY <2>1, <2>3, MeetsIsConnected
<1> QED
  BY <1>1, InvAlways, PTL
-----------------------------------------------------------------------------
(* The hops of a traced answer.  The nets whose hops reach the seed in k   *)
(* steps grow by one net at least until they are all the nets of the side, *)
(* so that as many steps as the side has nets are enough.                  *)

\* One more hop of the tree p, an edge of design g.
Climb(g, p, X) == X \cup {t \in DOMAIN p : p[t] \in X /\ t \in Edges(g, p[t])}
IsLadder(g, p, a, f) == f = [k \in Nat |-> IF k = 0 THEN {a} ELSE Climb(g, p, f[k - 1])]
\* Every net of p hangs from a.
Rooted(g, p, a) ==
  /\ \A t \in DOMAIN p : t \in Edges(g, p[t])
  /\ \A C \in SUBSET States :
       a \in C /\ (\A t \in DOMAIN p : p[t] \in C => t \in C) => DOMAIN p \subseteq C

\* The least family of sets that climbs from a is a ladder.
LEMMA LadderExists ==
  ASSUME NEW g \in Graph, NEW p \in Trees, NEW a \in States
  PROVE  \E f : IsLadder(g, p, a, f)
<1> DEFINE Climbs(F) == a \in F[0] /\ \A j \in Nat : Climb(g, p, F[j]) \subseteq F[j + 1]
           Family == [Nat -> SUBSET States]
           Least(k) == {t \in States : \A F \in Family : Climbs(F) => t \in F[k]}
           l == [k \in Nat |-> Least(k)]
<1>1. \A X \in SUBSET States : Climb(g, p, X) \in SUBSET States /\ X \subseteq Climb(g, p, X)
  BY TreesType DEF Climb
<1>2. \A X, Y : X \subseteq Y => Climb(g, p, X) \subseteq Climb(g, p, Y)
  BY DEF Climb
<1>3. \A k \in Nat : Least(k) \in SUBSET States
  OBVIOUS
<1>4. a \in Least(0)
  OBVIOUS
<1>5. Least(0) \subseteq {a}
  <2> DEFINE F == [j \in Nat |-> IF j = 0 THEN {a} ELSE States]
  <2>1. F \in Family /\ F[0] = {a} /\ \A j \in Nat : F[j + 1] = States /\ F[j] \in SUBSET States
    OBVIOUS
  <2> HIDE DEF F
  <2>2. Climbs(F)
    BY <1>1, <2>1
  <2> HIDE DEF Climbs, Family
  <2> QED
    BY <2>1, <2>2
<1>6. ASSUME NEW k \in Nat
      PROVE  Climb(g, p, Least(k)) \subseteq Least(k + 1)
  <2>1. ASSUME NEW F \in Family, Climbs(F)
        PROVE  Climb(g, p, Least(k)) \subseteq F[k + 1]
    <3>1. Least(k) \subseteq F[k]
      BY <2>1
    <3>2. Climb(g, p, F[k]) \subseteq F[k + 1]
      BY <2>1
    <3> HIDE DEF Least
    <3> QED
      BY <1>2, <3>1, <3>2
  <2>2. Climb(g, p, Least(k)) \subseteq States
    <3> HIDE DEF Least
    <3> QED
      BY <1>1, <1>3
  <2> HIDE DEF Climbs, Family
  <2> QED
    BY <2>1, <2>2
<1>7. ASSUME NEW k \in Nat
      PROVE  Least(k + 1) \subseteq Climb(g, p, Least(k))
  <2> DEFINE F == [j \in Nat |-> IF j <= k THEN Least(j) ELSE IF j = k + 1 THEN Climb(g, p, Least(k)) ELSE States]
  <2> HIDE DEF Least
  <2>1. F \in Family
    BY <1>1, <1>3
  <2>2. F[k + 1] = Climb(g, p, Least(k))
    OBVIOUS
  <2>3. a \in F[0]
    BY <1>4
  <2>4. ASSUME NEW j \in Nat
        PROVE  Climb(g, p, F[j]) \subseteq F[j + 1]
    <3>1. CASE j < k
      <4>1. F[j] = Least(j) /\ F[j + 1] = Least(j + 1)
        BY <3>1
      <4> QED
        BY <1>6, <4>1
    <3>2. CASE j = k
      <4>1. F[j] = Least(j) /\ F[j + 1] = Climb(g, p, Least(j))
        BY <3>2
      <4> HIDE DEF F
      <4> QED
        BY <4>1
    <3>3. CASE j > k
      <4>1. F[j + 1] = States
        BY <3>3
      <4>2. F[j] \in SUBSET States
        BY <2>1
      <4> HIDE DEF F
      <4> QED
        BY <1>1, <4>1, <4>2
    <3> QED
      BY <3>1, <3>2, <3>3
  <2> HIDE DEF F
  <2>5. Climbs(F)
    BY <2>3, <2>4
  <2>6. \A t \in Least(k + 1) : t \in F[k + 1]
    BY <2>1, <2>5 DEF Least
  <2> QED
    BY <2>2, <2>6
<1> HIDE DEF Least
<1>8. ASSUME NEW k \in Nat
      PROVE  Least(k) = IF k = 0 THEN {a} ELSE Climb(g, p, l[k - 1])
  <2>1. CASE k = 0
    BY <1>4, <1>5, <2>1
  <2>2. CASE k # 0
    <3>1. k - 1 \in Nat /\ k = (k - 1) + 1
      BY <2>2
    <3>2. l[k - 1] = Least(k - 1)
      BY <3>1
    <3>3. Least((k - 1) + 1) = Climb(g, p, Least(k - 1))
      BY <1>6, <1>7, <3>1
    <3> QED
      BY <2>2, <3>1, <3>2, <3>3
  <2> QED
    BY <2>1, <2>2
<1>9. l = [k \in Nat |-> IF k = 0 THEN {a} ELSE Climb(g, p, l[k - 1])]
  BY <1>8
<1> HIDE DEF l
<1> QED
  BY <1>9 DEF IsLadder

\* As many steps as the tree has nets reach every one of them.
LEMMA LadderReaches ==
  ASSUME NEW g \in Graph, NEW p \in Trees, NEW a \in States, Rooted(g, p, a),
         NEW f, IsLadder(g, p, a, f)
  PROVE  DOMAIN p \cup {a} \subseteq f[Cardinality(DOMAIN p)]
<1> DEFINE All == DOMAIN p \cup {a}
           N == Cardinality(DOMAIN p)
           Up(k) == /\ a \in f[k] /\ f[k] \subseteq All
                    /\ All \subseteq f[k] \/ Cardinality(f[k]) >= k + 1
           T == {k \in Nat : ~ Up(k)}
<1>1. DOMAIN p \in SUBSET States /\ All \in SUBSET States
  BY TreesType
<1>2. IsFiniteSet(DOMAIN p) /\ IsFiniteSet(All)
  BY <1>1, StatesFinite, FS_Subset
<1>3. N \in Nat /\ Cardinality(All) <= N + 1 /\ Cardinality(All) \in Nat
  <2>1. N \in Nat /\ Cardinality(All) \in Nat
    BY <1>2, FS_CardinalityType
  <2>2. Cardinality(All) = IF a \in DOMAIN p THEN N ELSE N + 1
    BY <1>2, FS_AddElement
  <2> QED
    BY <2>1, <2>2
<1>4. f[0] = {a} /\ \A k \in Nat : k # 0 => f[k] = Climb(g, p, f[k - 1])
  BY DEF IsLadder
<1>5. ASSUME NEW X \in SUBSET All
      PROVE  IsFiniteSet(X) /\ Cardinality(X) \in Nat
  BY <1>2, FS_Subset, FS_CardinalityType
<1>6. Up(0)
  <2>1. Cardinality({a}) = 1
    BY FS_Singleton
  <2> QED
    BY <1>4, <2>1
<1>7. ASSUME NEW k \in Nat, k # 0, Up(k - 1)
      PROVE  Up(k)
  <2> DEFINE X == f[k - 1]
             Y == f[k]
  <2>1. Y = Climb(g, p, X) /\ a \in X /\ X \subseteq All /\ k - 1 \in Nat
    BY <1>4, <1>7
  <2>2. All \subseteq X \/ Cardinality(X) >= k
    BY <1>7
  <2> HIDE DEF X, Y
  <2>3. a \in Y /\ X \subseteq Y /\ Y \subseteq All
    BY <2>1 DEF Climb
  <2>4. CASE All \subseteq X
    BY <2>3, <2>4 DEF Y
  <2>5. CASE ~ (All \subseteq X)
    <3>1. X # Y
      <4> SUFFICES ASSUME X = Y PROVE FALSE
        OBVIOUS
      <4>1. \A t \in DOMAIN p : p[t] \in X => t \in X
        BY <2>1 DEF Climb, Rooted
      <4>2. DOMAIN p \subseteq X
        BY <1>1, <2>1, <4>1 DEF Rooted
      <4> QED
        BY <2>1, <2>5, <4>2
    <3>2. Cardinality(X) <= Cardinality(Y) /\ Cardinality(X) # Cardinality(Y)
      BY <1>5, <2>3, <3>1, FS_Subset
    <3>3. Cardinality(X) \in Nat /\ Cardinality(Y) \in Nat
      BY <1>5, <2>1, <2>3
    <3>4. Cardinality(Y) >= k + 1
      BY <2>2, <2>5, <3>2, <3>3
    <3> QED
      BY <2>3, <3>4 DEF Y
  <2> QED
    BY <2>4, <2>5
<1> HIDE DEF Up
<1>8. T = {}
  <2> SUFFICES ASSUME T # {} PROVE FALSE
    OBVIOUS
  <2>1. PICK n \in T : \A k \in T : n <= k
    BY LeastOf
  <2>2. n \in Nat /\ ~ Up(n) /\ n # 0
    BY <1>6, <2>1
  <2>3. n - 1 \in Nat /\ n - 1 \notin T
    BY <2>1, <2>2
  <2> QED
    BY <1>7, <2>2, <2>3
<1>9. f[N] \subseteq All /\ (All \subseteq f[N] \/ Cardinality(f[N]) >= N + 1)
  BY <1>3, <1>8 DEF Up
<1> HIDE DEF N
<1>10. CASE Cardinality(f[N]) >= N + 1
  <2>1. Cardinality(f[N]) <= Cardinality(All) /\ (Cardinality(f[N]) = Cardinality(All) => f[N] = All)
    BY <1>2, <1>9, FS_Subset
  <2>2. Cardinality(f[N]) \in Nat
    BY <1>5, <1>9
  <2> QED
    BY <1>3, <1>10, <2>1, <2>2 DEF N
<1> QED
  BY <1>9, <1>10 DEF N

LEMMA HopsReach ==
  ASSUME IInv, phase # "idle", NEW sd \in Sides,
         Rooted(design, prev[sd], Seed(design, ask, sd)), NEW s \in Seen(sd)
  PROVE  HopsLead(sd, s)
<1> DEFINE a == Seed(design, ask, sd)
           p == prev[sd]
           f == CHOOSE h : IsLadder(design, p, a, h)
<1>1. design \in Graph /\ p \in Trees /\ a \in States
  BY ViewType, SeedType DEF IInv
<1>2. HopsLead(sd, s) <=> s \in f[Cardinality(DOMAIN p)]
  BY Zenon DEF HopsLead, IsLadder, Climb
<1>3. IsLadder(design, p, a, f)
  <2> HIDE DEF a, p
  <2> QED
    BY <1>1, LadderExists
<1>4. s \in DOMAIN p \cup {a}
  BY DEF Seen
<1>5. Rooted(design, p, a)
  OBVIOUS
<1> HIDE DEF a, p, f
<1>6. DOMAIN p \cup {a} \subseteq f[Cardinality(DOMAIN p)]
  BY <1>1, <1>3, <1>5, LadderReaches
<1> QED
  BY <1>2, <1>4, <1>6

TreesRooted ==
  phase # "idle" => \A sd \in Sides : Rooted(design, prev[sd], Seed(design, ask, sd))

\* Where the hops of an answer end: at nets the sides have seen.
EndsSeen ==
  phase = "answered" /\ answer.ok /\ answer.ends # <<>> =>
    LET e == answer.ends IN
    IF Len(e) = 1 THEN e[1] \in Seen("forward")
    ELSE \/ e[1] \in Seen("forward") /\ e[2] \in Seen("backward") /\ Touch(design, e[1], e[2])
         \/ e[1] = e[2] /\ \E s \in Seen("forward"), t \in Seen("backward") : BitsMeet(s, t) /\ e[1] \in {s, t}

TraceInv == TreesRooted /\ EndsSeen

LEMMA CheckTrace ==
  ASSUME IInv, TraceInv, NEW x \in Questions, NEW v \in Views,
         Serve(x, v) \/ Shortcut(x, v) \/ Begin(x, v)
  PROVE  TraceInv'
<1>1. prev' = [sd \in Sides |-> Empty]
  BY DEF Serve, Shortcut, Begin, Check
<1>2. DOMAIN Empty = {}
  BY DEF Empty
<1>3. TreesRooted'
  <2>1. \A sd \in Sides : prev'[sd] = Empty
    BY <1>1
  <2>2. \A g, a : Rooted(g, Empty, a)
    BY <1>2 DEF Rooted
  <2>3. ASSUME NEW sd \in Sides
        PROVE  Rooted(design, prev[sd], Seed(design, ask, sd))'
    <3>1. Rooted(design', Empty, Seed(design, ask, sd)')
      BY <2>2
    <3> QED
      BY <2>1, <3>1 DEF Rooted
  <2> QED
    BY <2>3 DEF TreesRooted
<1>4. EndsSeen'
  <2>1. CASE Serve(x, v)
    BY <2>1 DEF Serve, Answer, EndsSeen
  <2>2. CASE Shortcut(x, v)
    BY <2>2 DEF Shortcut, Answered, Answer, EndsSeen
  <2>3. CASE Begin(x, v)
    BY <2>3 DEF Begin, EndsSeen
  <2> QED
    BY <2>1, <2>2, <2>3
<1> QED
  BY <1>3, <1>4 DEF TraceInv

\* An expansion hangs new nets from one that was seen.
LEMMA OpenRooted ==
  ASSUME IInv, WalkInv, TreesRooted, phase = "walking", NEW s \in todo, NEW found \in SUBSET Fresh(s),
         prev' = [prev EXCEPT ![side] = Reached(prev[side], s, found)], UNCHANGED <<design, ask>>
  PROVE  TreesRooted'
<1>1. s \in States /\ side \in Sides /\ s \in Seen(side) /\ prev \in [Sides -> Trees]
  BY DEF IInv, WalkInv, FrontsSeen
<1>2. found \subseteq Edges(design, s) /\ found \subseteq States /\ found \cap Seen(side) = {}
  BY <1>1, WalkEdges DEF Fresh
<1> DEFINE old == prev[side]
           new == Reached(old, s, found)
           a == Seed(design, ask, side)
<1>3. Rooted(design, old, a) /\ old \in Trees /\ Seen(side) = DOMAIN old \cup {a}
  BY <1>1 DEF TreesRooted, Seen
<1>4. /\ DOMAIN new = DOMAIN old \cup found
      /\ \A t \in found : new[t] = s
      /\ \A t \in DOMAIN old : new[t] = old[t]
  BY <1>2, <1>3 DEF Reached
<1> HIDE DEF new, old, a
<1>5. \A t \in DOMAIN new : t \in Edges(design, new[t])
  BY <1>2, <1>3, <1>4 DEF Rooted
<1>6. ASSUME NEW C \in SUBSET States, a \in C, \A t \in DOMAIN new : new[t] \in C => t \in C
      PROVE  DOMAIN new \subseteq C
  <2>1. \A t \in DOMAIN old : old[t] \in C => t \in C
    BY <1>4, <1>6
  <2>2. DOMAIN old \subseteq C
    BY <1>3, <1>6, <2>1 DEF Rooted
  <2>3. s \in C
    BY <1>1, <1>3, <1>6, <2>2
  <2> QED
    BY <1>4, <1>6, <2>2, <2>3
<1>7. Rooted(design, new, a)
  BY <1>5, <1>6 DEF Rooted
<1>8. ASSUME NEW sd \in Sides
      PROVE  Rooted(design, prev[sd], Seed(design, ask, sd))'
  <2>1. Rooted(design, prev'[sd], Seed(design, ask, sd))
    <3>1. CASE sd = side
      BY <1>1, <1>7, <3>1 DEF new, old, a
    <3>2. CASE sd # side
      BY <1>1, <3>2 DEF TreesRooted
    <3> QED
      BY <3>1, <3>2
  <2>2. Seed(design, ask, sd)' = Seed(design, ask, sd)
    BY DEF Seed, RepKey
  <2> QED
    BY <2>1, <2>2 DEF Rooted
<1> QED
  BY <1>8 DEF TreesRooted

\* Where the hops of a side end that has seen D: at m, or at a net of D that is m to it.
LEMMA MeetSeen ==
  ASSUME NEW m, NEW came, NEW sd, NEW mm \in MeetOf(m, came, sd),
         NEW D, D = DOMAIN came[sd] \cup {Seed(design, ask, sd)}
  PROVE  /\ m \in D => mm = m
         /\ \/ mm \in D /\ Touch(design, m, mm)
            \/ mm = m /\ m \notin D /\ \A t \in D : ~ Equivalent(design, m, t)
<1>1. \A t : Equivalent(design, m, t) => Touch(design, m, t)
  BY DEF Equivalent, Touch, RepKey
<1> DEFINE like == {t \in D : Equivalent(design, m, t)}
<1>2. mm \in IF m \in D \/ like = {} THEN {m} ELSE like
  BY DEF MeetOf
<1>3. CASE m \in D
  BY <1>2, <1>3 DEF Touch
<1>4. CASE m \notin D /\ like = {}
  BY <1>2, <1>4
<1>5. CASE m \notin D /\ like # {}
  BY <1>1, <1>2, <1>5
<1> QED
  BY <1>3, <1>4, <1>5

LEMMA EndsAre ==
  ASSUME ask.trace, ask.kind = "port-port", NEW m, NEW came, NEW ends \in Ends(m, came)
  PROVE  \E mf \in MeetOf(m, came, "forward"), mb \in MeetOf(m, came, "backward") : ends = <<mf, mb>>
<1>1. ask.kind # "port-hierarchy"
  OBVIOUS
<1> QED
  BY <1>1 DEF Ends

\* Two nets that touch and are not one to the walk are two bits.
LEMMA BitsTouch ==
  ASSUME NEW m \in States, NEW c \in States, Touch(design, m, c), m # c, ~ Equivalent(design, m, c)
  PROVE  BitsMeet(m, c) /\ BitsMeet(c, m)
<1>1. ~ design.logical /\ RepKey(design, m) = RepKey(design, c)
  BY DEF Touch
<1>2. m[1] = c[1] /\ Rep(design, m[1], m[2]) = Rep(design, c[1], c[2])
  BY <1>1 DEF RepKey
<1>3. Sliced(m[2]) /\ Sliced(c[2])
  BY <1>1, <1>2 DEF Equivalent
<1> QED
  BY <1>3, TouchSymmetric DEF BitsMeet

LEMMA OpenEnds ==
  ASSUME IInv, WalkInv, phase = "walking", NEW s \in todo, NEW m \in Fresh(s), Hit(m),
         NEW before \in SUBSET Fresh(s),
         prev' = [prev EXCEPT ![side] = Reached(prev[side], s, before \cup {m})],
         NEW came, \A sd \in Sides : DOMAIN came[sd] = DOMAIN prev'[sd],
         NEW ends \in Ends(m, came), answer'.ends = ends, UNCHANGED <<design, ask, side>>
  PROVE  EndsSeen'
<1> DEFINE found == before \cup {m}
           F == Seen("forward")'
           B == Seen("backward")'
<1>0. prev' = [prev EXCEPT ![side] = Reached(prev[side], s, found)]
  OBVIOUS
<1>1. /\ s \in States /\ side \in Sides /\ ask \in Questions
      /\ design \in Graph /\ \A sd \in Sides : Seen(sd) \subseteq States
  BY SeenType, ViewType DEF IInv
<1>2. found \subseteq States /\ m \in States
  BY <1>1, WalkEdges DEF Fresh
<1>3. \A sd \in Sides : Seen(sd)' = IF sd = side THEN Seen(sd) \cup found ELSE Seen(sd)
  BY <1>0, <1>1, <1>2, OpenSeen
<1>4. ask.kind \in {"port-port", "port-hierarchy"} /\ ask.trace \in BOOLEAN
  BY <1>1, WalkAssumption DEF Question
<1>5. CASE ~ ask.trace
  <2>1. ends = <<>>
    BY <1>4, <1>5 DEF Ends
  <2> QED
    BY <2>1 DEF EndsSeen
<1>6. CASE ask.trace /\ ask.kind = "port-hierarchy"
  <2>1. ends = <<m>>
    BY <1>6 DEF Ends
  <2>2. side = "forward"
    BY <1>6 DEF WalkInv, Searching
  <2>3. m \in Seen("forward")'
    BY <1>3, <2>2, SidesTwo
  <2> QED
    BY <2>1, <2>3 DEF EndsSeen
<1>7. CASE ask.trace /\ ask.kind = "port-port"
  <2>1. PICK mf \in MeetOf(m, came, "forward"), mb \in MeetOf(m, came, "backward") : ends = <<mf, mb>>
    BY <1>7, EndsAre
  <2>2. /\ F = DOMAIN came["forward"] \cup {Seed(design, ask, "forward")}
        /\ B = DOMAIN came["backward"] \cup {Seed(design, ask, "backward")}
    BY SidesTwo DEF Seen, Seed, RepKey
  <2>3. PICK c \in Seen(Other(side)) : Touch(design, m, c)
    <3>1. FindIn(design, m, Seen(Other(side))) # {} /\ Seen(Other(side)) \subseteq States
      BY <1>1, <1>7, SidesTwo DEF Hit
    <3> QED
      BY <1>1, <1>2, <3>1, FindInTouch
  <2>4. c \in States
    BY <1>1, <2>3, SidesTwo
  <2> HIDE DEF F, B
  <2>5. /\ m \in F => mf = m
       /\ \/ mf \in F /\ Touch(design, m, mf)
          \/ mf = m /\ m \notin F /\ \A t \in F : ~ Equivalent(design, m, t)
    BY <2>2, MeetSeen
  <2>6. /\ m \in B => mb = m
       /\ \/ mb \in B /\ Touch(design, m, mb)
          \/ mb = m /\ m \notin B /\ \A t \in B : ~ Equivalent(design, m, t)
    BY <2>2, MeetSeen
  <2>7. \/ mf \in F /\ mb \in B /\ Touch(design, mf, mb)
        \/ mf = mb /\ \E ss \in F, t \in B : BitsMeet(ss, t) /\ mf \in {ss, t}
    <3>1. CASE side = "forward"
      <4>1. m \in F /\ c \in B
        BY <1>3, <2>3, <3>1, SidesTwo DEF F, B
      <4>2. mf = m
        BY <2>5, <4>1
      <4>3. CASE mb \in B /\ Touch(design, m, mb)
        BY <4>1, <4>2, <4>3
      <4>4. CASE mb = m /\ m \notin B /\ \A t \in B : ~ Equivalent(design, m, t)
        <5>1. BitsMeet(m, c)
          BY <1>2, <2>3, <2>4, <4>1, <4>4, BitsTouch
        <5> QED
          BY <4>1, <4>2, <4>4, <5>1
      <4> QED
        BY <2>6, <4>3, <4>4
    <3>2. CASE side = "backward"
      <4>1. c \in F /\ m \in B
        BY <1>3, <2>3, <3>2, SidesTwo DEF F, B
      <4>2. mb = m
        BY <2>6, <4>1
      <4>3. CASE mf \in F /\ Touch(design, m, mf)
        BY <4>1, <4>2, <4>3, TouchSymmetric
      <4>4. CASE mf = m /\ m \notin F /\ \A t \in F : ~ Equivalent(design, m, t)
        <5>1. BitsMeet(c, m)
          BY <1>2, <2>3, <2>4, <4>1, <4>4, BitsTouch
        <5> QED
          BY <4>1, <4>2, <4>4, <5>1
      <4> QED
        BY <2>5, <4>3, <4>4
    <3> QED
      BY <1>1, <3>1, <3>2 DEF Sides
  <2>8. answer'.ends = <<mf, mb>> /\ design' = design
    BY <2>1
  <2>9. \A ss, t : BitsMeet(ss, t)' = BitsMeet(ss, t)
    BY DEF BitsMeet, Touch, RepKey
  <2> QED
    BY <2>7, <2>8, <2>9 DEF EndsSeen, F, B, Touch, RepKey
<1> QED
  BY <1>4, <1>5, <1>6, <1>7

LEMMA OpenTrace ==
  ASSUME IInv, WalkInv, TraceInv, NEW s \in todo, Open(s)
  PROVE  TraceInv'
<1> DEFINE new == Fresh(s)
           hits == {t \in new : Hit(t)}
<1>1. phase = "walking" /\ UNCHANGED <<design, ask, side>> /\ TreesRooted
  BY DEF Open, TraceInv
<1>2. CASE /\ prev' = [prev EXCEPT ![side] = Reached(prev[side], s, new)]
           /\ UNCHANGED phase
  <2>1. TreesRooted'
    BY <1>1, <1>2, OpenRooted
  <2> QED
    BY <1>1, <1>2, <2>1 DEF TraceInv, EndsSeen
<1>3. ASSUME NEW m \in hits, NEW before \in SUBSET (new \ hits),
             prev' = [prev EXCEPT ![side] = Reached(prev[side], s, before \cup {m})],
             NEW ends \in Ends(m, [prev EXCEPT ![side] = Reached(prev[side], s, before \cup {m})]),
             Answered(ask, Answer(TRUE, FALSE, ends))
      PROVE  TraceInv'
  <2>1. m \in Fresh(s) /\ Hit(m) /\ before \in SUBSET Fresh(s) /\ before \cup {m} \in SUBSET Fresh(s)
    OBVIOUS
  <2>2. answer'.ends = ends
    BY <1>3 DEF Answered, Answer
  <2> HIDE DEF hits, new
  <2>3. TreesRooted'
    BY <1>1, <1>3, <2>1, OpenRooted
  <2>4. EndsSeen'
    <3>1. \A sd \in Sides : DOMAIN [prev EXCEPT ![side] = Reached(prev[side], s, before \cup {m})][sd]
                            = DOMAIN prev'[sd]
      BY <1>3
    <3> QED
      BY <1>1, <1>3, <2>1, <2>2, <3>1, OpenEnds
  <2> QED
    BY <2>3, <2>4 DEF TraceInv
<1> QED
  BY <1>2, <1>3 DEF Open

LEMMA TurnTrace ==
  ASSUME IInv, TraceInv, Turn
  PROVE  TraceInv'
<1>1. UNCHANGED <<design, ask, prev>> /\ phase = "walking"
  BY DEF Turn
<1>2. TreesRooted'
  <2>1. \A sd \in Sides : Rooted(design, prev[sd], Seed(design, ask, sd))
    BY <1>1 DEF TraceInv, TreesRooted
  <2>2. \A sd : Seed(design, ask, sd)' = Seed(design, ask, sd)
    BY <1>1 DEF Seed, RepKey
  <2> QED
    BY <1>1, <2>1, <2>2 DEF TreesRooted, Rooted
<1>3. phase' = "walking" \/ answer'.ends = <<>>
  <2>1. Answered(ask, Answer(FALSE, FALSE, <<>>)) \/ UNCHANGED phase
    BY Zenon DEF Turn
  <2>2. Answered(ask, Answer(FALSE, FALSE, <<>>)) => answer' = Answer(FALSE, FALSE, <<>>)
    BY DEF Answered
  <2> QED
    BY <1>1, <2>1, <2>2 DEF Answer
<1> QED
  BY <1>2, <1>3 DEF TraceInv, EndsSeen

LEMMA NextTrace == IInv /\ WalkInv /\ TraceInv /\ [Next]_vars => TraceInv'
<1> SUFFICES ASSUME IInv, WalkInv, TraceInv, [Next]_vars
             PROVE  TraceInv'
  OBVIOUS
<1>1. CASE UNCHANGED vars
  <2>1. UNCHANGED <<design, ask, phase, prev, answer>>
    BY <1>1 DEF vars, walk
  <2>2. TreesRooted'
    BY <2>1 DEF TraceInv, TreesRooted, Rooted, Seed, RepKey
  <2>3. EndsSeen'
    BY <2>1 DEF TraceInv, EndsSeen, Seen, Seed, RepKey, BitsMeet, Touch
  <2> QED
    BY <2>2, <2>3 DEF TraceInv
<1> QED
  BY <1>1, CheckTrace, OpenTrace, TurnTrace DEF Next, Proceed

\* The hops of a traced answer lead from the start to the goal, an edge of the design
\* each, unless the two sides met at two bits of different names: an expansion keeps the
\* net another was first reached from, and where the rep index found a net of the other
\* side the equivalence test finds it too (walk.py:1228-1233, 528-531).
THEOREM TracesAreWhole == Spec => []TraceIsWhole
<1>1. Init => IInv /\ WalkInv /\ TraceInv
  BY InitInv, InitWalk DEF Init, TraceInv, TreesRooted, EndsSeen
<1>2. IInv /\ WalkInv /\ TraceInv /\ [Next]_vars => IInv' /\ WalkInv' /\ TraceInv'
  BY NextInv, NextWalk, NextTrace
<1>3. IInv /\ TraceInv => TraceIsWhole
  <2> SUFFICES ASSUME IInv, TraceInv, phase = "answered", answer.ok, answer.ends # <<>>
               PROVE  TraceIsWhole
    BY DEF TraceIsWhole
  <2>1. \A sd \in Sides : \A s \in Seen(sd) : HopsLead(sd, s)
    BY HopsReach DEF TraceInv, TreesRooted
  <2>2. /\ \A s \in Seen("forward") : HopsLead("forward", s)
        /\ \A s \in Seen("backward") : HopsLead("backward", s)
    BY <2>1, SidesTwo
  <2>3. EndsSeen
    BY DEF TraceInv
  <2> QED
    BY <2>2, <2>3 DEF EndsSeen, TraceIsWhole
<1> QED
  BY <1>1, <1>2, <1>3, PTL DEF Spec
=============================================================================
