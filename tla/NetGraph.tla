------------------------------ MODULE NetGraph ------------------------------
(***************************************************************************)
(* The graph the connectivity walks search (connect/text/walk.py and       *)
(* connect/logical/search.py, _expand_state): its nodes are nets of        *)
(* instances, its edges the ways from a net to a net of the same instance, *)
(* of a child or of the parent.                                            *)
(*                                                                         *)
(* What is read from the bodies is data of a graph: the classes of the     *)
(* nets an assignment ties (net_rep), the ties of bind cells (rep_adj),    *)
(* the port maps and the hierarchical references.  A net is a base with    *)
(* or without one bit select, or the text of a port map the walk finds no  *)
(* net in: a constant, say.  The net-alias edge never fires: net_rep holds *)
(* union-find roots, which represent themselves.                           *)
(***************************************************************************)
EXTENDS Naturals, Sequences, FiniteSets

CONSTANTS
  Scopes,     \* instance paths
  Bases,      \* net and port names
  Bits,       \* bit selects
  Texts,      \* texts of port map expressions, none with a select
  FanoutCap,  \* _TEXT_REP_ADJ_FANOUT_CAP
  Order,      \* where each net is in sorted order
  None

Wires == Bases \X (Bits \cup {None})
Nets == Wires \cup (Texts \X {None})
States == Scopes \X Nets
Sliced(n) == n[2] # None

ASSUME GraphAssumption ==
  /\ Bits \subseteq Nat
  /\ None \notin Scopes \cup Bits \cup Texts
  /\ Bases \cap Texts = {}
  /\ FanoutCap \in Nat
  /\ Order \in [Nets -> Nat]
\* A design has finitely many rows and names.
ASSUME FiniteAssumption ==
  IsFiniteSet(Scopes) /\ IsFiniteSet(Bases) /\ IsFiniteSet(Bits) /\ IsFiniteSet(Texts)

\* A port map expression: a net, a concatenation, an expression mixing nets or a
\* constant.  An open port has no parts and no text.
Expr ==
  {e \in [kind : {"net", "concat", "mixed", "const"}, parts : Seq(Nets), text : Texts \cup {None}] :
     /\ e.kind = "const" => e.parts = <<>>
     /\ e.kind # "concat" => \A i \in DOMAIN e.parts : e.parts[i][1] \in Bases}
NoExpr == [kind |-> "net", parts |-> <<>>, text |-> None]

Graph == [logical : BOOLEAN,                           \* which of the two walks
          parent : [Scopes -> Scopes \cup {None}],
          net_rep : [Scopes -> [Nets -> Wires \cup {None}]],
          assigned : [Scopes -> SUBSET Wires],         \* nets of assignments (assign_adj)
          adj : [Scopes -> SUBSET (Wires \X Wires)],
          ports : [Scopes -> [Bases -> Expr]],         \* inst_ports of the parent
          hier : [Scopes -> SUBSET (Wires \X Scopes \X Wires)],
          iface : SUBSET Scopes]

Roots(e) == {e.parts[i] : i \in DOMAIN e.parts}
Children(g, s) == {c \in Scopes : g.parent[c] = s}

\* The nets a port map makes nodes of: of a concatenation with selects, only those.
Seeds(e) ==
  LET nets == Roots(e) \cap Wires
      bits == {n \in nets : Sliced(n)}
  IN  IF e.kind = "concat" /\ bits # {} THEN bits ELSE nets

\* What reading a body makes of it: the nets an assignment or a port map names are in
\* classes, a class is represented by one of its nets, a text is of one expression.
Read(g) ==
  \A s \in Scopes :
    LET of == g.net_rep[s]
        maps == {g.ports[c][p] : c \in Children(g, s), p \in Bases}
    IN  /\ \A n \in g.assigned[s] \cup UNION {Seeds(e) : e \in maps} : of[n] # None
        /\ \A n \in Nets : of[n] # None => n \in Wires /\ of[of[n]] = of[n]
        /\ \A e, f \in maps : e.text # None /\ e.text = f.text => e.parts = f.parts

-----------------------------------------------------------------------------
(* Classes.                                                                *)

Get(g, scope, n) == IF g.net_rep[scope][n] # None THEN g.net_rep[scope][n] ELSE n

\* net_representative: to text conn a bit nothing names is its whole net; a net whose
\* assigned bits are of one class is of that class.
Rep(g, scope, n) ==
  LET of == g.net_rep[scope]
      whole == <<n[1], None>>
      bits == {of[m] : m \in {<<n[1], b>> : b \in Bits} \cap g.assigned[scope]} \ {None}
  IN  CASE n[1] \in Texts -> n
        [] n[1] \in Bases /\ of[n] # None -> of[n]
        [] n[1] \in Bases /\ of[n] = None /\ Sliced(n) /\ g.logical -> n
        [] OTHER -> IF of[whole] # None THEN of[whole]
                    ELSE IF Cardinality(bits) = 1 THEN CHOOSE r \in bits : TRUE ELSE whole

\* _state_key: text conn keeps a select on an edge that crosses an instance.
StateKey(g, scope, n, preserve) ==
  IF preserve /\ ~ g.logical /\ Sliced(n) THEN <<scope, n>> ELSE <<scope, Rep(g, scope, n)>>

Ties(g, scope, r) == {p \in Nets : <<r, p>> \in g.adj[scope]}

\* rep_adj, of which text conn takes the first nets in sorted order; the mutant takes
\* one less.
FirstLess(count) == count - 1
First(count) == count
Peers(g, scope, r) ==
  LET all == Ties(g, scope, r) IN
  {p \in all : g.logical \/ Cardinality({q \in all : Order[q] < Order[p]}) < First(FanoutCap)}

\* A port map to a whole net maps its bits too.
Mapped(n) == IF Sliced(n) THEN {n} ELSE {<<n[1], b>> : b \in Bits \cup {None}}

\* net_to_children: the ports of child c that the nets of class r are mapped to
\* (_build_reverse_port_index).
ChildPorts(g, scope, c, r) ==
  LET Is(n) == Get(g, scope, n) = r
      Port(p) == LET e == g.ports[c][p] IN
        CASE e.kind = "net" ->
               {b \in Bits \cup {None} : \E n \in Roots(e) :
                  \/ \E m \in Mapped(n) : Is(m) /\ b \in {None, m[2]}
                  \/ LET k == Get(g, scope, n) IN
                     b # None /\ ~ Sliced(k) /\ k # r /\ Is(<<k[1], b>>)}
          [] e.kind = "concat" ->
               {i - 1 : i \in {j \in DOMAIN e.parts : e.parts[j][1] \in Bases /\ Is(e.parts[j])}}
          [] e.kind \in {"mixed", "const"} -> {}
  IN  UNION {{<<p, b>> : b \in Port(p) \cap (Bits \cup {None})} : p \in Bases}

\* _text_child_port_links_input
Linked(g, c, in, out) ==
  LET reach[found \in SUBSET Nets] ==
        LET more == found \cup UNION {Ties(g, c, m) : m \in found} IN
        IF more = found THEN found ELSE reach[more]
  IN  Rep(g, c, <<out, None>>) \in reach[{Rep(g, c, <<in, None>>)}]

\* _text_inst_blackbox_out_roots: parent nets of the ports the child drives from port.
BlackboxRoots(g, c, port) ==
  IF Sliced(port) \/ g.ports[c][port[1]].kind # "net" THEN {}
  ELSE UNION {Roots(g.ports[c][o]) : o \in {q \in Bases \ {port[1]} :
                g.ports[c][q].kind = "net" /\ Linked(g, c, port[1], q)}}

-----------------------------------------------------------------------------
(* The edges.                                                              *)

\* _child_port_rep_matches
PortMatches(g, scope, p, n) ==
  n[1] = p \/ Rep(g, scope, <<p, None>>) = Rep(g, scope, n)

\* _parent_port_map_roots: the parent's nets behind net n of the child's port p.  The
\* nets of a concatenation are known bit by bit only (expr_roots leaves them out).
PortMapRoots(g, p, e, n) ==
  LET own == n[1] = p IN
  CASE e.parts = <<>> -> {}
    [] e.kind = "net" /\ e.parts # <<>> ->
         IF own /\ Sliced(n) /\ ~ Sliced(e.parts[1]) THEN {<<e.parts[1][1], n[2]>>}
         ELSE {e.parts[1]}
    [] e.kind = "concat" /\ e.parts # <<>> ->
         IF own /\ Sliced(n) /\ n[2] + 1 \in DOMAIN e.parts THEN {e.parts[n[2] + 1]} ELSE {}
    [] e.kind = "mixed" /\ e.parts # <<>> ->
         IF own /\ Sliced(n) THEN {<<m[1], n[2]>> : m \in {k \in Roots(e) : ~ Sliced(k)}}
         ELSE IF g.logical THEN {}
         ELSE Roots(e)

\* A port map kept as text; the mutant adds the select of the port.
TextSelected(e, n) == <<e.text, n[2]>>
TextNet(e, n) == <<e.text, None>>

\* _compute_parent_up_targets, over the rows in view: where no net is behind the port,
\* the text of its map.
UpTargets(g, rows, scope, n) ==
  LET Above(e, roots) == IF roots = {} /\ e.text # None THEN {TextNet(e, n)} ELSE roots IN
  IF g.parent[scope] \notin rows THEN {}
  ELSE UNION {Above(g.ports[scope][p], PortMapRoots(g, p, g.ports[scope][p], n))
                : p \in {q \in Bases : PortMatches(g, scope, q, n)}}

\* _expand_state, with the parent nets up of n: every edge from net n of scope.
Expand(g, rows, s, up) ==
  LET scope == s[1]
      n == s[2]
      r == Rep(g, scope, n)
      kids == Children(g, scope)
      over == g.parent[scope]
      Key(t, m) == StateKey(g, t, m, TRUE)
      within == {StateKey(g, scope, p, FALSE) : p \in Peers(g, scope, r)}
      below == UNION {{<<c, p>> : p \in ChildPorts(g, scope, c, r)} : c \in kids}
      down == {Key(x[1], x[2]) : x \in {y \in below : y[1] \in rows}}
      through == IF g.logical THEN {}
                 ELSE UNION {LET out == BlackboxRoots(g, x[1], x[2]) IN
                             {Key(scope, m) : m \in out}
                             \cup {Key(scope, h[1]) : h \in {k \in g.hier[scope] :
                                     k[2] = x[1] /\ \E m \in out : k[3] = <<m[1], None>>}}
                        : x \in below}
      hierDown == {Key(h[2], h[3]) : h \in {k \in g.hier[scope] :
                     k[1] = r /\ k[2] \in rows /\ k[2] \notin g.iface}}
      above == {Key(over, m) : m \in up}
      hierUp == IF over \notin rows \/ scope \in g.iface THEN {}
                ELSE {StateKey(g, over, h[1], FALSE) : h \in {k \in g.hier[over] :
                        k[2] = scope /\ PortMatches(g, scope, k[3][1], n)}}
  IN  IF scope \in rows THEN within \cup down \cup through \cup hierDown \cup above \cup hierUp
      ELSE {}

-----------------------------------------------------------------------------
(* When two states are one to the walk.                                    *)

\* _text_states_equivalent, and equality in the logical walk.
Equivalent(g, s, t) ==
  \/ s = t
  \/ /\ ~ g.logical /\ s[1] = t[1]
     /\ ~ (Sliced(s[2]) /\ Sliced(t[2]))
     /\ Rep(g, s[1], s[2]) = Rep(g, t[1], t[2])

\* _find_equivalent_in: the members of C that may be found for s, first by the
\* rep index (_SeenRepIndex.find_in), then one by one.
FindIn(g, s, C) ==
  LET near == {t \in C : t[1] = s[1] /\ Rep(g, t[1], t[2]) = Rep(g, s[1], s[2])}
      base == {t \in near : ~ Sliced(t[2])}
      slice == {t \in near : t[2][2] = s[2][2]}
      indexed == IF ~ Sliced(s[2]) THEN near ELSE IF base # {} THEN base ELSE slice
  IN  IF s \in C THEN {s}
      ELSE IF g.logical THEN {}
      ELSE IF indexed # {} THEN indexed
      ELSE {t \in C : Equivalent(g, s, t)}
=============================================================================
