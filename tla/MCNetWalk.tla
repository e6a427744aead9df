----------------------------- MODULE MCNetWalk -----------------------------
(* A top, a middle instance and two leaves, one below the middle, one below *)
(* the top.  The gate may drop the row of the middle or of its leaf.        *)
EXTENDS NetWalk, SequencesExt

CONSTANTS top, mid, u, w, a, b, p, expr
MCScopes == {top, mid, u, w}
MCBases == {a, b, p}
MCTexts == {expr}
MCViews == {MCScopes, {top, u, w}, {top, mid, w}}

\* By name, a net before its bits.
MCOrder ==
  LET name == a :> 0 @@ b :> 3 @@ expr :> 6 @@ p :> 9
  IN  [m \in Nets |-> name[m[1]] + (IF Sliced(m) THEN m[2] + 1 ELSE 0)]

N(x) == <<x, None>>
B(x, i) == <<x, i>>
Net(n) == [kind |-> "net", parts |-> <<n>>, text |-> None]
Concat(ns) == [kind |-> "concat", parts |-> ns, text |-> expr]
Mixed(ns) == [kind |-> "mixed", parts |-> ns, text |-> expr]
Const == [kind |-> "const", parts |-> <<>>, text |-> expr]

Of(ft, fm, fu, fw) ==
  top :> ft @@ mid :> fm @@ u :> fu @@ w :> fw
\* The nets of a class are tied to one another: the first represents it.
Tied(class) == [n \in Range(class) |-> class[1]] @@ [n \in Nets |-> None]
\* The maps of the ports p, a and b of an instance.
Map(ep, ea, eb) == p :> ep @@ a :> ea @@ b :> eb
Open3 == Map(NoExpr, NoExpr, NoExpr)
Parent == Of(None, top, mid, top)

\* Of a net in no assignment: itself, where a port map names it.
Named(rep, ports) ==
  [s \in MCScopes |-> [n \in Nets |->
     IF rep[s][n] = None /\ \E c \in {k \in MCScopes : Parent[k] = s}, q \in MCBases : n \in Seeds(ports[c][q])
     THEN n ELSE rep[s][n]]]
Design(logical, rep, adj, ports, hier, iface) ==
  [logical |-> logical, parent |-> Parent, net_rep |-> Named(rep, ports),
   assigned |-> [s \in MCScopes |-> {n \in Nets : rep[s][n] # None}],
   adj |-> adj, ports |-> ports, hier |-> hier, iface |-> iface]
\* A bind ties two nets both ways.
Both(n, m) == {<<n, m>>, <<m, n>>}
Flat == Of({}, {}, {}, {})
Loose == Of(Tied(<<>>), Tied(<<>>), Tied(<<>>), Tied(<<>>))

\* A concatenation above a leaf, bits of a bus and a constant above the other.
Bus(logical) ==
  Design(logical, Loose, Flat,
         Of(Open3, Map(Net(N(p)), Net(N(a)), Const), Map(Concat(<<N(p), N(a)>>), NoExpr, NoExpr),
            Map(Net(N(p)), Net(B(a, 0)), Const)), Flat, {})
\* The concatenation one level higher: the select crosses two instances.
Deep(logical) ==
  Design(logical, Loose, Flat,
         Of(Open3, Map(Concat(<<N(a), N(p)>>), NoExpr, NoExpr), Map(Net(N(p)), NoExpr, NoExpr),
            Map(Net(N(p)), Net(N(a)), Net(N(p)))), Flat, {})
\* Two nets of one class in the middle; a leaf that passes p through to a.
Class(logical) ==
  Design(logical, Of(Tied(<<>>), Tied(<<N(a), N(p)>>), Tied(<<N(p), N(a)>>), Tied(<<N(p), N(a)>>)),
         Flat,
         Of(Open3, Map(Net(N(p)), NoExpr, Net(N(a))), Map(Net(N(p)), Net(N(b)), NoExpr),
            Map(Net(N(p)), NoExpr, Mixed(<<N(a), N(b)>>))), Flat, {})
\* Binds and a hierarchical reference into the middle; a concatenation of one net.
Hier(logical, binds, iface) ==
  Design(logical, Loose, Of(binds, {}, Both(N(p), N(b)), {}),
         Of(Open3, Open3, Map(Concat(<<N(p)>>), NoExpr, Net(N(a))), Map(Net(N(p)), Net(N(a)), NoExpr)),
         Of({<<N(b), mid, N(p)>>}, {}, {}, {}), iface)

\* Whole nets alone: binds, a hierarchical reference, an expression that mixes nets.
Plain(logical) ==
  Design(logical, Of(Tied(<<N(a), N(p)>>), Tied(<<>>), Tied(<<>>), Tied(<<N(p), N(b)>>)),
         Of(Both(N(a), N(b)), {}, {}, {}),
         Of(Open3, Map(Mixed(<<N(a), N(p)>>), Net(N(b)), NoExpr), Map(Net(N(p)), Net(N(a)), NoExpr),
            Map(Net(N(p)), NoExpr, Mixed(<<N(a), N(p)>>))),
         Of({<<N(b), mid, N(a)>>}, {}, {}, {}), {})

\* In the last design the middle is an interface and a net has more binds than text conn
\* follows.
MCDesigns ==
  UNION {{Bus(l), Deep(l), Class(l), Hier(l, Both(N(b), N(p)), {}), Plain(l)} : l \in BOOLEAN}
  \cup {Hier(FALSE, Both(N(b), N(p)) \cup Both(N(b), N(a)), {mid})}

Asks(kind, starts, goals, trace) ==
  {[kind |-> kind, start |-> x, goal |-> y, trace |-> trace] : x \in starts, y \in goals}
MCQuestions ==
  Asks("port-port", {<<u, N(p)>>, <<u, B(p, 0)>>, <<u, B(p, 1)>>, <<mid, N(b)>>},
       {<<w, N(p)>>, <<w, N(b)>>}, FALSE)
  \cup Asks("port-port", {<<u, B(p, 0)>>, <<mid, N(p)>>}, {<<w, B(p, 0)>>, <<mid, B(a, 0)>>}, TRUE)
  \cup Asks("port-port", {<<mid, N(p)>>}, {<<mid, N(a)>>}, FALSE)
  \cup Asks("port-hierarchy", {<<u, N(p)>>, <<u, B(p, 1)>>}, {<<top, N(p)>>, <<w, N(p)>>}, FALSE)
  \cup Asks("port-hierarchy", {<<u, N(p)>>}, {<<top, N(p)>>}, TRUE)
=============================================================================
