--------------------------- MODULE HierGrepProofs ---------------------------
(* Theorems about HierGrep, for every set of sources, texts and checks.    *)
EXTENDS HierGrep, WellFoundedInduction, TLAPS

-----------------------------------------------------------------------------
(* Texts: what is read stays read, and items, bodies and blocks have their  *)
(* type.                                                                   *)

Texts == [Source -> AnyText \cup {Nothing}]
\* What u says of a source it has read stands in v.
Grows(u, v) == \A s \in Source : u[s] = Nothing \/ v[s] = u[s]
IsRead(t, p) == t[p.src] # Nothing

LEMMA ItemsType ==
  ASSUME NEW t \in Texts, NEW s \in Source, NEW m, t[s] # Nothing
  PROVE  Items(t, s, m) \subseteq Item
<1>1. PICK r \in Source : t[s] \in Contents[r]
  BY DEF Texts, AnyText
<1>2. IsContent(t[s])
  BY <1>1, HierGrepAssumption
<1> QED
  BY <1>2 DEF IsContent, Items

LEMMA BodyType ==
  ASSUME NEW t \in Texts, NEW p \in Place, IsRead(t, p)
  PROVE  /\ Body(t, p) \subseteq Items(t, p.src, p.mod)
         /\ Body(t, p) \subseteq Item
BY ItemsType DEF Body, Place, IsRead

LEMMA BlocksScope ==
  ASSUME NEW body, NEW in, NEW n, NEW at \in Blocks(body, in, n)
  PROVE  \E i \in body : \E k \in Len(in) + 1 .. Len(i.scope) :
           at = SubSeq(i.scope, 1, k) /\ i.scope[k].label = n
<1>1. PICK i \in body :
        at \in {SubSeq(i.scope, 1, k) : k \in {k \in Len(in) + 1 .. Len(i.scope) : i.scope[k].label = n}}
  BY DEF Blocks, Labelled
<1> QED
  BY <1>1

LEMMA BlocksType ==
  ASSUME NEW t \in Texts, NEW p \in Place, IsRead(t, p), NEW n, NEW at \in Blocks(Body(t, p), p.at, n)
  PROVE  at \in Seq(Block) /\ n \in Name
<1>1. PICK i \in Body(t, p) : \E k \in Len(p.at) + 1 .. Len(i.scope) :
        at = SubSeq(i.scope, 1, k) /\ i.scope[k].label = n
  BY BlocksScope
<1>2. PICK k \in Len(p.at) + 1 .. Len(i.scope) : at = SubSeq(i.scope, 1, k) /\ i.scope[k].label = n
  BY <1>1
<1>3. i.scope \in Seq(Block) /\ p.at \in Seq(Block)
  BY BodyType DEF Item, Place
<1>4. k \in 1..Len(i.scope) /\ i.scope[k] \in Block
  BY <1>3
<1>5. n \in Name
  BY <1>2, <1>4 DEF Block
<1> QED
  BY <1>2, <1>3, <1>4, <1>5

LEMMA ReadType ==
  ASSUME disk \in [Source -> AnyText], text \in Texts, NEW ss
  PROVE  /\ Read(ss) \in Texts
         /\ Grows(text, Read(ss))
         /\ \A s \in Source : s \in ss => Read(ss)[s] # Nothing
<1>1. Nothing \notin AnyText
  BY HierGrepAssumption DEF AnyText
<1> QED
  BY <1>1 DEF Read, Texts, Grows

-----------------------------------------------------------------------------
(* Branches: a hop gives branches whose last place was read.               *)

\* A branch over the index that ends in a source that was read.
Standing(t, index, b) ==
  b \in Branch /\ Here(b).src \in index[Here(b).mod] /\ t[Here(b).src] # Nothing
Indexed(index) == index \in [Module -> SUBSET Source]

LEMMA LastNode ==
  ASSUME NEW b \in Branch
  PROVE  /\ Last(b) \in Node /\ Here(b) \in Place
         /\ Last(b).labels \in Seq(Name)
         /\ Here(b).src \in Source /\ Here(b).mod \in Module /\ Here(b).at \in Seq(Block)
<1>1. b \in Seq(Node) /\ Len(b) \in DOMAIN b
  BY DEF Branch
<1>2. Last(b) \in Node
  BY <1>1 DEF Last
<1> QED
  BY <1>2 DEF Node, Place, Here

LEMMA AppendNode ==
  ASSUME NEW b \in Branch, NEW x \in Node, x.seg \in Name
  PROVE  /\ Append(b, x) \in Branch
         /\ Last(Append(b, x)) = x
<1>1. b \in Seq(Node) /\ Append(b, x) \in Seq(Node) /\ Len(Append(b, x)) = Len(b) + 1
  BY DEF Branch
<1>2. \A k \in 1..Len(b) : Append(b, x)[k] = b[k]
  BY <1>1
<1>3. Append(b, x)[Len(b) + 1] = x
  BY <1>1
<1>4. Append(b, x) # <<>> /\ Last(Append(b, x)) = x
  BY <1>1, <1>3 DEF Last
<1>5. ASSUME NEW k \in 2..Len(Append(b, x))
      PROVE  Append(b, x)[k].seg \in Name
  <2>1. k \in 2..Len(b) \/ k = Len(b) + 1
    BY <1>1
  <2> QED
    BY <1>1, <1>2, <1>3, <2>1 DEF Branch
<1> QED
  BY <1>1, <1>4, <1>5 DEF Branch

LEMMA DeclsType ==
  ASSUME NEW t, NEW index, Indexed(index), NEW m \in Module
  PROVE  /\ Decls(t, index, m) \subseteq index[m]
         /\ index[m] # {} => Decls(t, index, m) # {}
         /\ \A s \in index[m] : Items(t, s, m) # {} => s \in Decls(t, index, m)
BY DEF Decls, Indexed

LEMMA ChildrenType ==
  ASSUME NEW t, NEW index, NEW p, NEW n, NEW m \in Children(t, p, n, index)
  PROVE  /\ m \in Module /\ index[m] # {}
         /\ Body(t, p) # {}
         /\ \/ \E i \in Edges(Body(t, p), n) : i.cell = m
            \/ Edges(Body(t, p), n) = {} /\ Inferred[n] = m
<1>1. m \in Known(index) /\ n \in Words(Body(t, p), p.at)
  BY DEF Children, ChildMods
<1>2. Body(t, p) # {}
  BY <1>1 DEF Words
<1> QED
  BY <1>1, <1>2 DEF Children, ChildMods, Known

LEMMA EnterType ==
  ASSUME NEW t, NEW index, Indexed(index), NEW b \in Branch, NEW n \in Name,
         NEW ms \in SUBSET Module, \A m \in ms : \A s \in index[m] : t[s] # Nothing,
         NEW c \in Enter(t, index, b, n, ms)
  PROVE  /\ Standing(t, index, c)
         /\ Here(c).mod \in ms /\ Here(c).at = <<>> /\ Here(c).src \in index[Here(c).mod]
<1>1. PICK m \in ms : c \in {Append(b, Node1(n, "inst", [mod |-> m, src |-> s, at |-> <<>>], <<>>)) :
                              s \in Decls(t, index, m)}
  BY DEF Enter
<1>2. PICK s \in Decls(t, index, m) :
        c = Append(b, Node1(n, "inst", [mod |-> m, src |-> s, at |-> <<>>], <<>>))
  BY <1>1
<1> DEFINE x == Node1(n, "inst", [mod |-> m, src |-> s, at |-> <<>>], <<>>)
<1>3. s \in index[m] /\ s \in Source
  BY <1>2, DeclsType DEF Indexed
<1>4. x \in Node /\ x.seg \in Name /\ x.place = [mod |-> m, src |-> s, at |-> <<>>]
  BY <1>3 DEF Node, Place, Node1
<1>5. c \in Branch /\ Here(c) = x.place
  BY <1>2, <1>4, AppendNode DEF Here
<1> QED
  BY <1>3, <1>4, <1>5 DEF Standing

LEMMA EnterPlace ==
  ASSUME NEW t, NEW index, NEW b \in Branch, NEW n, NEW ms, NEW c \in Enter(t, index, b, n, ms)
  PROVE  Here(c).mod \in ms /\ Here(c).at = <<>>
<1>1. PICK m \in ms : c \in {Append(b, Node1(n, "inst", [mod |-> m, src |-> s, at |-> <<>>], <<>>)) :
                              s \in Decls(t, index, m)}
  BY DEF Enter
<1>2. PICK s : c = Append(b, Node1(n, "inst", [mod |-> m, src |-> s, at |-> <<>>], <<>>))
  BY <1>1
<1>3. Last(c) = Node1(n, "inst", [mod |-> m, src |-> s, at |-> <<>>], <<>>)
  BY <1>2 DEF Branch, Last
<1> QED
  BY <1>3 DEF Here, Node1

LEMMA LabelType ==
  ASSUME NEW t \in Texts, NEW index, NEW b, Standing(t, index, b), NEW n,
         NEW c \in Label(t, b, n)
  PROVE  /\ Standing(t, index, c)
         /\ \E at \in Blocks(Body(t, Here(b)), Here(b).at, n) : Here(c) = [Here(b) EXCEPT !.at = at]
<1> DEFINE p == Here(b)
           x(at) == Node1(n, "genblk", [p EXCEPT !.at = at], Append(Last(b).labels, n))
<1>1. PICK at \in Blocks(Body(t, p), p.at, n) : c = Append(b, x(at))
  BY DEF Label
<1>2. b \in Branch /\ p \in Place /\ IsRead(t, p) /\ Last(b).labels \in Seq(Name)
  BY LastNode DEF Standing, IsRead
<1>3. at \in Seq(Block) /\ n \in Name
  BY <1>2, BlocksType
<1>4. [p EXCEPT !.at = at] \in Place
  BY <1>2, <1>3 DEF Place
<1>5. x(at) \in Node /\ x(at).seg \in Name /\ x(at).place = [p EXCEPT !.at = at]
  BY <1>2, <1>3, <1>4 DEF Node, Node1
<1>6. c \in Branch /\ Here(c) = [p EXCEPT !.at = at]
  BY <1>1, <1>2, <1>5, AppendNode DEF Here
<1>7. Here(c).src = p.src /\ Here(c).mod = p.mod
  BY <1>2, <1>6 DEF Place
<1> QED
  BY <1>1, <1>6, <1>7 DEF Standing

LEMMA NetType ==
  ASSUME NEW t, NEW index, NEW b, Standing(t, index, b), NEW n \in Name, NEW c \in Net(t, b, n)
  PROVE  /\ Standing(t, index, c)
         /\ \E i \in Body(t, Here(b)) : i.name = n /\ i.kind \in {"port", "signal"}
<1> DEFINE p == Here(b)
           x(k) == Node1(n, k, p, Last(b).labels)
<1>1. PICK k \in {"port", "signal"} :
        c = Append(b, x(k)) /\ \E i \in Body(t, p) : i.kind = k /\ i.name = n
  BY DEF Net
<1>2. b \in Branch /\ p \in Place /\ Last(b).labels \in Seq(Name)
  BY LastNode DEF Standing
<1>3. x(k) \in Node /\ x(k).seg \in Name /\ x(k).place = p
  BY <1>2 DEF Node, Node1
<1>4. c \in Branch /\ Here(c) = p
  BY <1>1, <1>2, <1>3, AppendNode DEF Here
<1> QED
  BY <1>1, <1>4 DEF Standing

-----------------------------------------------------------------------------
(* A hop reads what it needs.                                              *)

LEMMA SameText ==
  ASSUME NEW u, NEW v, Grows(u, v), NEW p, p.src \in Source, u[p.src] # Nothing
  PROVE  /\ v[p.src] = u[p.src]
         /\ Items(v, p.src, p.mod) = Items(u, p.src, p.mod)
         /\ Body(v, p) = Body(u, p)
         /\ \A n, index : Children(v, p, n, index) = Children(u, p, n, index)
BY DEF Grows, Items, Body, Children

\* After the sources a hop touches are read, the modules it leads to are read wherever they are
\* declared.
LEMMA ChildrenRead ==
  ASSUME disk \in [Source -> AnyText], text \in Texts,
         NEW index, Indexed(index), NEW bs, \A b \in bs : Standing(text, index, b), NEW n,
         NEW b \in bs, NEW m \in Children(Read(Touched(text, index, bs, n)), Here(b), n, index)
  PROVE  \A s \in index[m] : s \in Source /\ Read(Touched(text, index, bs, n))[s] # Nothing
<1> DEFINE t == Read(Touched(text, index, bs, n))
<1>1. Grows(text, t) /\ \A s \in Source : s \in Touched(text, index, bs, n) => t[s] # Nothing
  BY ReadType
<1>2. Here(b).src \in Source /\ text[Here(b).src] # Nothing
  BY LastNode DEF Standing
<1>3. m \in Children(text, Here(b), n, index)
  BY <1>1, <1>2, SameText
<1>4. m \in Module
  BY <1>3, ChildrenType
<1>5. index[m] \subseteq Touched(text, index, bs, n)
  BY <1>3 DEF Touched
<1> QED
  BY <1>1, <1>4, <1>5 DEF Indexed

\* What a branch of a hop may be: an entered module, a block, or a net of a last hop.
LEMMA HopType ==
  ASSUME disk \in [Source -> AnyText], text \in Texts,
         NEW index, Indexed(index), NEW bs, \A b \in bs : Standing(text, index, b), NEW n \in Name,
         NEW b \in bs, NEW t, t = Read(Touched(text, index, bs, n)),
         NEW c, \/ c \in HopOf(t, index, b, n)
                \/ c \in LeafOf(t, index, b, n)
  PROVE  Standing(t, index, c)
<1>1. t \in Texts /\ Grows(text, t)
  BY ReadType
<1>2. Standing(t, index, b)
  BY <1>1, LastNode DEF Standing, Grows
<1>3. CASE c \in Enter(t, index, b, n, Children(t, Here(b), n, index))
  <2>1. Children(t, Here(b), n, index) \in SUBSET Module
    BY ChildrenType
  <2>2. \A m \in Children(t, Here(b), n, index) : \A s \in index[m] : t[s] # Nothing
    BY ChildrenRead
  <2>3. b \in Branch
    BY <1>2 DEF Standing
  <2> HIDE DEF Standing
  <2> QED
    BY <1>3, <2>1, <2>2, <2>3, EnterType
<1>4. CASE c \in Label(t, b, n)
  BY <1>1, <1>2, <1>4, LabelType
<1>5. CASE c \in Net(t, b, n)
  BY <1>2, <1>5, NetType
<1> QED
  BY <1>3, <1>4, <1>5 DEF HopOf, LeafOf

LEMMA RootType ==
  ASSUME NEW index, Indexed(index), NEW t, \A s \in index[Top] : t[s] # Nothing,
         NEW s \in index[Top]
  PROVE  LET x == Node1(Nothing, "inst", [mod |-> Top, src |-> s, at |-> <<>>], <<>>)
         IN  Standing(t, index, <<x>>) /\ ~IsNet(<<x>>) /\ Here(<<x>>) = [mod |-> Top, src |-> s, at |-> <<>>]
<1> DEFINE x == Node1(Nothing, "inst", [mod |-> Top, src |-> s, at |-> <<>>], <<>>)
<1>1. Top \in Module /\ s \in Source
  BY HierGrepAssumption DEF Indexed
<1>2. x \in Node /\ x.place = [mod |-> Top, src |-> s, at |-> <<>>] /\ x.kind = "inst"
  BY <1>1 DEF Node, Place, Node1
<1>3. <<x>> \in Branch /\ Last(<<x>>) = x
  BY <1>2 DEF Branch, Last
<1> QED
  BY <1>2, <1>3 DEF Standing, Here, IsNet

-----------------------------------------------------------------------------
(* Gates.                                                                  *)

LEMMA RowsType ==
  ASSUME NEW b \in Branch
  PROVE  RowsOf(b) \in SUBSET Row
<1> DEFINE r(i) == [path |-> [j \in 1..(i - 1) |-> b[j + 1].seg], mod |-> b[i].place.mod,
                    src |-> b[i].place.src]
<1>1. ASSUME NEW i \in DOMAIN b
      PROVE  r(i) \in Row
  <2>1. b \in Seq(Node) /\ i \in 1..Len(b) /\ b[i] \in Node
    BY DEF Branch
  <2>2. \A j \in 1..(i - 1) : b[j + 1].seg \in Name
    BY <2>1 DEF Branch
  <2>3. [j \in 1..(i - 1) |-> b[j + 1].seg] \in Seq(Name)
    BY <2>1, <2>2
  <2>4. b[i].place.mod \in Module /\ b[i].place.src \in Source
    BY <2>1 DEF Node, Place
  <2> QED
    BY <2>3, <2>4 DEF Row
<1> QED
  BY <1>1 DEF RowsOf

LEMMA GateOfType ==
  ASSUME NEW spec \in Seq(Name), NEW hier \in Seq(Name), NEW tail \in Name \cup {Nothing},
         NEW bs, NEW b, bs = {} \/ b \in Branch
  PROVE  /\ GateOf(spec, hier, tail, bs, b) \in EndpointGate
         /\ GateOf(spec, hier, tail, bs, b).spec = spec
         /\ GateOf(spec, hier, tail, bs, b).ok <=> bs # {}
<1>1. (IF bs = {} THEN {} ELSE RowsOf(b)) \in SUBSET Row
  BY RowsType
<1>2. Ambiguous(bs) \in BOOLEAN
  BY DEF Ambiguous
<1> QED
  BY <1>1, <1>2 DEF GateOf, EndpointGate

LEMMA FrontType ==
  ASSUME NEW path \in Seq(Name), path # <<>>
  PROVE  /\ Front(path) \in Seq(Name) /\ Len(Front(path)) = Len(path) - 1
         /\ Last(path) \in Name /\ Last(path) = path[Len(path)]
         /\ Front(path) = SubSeq(path, 1, Len(path) - 1)
         /\ \A k \in 1..(Len(path) - 1) : Front(path)[k] = path[k]
<1>1. Len(path) \in 1..Len(path) /\ Len(path) - 1 \in 0..Len(path)
  OBVIOUS
<1>2. Front(path) = SubSeq(path, 1, Len(path) - 1)
  BY DEF Front
<1>3. /\ SubSeq(path, 1, Len(path) - 1) \in Seq(Name)
      /\ Len(SubSeq(path, 1, Len(path) - 1)) = Len(path) - 1
      /\ \A k \in 1..(Len(path) - 1) : SubSeq(path, 1, Len(path) - 1)[k] = path[k]
  BY <1>1
<1>4. Last(path) = path[Len(path)] /\ path[Len(path)] \in Name
  BY <1>1 DEF Last
<1> QED
  BY <1>2, <1>3, <1>4

LEMMA PeelType ==
  ASSUME NEW g \in EndpointGate
  PROVE  Peel(g) \in EndpointGate /\ Peel(g).spec = g.spec /\ Peel(g).ok = g.ok
<1>1. ASSUME g.hier # <<>>
      PROVE  Front(g.hier) \in Seq(Name) /\ Last(g.hier) \in Name
  BY <1>1, FrontType DEF EndpointGate
<1> QED
  BY <1>1 DEF Peel, EndpointGate

-----------------------------------------------------------------------------
(* Type correctness.                                                       *)

LEMMA TextsType == Nothing \notin AnyText
BY HierGrepAssumption DEF AnyText

LEMMA SessionType ==
  ASSUME TypeOK, stage # "off"
  PROVE  /\ Indexed(session.index) /\ session.paths \subseteq Source
         /\ \A m \in Module : session.index[m] \subseteq session.paths
         /\ walk.branches \subseteq Branch
         /\ \A b \in walk.branches : Standing(text, session.index, b)
<1>1. /\ session.paths \in Filelists /\ session.index \in [Module -> SUBSET Source]
      /\ \A m \in Module : session.index[m] \subseteq session.paths
  BY DEF TypeOK
<1>2. walk.branches \subseteq Branch
  BY DEF TypeOK, Walk
<1>3. \A b \in walk.branches : Here(b).src \in session.index[Here(b).mod] /\ text[Here(b).src] # Nothing
  BY DEF TypeOK
<1> QED
  BY <1>1, <1>2, <1>3, HierGrepAssumption DEF Indexed, Standing

LEMMA IndexType ==
  ASSUME NEW t, NEW paths \in Filelists
  PROVE  /\ IndexOf(t, paths) \in [Module -> SUBSET Source]
         /\ \A m \in Module : IndexOf(t, paths)[m] \subseteq paths
BY HierGrepAssumption DEF IndexOf

LEMMA InitType == Init => TypeOK
BY HierGrepAssumption DEF Init, TypeOK, AnyText, Unread, NoWalk, Walk

LEMMA EditType ==
  ASSUME TypeOK, NEW s \in Source, Edit(s)
  PROVE  TypeOK'
BY HierGrepAssumption DEF TypeOK, Edit, AnyText

LEMMA SessionStepType ==
  ASSUME TypeOK, NEW paths \in Filelists, NEW only \in BOOLEAN, NEW refresh,
         Load(paths, only) \/ Build(paths, refresh, only)
  PROVE  TypeOK'
<1>1. CASE Load(paths, only)
  BY <1>1 DEF TypeOK, Load, Hits
<1>2. CASE Build(paths, refresh, only)
  BY <1>2, IndexType DEF TypeOK, Build
<1> QED
  BY <1>1, <1>2

LEMMA DumpStopType ==
  ASSUME TypeOK, Dump \/ Stop
  PROVE  TypeOK'
<1>1. CASE Dump
  BY <1>1 DEF TypeOK, Dump
<1>2. CASE Stop
  <2>1. Unread \in [Source -> AnyText \cup {Nothing}]
    BY DEF Unread
  <2>2. /\ <<>> \in Seq(Seq(Name)) /\ <<>> \in Seq(EndpointGate)
        /\ NoWalk \in Walk /\ NoWalk.hops <= Len(NoWalk.path) /\ NoWalk.branches = {}
        /\ NoWalk.probe = Nothing
    BY DEF NoWalk, Walk
  <2> QED
    BY <1>2, <2>1, <2>2 DEF TypeOK, Stop
<1> QED
  BY <1>1, <1>2

\* The path of a check that is under way is a path.
LEMMA StartType ==
  ASSUME TypeOK, NEW path \in Seq(Name), NEW probe \in EndpointGate \cup {Nothing}, Start(path, probe)
  PROVE  /\ walk' \in Walk /\ walk'.hops <= Len(walk'.path) /\ walk'.branches = {}
         /\ walk'.hops = 0 /\ walk'.path = path /\ walk'.probe = probe
         /\ stage' = "root"
BY DEF Start, Walk

LEMMA AskType ==
  ASSUME TypeOK, NEW c \in Checks, Ask(c)
  PROVE  TypeOK'
<1>1. c \in Seq(Seq(Name)) /\ c # <<>> /\ 0 < Len(c) /\ c[1] \in Seq(Name)
  BY HierGrepAssumption
<1>2. /\ walk' \in Walk /\ walk'.hops <= Len(walk'.path) /\ walk'.branches = {} /\ stage' = "root"
      /\ walk'.hops = 0 /\ walk'.probe = Nothing
  BY <1>1, StartType DEF Ask
<1>3. stage = "idle" /\ check' = c /\ gates' = <<>>
      /\ UNCHANGED <<disk, hie, session, text, edits>>
  BY DEF Ask
<1> QED
  BY <1>1, <1>2, <1>3 DEF TypeOK

LEMMA RootStepType ==
  ASSUME TypeOK, Root
  PROVE  TypeOK'
<1> DEFINE index == session.index
           t == Read(index[Top])
           at(s) == [mod |-> Top, src |-> s, at |-> <<>>]
<1>1. Top \in Module /\ Indexed(index) /\ disk \in [Source -> AnyText] /\ text \in Texts
  BY SessionType, HierGrepAssumption DEF Root, TypeOK, Texts
<1>2. text' = t /\ t \in Texts /\ \A s \in index[Top] : t[s] # Nothing
  BY <1>1, ReadType DEF Root, Indexed
<1>3. walk' = [walk EXCEPT !.branches = {<<Node1(Nothing, "inst", at(s), <<>>)>> :
                                           s \in Decls(t, index, Top)}]
  BY DEF Root
<1>4. ASSUME NEW s \in Decls(t, index, Top)
      PROVE  /\ Standing(t, index, <<Node1(Nothing, "inst", at(s), <<>>)>>)
             /\ ~IsNet(<<Node1(Nothing, "inst", at(s), <<>>)>>)
  BY <1>1, <1>2, DeclsType, RootType
<1>5. /\ walk' \in Walk /\ walk'.path = walk.path /\ walk'.hops = walk.hops
      /\ walk'.probe = walk.probe
      /\ \A b \in walk'.branches : Standing(t, index, b) /\ ~IsNet(b)
  <2>1. walk'.branches = {<<Node1(Nothing, "inst", at(s), <<>>)>> : s \in Decls(t, index, Top)}
        /\ walk'.path = walk.path /\ walk'.hops = walk.hops /\ walk'.probe = walk.probe
        /\ DOMAIN walk' = DOMAIN walk
    BY <1>3 DEF TypeOK, Walk
  <2>2. \A b \in walk'.branches : Standing(t, index, b) /\ ~IsNet(b)
    BY <1>4, <2>1
  <2>3. walk'.branches \subseteq Branch
    BY <2>2 DEF Standing
  <2>4. walk' \in Walk
    BY <1>3, <2>1, <2>3 DEF TypeOK, Walk
  <2> QED
    BY <2>1, <2>2, <2>4
<1>6. stage' = "hops" /\ stage = "root" /\ UNCHANGED <<disk, hie, session, check, gates, edits>>
  BY DEF Root
<1> QED
  BY <1>2, <1>5, <1>6 DEF TypeOK, Texts, Standing

\* What a hop does, with the facts its proofs rest on.
LEMMA HopFacts ==
  ASSUME TypeOK, Hop
  PROVE  LET index == session.index
             n == walk.path[walk.hops + 1]
             t == text'
             of(b) == IF walk.hops + 1 < Len(walk.path) THEN HopOf(t, index, b, n)
                      ELSE LeafOf(t, index, b, n)
         IN  /\ n \in Name /\ walk.path \in Seq(Name)
             /\ walk.hops \in 0..Len(walk.path) /\ walk.hops + 1 <= Len(walk.path)
             /\ text \in Texts /\ t \in Texts /\ Grows(text, t) /\ UNCHANGED session
             /\ t = Read(Touched(text, index, walk.branches, n))
             /\ walk'.path = walk.path /\ walk'.hops = walk.hops + 1 /\ walk'.probe = walk.probe
             /\ walk'.branches = UNION {of(b) : b \in walk.branches}
             /\ \A b \in walk.branches :
                  /\ Standing(text, index, b) /\ Standing(t, index, b)
                  /\ Here(b).src \in Source /\ t[Here(b).src] = text[Here(b).src]
                  /\ Body(t, Here(b)) = Body(text, Here(b))
                  /\ \A c \in of(b) : Standing(t, index, c)
<1> DEFINE index == session.index
           n == walk.path[walk.hops + 1]
           t == Read(Touched(text, index, walk.branches, n))
           of(b) == IF walk.hops + 1 < Len(walk.path) THEN HopOf(t, index, b, n)
                    ELSE LeafOf(t, index, b, n)
<1>1. /\ Indexed(index) /\ disk \in [Source -> AnyText] /\ text \in Texts
      /\ \A b \in walk.branches : Standing(text, index, b)
  BY SessionType DEF Hop, TypeOK, Texts
<1>2. text' = t /\ t \in Texts /\ Grows(text, t) /\ UNCHANGED session
  BY <1>1, ReadType DEF Hop
<1>3. /\ n \in Name /\ walk.path \in Seq(Name)
      /\ walk.hops \in 0..Len(walk.path) /\ walk.hops + 1 <= Len(walk.path)
  BY DEF TypeOK, Walk, Hop, Resolved
<1>4. walk' = [walk EXCEPT !.hops = walk.hops + 1, !.branches = UNION {of(b) : b \in walk.branches}]
  BY DEF Hop, TypeOK, Walk
<1>5. /\ walk'.path = walk.path /\ walk'.hops = walk.hops + 1 /\ walk'.probe = walk.probe
      /\ walk'.branches = UNION {of(b) : b \in walk.branches}
  BY <1>4 DEF TypeOK, Walk
<1>6. ASSUME NEW b \in walk.branches, NEW c \in of(b)
      PROVE  Standing(t, index, c)
  <2>1. c \in HopOf(t, index, b, n) \/ c \in LeafOf(t, index, b, n)
    OBVIOUS
  <2> HIDE DEF of, t
  <2> QED
    BY <1>1, <1>3, <2>1, HopType DEF t
<1>7. ASSUME NEW b \in walk.branches
      PROVE  /\ Here(b).src \in Source /\ t[Here(b).src] = text[Here(b).src]
             /\ Body(t, Here(b)) = Body(text, Here(b)) /\ Standing(t, index, b)
  <2>1. Standing(text, index, b) /\ Here(b).src \in Source /\ text[Here(b).src] # Nothing
    BY <1>1, LastNode DEF Standing
  <2>2. t[Here(b).src] = text[Here(b).src] /\ Body(t, Here(b)) = Body(text, Here(b))
    BY <1>2, <2>1, SameText
  <2> QED
    BY <2>1, <2>2 DEF Standing
<1> HIDE DEF t, index, n
<1> QED
  BY <1>1, <1>2, <1>3, <1>5, <1>6, <1>7 DEF t, index, n

LEMMA HopStepType ==
  ASSUME TypeOK, Hop
  PROVE  TypeOK'
<1> DEFINE n == walk.path[walk.hops + 1]
           of(b) == IF walk.hops + 1 < Len(walk.path) THEN HopOf(text', session.index, b, n)
                    ELSE LeafOf(text', session.index, b, n)
           new == UNION {of(b) : b \in walk.branches}
<1>1. /\ text' \in Texts /\ walk.hops + 1 <= Len(walk.path) /\ walk.hops \in Nat
      /\ \A b \in walk.branches : \A c \in of(b) : Standing(text', session.index, c)
      /\ walk'.branches = new /\ walk'.path = walk.path /\ walk'.hops = walk.hops + 1
      /\ walk'.probe = walk.probe
  BY HopFacts
<1>2. \A b \in walk'.branches : b \in Branch /\ Standing(text', session.index, b)
  BY <1>1 DEF Standing
<1>3. walk' = [path |-> walk.path, hops |-> walk.hops + 1, branches |-> walk'.branches,
               probe |-> walk.probe]
  BY <1>1 DEF Hop, TypeOK, Walk
<1>4. walk' \in Walk
  BY <1>1, <1>2, <1>3 DEF TypeOK, Walk
<1>5. stage' = "hops" /\ stage = "hops" /\ UNCHANGED <<disk, hie, session, check, gates, edits>>
  BY DEF Hop
<1> HIDE DEF of, n
<1> QED
  BY <1>1, <1>2, <1>4, <1>5 DEF TypeOK, Texts, Standing

\* A branch of a resolution under way gives a gate.
LEMMA WalkGate ==
  ASSUME TypeOK, NEW b \in walk.branches,
         NEW spec \in Seq(Name), NEW tail \in Name \cup {Nothing}
  PROVE  /\ GateOf(spec, walk.path, tail, walk.branches, b) \in EndpointGate
         /\ GateOf(spec, walk.path, tail, walk.branches, b).spec = spec
         /\ GateOf(spec, walk.path, tail, walk.branches, b).ok
BY GateOfType DEF TypeOK, Walk

LEMMA StripType ==
  ASSUME TypeOK, NEW b, Strip(b)
  PROVE  TypeOK'
<1> DEFINE g == GateOf(walk.path, walk.path, Nothing, walk.branches, b)
<1>1. b \in walk.branches /\ Start(Front(walk.path), g)
      /\ UNCHANGED <<disk, hie, session, text, check, gates, edits>> /\ stage = "hops"
  BY DEF Strip
<1>2. walk.path \in Seq(Name) /\ g \in EndpointGate /\ g.spec = walk.path
  BY <1>1, WalkGate DEF TypeOK, Walk
<1>3. walk.path # <<>>
  <2>1. walk.hops > 0 /\ walk.hops <= Len(walk.path) /\ walk.hops \in Nat
    BY DEF Strip, TypeOK, Walk
  <2> QED
    BY <2>1
<1>4. Front(walk.path) \in Seq(Name)
  BY <1>2, FrontType DEF Front
<1>5. /\ walk' \in Walk /\ walk'.hops <= Len(walk'.path) /\ walk'.branches = {} /\ stage' = "root"
      /\ walk'.hops = 0 /\ walk'.probe = g
  BY <1>1, <1>2, <1>4, StartType
<1> QED
  BY <1>1, <1>2, <1>3, <1>5 DEF TypeOK

LEMMA GateStepType ==
  ASSUME TypeOK, NEW g \in EndpointGate, Gate(g)
  PROVE  TypeOK'
<1>1. /\ Len(gates) \in Nat /\ Len(check) \in Nat /\ Len(gates) < Len(check)
      /\ gates' = Append(gates, g) /\ gates' \in Seq(EndpointGate) /\ Len(gates') = Len(gates) + 1
  BY DEF TypeOK, Gate
<1>2. UNCHANGED <<disk, hie, session, text, check, edits>> /\ stage = "hops"
  BY DEF Gate
<1>3. CASE Len(gates) + 1 = Len(check)
  <2>1. walk' = NoWalk /\ stage' = "decide"
    BY <1>3 DEF Gate
  <2>2. /\ NoWalk \in Walk /\ NoWalk.hops <= Len(NoWalk.path) /\ NoWalk.branches = {}
        /\ NoWalk.probe = Nothing
    BY DEF NoWalk, Walk
  <2> QED
    BY <1>1, <1>2, <2>1, <2>2 DEF TypeOK
<1>4. CASE Len(gates) + 1 # Len(check)
  <2>1. Len(gates) + 2 \in 1..Len(check)
    BY <1>1, <1>4
  <2>2. check[Len(gates) + 2] \in Seq(Name) /\ Start(check[Len(gates) + 2], Nothing)
    BY <1>4, <2>1 DEF TypeOK, Gate
  <2>3. /\ walk' \in Walk /\ walk'.hops <= Len(walk'.path) /\ walk'.branches = {} /\ stage' = "root"
        /\ walk'.hops = 0 /\ walk'.probe = Nothing
    BY <2>2, StartType
  <2> QED
    BY <1>1, <1>2, <1>4, <2>3 DEF TypeOK
<1> QED
  BY <1>3, <1>4

\* The gate a resolution ends with.
LEMMA MissGate ==
  ASSUME TypeOK, Miss
  PROVE  \E g \in EndpointGate :
           /\ Gate(g)
           /\ walk.probe # Nothing => g = walk.probe
           /\ walk.probe = Nothing => ~g.ok /\ g.spec = walk.path
<1> DEFINE g == GateOf(walk.path, walk.path, Nothing, {}, <<>>)
<1>1. g \in EndpointGate /\ g.spec = walk.path /\ ~g.ok
  <2>1. walk.path \in Seq(Name)
    BY DEF TypeOK, Walk
  <2>2. Ambiguous({}) \in BOOLEAN
    BY DEF Ambiguous
  <2> QED
    BY <2>1, <2>2 DEF GateOf, EndpointGate
<1>2. walk.probe \in EndpointGate \cup {Nothing}
  BY DEF TypeOK, Walk
<1> QED
  BY <1>1, <1>2 DEF Miss

LEMMA HitGate ==
  ASSUME TypeOK, NEW b, Hit(b)
  PROVE  \E g \in EndpointGate :
           /\ Gate(g) /\ g.ok
           /\ walk.probe # Nothing => g.spec = walk.probe.spec
           /\ walk.probe = Nothing => g.spec = walk.path
<1>1. b \in walk.branches /\ walk.path \in Seq(Name) /\ walk.probe \in EndpointGate \cup {Nothing}
  BY DEF Hit, TypeOK, Walk
<1>2. CASE walk.probe = Nothing
  <2> DEFINE g == GateOf(walk.path, walk.path, Nothing, walk.branches, b)
  <2>1. g \in EndpointGate /\ g.spec = walk.path /\ g.ok
    BY <1>1, WalkGate
  <2> HIDE DEF g
  <2> QED
    BY <1>2, <2>1 DEF Hit, g
<1>3. CASE walk.probe # Nothing
  <2> DEFINE g == GateOf(walk.probe.spec, walk.path, Last(walk.probe.spec), walk.branches, b)
  <2>1. walk.probe.spec \in Seq(Name)
    BY <1>1, <1>3 DEF EndpointGate
  <2>2. walk.probe.spec # <<>>
    BY <1>3 DEF TypeOK
  <2>3. Last(walk.probe.spec) \in Name
    BY <2>1, <2>2, FrontType
  <2>4. g \in EndpointGate /\ g.spec = walk.probe.spec /\ g.ok
    BY <1>1, <2>1, <2>3, WalkGate
  <2> HIDE DEF g
  <2> QED
    BY <1>3, <2>4 DEF Hit, g
<1> QED
  BY <1>2, <1>3

LEMMA DecideType ==
  ASSUME TypeOK, NEW known, Decide(known)
  PROVE  /\ TypeOK'
         /\ Len(gates') = Len(gates) /\ DOMAIN gates' = DOMAIN gates
         /\ \A e \in DOMAIN gates : gates'[e].spec = gates[e].spec /\ gates'[e].ok = gates[e].ok
<1>1. gates \in Seq(EndpointGate) /\ gates' = [e \in DOMAIN gates |-> Peel(gates[e])]
  BY DEF TypeOK, Decide
<1>2. \A e \in DOMAIN gates : /\ gates[e] \in EndpointGate /\ Peel(gates[e]) \in EndpointGate
                              /\ Peel(gates[e]).spec = gates[e].spec /\ Peel(gates[e]).ok = gates[e].ok
  BY <1>1, PeelType
<1>3. gates' \in Seq(EndpointGate) /\ Len(gates') = Len(gates) /\ DOMAIN gates' = DOMAIN gates
  <2> DEFINE peeled == [e \in 1..Len(gates) |-> Peel(gates[e])]
  <2>1. peeled \in [1..Len(gates) -> EndpointGate] /\ Len(gates) \in Nat /\ gates' = peeled
    BY <1>1, <1>2
  <2> HIDE DEF peeled
  <2> QED
    BY <1>1, <2>1
<1>4. stage = "decide" /\ stage' = "idle" /\ UNCHANGED <<disk, hie, session, text, check, walk, edits>>
  BY DEF Decide
<1>5. TypeOK'
  BY <1>3, <1>4 DEF TypeOK
<1> QED
  BY <1>1, <1>2, <1>3, <1>5

LEMMA TypeStep ==
  ASSUME TypeOK, [Next]_vars
  PROVE  TypeOK'
<1>1. CASE \E s \in Source : Edit(s)
  BY <1>1, EditType
<1>2. CASE \E paths \in Filelists, only \in BOOLEAN :
             Load(paths, only) \/ \E refresh \in BOOLEAN : Build(paths, refresh, only)
  BY <1>2, SessionStepType
<1>3. CASE Dump \/ Stop
  BY <1>3, DumpStopType
<1>4. CASE \E c \in Checks : Ask(c)
  BY <1>4, AskType
<1>5. CASE Root
  BY <1>5, RootStepType
<1>6. CASE Hop
  BY <1>6, HopStepType
<1>7. CASE Miss
  BY <1>7, MissGate, GateStepType
<1>8. CASE \E b \in walk.branches : Strip(b)
  BY <1>8, StripType
<1>9. CASE \E b \in walk.branches : Hit(b)
  BY <1>9, HitGate, GateStepType
<1>10. CASE \E known \in SUBSET DOMAIN gates : Decide(known)
  BY <1>10, DecideType
<1>11. CASE UNCHANGED vars
  BY <1>11 DEF vars, TypeOK
<1> QED
  BY <1>1, <1>2, <1>3, <1>4, <1>5, <1>6, <1>7, <1>8, <1>9, <1>10, <1>11 DEF Next

\* The resolver and the gate only handle paths, branches and gates of their type, and only use
\* sources they have read.
THEOREM TypeCorrect == Spec => []TypeOK
BY InitType, TypeStep, PTL DEF Spec

-----------------------------------------------------------------------------
(* Places and chains.                                                      *)

LEMMA PlaceOf ==
  ASSUME NEW ss, NEW t \in Texts, NEW p \in Places(ss, t)
  PROVE  /\ p \in Place /\ Declares(ss, t, p.src, p.mod)
         /\ p.at \in Scopes(t[p.src][p.mod])
         /\ Items(t, p.src, p.mod) = t[p.src][p.mod]
<1>1. PICK x \in Source \X Module :
        Declares(ss, t, x[1], x[2]) /\
        p \in {[mod |-> x[2], src |-> x[1], at |-> a] : a \in Scopes(t[x[1]][x[2]])}
  BY DEF Places
<1>2. PICK a \in Scopes(t[x[1]][x[2]]) : p = [mod |-> x[2], src |-> x[1], at |-> a]
  BY <1>1
<1>3. Items(t, x[1], x[2]) = t[x[1]][x[2]] /\ t[x[1]][x[2]] \subseteq Item
  BY <1>1, ItemsType DEF Declares, Items
<1>4. a \in Seq(Block)
  <2>1. CASE a = <<>>
    BY <2>1
  <2>2. CASE a # <<>>
    <3>1. PICK i \in t[x[1]][x[2]] : a \in {SubSeq(i.scope, 1, k) : k \in DOMAIN i.scope}
      BY <1>2, <2>2 DEF Scopes
    <3>2. i.scope \in Seq(Block)
      BY <1>3 DEF Item
    <3>3. PICK k \in DOMAIN i.scope : a = SubSeq(i.scope, 1, k)
      BY <3>1
    <3>4. k \in 1..Len(i.scope)
      BY <3>2, <3>3
    <3> QED
      BY <3>2, <3>3, <3>4
  <2> QED
    BY <2>1, <2>2
<1> QED
  BY <1>1, <1>2, <1>3, <1>4 DEF Place

LEMMA InPlaces ==
  ASSUME NEW ss, NEW t, NEW p \in Place, Declares(ss, t, p.src, p.mod),
         p.at \in Scopes(t[p.src][p.mod])
  PROVE  p \in Places(ss, t)
<1>1. p = [mod |-> p.mod, src |-> p.src, at |-> p.at] /\ p.src \in Source /\ p.mod \in Module
  BY DEF Place
<1>2. p \in {[mod |-> p.mod, src |-> p.src, at |-> a] : a \in Scopes(t[p.src][p.mod])}
  BY <1>1
<1> DEFINE x == <<p.src, p.mod>>
<1>3. x \in {y \in Source \X Module : Declares(ss, t, y[1], y[2])} /\ x[1] = p.src /\ x[2] = p.mod
  BY <1>1
<1> HIDE DEF x
<1> QED
  BY <1>2, <1>3 DEF Places

LEMMA PlacesGrow ==
  ASSUME NEW ss, NEW u \in Texts, NEW v, Grows(u, v), NEW p \in Places(ss, u)
  PROVE  p \in Places(ss, v) /\ Body(v, p) = Body(u, p)
<1>1. /\ p \in Place /\ Declares(ss, u, p.src, p.mod) /\ p.at \in Scopes(u[p.src][p.mod])
  BY PlaceOf
<1>2. p.src \in Source /\ u[p.src] # Nothing
  BY <1>1 DEF Place, Declares
<1>3. v[p.src] = u[p.src] /\ Body(v, p) = Body(u, p)
  BY <1>2, SameText
<1>4. p \in Places(ss, v)
  BY <1>1, <1>3, InPlaces DEF Declares
<1> QED
  BY <1>3, <1>4

LEMMA LooseGrow ==
  ASSUME NEW ss, NEW u \in Texts, NEW v, Grows(u, v), NEW path \in Seq(Name)
  PROVE  /\ LooseChains(ss, u, path) \subseteq LooseChains(ss, v, path)
         /\ IsLoose(ss, u, path) => IsLoose(ss, v, path)
<1>1. ASSUME NEW p \in Places(ss, u), NEW n
      PROVE  /\ LooseSteps(ss, u, p, n) \subseteq LooseSteps(ss, v, p, n)
             /\ IsLooseEnd(ss, u, p, n) => IsLooseEnd(ss, v, p, n)
  BY <1>1, PlacesGrow DEF LooseSteps, IsLooseEnd, Guess
<1>2. ASSUME NEW q \in Seq(Name), NEW c \in LooseChains(ss, u, q)
      PROVE  c \in LooseChains(ss, v, q) /\ \A k \in 0..Len(q) : c[k] \in Places(ss, u)
  <2>1. /\ c \in [0..Len(q) -> Places(ss, u)] /\ c[0].mod = Top /\ c[0].at = <<>>
        /\ \A k \in 1..Len(q) : c[k] \in LooseSteps(ss, u, c[k - 1], q[k])
    BY DEF LooseChains, From
  <2>2. c \in [0..Len(q) -> Places(ss, v)]
    BY <2>1, PlacesGrow
  <2>3. ASSUME NEW k \in 1..Len(q)
        PROVE  c[k] \in LooseSteps(ss, v, c[k - 1], q[k])
    <3>1. k - 1 \in 0..Len(q)
      OBVIOUS
    <3> QED
      BY <1>1, <2>1, <3>1
  <2> QED
    BY <2>1, <2>2, <2>3 DEF LooseChains, From
<1>3. ASSUME IsLoose(ss, u, path), path # <<>>
      PROVE  \E c \in LooseChains(ss, v, Front(path)) : IsLooseEnd(ss, v, c[Len(path) - 1], Last(path))
  <2>1. PICK c \in LooseChains(ss, u, Front(path)) : IsLooseEnd(ss, u, c[Len(path) - 1], Last(path))
    BY <1>3 DEF IsLoose
  <2>2. Front(path) \in Seq(Name) /\ Len(path) - 1 \in 0..Len(Front(path))
    BY <1>3, FrontType
  <2> QED
    BY <1>1, <1>2, <2>1, <2>2
<1> QED
  BY <1>2, <1>3 DEF IsLoose

\* The path of the hops that are done.
Upto(path, h) == SubSeq(path, 1, h)

LEMMA PathPrefix ==
  ASSUME NEW path \in Seq(Name), NEW h \in 0..Len(path)
  PROVE  /\ Upto(path, h) \in Seq(Name) /\ Len(Upto(path, h)) = h
         /\ \A k \in 1..h : Upto(path, h)[k] = path[k]
BY DEF Upto

\* The chain c of h hops and one hop more, to q.
Extended(c, h, q) == [k \in 0..(h + 1) |-> IF k <= h THEN c[k] ELSE q]

LEMMA LooseAppend ==
  ASSUME NEW ss, NEW t, NEW path \in Seq(Name), NEW h \in 0..Len(path), h < Len(path),
         NEW c \in LooseChains(ss, t, Upto(path, h)),
         NEW q \in LooseSteps(ss, t, c[h], path[h + 1])
  PROVE  /\ Extended(c, h, q) \in LooseChains(ss, t, Upto(path, h + 1))
         /\ Extended(c, h, q)[h + 1] = q
<1> DEFINE d == Extended(c, h, q)
<1>1. /\ Len(Upto(path, h)) = h /\ \A k \in 1..h : Upto(path, h)[k] = path[k]
      /\ Len(Upto(path, h + 1)) = h + 1
      /\ \A k \in 1..(h + 1) : Upto(path, h + 1)[k] = path[k]
  BY PathPrefix
<1>2. /\ c \in [0..h -> Places(ss, t)] /\ c[0].mod = Top /\ c[0].at = <<>>
      /\ \A k \in 1..h : c[k] \in LooseSteps(ss, t, c[k - 1], path[k])
  BY <1>1 DEF LooseChains, From
<1>3. q \in Places(ss, t)
  BY DEF LooseSteps
<1>4. d \in [0..(h + 1) -> Places(ss, t)] /\ d[0] = c[0] /\ d[h + 1] = q
  BY <1>2, <1>3 DEF Extended
<1>5. ASSUME NEW k \in 1..(h + 1)
      PROVE  d[k] \in LooseSteps(ss, t, d[k - 1], path[k])
  <2>1. CASE k = h + 1
    BY <2>1 DEF Extended
  <2>2. CASE k \in 1..h
    BY <1>2, <2>2 DEF Extended
  <2> QED
    BY <2>1, <2>2
<1> HIDE DEF d
<1>6. d \in LooseChains(ss, t, Upto(path, h + 1))
  BY <1>1, <1>2, <1>4, <1>5 DEF LooseChains, From
<1> QED
  BY <1>4, <1>6

-----------------------------------------------------------------------------
(* What is found exists.                                                   *)

\* A branch that stands in a text with something in it was reached by a chain.
Reached(b) ==
  Body(text, Here(b)) # {} =>
    \E c \in LooseChains(session, text, Upto(walk.path, walk.hops)) : c[walk.hops] = Here(b)
FoundExists ==
  stage = "hops" =>
    IF walk.hops = Len(walk.path)
    THEN walk.branches # {} => IsLoose(session, text, walk.path)
    ELSE \A b \in walk.branches : Reached(b)

LEMMA EnterStep ==
  ASSUME NEW ss, Indexed(ss.index), \A m \in Module : ss.index[m] \subseteq ss.paths,
         NEW t \in Texts, NEW c, Standing(t, ss.index, c), NEW p, NEW n,
         Here(c).mod \in Children(t, p, n, ss.index), Here(c).at = <<>>, Body(t, Here(c)) # {}
  PROVE  Here(c) \in LooseSteps(ss, t, p, n)
<1> DEFINE q == Here(c)
<1>1. q \in Place /\ q.src \in ss.index[q.mod] /\ t[q.src] # Nothing
  BY LastNode DEF Standing
<1>2. q.mod \in DOMAIN t[q.src]
  BY DEF Body, Items
<1>3. Declares(ss, t, q.src, q.mod) /\ q.at \in Scopes(t[q.src][q.mod])
  BY <1>1, <1>2 DEF Declares, Scopes, Place
<1>4. q \in Places(ss, t)
  BY <1>1, <1>3, InPlaces
<1>5. /\ q.mod \in Known(ss.index)
      /\ \/ \E i \in Edges(Body(t, p), n) : i.cell = q.mod
         \/ Edges(Body(t, p), n) = {} /\ Inferred[n] = q.mod
  BY ChildrenType DEF Known
<1> QED
  BY <1>4, <1>5 DEF LooseSteps, Guess

LEMMA LabelStep ==
  ASSUME NEW ss, NEW t \in Texts, NEW p \in Places(ss, t), NEW n, NEW at \in Blocks(Body(t, p), p.at, n)
  PROVE  [p EXCEPT !.at = at] \in LooseSteps(ss, t, p, n)
<1> DEFINE q == [p EXCEPT !.at = at]
<1>1. /\ p \in Place /\ Declares(ss, t, p.src, p.mod) /\ IsRead(t, p)
      /\ Items(t, p.src, p.mod) = t[p.src][p.mod]
  BY PlaceOf DEF Declares, IsRead
<1>2. PICK i \in Body(t, p) : \E k \in Len(p.at) + 1 .. Len(i.scope) :
             at = SubSeq(i.scope, 1, k) /\ i.scope[k].label = n
  BY BlocksScope
<1>3. at \in Seq(Block) /\ i \in t[p.src][p.mod] /\ i.scope \in Seq(Block) /\ p.at \in Seq(Block)
  <2>1. at \in Seq(Block)
    BY <1>1, BlocksType
  <2>2. i \in t[p.src][p.mod] /\ i \in Item
    BY <1>1, BodyType
  <2> QED
    BY <1>1, <2>1, <2>2 DEF Place, Item
<1>4. q \in Place /\ q.src = p.src /\ q.mod = p.mod /\ q.at = at
  BY <1>1, <1>3 DEF Place
<1>5. PICK k \in DOMAIN i.scope : at = SubSeq(i.scope, 1, k)
  BY <1>2, <1>3
<1>6. at \in Scopes(t[p.src][p.mod])
  <2>1. at \in {SubSeq(i.scope, 1, j) : j \in DOMAIN i.scope}
    BY <1>5
  <2> QED
    BY <1>3, <2>1 DEF Scopes
<1>7. q \in Places(ss, t)
  BY <1>1, <1>4, <1>6, InPlaces
<1> QED
  BY <1>4, <1>7 DEF LooseSteps

LEMMA LooseEnd ==
  ASSUME NEW ss, NEW t, NEW p, NEW n,
         \/ \E m : m \in Children(t, p, n, ss.index)
         \/ \E i \in Body(t, p) : i.name = n /\ i.kind \in {"port", "signal"}
  PROVE  Body(t, p) # {} /\ IsLooseEnd(ss, t, p, n)
<1>1. ASSUME NEW m \in Children(t, p, n, ss.index)
      PROVE  Body(t, p) # {} /\ IsLooseEnd(ss, t, p, n)
  <2>1. /\ m \in Module /\ ss.index[m] # {} /\ Body(t, p) # {}
        /\ \/ \E i \in Edges(Body(t, p), n) : i.cell = m
           \/ Edges(Body(t, p), n) = {} /\ Inferred[n] = m
    BY ChildrenType
  <2>2. m \in Known(ss.index)
    BY <2>1 DEF Known
  <2> QED
    BY <2>1, <2>2 DEF IsLooseEnd, Guess, Edges
<1> QED
  BY <1>1 DEF IsLooseEnd

LEMMA FoundRoot ==
  ASSUME TypeOK, Root
  PROVE  FoundExists'
<1> DEFINE index == session.index
           t == Read(index[Top])
           at(s) == [mod |-> Top, src |-> s, at |-> <<>>]
           root(s) == <<Node1(Nothing, "inst", at(s), <<>>)>>
<1>1. /\ Top \in Module /\ Indexed(index) /\ disk \in [Source -> AnyText] /\ text \in Texts
      /\ index[Top] \subseteq session.paths
  BY SessionType, HierGrepAssumption DEF Root, TypeOK, Texts
<1>2. /\ text' = t /\ t \in Texts /\ \A s \in index[Top] : t[s] # Nothing
      /\ UNCHANGED session
  BY <1>1, ReadType DEF Root, Indexed
<1>3. /\ stage' = "hops" /\ walk'.branches = {root(s) : s \in Decls(t, index, Top)}
      /\ walk'.path = walk.path /\ walk'.hops = 0 /\ walk.path \in Seq(Name)
  BY DEF Root, TypeOK, Walk
<1>4. ASSUME NEW b \in walk'.branches, Body(t, Here(b)) # {}
      PROVE  \E c \in LooseChains(session, t, Upto(walk.path, 0)) : c[0] = Here(b)
  <2>1. PICK s \in Decls(t, index, Top) : b = root(s)
    BY <1>3
  <2>2. s \in index[Top] /\ s \in Source /\ t[s] # Nothing /\ s \in session.paths
    BY <1>1, <1>2, DeclsType DEF Indexed
  <2>3. Here(b) = at(s) /\ at(s) \in Place
    BY <1>1, <1>2, <2>1, <2>2, RootType DEF Place
  <2>4. Top \in DOMAIN t[s]
    BY <1>4, <2>3 DEF Body, Items
  <2>5. at(s) \in Places(session, t)
    BY <2>2, <2>3, <2>4, InPlaces DEF Declares, Scopes
  <2>6. Len(Upto(walk.path, 0)) = 0
    BY <1>3, PathPrefix
  <2> DEFINE c == [k \in 0..0 |-> at(s)]
  <2>7. c \in [0..0 -> Places(session, t)] /\ c[0] = at(s)
    BY <2>5
  <2> HIDE DEF c
  <2>8. c \in LooseChains(session, t, Upto(walk.path, 0))
    BY <2>6, <2>7 DEF LooseChains, From
  <2> QED
    BY <2>3, <2>7, <2>8
<1>5. CASE walk.path = <<>>
  BY <1>3, <1>5 DEF FoundExists, IsLoose
<1>6. CASE walk.path # <<>>
  <2>1. walk'.hops # Len(walk'.path)
    BY <1>3, <1>6
  <2> HIDE DEF t
  <2> QED
    BY <1>2, <1>3, <1>4, <2>1 DEF FoundExists, Reached
<1> QED
  BY <1>5, <1>6

\* A hop that is not the last extends the chain of its branch.
LEMMA HopReached ==
  ASSUME NEW ss, Indexed(ss.index), \A m \in Module : ss.index[m] \subseteq ss.paths,
         NEW t \in Texts, NEW path \in Seq(Name), NEW h \in 0..Len(path), h < Len(path),
         NEW b, Standing(t, ss.index, b),
         Body(t, Here(b)) # {} => \E a \in LooseChains(ss, t, Upto(path, h)) : a[h] = Here(b),
         NEW c \in HopOf(t, ss.index, b, path[h + 1]), Standing(t, ss.index, c), Body(t, Here(c)) # {}
  PROVE  \E d \in LooseChains(ss, t, Upto(path, h + 1)) : d[h + 1] = Here(c)
<1> DEFINE n == path[h + 1]
<1>1. Len(Upto(path, h)) = h /\ b \in Branch
  BY PathPrefix DEF Standing
<1>2. ASSUME Body(t, Here(b)) # {}
      PROVE  Here(b) \in Places(ss, t)
  BY <1>1, <1>2 DEF LooseChains, From
<1>3. Body(t, Here(b)) # {} /\ Here(c) \in LooseSteps(ss, t, Here(b), n)
  <2>1. CASE c \in Enter(t, ss.index, b, n, Children(t, Here(b), n, ss.index))
    <3>1. Here(c).mod \in Children(t, Here(b), n, ss.index) /\ Here(c).at = <<>>
      BY <1>1, <2>1, EnterPlace
    <3>2. Body(t, Here(b)) # {}
      BY <3>1, ChildrenType
    <3> QED
      BY <3>1, <3>2, EnterStep
  <2>2. CASE c \in Label(t, b, n)
    <3>1. PICK at \in Blocks(Body(t, Here(b)), Here(b).at, n) : Here(c) = [Here(b) EXCEPT !.at = at]
      BY <2>2, LabelType
    <3>2. Body(t, Here(b)) # {}
      BY <3>1 DEF Blocks, Labelled
    <3>3. [Here(b) EXCEPT !.at = at] \in LooseSteps(ss, t, Here(b), n)
      BY <1>2, <3>2, LabelStep
    <3> QED
      BY <3>1, <3>2, <3>3
  <2> QED
    BY <2>1, <2>2 DEF HopOf
<1>4. PICK a \in LooseChains(ss, t, Upto(path, h)) : a[h] = Here(b)
  BY <1>3
<1>5. Here(c) \in LooseSteps(ss, t, a[h], path[h + 1])
  BY <1>3, <1>4
<1>6. /\ Extended(a, h, Here(c)) \in LooseChains(ss, t, Upto(path, h + 1))
      /\ Extended(a, h, Here(c))[h + 1] = Here(c)
  BY <1>5, LooseAppend
<1> QED
  BY <1>6

\* A branch with something in its text, when a hop goes on from it, is at the end of a chain.
LEMMA HopFrom ==
  ASSUME TypeOK, FoundExists, Hop, NEW b \in walk.branches, Body(text', Here(b)) # {}
  PROVE  \E c \in LooseChains(session, text', Upto(walk.path, walk.hops)) : c[walk.hops] = Here(b)
<1>1. /\ walk.path \in Seq(Name) /\ walk.hops \in 0..Len(walk.path) /\ walk.hops + 1 <= Len(walk.path)
      /\ text \in Texts /\ Grows(text, text') /\ Body(text', Here(b)) = Body(text, Here(b))
  BY HopFacts
<1>2. walk.hops # Len(walk.path) /\ stage = "hops"
  BY <1>1 DEF Hop
<1>3. PICK c \in LooseChains(session, text, Upto(walk.path, walk.hops)) : c[walk.hops] = Here(b)
  BY <1>1, <1>2 DEF FoundExists, Reached
<1>4. Upto(walk.path, walk.hops) \in Seq(Name)
  BY <1>1, PathPrefix
<1> QED
  BY <1>1, <1>3, <1>4, LooseGrow

LEMMA FoundHop ==
  ASSUME TypeOK, FoundExists, Hop
  PROVE  FoundExists'
<1> DEFINE index == session.index
           h == walk.hops
           path == walk.path
           n == path[h + 1]
           t == text'
           of(b) == IF h + 1 < Len(path) THEN HopOf(t, index, b, n) ELSE LeafOf(t, index, b, n)
<1>1. /\ n \in Name /\ path \in Seq(Name) /\ h \in 0..Len(path) /\ h + 1 <= Len(path)
      /\ text \in Texts /\ t \in Texts /\ Grows(text, t) /\ UNCHANGED session
      /\ walk'.path = path /\ walk'.hops = h + 1
      /\ walk'.branches = UNION {of(b) : b \in walk.branches}
  BY HopFacts
<1>2. ASSUME NEW b \in walk.branches
      PROVE  /\ b \in Branch /\ Here(b) \in Place /\ Standing(t, index, b)
             /\ Body(t, Here(b)) = Body(text, Here(b))
             /\ \A c \in of(b) : Standing(t, index, c)
  <2>1. /\ Standing(text, index, b) /\ Standing(t, index, b)
        /\ Body(t, Here(b)) = Body(text, Here(b))
        /\ \A c \in of(b) : Standing(t, index, c)
    BY HopFacts
  <2> QED
    BY <2>1, LastNode DEF Standing
<1>3. /\ Indexed(index) /\ \A m \in Module : index[m] \subseteq session.paths
      /\ stage = "hops" /\ stage' = "hops"
  BY SessionType DEF Hop
<1>4. ASSUME NEW b \in walk.branches, Body(t, Here(b)) # {}
      PROVE  \E c \in LooseChains(session, t, Upto(path, h)) : c[h] = Here(b)
  BY <1>4, HopFrom
<1>5. CASE h + 1 < Len(path)
  <2>1. ASSUME NEW b \in walk.branches, NEW c \in HopOf(t, index, b, n), Standing(t, index, c),
               Body(t, Here(c)) # {}
        PROVE  \E d \in LooseChains(session, t, Upto(path, h + 1)) : d[h + 1] = Here(c)
    <3>1. Standing(t, index, b) /\ h < Len(path)
      BY <1>1, <1>2
    <3>2. Body(t, Here(b)) # {} =>
            \E a \in LooseChains(session, t, Upto(path, h)) : a[h] = Here(b)
      BY <1>4
    <3> QED
      BY <1>1, <1>3, <2>1, <3>1, <3>2, HopReached, SMTT(30)
  <2>2. ASSUME NEW c \in walk'.branches
        PROVE  \E b \in walk.branches : c \in HopOf(t, index, b, n) /\ Standing(t, index, c)
    BY <1>1, <1>2, <1>5
  <2>3. walk'.hops # Len(walk'.path)
    BY <1>1, <1>5
  <2> HIDE DEF of
  <2> QED
    BY <1>1, <1>3, <2>1, <2>2, <2>3 DEF FoundExists, Reached
<1>6. CASE h + 1 = Len(path)
  <2>1. SUFFICES ASSUME NEW b \in walk.branches, NEW c \in LeafOf(t, index, b, n)
                 PROVE  IsLoose(session, t, path)
    BY <1>1, <1>6 DEF FoundExists
  <2>2. \/ \E m : m \in Children(t, Here(b), n, index)
        \/ \E i \in Body(t, Here(b)) : i.name = n /\ i.kind \in {"port", "signal"}
    BY <1>1, <1>2, NetType DEF LeafOf
  <2>3. Body(t, Here(b)) # {} /\ IsLooseEnd(session, t, Here(b), n)
    BY <2>2, LooseEnd
  <2>4. PICK a \in LooseChains(session, t, Upto(path, h)) : a[h] = Here(b)
    BY <1>4, <2>3
  <2>5. path # <<>> /\ Front(path) = Upto(path, h) /\ Last(path) = n /\ Len(path) - 1 = h
    <3>1. path # <<>> /\ Len(path) - 1 = h /\ Len(path) = h + 1
      BY <1>1, <1>6
    <3> QED
      BY <3>1 DEF Front, Last, Upto
  <2> QED
    BY <2>3, <2>4, <2>5 DEF IsLoose
<1> QED
  BY <1>1, <1>5, <1>6

-----------------------------------------------------------------------------
(* What exists is found.                                                   *)

Disks == [Source -> AnyText]
Absent(ss, t, path) == \A d \in Disks : Agrees(ss, t, d) => ~IsThere(ss, d, path)
\* Every chain of d as long as the hops done is at a branch, or in a module without content.
Covered(ss, d, path, h, bs) ==
  IF h = Len(path) THEN bs = {} => ~IsThere(ss, d, path)
  ELSE \A c \in SeenChains(ss, d, Upto(path, h)) :
         Items(d, c[h].src, c[h].mod) = {} \/ \E b \in bs : Here(b) = c[h]
NothingMissed ==
  stage = "hops" =>
    \A d \in Disks : Agrees(session, text, d) =>
      Covered(session, d, walk.path, walk.hops, walk.branches)

LEMMA DisksAreTexts == Disks \subseteq Texts /\ \A d \in Disks, s \in Source : d[s] # Nothing
BY TextsType DEF Disks, Texts

LEMMA AgreesShrinks ==
  ASSUME NEW ss, ss.paths \subseteq Source, NEW u, NEW v, Grows(u, v), NEW d, Agrees(ss, v, d)
  PROVE  Agrees(ss, u, d)
BY DEF Agrees, Grows

LEMMA AgreesAt ==
  ASSUME NEW ss, NEW t, NEW d, Agrees(ss, t, d), NEW p, p.src \in ss.paths, t[p.src] # Nothing
  PROVE  /\ t[p.src] = d[p.src] /\ Items(t, p.src, p.mod) = Items(d, p.src, p.mod)
         /\ Body(t, p) = Body(d, p)
         /\ \A n, index : Children(t, p, n, index) = Children(d, p, n, index)
BY DEF Agrees, Items, Body, Children

LEMMA PlaceIndexed ==
  ASSUME NEW ss, NEW t, NEW d \in Disks, Agrees(ss, t, d), NEW p \in Places(ss, d)
  PROVE  p \in Place /\ p.src \in ss.paths /\ p.src \in ss.index[p.mod]
<1>1. p \in Place /\ Declares(ss, d, p.src, p.mod)
  BY PlaceOf, DisksAreTexts
<1> QED
  BY <1>1 DEF Declares, Agrees, IndexOf, Place

\* Ways on and ends are in modules with content.
LEMMA StepRoom ==
  ASSUME NEW ss, NEW d \in Disks, NEW p \in Places(ss, d), NEW n, NEW q \in SeenSteps(ss, d, p, n)
  PROVE  /\ q \in Places(ss, d) /\ Items(d, p.src, p.mod) # {}
         /\ \/ q.at = <<>> /\ \E i \in Edges(Within(d, p), n) : i.cell = q.mod
            \/ /\ q = [p EXCEPT !.at = q.at] /\ q.at # <<>> /\ Children(d, p, n, ss.index) = {}
               /\ q.at \in Blocks(Body(d, p), p.at, n)
<1>1. q \in Places(ss, d) /\ q \in Steps(ss, d, p, n) /\ ~Overlooked(d, p, n, q)
  BY DEF SeenSteps, Steps
<1>2. CASE q.at = <<>> /\ \E i \in Edges(Within(d, p), n) : i.cell = q.mod
  BY <1>1, <1>2 DEF Edges, Within
<1>3. CASE q = [p EXCEPT !.at = q.at] /\ q.at # <<>> /\ Children(d, p, n, ss.index) = {}
  <2>1. q.at \in Blocks(Body(d, p), p.at, n)
    BY <1>1, <1>3 DEF Overlooked
  <2>2. Body(d, p) # {}
    BY <2>1 DEF Blocks, Labelled
  <2>3. Items(d, p.src, p.mod) # {}
    BY <2>2 DEF Body
  <2> QED
    BY <1>1, <1>3, <2>1, <2>3
<1> QED
  BY <1>1, <1>2, <1>3 DEF Steps

LEMMA EndRoom ==
  ASSUME NEW ss, NEW d, NEW p, NEW n, IsEnd(ss, d, p, n)
  PROVE  Items(d, p.src, p.mod) # {}
BY DEF IsEnd, Within, Edges

LEMMA WithinBody ==
  ASSUME NEW d, NEW p \in Place, NEW i \in Within(d, p)
  PROVE  i \in Body(d, p)
BY DEF Within, Body, IsPrefix, Place

\* The first h hops of a chain.
Shortened(c, h) == [k \in 0..h |-> c[k]]

LEMMA ChainCut ==
  ASSUME NEW ss, NEW d, NEW path \in Seq(Name), NEW g \in 0..Len(path), NEW h \in 0..g,
         NEW c \in SeenChains(ss, d, Upto(path, g))
  PROVE  /\ Shortened(c, h) \in SeenChains(ss, d, Upto(path, h))
         /\ Shortened(c, h)[h] = c[h]
         /\ \A k \in 0..g : c[k] \in Places(ss, d)
         /\ \A k \in 1..g : c[k] \in SeenSteps(ss, d, c[k - 1], path[k])
<1>1. /\ Len(Upto(path, g)) = g /\ \A k \in 1..g : Upto(path, g)[k] = path[k]
      /\ Len(Upto(path, h)) = h /\ \A k \in 1..h : Upto(path, h)[k] = path[k]
  <2>1. h \in 0..Len(path)
    OBVIOUS
  <2> QED
    BY <2>1, PathPrefix
<1>2. /\ c \in [0..g -> Places(ss, d)] /\ c[0].mod = Top /\ c[0].at = <<>>
      /\ \A k \in 1..g : c[k] \in SeenSteps(ss, d, c[k - 1], path[k])
  BY <1>1 DEF SeenChains, From
<1> DEFINE a == Shortened(c, h)
<1>3. a \in [0..h -> Places(ss, d)] /\ \A k \in 0..h : a[k] = c[k]
  BY <1>2 DEF Shortened
<1>4. ASSUME NEW k \in 1..h
      PROVE  a[k] \in SeenSteps(ss, d, a[k - 1], path[k])
  <2>1. k \in 0..h /\ k - 1 \in 0..h /\ k \in 1..g
    OBVIOUS
  <2> QED
    BY <1>2, <1>3, <2>1
<1> HIDE DEF a
<1>5. a \in SeenChains(ss, d, Upto(path, h))
  BY <1>1, <1>2, <1>3, <1>4 DEF SeenChains, From
<1> QED
  BY <1>2, <1>3, <1>5 DEF a

LEMMA ChainStep ==
  ASSUME NEW ss, NEW d, NEW path \in Seq(Name), NEW h \in 0..Len(path), h < Len(path),
         NEW c \in SeenChains(ss, d, Upto(path, h + 1))
  PROVE  /\ Shortened(c, h) \in SeenChains(ss, d, Upto(path, h)) /\ Shortened(c, h)[h] = c[h]
         /\ c[h] \in Places(ss, d) /\ c[h + 1] \in SeenSteps(ss, d, c[h], path[h + 1])
<1> DEFINE g == h + 1
<1>1. g \in 0..Len(path) /\ h \in 0..g /\ c \in SeenChains(ss, d, Upto(path, g))
      /\ g \in 1..g /\ g - 1 = h
  OBVIOUS
<1> HIDE DEF g
<1>2. /\ Shortened(c, h) \in SeenChains(ss, d, Upto(path, h)) /\ Shortened(c, h)[h] = c[h]
      /\ \A k \in 0..g : c[k] \in Places(ss, d)
      /\ \A k \in 1..g : c[k] \in SeenSteps(ss, d, c[k - 1], path[k])
  <2>1. Shortened(c, h) \in SeenChains(ss, d, Upto(path, h))
    BY <1>1, ChainCut
  <2>2. Shortened(c, h)[h] = c[h]
    BY <1>1 DEF Shortened
  <2>3. \A k \in 0..g : c[k] \in Places(ss, d)
    BY <1>1, ChainCut
  <2>4. \A k \in 1..g : c[k] \in SeenSteps(ss, d, c[k - 1], path[k])
    BY <1>1, ChainCut
  <2> QED
    BY <2>1, <2>2, <2>3, <2>4
<1>3. c[h] \in Places(ss, d) /\ c[g] \in SeenSteps(ss, d, c[h], path[g])
  BY <1>1, <1>2
<1> QED
  BY <1>2, <1>3 DEF g

\* An instance is a way to its module wherever that is declared.
LEMMA CellFollowed ==
  ASSUME NEW ss, Indexed(ss.index), NEW t, NEW d \in Disks, Agrees(ss, t, d),
         NEW p \in Place, Body(t, p) = Body(d, p), NEW n,
         NEW i \in Edges(Within(d, p), n), NEW q \in Places(ss, d), i.cell = q.mod
  PROVE  q.mod \in Children(t, p, n, ss.index)
<1>1. i \in Body(t, p) /\ i \in Edges(Body(t, p), n)
  BY WithinBody DEF Edges
<1>2. q.mod \in Known(ss.index)
  BY PlaceIndexed DEF Known, Place
<1>3. n \in Words(Body(t, p), p.at)
  BY <1>1 DEF Words, Edges
<1> QED
  BY <1>1, <1>2, <1>3 DEF Children, ChildMods

\* A hop takes every step from where its branch stands, those into modules without content aside.
LEMMA StepTaken ==
  ASSUME NEW ss, Indexed(ss.index), NEW t \in Texts, NEW d \in Disks, Agrees(ss, t, d),
         NEW b, Standing(t, ss.index, b), Here(b) \in Places(ss, d), NEW n \in Name,
         \A m \in Children(t, Here(b), n, ss.index) : \A s \in ss.index[m] : t[s] # Nothing,
         NEW q \in SeenSteps(ss, d, Here(b), n), Items(d, q.src, q.mod) # {}
  PROVE  q \in {Here(c) : c \in HopOf(t, ss.index, b, n)}
<1> DEFINE p == Here(b)
           ms == Children(t, p, n, ss.index)
<1>1. /\ b \in Branch /\ p \in Place /\ t[p.src] # Nothing /\ p.src \in ss.paths
  BY LastNode, PlaceIndexed DEF Standing
<1>2. Body(t, p) = Body(d, p) /\ ms = Children(d, p, n, ss.index)
  BY <1>1, AgreesAt
<1>3. q \in Place /\ q.src \in ss.paths /\ q.src \in ss.index[q.mod] /\ q \in Places(ss, d)
  BY StepRoom, PlaceIndexed
<1>4. CASE q.at = <<>> /\ \E i \in Edges(Within(d, p), n) : i.cell = q.mod
  <2>1. q.mod \in ms
    BY <1>1, <1>2, <1>3, <1>4, CellFollowed
  <2>2. t[q.src] # Nothing
    BY <1>3, <2>1
  <2>3. Items(t, q.src, q.mod) # {}
    BY <1>3, <2>2, AgreesAt
  <2>4. q.src \in Decls(t, ss.index, q.mod)
    BY <1>3, <2>3, DeclsType DEF Place
  <2> DEFINE x == Node1(n, "inst", [mod |-> q.mod, src |-> q.src, at |-> <<>>], <<>>)
  <2>5. Append(b, x) \in Enter(t, ss.index, b, n, ms)
    BY <2>1, <2>4 DEF Enter
  <2>6. q = [mod |-> q.mod, src |-> q.src, at |-> <<>>]
    BY <1>3, <1>4 DEF Place
  <2>7. x \in Node /\ x.seg \in Name /\ x.place = q
    BY <1>3, <2>6 DEF Node, Node1
  <2>8. Here(Append(b, x)) = q
    BY <1>1, <2>7, AppendNode DEF Here
  <2> QED
    BY <2>1, <2>5, <2>8 DEF HopOf
<1>5. CASE /\ q = [p EXCEPT !.at = q.at] /\ Children(d, p, n, ss.index) = {}
           /\ q.at \in Blocks(Body(d, p), p.at, n)
  <2> DEFINE x(at) == Node1(n, "genblk", [p EXCEPT !.at = at], Append(Last(b).labels, n))
  <2>1. Append(b, x(q.at)) \in Label(t, b, n)
    BY <1>2, <1>5 DEF Label
  <2>2. x(q.at) \in Node /\ x(q.at).seg \in Name /\ x(q.at).place = q
    BY <1>1, <1>3, <1>5, LastNode DEF Node, Node1
  <2> HIDE DEF x
  <2>3. Here(Append(b, x(q.at))) = q
    BY <1>1, <2>2, AppendNode DEF Here
  <2> QED
    BY <1>2, <1>5, <2>1, <2>3 DEF HopOf
<1> QED
  <2>1. \/ q.at = <<>> /\ \E i \in Edges(Within(d, p), n) : i.cell = q.mod
        \/ /\ q = [p EXCEPT !.at = q.at] /\ Children(d, p, n, ss.index) = {}
           /\ q.at \in Blocks(Body(d, p), p.at, n)
    BY StepRoom
  <2> QED
    BY <1>4, <1>5, <2>1

LEMMA EndTaken ==
  ASSUME NEW ss, Indexed(ss.index), NEW t \in Texts, NEW d \in Disks, Agrees(ss, t, d),
         NEW b, Standing(t, ss.index, b), Here(b) \in Places(ss, d), NEW n \in Name,
         IsEnd(ss, d, Here(b), n)
  PROVE  LeafOf(t, ss.index, b, n) # {}
<1> DEFINE p == Here(b)
           ms == Children(t, p, n, ss.index)
<1>1. /\ b \in Branch /\ p \in Place /\ t[p.src] # Nothing /\ p.src \in ss.paths
  BY LastNode, PlaceIndexed DEF Standing
<1>2. Body(t, p) = Body(d, p)
  BY <1>1, AgreesAt
<1>3. CASE ms # {}
  <2>1. PICK m \in ms : m \in Module /\ ss.index[m] # {}
    BY <1>3, ChildrenType
  <2>2. PICK s \in ss.index[m] : s \in Decls(t, ss.index, m)
    BY <2>1, DeclsType
  <2>3. Append(b, Node1(n, "inst", [mod |-> m, src |-> s, at |-> <<>>], <<>>)) \in
          Enter(t, ss.index, b, n, ms)
    BY <2>1, <2>2 DEF Enter
  <2> QED
    BY <1>3, <2>3 DEF LeafOf
<1>4. CASE ms = {}
  <2>1. PICK i \in Within(d, p) : i.name = n /\ i.kind \in {"port", "signal"}
    BY <1>1, <1>2, <1>4, CellFollowed DEF IsEnd
  <2>2. i \in Body(t, p)
    BY <1>1, <1>2, <2>1, WithinBody
  <2>3. i.kind = "port" => p.at = <<>>
    <3>1. Items(d, p.src, p.mod) = d[p.src][p.mod] /\ Declares(ss, d, p.src, p.mod)
      BY PlaceOf, DisksAreTexts
    <3>2. PICK r \in Source : d[p.src] \in Contents[r]
      BY <1>1 DEF Disks, AnyText, Place
    <3>3. IsContent(d[p.src])
      BY <3>2, HierGrepAssumption
    <3>4. WellFormed(d[p.src][p.mod])
      BY <3>1, <3>3 DEF IsContent, Declares
    <3> QED
      BY <2>1, <3>1, <3>4 DEF WellFormed, Within
  <2>4. Net(t, b, n) # {}
    BY <2>1, <2>2, <2>3 DEF Net
  <2> QED
    BY <1>4, <2>4 DEF LeafOf
<1> QED
  BY <1>3, <1>4

\* The resolution starts at every declaration of the top.
LEMMA RootCovers ==
  ASSUME TypeOK, Root, NEW d \in Disks, Agrees(session, text', d),
         NEW c \in SeenChains(session, d, Upto(walk.path, 0))
  PROVE  /\ walk'.branches # {}
         /\ Items(d, c[0].src, c[0].mod) = {} \/ \E b \in walk'.branches : Here(b) = c[0]
<1> DEFINE index == session.index
           t == Read(index[Top])
           at(s) == [mod |-> Top, src |-> s, at |-> <<>>]
           root(s) == <<Node1(Nothing, "inst", at(s), <<>>)>>
           new == {root(s) : s \in Decls(t, index, Top)}
<1>1. /\ Top \in Module /\ Indexed(index) /\ disk \in [Source -> AnyText] /\ text \in Texts
      /\ session.paths \subseteq Source
  BY SessionType, HierGrepAssumption DEF Root, TypeOK, Texts
<1>2. /\ text' = t /\ t \in Texts /\ \A s \in index[Top] : t[s] # Nothing
      /\ UNCHANGED session
  BY <1>1, ReadType DEF Root, Indexed
<1>3. /\ stage' = "hops" /\ walk'.branches = new
      /\ walk'.path = walk.path /\ walk'.hops = 0 /\ walk.path \in Seq(Name)
  BY DEF Root, TypeOK, Walk
<1>4. c[0] \in Places(session, d) /\ c[0].mod = Top /\ c[0].at = <<>>
  BY <1>3, PathPrefix DEF SeenChains, From
<1> DEFINE p == c[0]
<1>5. p \in Place /\ p.src \in session.paths /\ p.src \in index[Top]
  BY <1>4, PlaceIndexed
<1>6. Items(t, p.src, p.mod) = Items(d, p.src, p.mod)
  BY <1>2, <1>5, AgreesAt
<1>7. PICK s \in Decls(t, index, Top) : TRUE
  BY <1>1, <1>5, DeclsType
<1>8. root(s) \in new
  OBVIOUS
<1>9. ASSUME Items(d, p.src, p.mod) # {}
      PROVE  \E b \in new : Here(b) = p
  <2>1. p.src \in Decls(t, index, Top)
    BY <1>1, <1>4, <1>5, <1>6, <1>9, DeclsType
  <2>2. root(p.src) \in new
    BY <2>1
  <2>3. Here(root(p.src)) = at(p.src)
    BY <1>1, <1>2, <1>5, RootType
  <2>4. p = at(p.src)
    BY <1>4, <1>5 DEF Place
  <2> QED
    BY <2>2, <2>3, <2>4
<1> HIDE DEF new
<1> QED
  BY <1>3, <1>8, <1>9

LEMMA MissedRoot ==
  ASSUME TypeOK, Root
  PROVE  NothingMissed'
<1>1. /\ stage' = "hops" /\ UNCHANGED session
      /\ walk'.path = walk.path /\ walk'.hops = 0 /\ walk.path \in Seq(Name)
  BY DEF Root, TypeOK, Walk
<1>2. CASE walk.path = <<>>
  <2>1. Upto(walk.path, 0) = <<>>
    BY <1>2 DEF Upto
  <2>2. \A d \in Disks : Agrees(session, text', d) /\ walk'.branches = {} => ~IsThere(session, d, walk.path)
    BY <1>2, <2>1, RootCovers DEF IsThere
  <2>3. walk'.hops = Len(walk'.path)
    BY <1>1, <1>2
  <2> QED
    BY <1>1, <2>2, <2>3 DEF NothingMissed, Covered
<1>3. CASE walk.path # <<>>
  <2>1. walk'.hops # Len(walk'.path)
    BY <1>1, <1>3
  <2> QED
    BY <1>1, <2>1, RootCovers DEF NothingMissed, Covered
<1> QED
  BY <1>2, <1>3

\* One hop, for texts that agree with what was read.
LEMMA HopCovered ==
  ASSUME NEW ss, Indexed(ss.index), NEW t \in Texts, NEW d \in Disks, Agrees(ss, t, d),
         NEW path \in Seq(Name), NEW h \in 0..Len(path), h < Len(path), NEW bs,
         \A b \in bs : Standing(t, ss.index, b),
         \A b \in bs : \A m \in Children(t, Here(b), path[h + 1], ss.index) :
           \A s \in ss.index[m] : t[s] # Nothing,
         Covered(ss, d, path, h, bs),
         NEW new,
         new = UNION {IF h + 1 < Len(path) THEN HopOf(t, ss.index, b, path[h + 1])
                      ELSE LeafOf(t, ss.index, b, path[h + 1]) : b \in bs}
  PROVE  Covered(ss, d, path, h + 1, new)
<1> DEFINE n == path[h + 1]
<1>1. n \in Name /\ h \in 0..(h + 1) /\ h + 1 \in 0..Len(path) /\ h \in 0..h
  OBVIOUS
<1>2. \A c \in SeenChains(ss, d, Upto(path, h)) :
        Items(d, c[h].src, c[h].mod) = {} \/ \E b \in bs : Here(b) = c[h]
  <2>1. h # Len(path)
    OBVIOUS
  <2> QED
    BY <2>1 DEF Covered
<1>3. CASE h + 1 < Len(path)
  <2>1. ASSUME NEW c \in SeenChains(ss, d, Upto(path, h + 1)),
               Items(d, c[h + 1].src, c[h + 1].mod) # {}
        PROVE  \E b \in new : Here(b) = c[h + 1]
    <3>1. /\ Shortened(c, h) \in SeenChains(ss, d, Upto(path, h)) /\ Shortened(c, h)[h] = c[h]
          /\ c[h] \in Places(ss, d) /\ c[h + 1] \in SeenSteps(ss, d, c[h], n)
      BY <1>1, ChainStep
    <3>2. Items(d, c[h].src, c[h].mod) # {}
      BY <3>1, StepRoom
    <3>3. PICK b \in bs : Here(b) = c[h]
      BY <1>2, <3>1, <3>2
    <3>4. PICK e \in HopOf(t, ss.index, b, n) : Here(e) = c[h + 1]
      <4> DEFINE q == c[h + 1]
      <4>1. Here(b) \in Places(ss, d) /\ q \in SeenSteps(ss, d, Here(b), n) /\ Items(d, q.src, q.mod) # {}
        BY <2>1, <3>1, <3>3
      <4>2. Standing(t, ss.index, b) /\ \A m \in Children(t, Here(b), n, ss.index) :
              \A s \in ss.index[m] : t[s] # Nothing
        OBVIOUS
      <4> HIDE DEF q, n
      <4>3. q \in {Here(e) : e \in HopOf(t, ss.index, b, n)}
        BY <1>1, <4>1, <4>2, StepTaken
      <4> QED
        BY <4>3 DEF q
    <3>5. e \in new
      BY <1>3, <3>4
    <3> QED
      BY <3>4, <3>5
  <2>2. h + 1 # Len(path)
    BY <1>3
  <2> QED
    BY <2>1, <2>2 DEF Covered
<1>4. CASE h + 1 = Len(path)
  <2>1. path # <<>> /\ Front(path) = Upto(path, h) /\ Last(path) = n /\ Len(path) - 1 = h
    <3>1. path # <<>> /\ Len(path) - 1 = h
      BY <1>4
    <3> QED
      BY <1>4, <3>1 DEF Front, Last, Upto
  <2>2. ASSUME IsThere(ss, d, path)
        PROVE  new # {}
    <3>1. PICK c \in SeenChains(ss, d, Upto(path, h)) : IsEnd(ss, d, c[h], n)
      BY <2>1, <2>2 DEF IsThere
    <3>2. c[h] \in Places(ss, d)
      BY <1>1, <3>1, ChainCut
    <3>3. PICK b \in bs : Here(b) = c[h]
      BY <1>2, <3>1, EndRoom
    <3>4. LeafOf(t, ss.index, b, n) # {}
      BY <1>1, <3>1, <3>2, <3>3, EndTaken
    <3> QED
      BY <1>4, <3>4
  <2> QED
    BY <1>4, <2>2 DEF Covered
<1> QED
  BY <1>1, <1>3, <1>4

LEMMA MissedHop ==
  ASSUME TypeOK, NothingMissed, Hop
  PROVE  NothingMissed'
<1> DEFINE index == session.index
           n == walk.path[walk.hops + 1]
           t == text'
<1>1. /\ n \in Name /\ walk.path \in Seq(Name)
      /\ walk.hops \in 0..Len(walk.path) /\ walk.hops + 1 <= Len(walk.path)
      /\ text \in Texts /\ t \in Texts /\ Grows(text, t) /\ UNCHANGED session
      /\ t = Read(Touched(text, index, walk.branches, n))
      /\ walk'.path = walk.path /\ walk'.hops = walk.hops + 1
      /\ walk'.branches = UNION {IF walk.hops + 1 < Len(walk.path) THEN HopOf(t, index, b, n)
                                 ELSE LeafOf(t, index, b, n) : b \in walk.branches}
      /\ \A b \in walk.branches : Standing(text, index, b) /\ Standing(t, index, b)
  BY HopFacts
<1>2. /\ Indexed(index) /\ session.paths \subseteq Source /\ disk \in [Source -> AnyText]
      /\ stage = "hops" /\ stage' = "hops"
  BY SessionType DEF Hop, TypeOK
<1>3. \A b \in walk.branches : \A m \in Children(t, Here(b), n, index) :
        \A s \in index[m] : t[s] # Nothing
  <2> DEFINE r == Read(Touched(text, index, walk.branches, n))
  <2>1. ASSUME NEW b \in walk.branches, NEW m \in Children(r, Here(b), n, index)
        PROVE  \A s \in index[m] : r[s] # Nothing
    BY <1>1, <1>2, ChildrenRead
  <2>2. t = r
    BY <1>1
  <2> HIDE DEF r, t
  <2> QED
    BY <2>1, <2>2
<1>4. ASSUME NEW d \in Disks, Agrees(session, t, d)
      PROVE  Covered(session, d, walk.path, walk.hops + 1, walk'.branches)
  <2>1. Agrees(session, text, d)
    BY <1>1, <1>2, <1>4, AgreesShrinks
  <2>2. Covered(session, d, walk.path, walk.hops, walk.branches)
    BY <1>2, <2>1 DEF NothingMissed
  <2>3. walk.hops < Len(walk.path)
    BY <1>1
  <2> HIDE DEF t
  <2> QED
    BY <1>1, <1>2, <1>3, <1>4, <2>2, <2>3, HopCovered
<1> HIDE DEF t
<1> QED
  BY <1>1, <1>2, <1>4 DEF NothingMissed, t

\* A resolution that ends without a branch means that nothing is there.
LEMMA MissAbsent ==
  ASSUME TypeOK, NothingMissed, stage = "hops", walk.branches = {}
  PROVE  Absent(session, text, walk.path)
<1> DEFINE path == walk.path
           h == walk.hops
<1> SUFFICES ASSUME NEW d \in Disks, Agrees(session, text, d), IsThere(session, d, path)
             PROVE  FALSE
  BY DEF Absent
<1>1. path \in Seq(Name) /\ h \in 0..Len(path)
  BY DEF TypeOK, Walk
<1>2. Covered(session, d, path, h, {})
  BY DEF NothingMissed
<1>3. h # Len(path)
  BY <1>2 DEF Covered
<1>4. path # <<>> /\ Front(path) = Upto(path, Len(path) - 1) /\ Len(path) - 1 \in 0..Len(path)
      /\ h \in 0..(Len(path) - 1)
  BY <1>1, <1>3 DEF Front, Upto
<1>5. PICK c \in SeenChains(session, d, Upto(path, Len(path) - 1)) :
        IsEnd(session, d, c[Len(path) - 1], Last(path))
  BY <1>4 DEF IsThere
<1>6. /\ Shortened(c, h) \in SeenChains(session, d, Upto(path, h)) /\ Shortened(c, h)[h] = c[h]
      /\ \A k \in 0..(Len(path) - 1) : c[k] \in Places(session, d)
      /\ \A k \in 1..(Len(path) - 1) : c[k] \in SeenSteps(session, d, c[k - 1], path[k])
  <2> DEFINE g == Len(path) - 1
  <2>1. g \in 0..Len(path) /\ h \in 0..g /\ c \in SeenChains(session, d, Upto(path, g))
    BY <1>4
  <2> HIDE DEF path, h, g
  <2>2. /\ Shortened(c, h) \in SeenChains(session, d, Upto(path, h)) /\ Shortened(c, h)[h] = c[h]
        /\ \A k \in 0..g : c[k] \in Places(session, d)
        /\ \A k \in 1..g : c[k] \in SeenSteps(session, d, c[k - 1], path[k])
    BY <1>1, <2>1, ChainCut
  <2> QED
    BY <2>2 DEF g
<1>7. Items(d, c[h].src, c[h].mod) = {}
  BY <1>2, <1>3, <1>6 DEF Covered
<1>8. CASE h = Len(path) - 1
  BY <1>5, <1>7, <1>8, EndRoom
<1>9. CASE h # Len(path) - 1
  <2>1. h + 1 \in 1..(Len(path) - 1) /\ (h + 1) - 1 = h
    BY <1>1, <1>4, <1>9
  <2>2. c[h + 1] \in SeenSteps(session, d, c[h], path[h + 1]) /\ c[h] \in Places(session, d)
    BY <1>4, <1>6, <2>1
  <2> HIDE DEF path, h
  <2> QED
    BY <1>7, <2>2, StepRoom
<1> QED
  BY <1>8, <1>9

-----------------------------------------------------------------------------
(* The gates.                                                              *)

Busy == stage \in {"root", "hops", "decide"}
\* A gate says of its path what is so.
GateRight(t, path, g) ==
  /\ g.spec = path
  /\ g.ok => IsLoose(session, t, path)
  /\ ~g.ok => Absent(session, t, path)
GatesRight ==
  /\ Len(gates) <= Len(check)
  /\ \A e \in DOMAIN gates : GateRight(text, check[e], gates[e])
\* What is resolved is the next path of the check, or what is above the net it was found to end at.
WalkRight ==
  stage \in {"root", "hops"} =>
    IF walk.probe = Nothing THEN walk.path = check[Len(gates) + 1]
    ELSE walk.probe.ok /\ GateRight(text, check[Len(gates) + 1], walk.probe)
VerdictRight ==
  /\ Busy => verdict = Nothing
  /\ stage = "off" => gates = <<>> /\ verdict = Nothing
  /\ Gated("pass") => \A e \in DOMAIN gates : gates[e].ok

Inv == TypeOK /\ FoundExists /\ NothingMissed /\ GatesRight /\ WalkRight /\ VerdictRight

LEMMA GateGrows ==
  ASSUME session.paths \subseteq Source, NEW u \in Texts, NEW v, Grows(u, v),
         NEW path \in Seq(Name), NEW g, GateRight(u, path, g)
  PROVE  GateRight(v, path, g)
BY LooseGrow, AgreesShrinks DEF GateRight, Absent

\* The branches of a resolution that has one to report lead to where its path says.
LEMMA HitLoose ==
  ASSUME TypeOK, FoundExists, NEW b, b \in walk.branches, stage = "hops", Resolved
  PROVE  IsLoose(session, text, walk.path)
BY DEF FoundExists, Resolved

LEMMA InvInit == Init => Inv
<1> SUFFICES ASSUME Init PROVE Inv
  OBVIOUS
<1>1. TypeOK
  BY InitType
<1>2. stage = "off" /\ gates = <<>> /\ verdict = Nothing /\ check = <<>>
  BY DEF Init
<1>3. DOMAIN gates = {} /\ Len(gates) <= Len(check)
  BY <1>2
<1> QED
  BY <1>1, <1>2, <1>3 DEF Inv, FoundExists, NothingMissed, GatesRight, WalkRight, VerdictRight, Busy, Gated

LEMMA EditInv ==
  ASSUME Inv, NEW s \in Source, Edit(s)
  PROVE  Inv'
<1>1. TypeOK'
  BY EditType DEF Inv
<1>2. UNCHANGED <<stage, session, text, check, walk, gates, verdict>>
  BY DEF Edit
<1> QED
  BY <1>1, <1>2
  DEF Inv, FoundExists, Reached, NothingMissed, GatesRight, GateRight, WalkRight, VerdictRight, Busy, Gated

LEMMA SessionInv ==
  ASSUME Inv, NEW paths \in Filelists, NEW only \in BOOLEAN, NEW refresh,
         Load(paths, only) \/ Build(paths, refresh, only)
  PROVE  Inv'
<1>1. TypeOK'
  BY SessionStepType DEF Inv
<1>2. /\ stage = "off" /\ stage' \in {"idle", "dump"} /\ UNCHANGED <<check, gates, verdict>>
      /\ gates = <<>> /\ verdict = Nothing
  BY DEF Inv, VerdictRight, Load, Build
<1>3. gates' = <<>> /\ Len(gates') <= Len(check')
  BY <1>2 DEF Inv, GatesRight
<1> QED
  BY <1>1, <1>2, <1>3
  DEF Inv, FoundExists, NothingMissed, GatesRight, WalkRight, VerdictRight, Busy, Gated

LEMMA DumpStopInv ==
  ASSUME Inv, Dump \/ Stop
  PROVE  Inv'
<1>1. TypeOK'
  BY DumpStopType DEF Inv
<1>2. CASE Dump
  <2>1. stage' = "idle" /\ UNCHANGED <<session, text, check, walk, gates, verdict>>
    BY <1>2 DEF Dump
  <2> QED
    BY <1>1, <2>1
    DEF Inv, FoundExists, NothingMissed, GatesRight, GateRight, WalkRight, VerdictRight, Busy, Gated
<1>3. CASE Stop
  <2>1. stage' = "off" /\ gates' = <<>> /\ check' = <<>> /\ verdict' = Nothing
    BY <1>3 DEF Stop
  <2> QED
    BY <1>1, <2>1
    DEF Inv, FoundExists, NothingMissed, GatesRight, WalkRight, VerdictRight, Busy, Gated
<1> QED
  BY <1>2, <1>3

LEMMA AskInv ==
  ASSUME Inv, NEW c \in Checks, Ask(c)
  PROVE  Inv'
<1>1. TypeOK'
  BY AskType DEF Inv
<1>2. /\ check' = c /\ gates' = <<>> /\ verdict' = Nothing /\ Start(c[1], Nothing)
      /\ c \in Seq(Seq(Name)) /\ c # <<>>
  BY HierGrepAssumption DEF Ask
<1>3. stage' = "root" /\ walk'.path = c[1] /\ walk'.probe = Nothing
  BY <1>2 DEF Start
<1>4. Len(gates') = 0 /\ DOMAIN gates' = {} /\ Len(gates') <= Len(check')
  BY <1>2
<1> QED
  BY <1>1, <1>2, <1>3, <1>4
  DEF Inv, FoundExists, NothingMissed, GatesRight, WalkRight, VerdictRight, Busy, Gated

\* Reading more sources leaves the gates right.
LEMMA GatesGrow ==
  ASSUME Inv, stage # "off", text' \in Texts, Grows(text, text'), UNCHANGED <<session, check, gates>>
  PROVE  /\ GatesRight'
         /\ \A g : stage \in {"root", "hops"} /\ GateRight(text, check[Len(gates) + 1], g)
                     => GateRight(text, check[Len(gates) + 1], g)'
<1>1. /\ session.paths \subseteq Source /\ text \in Texts /\ check \in Seq(Seq(Name))
      /\ gates \in Seq(EndpointGate) /\ Len(gates) <= Len(check)
      /\ stage \in {"root", "hops"} => Len(gates) < Len(check)
  BY SessionType DEF Inv, TypeOK, Texts, GatesRight
<1>2. \A e \in DOMAIN gates : check[e] \in Seq(Name)
  BY <1>1
<1>3. stage \in {"root", "hops"} => check[Len(gates) + 1] \in Seq(Name)
  BY <1>1
<1>4. ASSUME NEW path \in Seq(Name), NEW g, GateRight(text, path, g)
      PROVE  GateRight(text', path, g)
  BY <1>1, <1>4, GateGrows
<1>5. \A path, g : GateRight(text, path, g)' <=> GateRight(text', path, g)
  BY DEF GateRight
<1>6. GatesRight'
  BY <1>1, <1>2, <1>4, <1>5 DEF Inv, GatesRight
<1> QED
  BY <1>3, <1>4, <1>5, <1>6

LEMMA RootInv ==
  ASSUME Inv, Root
  PROVE  Inv'
<1>1. TypeOK' /\ FoundExists' /\ NothingMissed'
  BY RootStepType, FoundRoot, MissedRoot DEF Inv
<1>2. /\ stage = "root" /\ stage' = "hops" /\ UNCHANGED <<session, check, gates, verdict>>
      /\ walk'.path = walk.path /\ walk'.probe = walk.probe
  BY DEF Root, Inv, TypeOK, Walk
<1>3. text' \in Texts /\ Grows(text, text')
  BY ReadType DEF Root, Inv, TypeOK, Texts
<1>4. /\ GatesRight'
      /\ \A g : GateRight(text, check[Len(gates) + 1], g) => GateRight(text, check[Len(gates) + 1], g)'
  BY <1>2, <1>3, GatesGrow
<1>5. WalkRight'
  BY <1>2, <1>4 DEF Inv, WalkRight
<1> QED
  BY <1>1, <1>2, <1>4, <1>5 DEF Inv, VerdictRight, Busy, Gated

LEMMA HopInv ==
  ASSUME Inv, Hop
  PROVE  Inv'
<1>1. TypeOK' /\ FoundExists' /\ NothingMissed'
  BY HopStepType, FoundHop, MissedHop DEF Inv
<1>2. /\ stage = "hops" /\ stage' = "hops" /\ UNCHANGED <<session, check, gates, verdict>>
  BY DEF Hop
<1>3. /\ text' \in Texts /\ Grows(text, text')
      /\ walk'.path = walk.path /\ walk'.probe = walk.probe
  BY HopFacts DEF Inv
<1>4. /\ GatesRight'
      /\ \A g : GateRight(text, check[Len(gates) + 1], g) => GateRight(text, check[Len(gates) + 1], g)'
  BY <1>2, <1>3, GatesGrow
<1>5. WalkRight'
  BY <1>2, <1>3, <1>4 DEF Inv, WalkRight
<1> QED
  BY <1>1, <1>2, <1>4, <1>5 DEF Inv, VerdictRight, Busy, Gated

LEMMA StripInv ==
  ASSUME Inv, NEW b, Strip(b)
  PROVE  Inv'
<1> DEFINE g == GateOf(walk.path, walk.path, Nothing, walk.branches, b)
<1>1. TypeOK'
  BY StripType DEF Inv
<1>2. /\ stage = "hops" /\ Resolved /\ walk.probe = Nothing /\ b \in walk.branches
      /\ Start(Front(walk.path), g) /\ UNCHANGED <<session, text, check, gates, verdict>>
  BY DEF Strip
<1>3. stage' = "root" /\ walk'.probe = g
  BY <1>2 DEF Start
<1>4. walk.path = check[Len(gates) + 1] /\ walk.path \in Seq(Name)
  BY <1>2 DEF Inv, WalkRight, TypeOK, Walk
<1>5. g \in EndpointGate /\ g.spec = walk.path /\ g.ok
  BY <1>2, <1>4, WalkGate DEF Inv
<1> HIDE DEF g
<1>6. GateRight(text, check[Len(gates) + 1], g)
  BY <1>2, <1>4, <1>5, HitLoose DEF Inv, GateRight
<1>7. g # Nothing
  BY <1>5, HierGrepAssumption
<1>8. WalkRight'
  BY <1>2, <1>3, <1>5, <1>6, <1>7 DEF WalkRight, GateRight
<1> QED
  BY <1>1, <1>2, <1>3, <1>8
  DEF Inv, FoundExists, NothingMissed, GatesRight, GateRight, VerdictRight, Busy, Gated

LEMMA GateInv ==
  ASSUME Inv, NEW g \in EndpointGate, Gate(g), GateRight(text, check[Len(gates) + 1], g)
  PROVE  Inv'
<1>1. TypeOK'
  BY GateStepType DEF Inv
<1>2. /\ stage = "hops" /\ gates' = Append(gates, g)
      /\ UNCHANGED <<disk, hie, session, text, check, verdict>>
  BY DEF Gate
<1>3. /\ gates \in Seq(EndpointGate) /\ check \in Seq(Seq(Name)) /\ Len(gates) < Len(check)
  BY <1>2 DEF Inv, TypeOK
<1>4. \/ stage' = "decide"
      \/ /\ stage' = "root" /\ walk'.path = check[Len(gates) + 2] /\ walk'.probe = Nothing
  BY DEF Gate, Start
<1>5. Len(gates') = Len(gates) + 1 /\ Len(gates') <= Len(check')
  BY <1>2, <1>3
<1>6. ASSUME NEW e \in DOMAIN gates'
      PROVE  GateRight(text, check[e], gates'[e])
  <2>1. CASE e \in DOMAIN gates
    <3>1. gates'[e] = gates[e]
      BY <1>2, <1>3, <2>1
    <3> QED
      BY <2>1, <3>1 DEF Inv, GatesRight
  <2>2. CASE e = Len(gates) + 1
    <3>1. gates'[e] = g
      BY <1>2, <1>3, <2>2
    <3> QED
      BY <2>2, <3>1
  <2> QED
    BY <1>2, <1>3, <1>5, <2>1, <2>2
<1>7. GatesRight'
  BY <1>2, <1>5, <1>6 DEF GatesRight, GateRight
<1>8. WalkRight'
  BY <1>2, <1>3, <1>4, <1>5 DEF WalkRight
<1> QED
  BY <1>1, <1>2, <1>4, <1>7, <1>8
  DEF Inv, FoundExists, NothingMissed, VerdictRight, Busy, Gated

LEMMA MissInv ==
  ASSUME Inv, Miss
  PROVE  Inv'
<1>1. PICK g \in EndpointGate :
        /\ Gate(g)
        /\ walk.probe # Nothing => g = walk.probe
        /\ walk.probe = Nothing => ~g.ok /\ g.spec = walk.path
  BY MissGate DEF Inv
<1>2. stage = "hops" /\ walk.branches = {}
  BY <1>1 DEF Miss, Gate
<1>3. Absent(session, text, walk.path)
  BY <1>2, MissAbsent DEF Inv
<1>4. GateRight(text, check[Len(gates) + 1], g)
  BY <1>1, <1>2, <1>3 DEF Inv, WalkRight, GateRight
<1> QED
  BY <1>1, <1>4, GateInv

LEMMA HitInv ==
  ASSUME Inv, NEW b, Hit(b)
  PROVE  Inv'
<1>1. PICK g \in EndpointGate :
        /\ Gate(g) /\ g.ok
        /\ walk.probe # Nothing => g.spec = walk.probe.spec
        /\ walk.probe = Nothing => g.spec = walk.path
  BY HitGate DEF Inv
<1>2. stage = "hops" /\ b \in walk.branches /\ Resolved
  BY <1>1 DEF Hit, Gate
<1>3. IsLoose(session, text, walk.path)
  BY <1>2, HitLoose DEF Inv
<1>4. GateRight(text, check[Len(gates) + 1], g)
  BY <1>1, <1>2, <1>3 DEF Inv, WalkRight, GateRight
<1> QED
  BY <1>1, <1>4, GateInv

LEMMA DecideInv ==
  ASSUME Inv, NEW known, Decide(known)
  PROVE  Inv'
<1>1. /\ TypeOK'
      /\ Len(gates') = Len(gates) /\ DOMAIN gates' = DOMAIN gates
      /\ \A e \in DOMAIN gates : gates'[e].spec = gates[e].spec /\ gates'[e].ok = gates[e].ok
  BY DecideType DEF Inv
<1>2. /\ stage' = "idle" /\ UNCHANGED <<session, text, check, walk>>
      /\ gates' = [e \in DOMAIN gates |-> Peel(gates[e])]
      /\ verdict' = [status |-> StatusOf(gates', known),
                     rows |-> IF \E e \in DOMAIN gates' : ~gates'[e].ok THEN {} ELSE Merged(gates')]
  BY DEF Decide
<1>3. GatesRight'
  BY <1>1, <1>2 DEF Inv, GatesRight, GateRight
<1>4. Gated("pass")' => \A e \in DOMAIN gates' : gates'[e].ok
  <2>1. Gated("pass")' => StatusOf(gates', known) = "pass"
    BY <1>2 DEF Gated
  <2> QED
    BY <2>1 DEF StatusOf
<1> QED
  BY <1>1, <1>2, <1>3, <1>4
  DEF Inv, FoundExists, NothingMissed, WalkRight, VerdictRight, Busy

LEMMA InvStep ==
  ASSUME Inv, [Next]_vars
  PROVE  Inv'
<1>1. CASE \E s \in Source : Edit(s)
  BY <1>1, EditInv
<1>2. CASE \E paths \in Filelists, only \in BOOLEAN :
             Load(paths, only) \/ \E refresh \in BOOLEAN : Build(paths, refresh, only)
  BY <1>2, SessionInv
<1>3. CASE Dump \/ Stop
  BY <1>3, DumpStopInv
<1>4. CASE \E c \in Checks : Ask(c)
  BY <1>4, AskInv
<1>5. CASE Root
  BY <1>5, RootInv
<1>6. CASE Hop
  BY <1>6, HopInv
<1>7. CASE Miss
  BY <1>7, MissInv
<1>8. CASE \E b \in walk.branches : Strip(b)
  BY <1>8, StripInv
<1>9. CASE \E b \in walk.branches : Hit(b)
  BY <1>9, HitInv
<1>10. CASE \E known \in SUBSET DOMAIN gates : Decide(known)
  BY <1>10, DecideInv
<1>11. CASE UNCHANGED vars
  <2>1. TypeOK'
    BY <1>11, TypeStep DEF Inv
  <2>2. UNCHANGED <<stage, session, text, check, walk, gates, verdict>>
    BY <1>11 DEF vars
  <2> QED
    BY <2>1, <2>2
    DEF Inv, FoundExists, Reached, NothingMissed, GatesRight, GateRight, WalkRight, VerdictRight, Busy, Gated
<1> QED
  BY <1>1, <1>2, <1>3, <1>4, <1>5, <1>6, <1>7, <1>8, <1>9, <1>10, <1>11 DEF Next

LEMMA InvAlways == Spec => []Inv
BY InvInit, InvStep, PTL DEF Spec

\* The gate passes no check with an endpoint for which the texts it has read have no chain of
\* instances, blocks and guesses, however old its index is and whenever the sources were edited.
THEOREM PassIsExplained == Spec => []PassExplained
<1>1. Inv => PassExplained
  BY DEF Inv, PassExplained, VerdictRight, GatesRight, GateRight
<1> QED
  BY <1>1, InvAlways, PTL

\* The gate rejects no endpoint the sources have, as long as they are what the session knows of
\* them: the resolver tries every declaration of every instance of a name, and of the blocks of a
\* name the first.  What is in a later block of that label is not covered: it is rejected.
THEOREM RejectIsExplained == Spec => []RejectExplained
<1>1. Inv => RejectExplained
  <2> SUFFICES ASSUME Inv, Agrees(session, text, disk), NEW e \in DOMAIN gates, ~gates[e].ok
               PROVE  ~IsThere(session, disk, check[e])
    BY DEF RejectExplained
  <2>1. disk \in Disks
    BY DEF Inv, TypeOK, Disks
  <2> QED
    BY <2>1 DEF Inv, GatesRight, GateRight, Absent
<1> QED
  BY <1>1, InvAlways, PTL
-----------------------------------------------------------------------------
(* The rows of a gate.                                                     *)

\* An instance of that name in the module of the place is one of m, or the name suggests m.
Leads(t, p, n, m) ==
  \/ t[p.src] # Nothing /\ \E i \in Edges(Items(t, p.src, p.mod), n) : i.cell = m
  \/ Inferred[n] = m

\* A branch stays in its module until it enters an instance of that module.
Joined(t, b) ==
  /\ \A i, k \in DOMAIN b :
       i <= k /\ (\A l \in (i + 1)..k : b[l].kind # "inst") =>
         b[k].place.mod = b[i].place.mod /\ b[k].place.src = b[i].place.src
  /\ \A k \in DOMAIN b :
       k > 1 /\ b[k].kind = "inst" => Leads(t, b[k - 1].place, b[k].seg, b[k].place.mod)

\* The nodes of a branch are the names of a path, after h hops.
OnPath(b, path, h) == Len(b) = h + 1 /\ \A k \in 1..h : b[k + 1].seg = path[k]

RowsChained(t, g) ==
  \A r \in g.rows : /\ IsPrefix(r.path, g.hier)
                    /\ \A u \in Above(g.rows, r) : Leads(t, u, Last(r.path), r.mod)

RowsInv ==
  /\ \A b \in walk.branches : Joined(text, b) /\ OnPath(b, walk.path, walk.hops)
  /\ walk.probe # Nothing => RowsChained(text, walk.probe)
  /\ \A e \in DOMAIN gates : RowsChained(text, gates[e])
  /\ verdict # Nothing => verdict.rows \in {{}, Merged(gates)}

LEMMA LeastOf ==
  ASSUME NEW T \in SUBSET Nat, T # {}
  PROVE  \E n \in T : \A k \in T : n <= k
<1> DEFINE R == {ss \in Nat \X Nat : ss[1] < ss[2]}
<1>1. OpToRel(<, Nat) = R
  BY Zenon DEF OpToRel
<1>2. IsWellFoundedOn(R, Nat)
  BY <1>1, NatLessThanWellFounded, Zenon
<1> HIDE DEF R
<1>3. PICK n \in T : \A k \in T : ~ (<<k, n>> \in R)
  BY <1>2, WFMin
<1>4. ASSUME NEW k \in T
      PROVE  n <= k
  <2>1. n \in Nat /\ k \in Nat
    OBVIOUS
  <2>2. ~ (<<k, n>> \in R)
    BY <1>3
  <2> QED
    BY <2>1, <2>2 DEF R
<1> QED
  BY <1>4

LEMMA JoinedGrow ==
  ASSUME NEW u, NEW v, Grows(u, v), NEW b \in Branch, Joined(u, b)
  PROVE  Joined(v, b)
<1>1. ASSUME NEW k \in DOMAIN b, k > 1
      PROVE  b[k - 1].place.src \in Source
  <2>1. b \in Seq(Node) /\ k - 1 \in 1..Len(b)
    BY <1>1 DEF Branch
  <2>2. b[k - 1] \in Node
    BY <2>1
  <2> QED
    BY <2>2 DEF Node, Place
<1>2. ASSUME NEW p, p.src \in Source, NEW n, NEW m, Leads(u, p, n, m)
      PROVE  Leads(v, p, n, m)
  BY <1>2, SameText DEF Leads
<1> QED
  BY <1>1, <1>2 DEF Joined

LEMMA ChainedGrow ==
  ASSUME NEW u, NEW v, Grows(u, v), NEW g \in EndpointGate, RowsChained(u, g)
  PROVE  RowsChained(v, g)
<1>1. \A r \in g.rows : r.src \in Source
  BY DEF EndpointGate, Row
<1>2. ASSUME NEW p, p.src \in Source, NEW n, NEW m, Leads(u, p, n, m)
      PROVE  Leads(v, p, n, m)
  BY <1>2, SameText DEF Leads
<1> QED
  BY <1>1, <1>2 DEF RowsChained, Above

LEMMA JoinedAppend ==
  ASSUME NEW t, NEW b \in Branch, Joined(t, b), NEW x \in Node,
         \/ x.kind = "inst" /\ Leads(t, Here(b), x.seg, x.place.mod)
         \/ x.kind # "inst" /\ x.place.mod = Here(b).mod /\ x.place.src = Here(b).src
  PROVE  Joined(t, Append(b, x))
<1> DEFINE c == Append(b, x)
           n == Len(b)
<1>1. /\ b \in Seq(Node) /\ n \in Nat /\ n >= 1 /\ Len(c) = n + 1 /\ DOMAIN c = 1..(n + 1)
      /\ DOMAIN b = 1..n
      /\ \A k \in 1..n : c[k] = b[k]
      /\ c[n + 1] = x /\ Here(b) = b[n].place
  BY DEF Branch, Here, Last
<1> HIDE DEF c
<1>2. ASSUME NEW i \in DOMAIN c, NEW k \in DOMAIN c, i <= k, \A l \in (i + 1)..k : c[l].kind # "inst"
      PROVE  c[k].place.mod = c[i].place.mod /\ c[k].place.src = c[i].place.src
  <2>1. CASE k \in 1..n
    <3>1. i \in 1..n /\ \A l \in (i + 1)..k : b[l].kind # "inst"
      BY <1>1, <1>2, <2>1
    <3> QED
      BY <1>1, <1>2, <2>1, <3>1 DEF Joined
  <2>2. CASE i \in 1..n /\ k = n + 1
    <3>1. n + 1 \in (i + 1)..k /\ x.kind # "inst"
      BY <1>1, <1>2, <2>2
    <3>2. \A l \in (i + 1)..n : b[l].kind # "inst"
      BY <1>1, <1>2, <2>2
    <3>3. b[n].place.mod = b[i].place.mod /\ b[n].place.src = b[i].place.src
      BY <1>1, <2>2, <3>2 DEF Joined
    <3> QED
      BY <1>1, <2>2, <3>1, <3>3
  <2>3. CASE i = n + 1 /\ k = n + 1
    BY <2>3
  <2> QED
    BY <1>1, <1>2, <2>1, <2>2, <2>3
<1>3. ASSUME NEW k \in DOMAIN c, k > 1, c[k].kind = "inst"
      PROVE  Leads(t, c[k - 1].place, c[k].seg, c[k].place.mod)
  <2>1. CASE k = n + 1
    BY <1>1, <1>3, <2>1
  <2>2. CASE k \in 1..n
    <3>1. k - 1 \in 1..n
      BY <1>1, <1>3, <2>2
    <3> QED
      BY <1>1, <1>3, <2>2, <3>1 DEF Joined
  <2> QED
    BY <1>1, <2>1, <2>2
<1> QED
  BY <1>2, <1>3 DEF Joined, c

LEMMA PathAppend ==
  ASSUME NEW b \in Branch, NEW path, NEW h \in Nat, OnPath(b, path, h), NEW x \in Node, x.seg = path[h + 1]
  PROVE  OnPath(Append(b, x), path, h + 1)
<1>1. /\ b \in Seq(Node) /\ Len(b) = h + 1 /\ Len(Append(b, x)) = h + 2
      /\ \A k \in 1..(h + 1) : Append(b, x)[k] = b[k]
      /\ Append(b, x)[h + 2] = x
  BY DEF Branch, OnPath
<1>2. ASSUME NEW k \in 1..(h + 1)
      PROVE  Append(b, x)[k + 1].seg = path[k]
  <2>1. CASE k = h + 1
    BY <1>1, <2>1
  <2>2. CASE k \in 1..h
    <3>1. k + 1 \in 1..(h + 1)
      BY <2>2
    <3> QED
      BY <1>1, <2>2, <3>1 DEF OnPath
  <2>3. k = h + 1 \/ k \in 1..h
    OBVIOUS
  <2> QED
    BY <2>1, <2>2, <2>3
<1> QED
  BY <1>1, <1>2 DEF OnPath

\* What a hop appends to a branch.
LEMMA HopJoined ==
  ASSUME NEW t \in Texts, NEW index, Indexed(index), NEW b, Standing(t, index, b), Joined(t, b), NEW n \in Name,
         NEW c, c \in HopOf(t, index, b, n) \/ c \in LeafOf(t, index, b, n)
  PROVE  \E x \in Node : c = Append(b, x) /\ x.seg = n /\ Joined(t, c)
<1> DEFINE p == Here(b)
           ms == Children(t, p, n, index)
<1>1. b \in Branch /\ p \in Place /\ IsRead(t, p) /\ Last(b).labels \in Seq(Name)
  BY LastNode DEF Standing, IsRead
<1>2. CASE c \in Enter(t, index, b, n, ms)
  <2>1. PICK m \in ms : c \in {Append(b, Node1(n, "inst", [mod |-> m, src |-> s, at |-> <<>>], <<>>)) :
                                 s \in Decls(t, index, m)}
    BY <1>2 DEF Enter
  <2>2. PICK s \in Decls(t, index, m) :
          c = Append(b, Node1(n, "inst", [mod |-> m, src |-> s, at |-> <<>>], <<>>))
    BY <2>1
  <2> DEFINE x == Node1(n, "inst", [mod |-> m, src |-> s, at |-> <<>>], <<>>)
  <2>3. m \in Module /\ s \in Source
    BY <2>1, <2>2, ChildrenType, DeclsType DEF Indexed
  <2>4. x \in Node /\ x.seg = n /\ x.kind = "inst" /\ x.place.mod = m
    BY <2>3 DEF Node, Place, Node1
  <2>5. Leads(t, p, n, m)
    BY <1>1, <2>1, ChildrenType, BodyType DEF Leads, IsRead, Edges
  <2> HIDE DEF x
  <2>6. Joined(t, Append(b, x))
    BY <1>1, <2>4, <2>5, JoinedAppend
  <2> QED
    BY <2>2, <2>4, <2>6 DEF x
<1>3. CASE c \in Label(t, b, n)
  <2> DEFINE x(at) == Node1(n, "genblk", [p EXCEPT !.at = at], Append(Last(b).labels, n))
  <2>1. PICK at \in Blocks(Body(t, p), p.at, n) : c = Append(b, x(at))
    BY <1>3 DEF Label
  <2>2. at \in Seq(Block) /\ n \in Name
    BY <1>1, <2>1, BlocksType
  <2>3. /\ x(at) \in Node /\ x(at).seg = n /\ x(at).kind # "inst"
        /\ x(at).place.mod = p.mod /\ x(at).place.src = p.src
    BY <1>1, <2>2 DEF Node, Place, Node1
  <2> HIDE DEF x, p
  <2>4. Joined(t, Append(b, x(at)))
    BY <1>1, <2>3, JoinedAppend DEF p
  <2> QED
    BY <2>1, <2>3, <2>4
<1>4. CASE c \in Net(t, b, n)
  <2> DEFINE x(k) == Node1(n, k, p, Last(b).labels)
  <2>1. PICK k \in {"port", "signal"} : c = Append(b, x(k))
    BY <1>4 DEF Net
  <2>2. /\ x(k) \in Node /\ x(k).seg = n /\ x(k).kind # "inst"
        /\ x(k).place.mod = p.mod /\ x(k).place.src = p.src
    BY <1>1, <2>1 DEF Node, Place, Node1
  <2> HIDE DEF x, p
  <2>3. Joined(t, Append(b, x(k)))
    BY <1>1, <2>2, JoinedAppend DEF p
  <2> QED
    BY <2>1, <2>2, <2>3
<1> QED
  BY <1>2, <1>3, <1>4 DEF HopOf, LeafOf

LEMMA RowsOfBranch ==
  ASSUME NEW t, NEW b \in Branch, Joined(t, b), NEW path \in Seq(Name), NEW h \in Nat, h <= Len(path),
         OnPath(b, path, h),
         NEW r \in RowsOf(b)
  PROVE  /\ IsPrefix(r.path, path)
         /\ \A u \in Above(RowsOf(b), r) : Leads(t, u, Last(r.path), r.mod)
<1> DEFINE P(k) == [j \in 1..(k - 1) |-> b[j + 1].seg]
           row(k) == [path |-> P(k), mod |-> b[k].place.mod, src |-> b[k].place.src]
<1>1. b \in Seq(Node) /\ Len(b) = h + 1 /\ DOMAIN b = 1..(h + 1) /\ \A j \in 1..h : b[j + 1].seg = path[j]
  BY DEF Branch, OnPath
<1>2. ASSUME NEW k \in 1..(h + 1)
      PROVE  P(k) \in Seq(Name) /\ Len(P(k)) = k - 1 /\ \A j \in 1..(k - 1) : P(k)[j] = path[j]
  <2>1. \A j \in 1..(k - 1) : b[j + 1].seg = path[j] /\ path[j] \in Name
    BY <1>1
  <2>2. k - 1 \in Nat
    OBVIOUS
  <2>3. P(k) \in [1..(k - 1) -> Name]
    BY <2>1
  <2>4. \A j \in 1..(k - 1) : P(k)[j] = path[j]
    BY <2>1
  <2> HIDE DEF P
  <2>5. P(k) \in Seq(Name) /\ Len(P(k)) = k - 1
    BY <2>2, <2>3
  <2> QED
    BY <2>4, <2>5
<1>3. RowsOf(b) = {row(k) : k \in {k \in 1..(h + 1) : b[k].kind = "inst"}}
  BY <1>1 DEF RowsOf
<1> HIDE DEF P
<1>4. PICK k \in 1..(h + 1) : b[k].kind = "inst" /\ r = row(k)
  BY <1>3
<1>5. IsPrefix(P(k), path)
  BY <1>2 DEF IsPrefix
<1>6. ASSUME NEW u \in Above(RowsOf(b), r)
      PROVE  Leads(t, u, Last(r.path), r.mod)
  <2>1. /\ u \in RowsOf(b) /\ IsStrictPrefix(u.path, P(k))
        /\ \A v \in RowsOf(b) : IsStrictPrefix(v.path, P(k)) => Len(v.path) <= Len(u.path)
    BY <1>4 DEF Above
  <2>2. PICK i \in 1..(h + 1) : b[i].kind = "inst" /\ u = row(i)
    BY <1>3, <2>1
  <2>3. i < k
    <3>1. IsPrefix(P(i), P(k)) /\ P(i) # P(k)
      BY <2>1, <2>2 DEF IsStrictPrefix
    <3>2. Len(P(i)) = i - 1 /\ Len(P(k)) = k - 1 /\ Len(P(i)) <= Len(P(k))
      BY <1>2, <3>1 DEF IsPrefix
    <3> QED
      BY <3>1, <3>2
  <2>4. ASSUME NEW l \in (i + 1)..(k - 1), b[l].kind = "inst"
        PROVE  FALSE
    <3>1. l \in 1..(h + 1) /\ row(l) \in RowsOf(b) /\ l < k
      BY <1>3, <2>4
    <3>2. IsPrefix(P(l), P(k)) /\ P(l) # P(k)
      <4>1. /\ P(l) \in Seq(Name) /\ Len(P(l)) = l - 1 /\ \A j \in 1..(l - 1) : P(l)[j] = path[j]
            /\ P(k) \in Seq(Name) /\ Len(P(k)) = k - 1 /\ \A j \in 1..(k - 1) : P(k)[j] = path[j]
        BY <1>2, <3>1
      <4>2. \A j \in 1..(l - 1) : P(l)[j] = P(k)[j]
        BY <3>1, <4>1
      <4>3. SubSeq(P(l), 1, l - 1) = SubSeq(P(k), 1, l - 1)
        BY <3>1, <4>1, <4>2
      <4> QED
        BY <3>1, <4>1, <4>3 DEF IsPrefix
    <3>3. Len(P(l)) <= Len(P(i))
      BY <2>1, <2>2, <3>1, <3>2 DEF IsStrictPrefix
    <3> QED
      BY <1>2, <3>1, <3>3
  <2>5. b[k - 1].place.mod = b[i].place.mod /\ b[k - 1].place.src = b[i].place.src
    <3>1. i \in DOMAIN b /\ k - 1 \in DOMAIN b /\ i <= k - 1
      BY <1>1, <2>3
    <3>2. \A l \in (i + 1)..(k - 1) : b[l].kind # "inst"
      BY <2>4
    <3> QED
      BY <3>1, <3>2 DEF Joined
  <2>6. Leads(t, b[k - 1].place, b[k].seg, b[k].place.mod)
    <3>1. k \in DOMAIN b /\ k > 1
      BY <1>1, <2>3
    <3> QED
      BY <1>4, <3>1 DEF Joined
  <2>7. Last(P(k)) = b[k].seg
    <3>1. Len(P(k)) = k - 1 /\ k - 1 \in 1..(k - 1)
      BY <1>2, <2>3
    <3>2. P(k)[k - 1] = b[k].seg
      BY <3>1 DEF P
    <3> QED
      BY <3>1, <3>2 DEF Last
  <2> QED
    BY <1>4, <2>2, <2>5, <2>6, <2>7 DEF Leads
<1> QED
  BY <1>4, <1>5, <1>6

LEMMA GateChained ==
  ASSUME NEW t, NEW path \in Seq(Name), NEW spec, NEW tail, NEW bs, NEW b,
         bs # {} => b \in Branch /\ Joined(t, b) /\ OnPath(b, path, Len(path))
  PROVE  RowsChained(t, GateOf(spec, path, tail, bs, b))
<1>1. CASE bs = {}
  BY <1>1 DEF GateOf, RowsChained
<1>2. CASE bs # {}
  <2>1. \A r \in RowsOf(b) : IsPrefix(r.path, path)
                             /\ \A u \in Above(RowsOf(b), r) : Leads(t, u, Last(r.path), r.mod)
    BY <1>2, RowsOfBranch
  <2> QED
    BY <1>2, <2>1 DEF GateOf, RowsChained
<1> QED
  BY <1>1, <1>2

LEMMA PeelChained ==
  ASSUME NEW t, NEW g \in EndpointGate, RowsChained(t, g)
  PROVE  RowsChained(t, Peel(g))
<1>1. CASE Peel(g) = g
  BY <1>1
<1>2. CASE Peel(g) # g
  <2>1. /\ g.hier # <<>> /\ g.hier \in Seq(Name) /\ g.rows \subseteq Row
        /\ Peel(g).hier = Front(g.hier) /\ Peel(g).rows = g.rows \ RowAt(g.rows, g.hier)
    BY <1>2 DEF Peel, EndpointGate
  <2>2. ASSUME NEW r \in Peel(g).rows
        PROVE  /\ IsPrefix(r.path, Front(g.hier))
               /\ \A u \in Above(Peel(g).rows, r) : Leads(t, u, Last(r.path), r.mod)
    <3>1. r \in g.rows /\ r.path # g.hier /\ r.path \in Seq(Name) /\ IsPrefix(r.path, g.hier)
      BY <2>1, <2>2 DEF RowAt, RowsChained, Row
    <3>2. Len(r.path) < Len(g.hier)
      BY <2>1, <3>1 DEF IsPrefix
    <3>3. /\ Front(g.hier) \in Seq(Name) /\ Len(Front(g.hier)) = Len(g.hier) - 1
          /\ \A k \in 1..(Len(g.hier) - 1) : Front(g.hier)[k] = g.hier[k]
      BY <2>1, FrontType
    <3>4. \A k \in 1..Len(r.path) : r.path[k] = g.hier[k]
      BY <2>1, <3>1 DEF IsPrefix
    <3>5. IsPrefix(r.path, Front(g.hier))
      BY <2>1, <3>1, <3>2, <3>3, <3>4 DEF IsPrefix
    <3>6. ASSUME NEW v \in g.rows, IsStrictPrefix(v.path, r.path)
          PROVE  v \in Peel(g).rows
      <4>1. v.path \in Seq(Name) /\ Len(v.path) <= Len(r.path)
        BY <2>1, <3>6 DEF IsStrictPrefix, IsPrefix, Row
      <4>2. v.path # g.hier
        BY <2>1, <3>1, <3>2, <4>1
      <4> QED
        BY <2>1, <4>2 DEF RowAt
    <3>7. \A u \in Above(Peel(g).rows, r) : u \in Above(g.rows, r)
      BY <2>1, <3>6 DEF Above
    <3> QED
      BY <3>1, <3>5, <3>7 DEF RowsChained
  <2> QED
    BY <2>1, <2>2 DEF RowsChained
<1> QED
  BY <1>1, <1>2

\* Every path a gate has a row for has a row among the merged ones.
LEMMA MergedHas ==
  ASSUME NEW gs, NEW n \in Nat, DOMAIN gs = 1..n, NEW e \in DOMAIN gs, NEW v \in gs[e].rows
  PROVE  \E w \in Merged(gs) : w.path = v.path
<1> DEFINE has(f) == RowAt(gs[f].rows, v.path) # {}
           late == {j \in 0..(n - 1) : has(n - j)}
<1> HIDE DEF has
<1>1. n - e \in late
  <2>1. n - e \in 0..(n - 1) /\ n - (n - e) = e
    OBVIOUS
  <2>2. has(e)
    BY DEF RowAt, has
  <2> QED
    BY <2>1, <2>2
<1>2. PICK j \in late : \A k \in late : j <= k
  <2>1. late \in SUBSET Nat /\ late # {}
    BY <1>1
  <2> HIDE DEF late
  <2> QED
    BY <2>1, LeastOf
<1>3. PICK f \in 1..n : f = n - j /\ RowAt(gs[f].rows, v.path) # {}
  BY <1>2 DEF has
<1>4. PICK w \in gs[f].rows : w.path = v.path
  BY <1>3 DEF RowAt
<1>5. ASSUME NEW d \in DOMAIN gs, d > f
      PROVE  RowAt(gs[d].rows, v.path) = {}
  <2>1. n - d \in 0..(n - 1) /\ n - d < j /\ n - (n - d) = d
    BY <1>2, <1>3, <1>5
  <2>2. n - d \notin late
    BY <1>2, <2>1
  <2>3. ~has(d)
    BY <2>1, <2>2
  <2> QED
    BY <2>3 DEF has
<1>6. w \in UNION {g.rows : g \in Range(gs)}
  BY <1>3, <1>4 DEF Range
<1> QED
  BY <1>3, <1>4, <1>5, <1>6 DEF Merged

LEMMA RowsHierarchy ==
  ASSUME TypeOK, RowsInv
  PROVE  RowsAreOneHierarchy
<1> SUFFICES ASSUME Gated("pass"), NEW r \in verdict.rows, NEW u \in Above(verdict.rows, r), ~Disputed(r.path)
             PROVE  Leads(text, u, Last(r.path), r.mod)
  BY DEF RowsAreOneHierarchy, Leads
<1>1. verdict.rows = Merged(gates) /\ u \in Merged(gates) /\ r \in Merged(gates)
  BY DEF RowsInv, Gated, Above
<1>2. PICK e \in DOMAIN gates : r \in gates[e].rows
  BY <1>1 DEF Merged
<1>3. PICK f \in DOMAIN gates : u \in gates[f].rows
  BY <1>1 DEF Merged
<1>4. /\ gates \in Seq(EndpointGate) /\ DOMAIN gates = 1..Len(gates) /\ Len(gates) \in Nat
      /\ gates[e] \in EndpointGate /\ gates[f] \in EndpointGate
  BY DEF TypeOK
<1>5. /\ r.path \in Seq(Name) /\ u.path \in Seq(Name)
      /\ gates[e].hier \in Seq(Name) /\ gates[f].hier \in Seq(Name)
  BY <1>2, <1>3, <1>4 DEF EndpointGate, Row
<1>6. IsPrefix(r.path, gates[e].hier) /\ IsPrefix(u.path, gates[f].hier)
  BY <1>2, <1>3 DEF RowsInv, RowsChained
<1>7. /\ IsPrefix(u.path, r.path) /\ u.path # r.path
      /\ \A v \in Merged(gates) : IsStrictPrefix(v.path, r.path) => Len(v.path) <= Len(u.path)
  BY <1>1 DEF Above, IsStrictPrefix
<1>8. /\ Len(u.path) \in 0..(Len(r.path) - 1)
      /\ SubSeq(r.path, 1, Len(u.path)) = u.path
      /\ IsPrefix(u.path, gates[e].hier)
  <2>1. Len(u.path) <= Len(r.path) /\ SubSeq(u.path, 1, Len(u.path)) = u.path
        /\ SubSeq(r.path, 1, Len(u.path)) = u.path
    BY <1>5, <1>7 DEF IsPrefix
  <2>2. Len(u.path) # Len(r.path)
    BY <1>5, <1>7, <2>1
  <2>3. Len(u.path) \in Nat /\ Len(r.path) \in Nat
    BY <1>5
  <2>4. \A k \in 1..Len(u.path) : u.path[k] = r.path[k]
    BY <1>5, <2>1
  <2>5. Len(r.path) <= Len(gates[e].hier) /\ \A k \in 1..Len(r.path) : r.path[k] = gates[e].hier[k]
    BY <1>5, <1>6 DEF IsPrefix
  <2>6. SubSeq(gates[e].hier, 1, Len(u.path)) = SubSeq(u.path, 1, Len(u.path))
    BY <1>5, <2>1, <2>3, <2>4, <2>5
  <2> QED
    BY <2>1, <2>2, <2>3, <2>5, <2>6 DEF IsPrefix
<1>9. u \in gates[e].rows
  <2>1. RowAt(gates[e].rows, u.path) = RowAt(gates[f].rows, u.path)
    BY <1>6, <1>8 DEF Disputed
  <2> QED
    BY <1>3, <2>1 DEF RowAt
<1>10. u \in Above(gates[e].rows, r)
  <2>1. ASSUME NEW v \in gates[e].rows, IsStrictPrefix(v.path, r.path)
        PROVE  Len(v.path) <= Len(u.path)
    <3>1. PICK w \in Merged(gates) : w.path = v.path
      BY <1>4, MergedHas
    <3> QED
      BY <1>7, <2>1, <3>1
  <2> QED
    BY <1>7, <1>9, <2>1 DEF Above, IsStrictPrefix
<1> QED
  BY <1>2, <1>10 DEF RowsInv, RowsChained

\* Reading more sources changes no row, and no gate.
LEMMA RowsGrow ==
  ASSUME TypeOK, RowsInv, NEW v, Grows(text, v)
  PROVE  /\ walk.probe # Nothing => RowsChained(v, walk.probe)
         /\ \A e \in DOMAIN gates : RowsChained(v, gates[e])
<1>1. walk.probe # Nothing => walk.probe \in EndpointGate
  BY DEF TypeOK, Walk
<1>2. \A e \in DOMAIN gates : gates[e] \in EndpointGate
  BY DEF TypeOK
<1> QED
  BY <1>1, <1>2, ChainedGrow DEF RowsInv

LEMMA RowsRoot ==
  ASSUME TypeOK, RowsInv, Root
  PROVE  RowsInv'
<1> DEFINE root(s) == <<Node1(Nothing, "inst", [mod |-> Top, src |-> s, at |-> <<>>], <<>>)>>
<1>1. /\ stage = "root" /\ UNCHANGED <<gates, verdict>> /\ walk.hops = 0
      /\ walk'.path = walk.path /\ walk'.hops = walk.hops /\ walk'.probe = walk.probe
  BY DEF Root, TypeOK, Walk
<1>2. Grows(text, text')
  BY ReadType DEF Root, TypeOK, Texts
<1>3. ASSUME NEW b \in walk'.branches
      PROVE  Joined(text', b) /\ OnPath(b, walk.path, 0)
  <2>1. walk'.branches = {root(s) : s \in Decls(text', session.index, Top)}
    BY DEF Root, TypeOK, Walk
  <2>2. PICK s : b = root(s)
    BY <2>1
  <2>3. Len(b) = 1 /\ DOMAIN b = 1..1
    BY <2>2
  <2> QED
    BY <2>3 DEF Joined, OnPath
<1> QED
  BY <1>1, <1>2, <1>3, RowsGrow DEF RowsInv

LEMMA RowsHop ==
  ASSUME TypeOK, RowsInv, Hop
  PROVE  RowsInv'
<1> DEFINE n == walk.path[walk.hops + 1]
           of(b) == IF walk.hops + 1 < Len(walk.path) THEN HopOf(text', session.index, b, n)
                    ELSE LeafOf(text', session.index, b, n)
<1>1. UNCHANGED <<gates, verdict>> /\ Indexed(session.index)
  BY SessionType DEF Hop
<1>2. /\ n \in Name /\ walk.hops \in Nat
      /\ text' \in Texts /\ Grows(text, text')
      /\ walk'.path = walk.path /\ walk'.hops = walk.hops + 1 /\ walk'.probe = walk.probe
      /\ walk'.branches = UNION {of(b) : b \in walk.branches}
      /\ \A b \in walk.branches : Standing(text', session.index, b)
  BY HopFacts
<1> HIDE DEF n
<1>3. ASSUME NEW c \in walk'.branches
      PROVE  Joined(text', c) /\ OnPath(c, walk.path, walk.hops + 1)
  <2>1. PICK b \in walk.branches : c \in of(b)
    BY <1>2
  <2>2. b \in Branch /\ Standing(text', session.index, b) /\ Joined(text, b) /\ OnPath(b, walk.path, walk.hops)
    BY <1>2 DEF RowsInv, Standing
  <2>3. Joined(text', b)
    BY <1>2, <2>2, JoinedGrow
  <2>4. c \in HopOf(text', session.index, b, n) \/ c \in LeafOf(text', session.index, b, n)
    BY <2>1
  <2> HIDE DEF of
  <2>5. PICK x \in Node : c = Append(b, x) /\ x.seg = n /\ Joined(text', c)
    BY <1>1, <1>2, <2>2, <2>3, <2>4, HopJoined
  <2>6. OnPath(c, walk.path, walk.hops + 1)
    BY <1>2, <2>2, <2>5, PathAppend DEF n
  <2> QED
    BY <2>5, <2>6
<1> QED
  BY <1>1, <1>2, <1>3, RowsGrow DEF RowsInv

\* The gate of a path that was resolved to the end.
LEMMA ResolvedChained ==
  ASSUME TypeOK, RowsInv, Resolved, NEW b \in walk.branches, NEW spec, NEW tail
  PROVE  RowsChained(text, GateOf(spec, walk.path, tail, walk.branches, b))
<1>1. /\ walk.path \in Seq(Name) /\ b \in Branch /\ walk.hops = Len(walk.path)
      /\ Joined(text, b) /\ OnPath(b, walk.path, walk.hops)
  BY DEF TypeOK, Walk, Resolved, RowsInv
<1> QED
  BY <1>1, GateChained

LEMMA RowsStrip ==
  ASSUME TypeOK, RowsInv, NEW b, Strip(b)
  PROVE  RowsInv'
<1> DEFINE g == GateOf(walk.path, walk.path, Nothing, walk.branches, b)
<1>1. /\ Resolved /\ b \in walk.branches /\ UNCHANGED <<text, gates, verdict>>
      /\ walk'.branches = {} /\ walk'.probe = g
  BY DEF Strip, Start
<1>2. RowsChained(text, g)
  BY <1>1, ResolvedChained
<1> HIDE DEF g
<1> QED
  BY <1>1, <1>2 DEF RowsInv

LEMMA RowsGate ==
  ASSUME TypeOK, RowsInv, VerdictRight, NEW g, Gate(g), RowsChained(text, g)
  PROVE  RowsInv'
<1>1. /\ stage = "hops" /\ gates' = Append(gates, g) /\ UNCHANGED <<text, verdict>>
      /\ walk'.branches = {} /\ walk'.probe = Nothing /\ gates \in Seq(EndpointGate)
  BY DEF Gate, Start, NoWalk, TypeOK
<1>2. verdict = Nothing
  BY <1>1 DEF VerdictRight, Busy
<1>3. ASSUME NEW e \in DOMAIN gates'
      PROVE  RowsChained(text, gates'[e])
  <2>1. e \in 1..Len(gates) \/ e = Len(gates) + 1
    BY <1>1
  <2>2. CASE e \in 1..Len(gates)
    BY <1>1, <2>2 DEF RowsInv
  <2>3. CASE e = Len(gates) + 1
    BY <1>1, <2>3
  <2> QED
    BY <2>1, <2>2, <2>3
<1> QED
  BY <1>1, <1>2, <1>3 DEF RowsInv

LEMMA RowsEnd ==
  ASSUME TypeOK, RowsInv, VerdictRight, Miss \/ \E b \in walk.branches : Hit(b)
  PROVE  RowsInv'
<1>1. CASE Miss
  <2>1. RowsChained(text, GateOf(walk.path, walk.path, Nothing, {}, <<>>))
    BY DEF GateOf, RowsChained
  <2> QED
    BY <1>1, <2>1, RowsGate DEF Miss, RowsInv
<1>2. ASSUME NEW b \in walk.branches, Hit(b)
      PROVE  RowsInv'
  <2>1. Resolved
    BY <1>2 DEF Hit, Gate
  <2> QED
    BY <1>2, <2>1, ResolvedChained, RowsGate DEF Hit
<1> QED
  BY <1>1, <1>2

LEMMA RowsDecide ==
  ASSUME TypeOK, RowsInv, NEW known, Decide(known)
  PROVE  RowsInv'
<1>1. /\ UNCHANGED <<text, walk>> /\ gates' = [e \in DOMAIN gates |-> Peel(gates[e])]
      /\ verdict'.rows \in {{}, Merged(gates')}
  BY DEF Decide
<1>2. \A e \in DOMAIN gates : RowsChained(text, Peel(gates[e]))
  BY PeelChained DEF TypeOK, RowsInv
<1> QED
  BY <1>1, <1>2 DEF RowsInv

LEMMA RowsStep ==
  ASSUME Inv, RowsInv, [Next]_vars
  PROVE  RowsInv'
<1>1. TypeOK /\ VerdictRight
  BY DEF Inv
<1>2. CASE Root \/ Hop \/ Miss \/ \E b \in walk.branches : Strip(b) \/ Hit(b)
  BY <1>1, <1>2, RowsRoot, RowsHop, RowsEnd, RowsStrip
<1>3. CASE \E known \in SUBSET DOMAIN gates : Decide(known)
  BY <1>1, <1>3, RowsDecide
<1>4. CASE UNCHANGED <<text, walk, gates, verdict>>
  BY <1>4 DEF RowsInv
<1>5. CASE Stop \/ \E c \in Checks : Ask(c)
  <2>1. walk'.branches = {} /\ walk'.probe = Nothing /\ gates' = <<>> /\ verdict' = Nothing
    BY <1>5 DEF Stop, Ask, Start, NoWalk
  <2>2. DOMAIN gates' = {}
    BY <2>1
  <2> QED
    BY <2>1, <2>2 DEF RowsInv
<1> QED
  BY <1>2, <1>3, <1>4, <1>5 DEF Next, Edit, Load, Build, Dump, vars

\* The rows a passed check hands to the walk are one hierarchy, whatever branch of several stands for
\* an endpoint and whatever nets are peeled off: no row hangs under a module that has no instance
\* for it.
THEOREM RowsAreJoined == Spec => []RowsAreOneHierarchy
<1>1. Init => RowsInv
  <2>1. ASSUME Init PROVE walk.branches = {} /\ walk.probe = Nothing /\ DOMAIN gates = {} /\ verdict = Nothing
    BY <2>1 DEF Init, NoWalk
  <2> QED
    BY <2>1 DEF RowsInv
<1>2. Inv /\ RowsInv /\ [Next]_vars => RowsInv'
  BY RowsStep
<1>3. Inv /\ RowsInv => RowsAreOneHierarchy
  BY RowsHierarchy DEF Inv
<1> QED
  BY <1>1, <1>2, <1>3, InvAlways, PTL DEF Spec
-----------------------------------------------------------------------------
(* A path that is not ambiguous means one declaration.                     *)

\* The modules with something in them the path leads to.
Ends(ss, d, path) ==
  {p \in {c[Len(path)] : c \in SeenChains(ss, d, path)} : p.at = <<>> /\ Items(d, p.src, p.mod) # {}}
OneEnd(ss, t, path) == \A d \in Disks : Agrees(ss, t, d) => \A p, q \in Ends(ss, d, path) : p = q
EndsFound ==
  stage = "hops" /\ walk.hops = Len(walk.path) =>
    \A d \in Disks : Agrees(session, text, d) =>
      \A p \in Ends(session, d, walk.path) : \E b \in walk.branches : Here(b) = p
\* A branch that did not end at a net entered an instance of the last name.
LeafEntered ==
  stage = "hops" /\ walk.hops = Len(walk.path) /\ walk.path # <<>> =>
    \A b \in walk.branches : IsNet(b) \/ MayEnter(session, text, walk.path)

LEMMA WholePath ==
  ASSUME NEW path \in Seq(Name)
  PROVE  Upto(path, Len(path)) = path /\ Len(path) \in 0..Len(path)
BY DEF Upto

LEMMA EndsOf ==
  ASSUME NEW ss, NEW d, NEW path, NEW p \in Ends(ss, d, path)
  PROVE  p.at = <<>> /\ Items(d, p.src, p.mod) # {} /\ p \in Places(ss, d)
BY DEF Ends, SeenChains, From

LEMMA EndsChain ==
  ASSUME NEW ss, NEW d, NEW path \in Seq(Name), NEW p \in Ends(ss, d, path)
  PROVE  \E c \in SeenChains(ss, d, Upto(path, Len(path))) : c[Len(path)] = p
BY WholePath DEF Ends

LEMMA EndsRoot ==
  ASSUME TypeOK, Root
  PROVE  EndsFound' /\ LeafEntered'
<1>1. /\ UNCHANGED session /\ walk'.path = walk.path /\ walk'.hops = 0 /\ walk.path \in Seq(Name)
  BY DEF Root, TypeOK, Walk
<1>2. ASSUME Len(walk.path) = 0, NEW d \in Disks, Agrees(session, text', d),
             NEW p \in Ends(session, d, walk.path)
      PROVE  \E b \in walk'.branches : Here(b) = p
  <2>1. \E c \in SeenChains(session, d, Upto(walk.path, Len(walk.path))) : c[Len(walk.path)] = p
    BY <1>1, EndsChain
  <2>2. Items(d, p.src, p.mod) # {}
    BY EndsOf
  <2>3. PICK c \in SeenChains(session, d, Upto(walk.path, 0)) : c[0] = p
    BY <1>2, <2>1
  <2> QED
    BY <1>2, <2>2, <2>3, RootCovers
<1>3. walk'.hops = Len(walk'.path) => walk.path = <<>>
  BY <1>1
<1> QED
  BY <1>1, <1>2, <1>3 DEF EndsFound, LeafEntered

\* The last hop enters every module with content the path leads to.
LEMMA EndsHop ==
  ASSUME TypeOK, NothingMissed, Hop
  PROVE  EndsFound'
<1> DEFINE index == session.index
           h == walk.hops
           path == walk.path
           n == path[h + 1]
           t == text'
<1>1. /\ n \in Name /\ path \in Seq(Name) /\ h \in 0..Len(path) /\ h + 1 <= Len(path)
      /\ text \in Texts /\ t \in Texts /\ Grows(text, t) /\ UNCHANGED session
      /\ t = Read(Touched(text, index, walk.branches, n))
      /\ walk'.path = path /\ walk'.hops = h + 1
      /\ walk'.branches = UNION {IF h + 1 < Len(path) THEN HopOf(t, index, b, n)
                                 ELSE LeafOf(t, index, b, n) : b \in walk.branches}
      /\ \A b \in walk.branches : Standing(text, index, b) /\ Standing(t, index, b)
  BY HopFacts
<1>2. /\ Indexed(index) /\ session.paths \subseteq Source /\ disk \in [Source -> AnyText]
      /\ stage = "hops"
  BY SessionType DEF Hop, TypeOK
<1>3. \A b \in walk.branches : \A m \in Children(t, Here(b), n, index) :
        \A s \in index[m] : t[s] # Nothing
  <2> DEFINE r == Read(Touched(text, index, walk.branches, n))
  <2>1. ASSUME NEW b \in walk.branches, NEW m \in Children(r, Here(b), n, index)
        PROVE  \A s \in index[m] : r[s] # Nothing
    BY <1>1, <1>2, ChildrenRead
  <2>2. t = r
    BY <1>1
  <2> HIDE DEF r, t
  <2> QED
    BY <2>1, <2>2
<1>4. ASSUME h + 1 = Len(path), NEW d \in Disks, Agrees(session, t, d), NEW q \in Ends(session, d, path)
      PROVE  \E e \in walk'.branches : Here(e) = q
  <2> HIDE DEF path, h, n, t
  <2>1. PICK c \in SeenChains(session, d, Upto(path, h + 1)) : c[h + 1] = q
    <3>1. \E c \in SeenChains(session, d, Upto(path, Len(path))) : c[Len(path)] = q
      BY <1>1, EndsChain
    <3> QED
      BY <1>4, <3>1
  <2>2. q.at = <<>> /\ Items(d, q.src, q.mod) # {} /\ q \in Places(session, d)
    BY EndsOf
  <2>3. /\ Shortened(c, h) \in SeenChains(session, d, Upto(path, h)) /\ Shortened(c, h)[h] = c[h]
        /\ c[h] \in Places(session, d) /\ q \in SeenSteps(session, d, c[h], path[h + 1])
    <3>1. path \in Seq(Name) /\ h \in 0..Len(path) /\ h < Len(path)
      BY <1>1
    <3>2. /\ Shortened(c, h) \in SeenChains(session, d, Upto(path, h)) /\ Shortened(c, h)[h] = c[h]
          /\ c[h] \in Places(session, d) /\ c[h + 1] \in SeenSteps(session, d, c[h], path[h + 1])
      BY <3>1, ChainStep
    <3> QED
      BY <2>1, <3>2
  <2>4. /\ Items(d, c[h].src, c[h].mod) # {}
        /\ \/ q.at = <<>> /\ \E i \in Edges(Within(d, c[h]), n) : i.cell = q.mod
           \/ q.at # <<>>
    BY <2>3, StepRoom DEF n
  <2>5. \E i \in Edges(Within(d, c[h]), n) : i.cell = q.mod
    BY <2>2, <2>4
  <2>6. PICK b \in walk.branches : Here(b) = c[h]
    <3>1. Agrees(session, text, d)
      BY <1>1, <1>2, <1>4, AgreesShrinks
    <3>2. h # Len(path)
      BY <1>1
    <3> QED
      BY <1>2, <2>3, <2>4, <3>1, <3>2 DEF NothingMissed, Covered, h, path
  <2>7. Standing(t, index, b) /\ b \in Branch /\ Here(b) \in Place /\ t[Here(b).src] # Nothing
    BY <1>1, LastNode DEF Standing
  <2>8. Body(t, Here(b)) = Body(d, Here(b))
    BY <1>4, <2>3, <2>6, <2>7, PlaceIndexed, AgreesAt
  <2>9. q.mod \in Children(t, Here(b), n, index)
    BY <1>2, <1>4, <2>2, <2>5, <2>6, <2>7, <2>8, CellFollowed
  <2>10. \A m \in Children(t, Here(b), n, index) : \A s \in index[m] : t[s] # Nothing
    BY <1>3
  <2>11. Here(b) \in Places(session, d) /\ q \in SeenSteps(session, d, Here(b), n)
    BY <2>3, <2>6 DEF n
  <2>12. q \in {Here(e) : e \in HopOf(t, index, b, n)}
    BY <1>1, <1>2, <1>4, <2>2, <2>7, <2>10, <2>11, StepTaken
  <2>13. PICK e \in HopOf(t, index, b, n) : Here(e) = q
    BY <2>12
  <2>14. e \in LeafOf(t, index, b, n)
    BY <2>9, <2>13 DEF HopOf, LeafOf
  <2>15. e \in walk'.branches
    <3>1. ~(h + 1 < Len(path))
      BY <1>4
    <3> QED
      BY <1>1, <2>14, <3>1
  <2> QED
    BY <2>13, <2>15
<1> HIDE DEF t, n, h, path
<1>5. ASSUME walk'.hops = Len(walk'.path), NEW d \in Disks, Agrees(session', text', d),
             NEW q \in Ends(session', d, walk'.path)
      PROVE  \E e \in walk'.branches : Here(e) = q
  <2>1. h + 1 = Len(path) /\ Agrees(session, t, d) /\ q \in Ends(session, d, path)
    BY <1>1, <1>5 DEF t
  <2> QED
    BY <1>4, <2>1
<1> QED
  BY <1>5 DEF EndsFound

LEMMA LeafHop ==
  ASSUME TypeOK, FoundExists, Hop
  PROVE  LeafEntered'
<1> DEFINE n == walk.path[walk.hops + 1]
<1>1. /\ n \in Name /\ walk.path \in Seq(Name) /\ walk.hops \in 0..Len(walk.path)
      /\ walk.hops + 1 <= Len(walk.path)
      /\ UNCHANGED session /\ walk'.path = walk.path /\ walk'.hops = walk.hops + 1
      /\ walk'.branches = UNION {IF walk.hops + 1 < Len(walk.path) THEN HopOf(text', session.index, b, n)
                                 ELSE LeafOf(text', session.index, b, n) : b \in walk.branches}
      /\ \A b \in walk.branches : Standing(text', session.index, b)
  BY HopFacts
<1>2. SUFFICES ASSUME walk.hops + 1 = Len(walk.path), NEW c \in walk'.branches, ~IsNet(c)
               PROVE  MayEnter(session, text', walk.path)
  BY <1>1 DEF LeafEntered, IsNet
<1>3. PICK b \in walk.branches : c \in LeafOf(text', session.index, b, n)
  BY <1>1, <1>2
<1>4. Children(text', Here(b), n, session.index) # {}
  <2>1. SUFFICES ASSUME c \in Net(text', b, n) PROVE FALSE
    BY <1>3 DEF LeafOf
  <2>2. PICK k \in {"port", "signal"} : c = Append(b, Node1(n, k, Here(b), Last(b).labels))
    BY <2>1 DEF Net
  <2>3. b \in Seq(Node)
    BY <1>1 DEF Standing, Branch
  <2>4. Last(c) = Node1(n, k, Here(b), Last(b).labels)
    BY <2>2, <2>3 DEF Last
  <2> QED
    BY <1>2, <2>4 DEF IsNet, Node1
<1>5. Body(text', Here(b)) # {}
  BY <1>4, ChildrenType
<1>6. PICK a \in LooseChains(session, text', Upto(walk.path, walk.hops)) : a[walk.hops] = Here(b)
  BY <1>5, HopFrom
<1>7. /\ walk.path # <<>> /\ Front(walk.path) = Upto(walk.path, walk.hops) /\ Last(walk.path) = n
      /\ Len(walk.path) - 1 = walk.hops
  <2>1. walk.path # <<>> /\ Len(walk.path) - 1 = walk.hops /\ Len(walk.path) = walk.hops + 1
    BY <1>1, <1>2
  <2> QED
    BY <2>1 DEF Front, Last, Upto
<1> QED
  BY <1>4, <1>6, <1>7 DEF MayEnter

LEMMA MayEnterGrows ==
  ASSUME NEW ss, NEW u \in Texts, NEW v, Grows(u, v), NEW path \in Seq(Name), MayEnter(ss, u, path)
  PROVE  MayEnter(ss, v, path)
<1>1. PICK c \in LooseChains(ss, u, Front(path)) :
        path # <<>> /\ Children(u, c[Len(path) - 1], Last(path), ss.index) # {}
  BY DEF MayEnter
<1>2. Front(path) \in Seq(Name) /\ Len(path) - 1 \in 0..Len(Front(path))
  BY <1>1, FrontType
<1>3. c \in LooseChains(ss, v, Front(path)) /\ c[Len(path) - 1] \in Places(ss, u)
  BY <1>2, LooseGrow DEF LooseChains, From
<1>4. c[Len(path) - 1].src \in Source /\ u[c[Len(path) - 1].src] # Nothing
  BY <1>3, PlaceOf DEF Place, Declares
<1>5. Children(v, c[Len(path) - 1], Last(path), ss.index) # {}
  BY <1>1, <1>4, SameText
<1> QED
  BY <1>1, <1>3, <1>5 DEF MayEnter

\* Nothing with content is at a path whose resolution lost its last branch.
LEMMA NoEnds ==
  ASSUME TypeOK, NothingMissed, EndsFound, stage = "hops", walk.branches = {},
         NEW d \in Disks, Agrees(session, text, d)
  PROVE  Ends(session, d, walk.path) = {}
<1> DEFINE path == walk.path
           h == walk.hops
<1>1. path \in Seq(Name) /\ h \in 0..Len(path)
  BY DEF TypeOK, Walk
<1>2. CASE h = Len(path)
  BY <1>2 DEF EndsFound
<1>3. CASE h # Len(path)
  <2> SUFFICES ASSUME NEW p \in Ends(session, d, path) PROVE FALSE
    OBVIOUS
  <2> DEFINE g == Len(path)
  <2>1. g \in 0..Len(path) /\ h \in 0..g /\ h + 1 \in 1..g /\ (h + 1) - 1 = h /\ h \in 0..g
    BY <1>1, <1>3
  <2>2. PICK c \in SeenChains(session, d, Upto(path, g)) : c[g] = p
    BY <1>1, EndsChain
  <2> HIDE DEF g, path, h
  <2>3. /\ Shortened(c, h) \in SeenChains(session, d, Upto(path, h)) /\ Shortened(c, h)[h] = c[h]
        /\ \A k \in 0..g : c[k] \in Places(session, d)
        /\ \A k \in 1..g : c[k] \in SeenSteps(session, d, c[k - 1], path[k])
    BY <1>1, <2>1, ChainCut
  <2>4. c[h] \in Places(session, d) /\ c[h + 1] \in SeenSteps(session, d, c[h], path[h + 1])
    BY <2>1, <2>3
  <2>5. Items(d, c[h].src, c[h].mod) # {}
    BY <2>4, StepRoom
  <2>6. Items(d, c[h].src, c[h].mod) = {}
    BY <1>3, <2>3 DEF NothingMissed, Covered, path, h
  <2> QED
    BY <2>5, <2>6
<1> QED
  BY <1>2, <1>3

\* One key is one module of one source.
LEMMA KeyMeansOne ==
  ASSUME TypeOK, EndsFound, stage = "hops", walk.hops = Len(walk.path), ~Ambiguous(walk.branches)
  PROVE  OneEnd(session, text, walk.path)
<1> SUFFICES ASSUME NEW d \in Disks, Agrees(session, text, d),
                    NEW p \in Ends(session, d, walk.path), NEW q \in Ends(session, d, walk.path)
             PROVE  p = q
  BY DEF OneEnd
<1>1. PICK a \in walk.branches, b \in walk.branches : Here(a) = p /\ Here(b) = q
  BY DEF EndsFound
<1>2. KeyOf(a) = KeyOf(b)
  BY DEF Ambiguous
<1>3. p.mod = q.mod /\ p.src = q.src
  BY <1>1, <1>2 DEF KeyOf
<1>4. p.at = <<>> /\ q.at = <<>>
  BY EndsOf
<1>5. p \in Place /\ q \in Place
  BY <1>1, LastNode DEF TypeOK, Walk
<1> QED
  BY <1>3, <1>4, <1>5 DEF Place

LEMMA OneEndGrows ==
  ASSUME session.paths \subseteq Source, NEW u, NEW v, Grows(u, v), NEW path, OneEnd(session, u, path)
  PROVE  OneEnd(session, v, path)
BY AgreesShrinks DEF OneEnd

\* A gate under way: it is split only at a net, if it is not ambiguous one declaration is at the
\* path it stands for, and one is above its last name when that may have to be peeled off.
GateSplit(t, g) ==
  /\ g.tail = Nothing => g.hier = g.spec
  /\ g.ok /\ ~g.amb => OneEnd(session, t, g.hier)
GateUnique(t, g) ==
  /\ GateSplit(t, g)
  /\ g.ok /\ g.tail = Nothing /\ g.hier # <<>> =>
       MayEnter(session, t, g.spec) \/ OneEnd(session, t, Front(g.hier))
\* And one that was decided.
GateOne(t, g) ==
  g.ok /\ ~g.amb /\ (g.hier = g.spec \/ ~MayEnter(session, t, g.spec)) => OneEnd(session, t, g.hier)

UniqueInv ==
  /\ EndsFound /\ LeafEntered
  /\ \A e \in DOMAIN gates : IF Busy THEN GateUnique(text, gates[e]) ELSE GateOne(text, gates[e])
  /\ stage \in {"root", "hops"} /\ walk.probe # Nothing =>
       walk.path = Front(walk.probe.spec) /\ walk.probe.tail = Nothing /\ GateSplit(text, walk.probe)
  /\ Gated("pass") /\ ~session.only => \A e \in DOMAIN gates : ~gates[e].amb

LEMMA UniqueGrows ==
  ASSUME session.paths \subseteq Source, NEW u \in Texts, NEW v, Grows(u, v), NEW g \in EndpointGate
  PROVE  /\ GateSplit(u, g) => GateSplit(v, g)
         /\ GateUnique(u, g) => GateUnique(v, g)
<1>1. g.spec \in Seq(Name)
  BY DEF EndpointGate
<1>2. MayEnter(session, u, g.spec) => MayEnter(session, v, g.spec)
  BY <1>1, MayEnterGrows
<1>3. \A path : OneEnd(session, u, path) => OneEnd(session, v, path)
  BY OneEndGrows
<1> QED
  BY <1>2, <1>3 DEF GateSplit, GateUnique

\* A step that reads: the gates it finds stay what they are.
LEMMA UniqueRead ==
  ASSUME TypeOK, UniqueInv, stage \in {"root", "hops"}, stage' = "hops", verdict = Nothing,
         text' \in Texts, Grows(text, text'), UNCHANGED <<session, gates, verdict>>,
         walk'.path = walk.path, walk'.probe = walk.probe, EndsFound', LeafEntered'
  PROVE  UniqueInv'
<1>1. session.paths \subseteq Source /\ text \in Texts
  BY SessionType DEF TypeOK, Texts
<1>2. \A g : (GateSplit(text, g)' <=> GateSplit(text', g')) /\ (GateUnique(text, g)' <=> GateUnique(text', g'))
  BY DEF GateSplit, GateUnique
<1>3. ASSUME NEW e \in DOMAIN gates
      PROVE  GateUnique(text', gates[e])
  <2>1. gates[e] \in EndpointGate /\ GateUnique(text, gates[e])
    BY DEF TypeOK, UniqueInv, Busy
  <2> QED
    BY <1>1, <2>1, UniqueGrows
<1>4. ASSUME walk.probe # Nothing
      PROVE  GateSplit(text', walk.probe)
  <2>1. walk.probe \in EndpointGate /\ GateSplit(text, walk.probe)
    BY <1>4 DEF TypeOK, Walk, UniqueInv
  <2> QED
    BY <1>1, <2>1, UniqueGrows
<1>5. \A e \in DOMAIN gates' : GateUnique(text, gates[e])'
  BY <1>3 DEF GateUnique, GateSplit
<1>6. walk'.probe # Nothing => walk'.path = Front(walk'.probe.spec) /\ walk'.probe.tail = Nothing /\ GateSplit(text, walk.probe)'
  BY <1>4 DEF UniqueInv, GateSplit
<1>7. Busy' /\ ~Gated("pass")'
  BY DEF Busy, Gated
<1> QED
  BY <1>5, <1>6, <1>7 DEF UniqueInv

LEMMA UniqueStrip ==
  ASSUME Inv, UniqueInv, NEW b, Strip(b)
  PROVE  UniqueInv'
<1> DEFINE g == GateOf(walk.path, walk.path, Nothing, walk.branches, b)
<1>1. /\ stage = "hops" /\ Resolved /\ b \in walk.branches /\ Start(Front(walk.path), g)
      /\ UNCHANGED <<session, text, gates, verdict>> /\ TypeOK /\ verdict = Nothing
  BY DEF Strip, Inv, VerdictRight, Busy
<1>2. stage' = "root" /\ walk'.path = Front(walk.path) /\ walk'.probe = g
  BY <1>1 DEF Start
<1>3. walk.hops = Len(walk.path)
  BY <1>1 DEF Resolved
<1>4. g.spec = walk.path /\ g.tail = Nothing /\ g.hier = walk.path /\ g.amb = Ambiguous(walk.branches)
  BY DEF GateOf
<1> HIDE DEF g
<1>5. GateSplit(text, g)
  BY <1>1, <1>3, <1>4, KeyMeansOne DEF GateSplit, UniqueInv
<1> QED
  BY <1>1, <1>2, <1>4, <1>5
  DEF UniqueInv, EndsFound, LeafEntered, Busy, GateUnique, GateSplit, Gated

LEMMA UniqueGate ==
  ASSUME Inv, UniqueInv, NEW g, Gate(g), GateUnique(text, g)
  PROVE  UniqueInv'
<1>1. /\ stage = "hops" /\ gates' = Append(gates, g) /\ UNCHANGED <<session, text, verdict>>
      /\ stage' \in {"root", "decide"} /\ walk'.probe = Nothing /\ gates \in Seq(EndpointGate)
      /\ verdict = Nothing
  BY DEF Gate, Start, NoWalk, Inv, TypeOK, VerdictRight, Busy
<1>2. ASSUME NEW e \in DOMAIN gates'
      PROVE  GateUnique(text, gates'[e])
  <2>1. e \in 1..Len(gates) \/ e = Len(gates) + 1
    BY <1>1
  <2>2. CASE e \in 1..Len(gates)
    BY <1>1, <2>2 DEF UniqueInv, Busy
  <2>3. CASE e = Len(gates) + 1
    BY <1>1, <2>3
  <2> QED
    BY <2>1, <2>2, <2>3
<1>3. \A e \in DOMAIN gates' : GateUnique(text, gates[e])'
  BY <1>1, <1>2 DEF GateUnique, GateSplit
<1> QED
  BY <1>1, <1>3 DEF UniqueInv, EndsFound, LeafEntered, Busy, Gated

\* A path that is missed after its last name was found a net has nothing above that name.
LEMMA UniqueMiss ==
  ASSUME Inv, UniqueInv, Miss
  PROVE  UniqueInv'
<1>1. TypeOK /\ NothingMissed /\ stage = "hops" /\ walk.branches = {}
  BY DEF Inv, Miss, Gate
<1>2. OneEnd(session, text, walk.path)
  BY <1>1, NoEnds DEF OneEnd, UniqueInv
<1>3. CASE walk.probe = Nothing
  <2> DEFINE g == GateOf(walk.path, walk.path, Nothing, {}, <<>>)
  <2>1. GateUnique(text, g)
    BY DEF GateOf, GateUnique, GateSplit
  <2>2. Gate(g)
    BY <1>3 DEF Miss
  <2> QED
    BY <2>1, <2>2, UniqueGate
<1>4. CASE walk.probe # Nothing
  <2>1. GateUnique(text, walk.probe)
    BY <1>1, <1>2, <1>4 DEF UniqueInv, GateUnique, GateSplit
  <2>2. Gate(walk.probe)
    BY <1>4 DEF Miss
  <2> QED
    BY <2>1, <2>2, UniqueGate
<1> QED
  BY <1>3, <1>4

LEMMA UniqueHit ==
  ASSUME Inv, UniqueInv, NEW b, Hit(b)
  PROVE  UniqueInv'
<1>1. TypeOK /\ stage = "hops" /\ b \in walk.branches /\ walk.hops = Len(walk.path)
  BY DEF Inv, Hit, Gate, Resolved
<1>2. ~Ambiguous(walk.branches) => OneEnd(session, text, walk.path)
  BY <1>1, KeyMeansOne DEF UniqueInv
<1>3. CASE walk.probe = Nothing
  <2> DEFINE g == GateOf(walk.path, walk.path, Nothing, walk.branches, b)
  <2>1. walk.path # <<>> => MayEnter(session, text, walk.path)
    BY <1>1, <1>3 DEF Hit, UniqueInv, LeafEntered
  <2>2. GateUnique(text, g)
    BY <1>2, <2>1 DEF GateOf, GateUnique, GateSplit
  <2>3. Gate(g)
    BY <1>3 DEF Hit
  <2> QED
    BY <2>2, <2>3, UniqueGate
<1>4. CASE walk.probe # Nothing
  <2> DEFINE g == GateOf(walk.probe.spec, walk.path, Last(walk.probe.spec), walk.branches, b)
  <2>1. Last(walk.probe.spec) # Nothing
    <3>1. walk.probe.spec \in Seq(Name) /\ walk.probe.spec # <<>>
      BY <1>1, <1>4 DEF TypeOK, Walk, EndpointGate
    <3> QED
      BY <3>1, FrontType, HierGrepAssumption
  <2>2. GateUnique(text, g)
    BY <1>2, <2>1 DEF GateOf, GateUnique, GateSplit
  <2>3. Gate(g)
    BY <1>4 DEF Hit
  <2> QED
    BY <2>2, <2>3, UniqueGate
<1> QED
  BY <1>3, <1>4

\* Peeling takes the last name off a gate that stands for its whole path.
LEMMA PeelUnique ==
  ASSUME NEW t, NEW g \in EndpointGate, GateUnique(t, g)
  PROVE  GateOne(t, Peel(g)) /\ Peel(g).amb = g.amb
<1>1. CASE Peel(g) = g
  BY <1>1 DEF GateOne, GateUnique, GateSplit
<1>2. CASE Peel(g) # g
  <2>1. /\ g.ok /\ g.tail = Nothing /\ g.hier # <<>>
        /\ Peel(g).hier = Front(g.hier) /\ Peel(g).spec = g.spec /\ Peel(g).ok = g.ok
        /\ Peel(g).amb = g.amb
    BY <1>2 DEF Peel, EndpointGate
  <2>2. g.hier = g.spec
    BY <2>1 DEF GateUnique, GateSplit
  <2>3. Front(g.hier) # g.spec
    <3>1. g.hier \in Seq(Name)
      BY DEF EndpointGate
    <3>2. Len(Front(g.hier)) = Len(g.hier) - 1
      BY <2>1, <3>1, FrontType
    <3> QED
      BY <2>2, <3>1, <3>2
  <2> QED
    BY <2>1, <2>2, <2>3 DEF GateOne, GateUnique
<1> QED
  BY <1>1, <1>2

LEMMA UniqueDecide ==
  ASSUME Inv, UniqueInv, NEW known, Decide(known)
  PROVE  UniqueInv'
<1>1. /\ stage = "decide" /\ stage' = "idle" /\ UNCHANGED <<session, text, walk>>
      /\ gates' = [e \in DOMAIN gates |-> Peel(gates[e])]
      /\ verdict'.status = StatusOf(gates', known)
  BY DEF Decide
<1>2. ASSUME NEW e \in DOMAIN gates'
      PROVE  GateOne(text, gates'[e])
  <2>1. e \in DOMAIN gates /\ gates'[e] = Peel(gates[e]) /\ gates[e] \in EndpointGate
    BY <1>1 DEF Inv, TypeOK
  <2>2. GateUnique(text, gates[e])
    BY <1>1, <2>1 DEF UniqueInv, Busy
  <2> QED
    BY <2>1, <2>2, PeelUnique
<1>3. \A e \in DOMAIN gates' : GateOne(text, gates[e])'
  BY <1>1, <1>2 DEF GateOne
<1>4. Gated("pass")' /\ ~session.only => \A e \in DOMAIN gates' : ~gates'[e].amb
  BY <1>1 DEF Gated, StatusOf
<1>5. ~Busy'
  BY <1>1 DEF Busy
<1> QED
  BY <1>1, <1>3, <1>4, <1>5 DEF UniqueInv, EndsFound, LeafEntered

LEMMA UniqueStep ==
  ASSUME Inv, UniqueInv, [Next]_vars
  PROVE  UniqueInv'
<1>1. TypeOK /\ FoundExists /\ NothingMissed /\ VerdictRight
  BY DEF Inv
<1>2. CASE Root
  <2>1. /\ stage = "root" /\ stage' = "hops" /\ UNCHANGED <<session, gates, verdict>>
        /\ walk'.path = walk.path /\ walk'.probe = walk.probe
    BY <1>1, <1>2 DEF Root, TypeOK, Walk
  <2>2. text' \in Texts /\ Grows(text, text')
    BY <1>1, <1>2, ReadType DEF Root, TypeOK, Texts
  <2> QED
    BY <1>1, <1>2, <2>1, <2>2, EndsRoot, UniqueRead DEF VerdictRight, Busy
<1>3. CASE Hop
  <2>1. stage = "hops" /\ stage' = "hops" /\ UNCHANGED <<session, gates, verdict>>
    BY <1>3 DEF Hop
  <2>2. text' \in Texts /\ Grows(text, text') /\ walk'.path = walk.path /\ walk'.probe = walk.probe
    BY <1>1, <1>3, HopFacts
  <2> QED
    BY <1>1, <1>3, <2>1, <2>2, EndsHop, LeafHop, UniqueRead DEF VerdictRight, Busy
<1>4. CASE Miss \/ \E b \in walk.branches : Strip(b) \/ Hit(b)
  BY <1>4, UniqueMiss, UniqueStrip, UniqueHit
<1>5. CASE \E known \in SUBSET DOMAIN gates : Decide(known)
  BY <1>5, UniqueDecide
<1>6. CASE UNCHANGED <<session, text, walk, gates, verdict>> /\ (UNCHANGED stage \/ Dump)
  <2>1. Busy' <=> Busy
    BY <1>6 DEF Busy, Dump
  <2>2. stage' \in {"root", "hops"} <=> stage \in {"root", "hops"}
    BY <1>6 DEF Dump
  <2>3. stage' = "hops" <=> stage = "hops"
    BY <1>6 DEF Dump
  <2> QED
    BY <1>6, <2>1, <2>2, <2>3
    DEF UniqueInv, EndsFound, LeafEntered, GateUnique, GateSplit, GateOne, Gated
<1>7. CASE gates' = <<>> /\ verdict' = Nothing /\ stage' # "hops" /\ (stage' = "root" => walk'.probe = Nothing)
  <2>1. DOMAIN gates' = {}
    BY <1>7
  <2> QED
    BY <1>7, <2>1 DEF UniqueInv, EndsFound, LeafEntered, Gated
<1>8. CASE Stop \/ \E c \in Checks : Ask(c)
  BY <1>7, <1>8 DEF Stop, Ask, Start
<1>9. CASE \E paths \in Filelists, only \in BOOLEAN :
             Load(paths, only) \/ \E refresh \in BOOLEAN : Build(paths, refresh, only)
  <2>1. gates' = <<>> /\ verdict' = Nothing /\ stage' \in {"idle", "dump"}
    BY <1>1, <1>9 DEF Load, Build, VerdictRight
  <2> QED
    BY <1>7, <2>1
<1>10. CASE (\E s \in Source : Edit(s)) \/ Dump \/ UNCHANGED vars
  BY <1>6, <1>10 DEF Edit, Dump, vars
<1> QED
  BY <1>2, <1>3, <1>4, <1>5, <1>8, <1>9, <1>10 DEF Next

\* The gate passes a text check only with paths that mean one module of one source, in every text
\* the sources may have that agrees with what it knows and has read: what it compared is enough,
\* but above a name it peeled off although that may be an instance, and in the blocks of a label
\* after the first.
THEOREM PathsAreUnique == Spec => []PassIsUnique
<1>1. Init => UniqueInv
  <2>1. ASSUME Init PROVE stage = "off" /\ walk.probe = Nothing /\ DOMAIN gates = {} /\ verdict = Nothing
    BY <2>1 DEF Init, NoWalk
  <2> QED
    BY <2>1 DEF UniqueInv, EndsFound, LeafEntered, Gated
<1>2. Inv /\ UniqueInv /\ [Next]_vars => UniqueInv'
  BY UniqueStep
<1>3. ASSUME Inv, UniqueInv
      PROVE  PassIsUnique
  <2>1. SUFFICES ASSUME Gated("pass"), ~session.only, Agrees(session, text, disk), NEW e \in DOMAIN gates,
                        gates[e].hier = check[e] \/ ~MayEnter(session, text, check[e]),
                        NEW p \in Ends(session, disk, gates[e].hier),
                        NEW q \in Ends(session, disk, gates[e].hier)
                 PROVE  p = q
    BY DEF PassIsUnique, Ends
  <2>2. ~Busy /\ gates[e].ok /\ ~gates[e].amb /\ gates[e].spec = check[e] /\ disk \in Disks
    BY <1>3, <2>1 DEF Inv, TypeOK, Disks, VerdictRight, Gated, GatesRight, GateRight, UniqueInv
  <2>3. OneEnd(session, text, gates[e].hier)
    BY <1>3, <2>1, <2>2 DEF UniqueInv, GateOne
  <2> QED
    BY <2>1, <2>2, <2>3 DEF OneEnd
<1> QED
  BY <1>1, <1>2, <1>3, InvAlways, PTL DEF Spec
=============================================================================
