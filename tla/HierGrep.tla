------------------------------ MODULE HierGrep ------------------------------
(***************************************************************************)
(* The hierarchy grep and its gate: does the path of an endpoint exist?    *)
(*                                                                         *)
(* A session knows which sources declare which module, from a grep of the  *)
(* sources or from grep_hie.json of an earlier run                         *)
(* (connect/hierarchy_grep_gate.py).  It resolves the path of an endpoint  *)
(* hop by hop (hierarchy_grep.py), one branch per module and source that   *)
(* may be meant, and reads a source when a branch first needs it.  Sources *)
(* may be edited at any time.  The gate passes a check, rejects it for     *)
(* good, or leaves it to the full walk.                                    *)
(*                                                                         *)
(* A module text is a set of items; an item names the generate blocks      *)
(* around it, outermost first, and blocks may share a label.  Layout,      *)
(* comments, macros and the order of branches are abstracted, and so are   *)
(* sources deleted under a session.                                        *)
(***************************************************************************)
EXTENDS Naturals, SequencesExt

CONSTANTS
  Source, Module, Name,
  Top,        \* the top module
  Nothing,    \* no value
  Contents,   \* what each source may say
  Filelists,  \* sets of sources a run may be given
  Inferred,   \* _infer_cell_from_inst_leaf: u_m is taken for an instance of m
  Checks,     \* a check is the sequence of its endpoint paths, below the top
  MaxEdits    \* bound on edits

\* "typed" is a net of a user type, or whatever else the text says: the item of a block with
\* nothing in it, under a name no path has.
Kinds == {"inst", "port", "signal", "typed"}
\* A generate block: its label, and where its begin is in the text of the module.
Block == [label : Name, pos : Nat]
Item == [kind : Kinds, name : Name, cell : Module \cup {Nothing}, scope : Seq(Block)]
\* One block begins at a place of the text, and ports are outside of all.
WellFormed(items) ==
  \A i \in items :
    /\ i.kind = "port" => i.scope = <<>>
    /\ \A j \in items : \A a \in DOMAIN i.scope, b \in DOMAIN j.scope :
         i.scope[a].pos = j.scope[b].pos => SubSeq(i.scope, 1, a) = SubSeq(j.scope, 1, b)

\* The modules a source declares and the items of each.
IsContent(c) ==
  DOMAIN c \subseteq Module /\ \A m \in DOMAIN c : c[m] \subseteq Item /\ WellFormed(c[m])

\* HierarchyGrepEndpointGate: a path, whether it exists, whether it is ambiguous, the instance path
\* and the net it was split into, and the rows of the modules on the way.
Row == [path : Seq(Name), mod : Module, src : Source]
EndpointGate == [spec : Seq(Name), ok : BOOLEAN, amb : BOOLEAN, hier : Seq(Name),
                 tail : Name \cup {Nothing}, rows : SUBSET Row]

AnyText == UNION {Contents[s] : s \in Source}

ASSUME HierGrepAssumption ==
  /\ Top \in Module
  /\ Nothing \notin Module /\ Nothing \notin Name /\ Nothing \notin EndpointGate
  /\ \A s \in Source : Nothing \notin Contents[s] /\ \A c \in Contents[s] : IsContent(c)
  /\ Filelists \subseteq SUBSET Source
  /\ Inferred \in [Name -> Module \cup {Nothing}]
  /\ Checks \subseteq Seq(Seq(Name)) \ {<<>>}
  /\ MaxEdits \in Nat

VARIABLES
  disk,     \* what the sources say now
  hie,      \* grep_hie.json: its paths and its index, or Nothing when it is missing or torn
  stage,    \* "off", "dump", "idle", "root", "hops" or "decide"
  session,  \* HierarchyGrepSession: its paths, its index, and whether the gate is the whole phase
  text,     \* _rtl_text_cache: what was read of each source
  check,    \* the check under way or answered last
  walk,     \* the resolution under way: path, hops done, branches, and the probe before it
  gates,    \* HierarchyGrepEndpointGate of each endpoint resolved so far
  verdict,  \* HierarchyGrepCheckGate: its status and its rows
  edits
vars == <<disk, hie, stage, session, text, check, walk, gates, verdict, edits>>

-----------------------------------------------------------------------------
(* The index and the texts.                                                *)

\* build_module_index
IndexOf(t, paths) == [m \in Module |-> {s \in paths : m \in DOMAIN t[s]}]
Known(index) == {m \in Module : index[m] # {}}

\* _module_body: empty when the source has no such module.
Items(t, s, m) == IF m \in DOMAIN t[s] THEN t[s][m] ELSE {}
\* _scoped_body: the text of a place, the blocks inside it included.
Body(t, p) == {i \in Items(t, p.src, p.mod) : IsPrefix(p.at, i.scope)}
\* _inst_leaf_word_in_body
Words(body, at) ==
  UNION {{i.name, i.cell} \cup {i.scope[k].label : k \in Len(at) + 1 .. Len(i.scope)} : i \in body}

\* _rtl_text_cache after the sources ss are needed: a source is read once.
Read(ss) == [s \in Source |-> IF s \in ss /\ text[s] = Nothing THEN disk[s] ELSE text[s]]

\* _child_decl_candidates: declarations without any content do not count, unless all are such.
Decls(t, index, m) ==
  LET full == {s \in index[m] : Items(t, s, m) # {}}
  IN  IF full = {} THEN index[m] ELSE full

-----------------------------------------------------------------------------
(* A hop.  A branch is its nodes; the last one says where it stands.       *)

\* Where a branch stands: a module of a source, and the block inside it the path leads into.
Place == [mod : Module, src : Source, at : Seq(Block)]
Node == [seg : Name \cup {Nothing}, kind : {"inst", "genblk", "port", "signal"},
         place : Place, labels : Seq(Name)]
Node1(seg, kind, place, labels) == [seg |-> seg, kind |-> kind, place |-> place, labels |-> labels]
Here(b) == Last(b).place

Branch == {b \in Seq(Node) : b # <<>> /\ \A k \in 2..Len(b) : b[k].seg \in Name}
Walk == [path : Seq(Name), hops : Nat, branches : SUBSET Branch, probe : EndpointGate \cup {Nothing}]

Edges(body, n) == {i \in body : i.kind = "inst" /\ i.name = n}
\* The mutant takes the first of them alone, as _inst_hop_child_module_db_first does.
ChildModsFirst(body, at, n, index) ==
  LET all == {m \in Known(index) : \/ \E i \in Edges(body, n) : i.cell = m
                                   \/ Edges(body, n) = {} /\ Inferred[n] = m}
  IN  IF all = {} \/ n \notin Words(body, at) THEN {} ELSE {CHOOSE m \in all : TRUE}
\* _inst_hop_child_modules_db_first: the cells of the instances of that name, or of none the
\* module the name itself suggests.
ChildMods(body, at, n, index) ==
  {m \in Known(index) :
     /\ n \in Words(body, at)
     /\ \/ \E i \in Edges(body, n) : i.cell = m
        \/ Edges(body, n) = {} /\ Inferred[n] = m}
Children(t, p, n, index) == ChildMods(Body(t, p), p.at, n, index)

\* _fanout_inst_hop_branches
Enter(t, index, b, n, ms) ==
  UNION {{Append(b, Node1(n, "inst", [mod |-> m, src |-> s, at |-> <<>>], <<>>)) :
            s \in Decls(t, index, m)} : m \in ms}

Labelled(body, at, n) ==
  UNION {{SubSeq(i.scope, 1, k) : k \in {k \in Len(at) + 1 .. Len(i.scope) : i.scope[k].label = n}} :
           i \in body}
\* _generate_block_body: the first of that label in the text, at any depth below.
Blocks(body, at, n) ==
  LET all == Labelled(body, at, n)
  IN  {a \in all : \A b \in all : Last(a).pos <= Last(b).pos}
\* The mutant enters a block without narrowing the text to it.
LabelUnscoped(t, b, n) ==
  LET p == Here(b)
  IN  {Append(b, Node1(n, "genblk", p, Append(Last(b).labels, n))) : at \in Blocks(Body(t, p), p.at, n)}
Label(t, b, n) ==
  LET p == Here(b)
  IN  {Append(b, Node1(n, "genblk", [p EXCEPT !.at = at], Append(Last(b).labels, n))) :
         at \in Blocks(Body(t, p), p.at, n)}

\* A hop that is not the last.
HopOf(t, index, b, n) ==
  LET ms == Children(t, Here(b), n, index)
  IN  IF ms # {} THEN Enter(t, index, b, n, ms) ELSE Label(t, b, n)

\* _leaf_kind_in_body: an instance, else a port of the header, else a declared signal.
Net(t, b, n) ==
  LET p == Here(b)
      named(k) == \E i \in Body(t, p) : i.kind = k /\ i.name = n
      node(k) == {Append(b, Node1(n, k, p, Last(b).labels))}
  IN  IF p.at = <<>> /\ named("port") THEN node("port")
      ELSE IF named("signal") THEN node("signal") ELSE {}
LeafOf(t, index, b, n) ==
  LET ms == Children(t, Here(b), n, index)
  IN  IF ms # {} THEN Enter(t, index, b, n, ms) ELSE Net(t, b, n)

\* The sources the instances of that name may lead to: all of them are read.
Touched(t, index, bs, n) ==
  UNION {index[m] : m \in UNION {Children(t, Here(b), n, index) : b \in bs}}

\* The mutant leaves the source of the declaration out of the key.
KeyOfModule(b) == <<Here(b).mod, Last(b).labels>>
\* _branch_key
KeyOf(b) == <<Here(b).mod, Here(b).src, Last(b).labels>>
Ambiguous(bs) == \E a, b \in bs : KeyOf(a) # KeyOf(b)

-----------------------------------------------------------------------------
(* The gate.                                                               *)

\* The mutant takes the source of the instance (hit_file) for the source of its module.
RowsOfHit(b) ==
  {[path |-> [j \in 1..(i - 1) |-> b[j + 1].seg], mod |-> b[i].place.mod,
    src |-> b[IF i = 1 THEN 1 ELSE i - 1].place.src] : i \in {i \in DOMAIN b : b[i].kind = "inst"}}
\* flat_rows_from_resolve
RowsOf(b) ==
  {[path |-> [j \in 1..(i - 1) |-> b[j + 1].seg], mod |-> b[i].place.mod, src |-> b[i].place.src] :
     i \in {i \in DOMAIN b : b[i].kind = "inst"}}
RowAt(rows, path) == {r \in rows : r.path = path}

\* _gate_endpoint.  The rows of a miss are only reported; they are left out.
GateOf(spec, hier, tail, bs, b) ==
  [spec |-> spec, ok |-> bs # {}, amb |-> Ambiguous(bs), hier |-> hier, tail |-> tail,
   rows |-> IF bs = {} THEN {} ELSE RowsOf(b)]

\* The probes of the gate search the whole source of a row.
InstInFile(s, n) == \E m \in DOMAIN disk[s] : Edges(disk[s][m], n) # {}
NetInFile(s, n) ==
  \E m \in DOMAIN disk[s] : \E i \in disk[s][m] : i.kind \in {"port", "signal"} /\ i.name = n

\* _peel_grep_wire_tail: a leaf grep took for an instance is a net after all.
Peel(g) ==
  LET n == Last(g.hier)
      parent == RowAt(g.rows, Front(g.hier))
  IN  IF /\ g.ok /\ g.tail = Nothing /\ g.hier # <<>>
         /\ \E r \in parent : ~InstInFile(r.src, n) /\ NetInFile(r.src, n)
      THEN [g EXCEPT !.hier = Front(@), !.tail = n, !.rows = @ \ RowAt(@, g.hier)]
      ELSE g

\* _merge_rows: of two rows of one path the later endpoint's stands.
Merged(gs) ==
  {r \in UNION {g.rows : g \in Range(gs)} :
     \E e \in DOMAIN gs : /\ r \in gs[e].rows
                          /\ \A f \in DOMAIN gs : f > e => RowAt(gs[f].rows, r.path) = {}}

\* _inst_endpoints_need_walk: known when the path-walk index has the module of the row.
NeedsWalk(g, rows, known) ==
  /\ g.tail = Nothing /\ g.hier # <<>>
  /\ \A r \in RowAt(rows, Front(g.hier)) :
       /\ ~(known /\ r.mod \in DOMAIN disk[r.src] /\ Edges(disk[r.src][r.mod], Last(g.hier)) # {})
       /\ ~NetInFile(r.src, Last(g.hier))

-----------------------------------------------------------------------------
(* Runs and edits.                                                         *)

Unread == [s \in Source |-> Nothing]
NoWalk == [path |-> <<>>, hops |-> 0, branches |-> {}, probe |-> Nothing]

Init ==
  /\ disk \in [Source -> AnyText]
  /\ \A s \in Source : disk[s] \in Contents[s]
  /\ hie = Nothing /\ stage = "off" /\ session = Nothing /\ text = Unread
  /\ check = <<>> /\ walk = NoWalk /\ gates = <<>> /\ verdict = Nothing
  /\ edits = 0

Edit(s) ==
  /\ edits < MaxEdits
  /\ \E c \in Contents[s] \ {disk[s]} : disk' = [disk EXCEPT ![s] = c]
  /\ edits' = edits + 1
  /\ UNCHANGED <<hie, stage, session, text, check, walk, gates, verdict>>

\* prepare_hierarchy_grep_session: grep_hie.json is taken when it lists the same paths.
Hits(paths, refresh) == ~refresh /\ hie # Nothing /\ hie.paths = paths
Load(paths, only) ==
  /\ stage = "off" /\ Hits(paths, FALSE)
  /\ session' = [paths |-> paths, index |-> hie.index, only |-> only]
  /\ stage' = "idle"
  /\ UNCHANGED <<disk, hie, text, check, walk, gates, verdict, edits>>

\* dump_grep_hie truncates the file before it writes it.
Build(paths, refresh, only) ==
  /\ stage = "off" /\ ~Hits(paths, refresh)
  /\ session' = [paths |-> paths, index |-> IndexOf(disk, paths), only |-> only]
  /\ hie' = Nothing /\ stage' = "dump"
  /\ UNCHANGED <<disk, text, check, walk, gates, verdict, edits>>
Dump ==
  /\ stage = "dump"
  /\ hie' = [paths |-> session.paths, index |-> session.index]
  /\ stage' = "idle"
  /\ UNCHANGED <<disk, session, text, check, walk, gates, verdict, edits>>

\* The run ends, or is killed.
Stop ==
  /\ stage # "off"
  /\ stage' = "off" /\ session' = Nothing /\ text' = Unread
  /\ check' = <<>> /\ walk' = NoWalk /\ gates' = <<>> /\ verdict' = Nothing
  /\ UNCHANGED <<disk, hie, edits>>

-----------------------------------------------------------------------------
(* A check.                                                                *)

Start(path, probe) ==
  /\ walk' = [path |-> path, hops |-> 0, branches |-> {}, probe |-> probe]
  /\ stage' = "root"

Ask(c) ==
  /\ stage = "idle"
  /\ check' = c /\ gates' = <<>> /\ verdict' = Nothing
  /\ Start(c[1], Nothing)
  /\ UNCHANGED <<disk, hie, session, text, edits>>

\* A branch for each source of the top.
Root ==
  LET t == Read(session.index[Top])
      at(s) == [mod |-> Top, src |-> s, at |-> <<>>]
  IN  /\ stage = "root"
      /\ text' = t
      /\ walk' = [walk EXCEPT !.branches = {<<Node1(Nothing, "inst", at(s), <<>>)>> :
                                             s \in Decls(t, session.index, Top)}]
      /\ stage' = "hops"
      /\ UNCHANGED <<disk, hie, session, check, gates, verdict, edits>>

Resolved == walk.branches = {} \/ walk.hops = Len(walk.path)
Hop ==
  LET n == walk.path[walk.hops + 1]
      t == Read(Touched(text, session.index, walk.branches, n))
      of(b) == IF walk.hops + 1 < Len(walk.path) THEN HopOf(t, session.index, b, n)
               ELSE LeafOf(t, session.index, b, n)
  IN  /\ stage = "hops" /\ ~Resolved
      /\ text' = t
      /\ walk' = [walk EXCEPT !.hops = @ + 1, !.branches = UNION {of(b) : b \in @}]
      /\ UNCHANGED <<disk, hie, stage, session, check, gates, verdict, edits>>

\* _finalize_branches reports the nodes of one branch.
IsNet(b) == Last(b).kind \in {"port", "signal"}

\* _resolve_inst_chain_for_gate: the path ends at a net, so it is resolved again without it.
Strip(b) ==
  /\ stage = "hops" /\ Resolved
  /\ walk.probe = Nothing /\ b \in walk.branches /\ IsNet(b)
  /\ Start(Front(walk.path), GateOf(walk.path, walk.path, Nothing, walk.branches, b))
  /\ UNCHANGED <<disk, hie, session, text, check, gates, verdict, edits>>

Gate(g) ==
  /\ stage = "hops" /\ Resolved
  /\ gates' = Append(gates, g)
  /\ IF Len(gates) + 1 = Len(check) THEN walk' = NoWalk /\ stage' = "decide"
     ELSE Start(check[Len(gates) + 2], Nothing)
  /\ UNCHANGED <<disk, hie, session, text, check, verdict, edits>>
Miss == /\ walk.branches = {}
        /\ Gate(IF walk.probe = Nothing THEN GateOf(walk.path, walk.path, Nothing, {}, <<>>)
                ELSE walk.probe)
Hit(b) ==
  /\ b \in walk.branches
  /\ walk.probe = Nothing => ~IsNet(b)
  /\ Gate(IF walk.probe = Nothing THEN GateOf(walk.path, walk.path, Nothing, walk.branches, b)
          ELSE GateOf(walk.probe.spec, walk.path, Last(walk.probe.spec), walk.branches, b))

\* gate_connect_check.  hgrep_only takes an ambiguous path for one that exists.  No caller sets
\* hard_fail_on_miss; checks with waypoints or an empty endpoint, which always fall back, are left
\* out.
StatusOf(gs, known) ==
  IF \E e \in DOMAIN gs : ~gs[e].ok
  THEN IF \E e \in DOMAIN gs : gs[e].amb THEN "fallback" ELSE "reject"
  ELSE IF session.only THEN "pass"
  ELSE IF \E e \in DOMAIN gs : gs[e].amb \/ NeedsWalk(gs[e], Merged(gs), e \in known)
  THEN "fallback" ELSE "pass"
Decide(known) ==
  LET gs == [e \in DOMAIN gates |-> Peel(gates[e])]
  IN  /\ stage = "decide"
      /\ gates' = gs
      /\ verdict' = [status |-> StatusOf(gs, known),
                     rows |-> IF \E e \in DOMAIN gs : ~gs[e].ok THEN {} ELSE Merged(gs)]
      /\ stage' = "idle"
      /\ UNCHANGED <<disk, hie, session, text, check, walk, edits>>

Next ==
  \/ \E s \in Source : Edit(s)
  \/ \E paths \in Filelists, only \in BOOLEAN :
       Load(paths, only) \/ \E refresh \in BOOLEAN : Build(paths, refresh, only)
  \/ Dump \/ Stop
  \/ \E c \in Checks : Ask(c)
  \/ Root \/ Hop \/ Miss
  \/ \E b \in walk.branches : Strip(b) \/ Hit(b)
  \/ \E known \in SUBSET DOMAIN gates : Decide(known)

Spec == Init /\ [][Next]_vars

-----------------------------------------------------------------------------
(* What a path means: the hierarchy of the texts d, hop by hop.            *)

Scopes(items) == {<<>>} \cup UNION {{SubSeq(i.scope, 1, k) : k \in DOMAIN i.scope} : i \in items}
Declares(ss, d, s, m) == s \in ss.paths /\ d[s] # Nothing /\ m \in DOMAIN d[s]
Places(ss, d) ==
  UNION {{[mod |-> x[2], src |-> x[1], at |-> a] : a \in Scopes(d[x[1]][x[2]])} :
           x \in {x \in Source \X Module : Declares(ss, d, x[1], x[2])}}
Within(d, p) == {i \in Items(d, p.src, p.mod) : i.scope = p.at}

\* An instance of a module some source declares; a block whose label is not taken for one.
Steps(ss, d, p, n) ==
  {q \in Places(ss, d) :
     \/ q.at = <<>> /\ \E i \in Edges(Within(d, p), n) : i.cell = q.mod
     \/ /\ q = [p EXCEPT !.at = q.at]
        /\ q.at # <<>> /\ Front(q.at) = p.at /\ Last(q.at).label = n
        /\ Children(d, p, n, ss.index) = {}}
\* A block of that label, but not the first in the text: the grep does not look into it.
Overlooked(d, p, n, q) == q.at # <<>> /\ q.at \notin Blocks(Body(d, p), p.at, n)
SeenSteps(ss, d, p, n) == {q \in Steps(ss, d, p, n) : ~Overlooked(d, p, n, q)}
\* As Steps, where a path may leave out the blocks it goes through, and follow a guess where no
\* instance has the name.
Guess(ss, d, p, n, m) == Edges(Body(d, p), n) = {} /\ Inferred[n] = m /\ m \in Known(ss.index)
LooseSteps(ss, d, p, n) ==
  {q \in Places(ss, d) :
     \/ q.at = <<>> /\ (Guess(ss, d, p, n, q.mod) \/ \E i \in Edges(Body(d, p), n) : i.cell = q.mod)
     \/ q.mod = p.mod /\ q.src = p.src /\ q.at \in Blocks(Body(d, p), p.at, n)}

From(ss, d, n) == {c \in [0..n -> Places(ss, d)] : c[0].mod = Top /\ c[0].at = <<>>}
SeenChains(ss, d, path) ==
  {c \in From(ss, d, Len(path)) :
     \A k \in 1..Len(path) : c[k] \in SeenSteps(ss, d, c[k - 1], path[k])}
LooseChains(ss, d, path) ==
  {c \in From(ss, d, Len(path)) :
     \A k \in 1..Len(path) : c[k] \in LooseSteps(ss, d, c[k - 1], path[k])}

\* A net, or an instance of a module some source declares.
IsEnd(ss, d, p, n) ==
  \/ \E i \in Edges(Within(d, p), n), q \in Places(ss, d) : i.cell = q.mod
  \/ \E i \in Within(d, p) : i.name = n /\ i.kind \in {"port", "signal"}
IsThere(ss, d, path) ==
  IF path = <<>> THEN SeenChains(ss, d, <<>>) # {}
  ELSE \E c \in SeenChains(ss, d, Front(path)) : IsEnd(ss, d, c[Len(path) - 1], Last(path))

IsLooseEnd(ss, d, p, n) ==
  \/ \E i \in Body(d, p) : i.name = n /\ i.kind # "typed"
  \/ \E m \in Module : Guess(ss, d, p, n, m)
IsLoose(ss, d, path) ==
  path # <<>> =>
    \E c \in LooseChains(ss, d, Front(path)) : IsLooseEnd(ss, d, c[Len(path) - 1], Last(path))

\* The last name of a path may be that of an instance.
MayEnter(ss, t, path) ==
  path # <<>> /\ \E c \in LooseChains(ss, t, Front(path)) :
                   Children(t, c[Len(path) - 1], Last(path), ss.index) # {}

\* The index and what was read are what d says.
Agrees(ss, t, d) ==
  /\ ss.index = IndexOf(d, ss.paths)
  /\ \A s \in ss.paths : t[s] \in {Nothing, d[s]}

Above(rows, r) ==
  {u \in rows : /\ IsStrictPrefix(u.path, r.path)
                /\ \A v \in rows : IsStrictPrefix(v.path, r.path) => Len(v.path) <= Len(u.path)}
\* The endpoints went through different declarations on the way to a path.
Disputed(path) ==
  \E e, f \in DOMAIN gates : \E k \in 0..(Len(path) - 1) :
    LET q == SubSeq(path, 1, k)
    IN  /\ IsPrefix(q, gates[e].hier) /\ IsPrefix(q, gates[f].hier)
        /\ RowAt(gates[e].rows, q) # RowAt(gates[f].rows, q)

-----------------------------------------------------------------------------
(* Properties.                                                             *)

Gated(status) == verdict # Nothing /\ verdict.status = status

\* The session, the resolution and the gates have their shape, and every branch stands in a
\* module the index knows, in a source that was read.
TypeOK ==
  /\ disk \in [Source -> AnyText] /\ \A s \in Source : disk[s] \in Contents[s]
  /\ text \in [Source -> AnyText \cup {Nothing}]
  /\ hie \in [paths : Filelists, index : [Module -> SUBSET Source]] \cup {Nothing}
  /\ hie # Nothing => \A m \in Module : hie.index[m] \subseteq hie.paths
  /\ stage \in {"off", "dump", "idle", "root", "hops", "decide"}
  /\ stage # "off" =>
       /\ session \in [paths : Filelists, index : [Module -> SUBSET Source], only : BOOLEAN]
       /\ \A m \in Module : session.index[m] \subseteq session.paths
  /\ check \in Seq(Seq(Name)) /\ gates \in Seq(EndpointGate)
  /\ stage \in {"root", "hops"} => Len(gates) < Len(check)
  /\ walk \in Walk /\ walk.hops <= Len(walk.path)
  /\ walk.branches # {} => stage = "hops"
  /\ stage = "root" => walk.hops = 0
  /\ walk.probe # Nothing => walk.probe.spec # <<>>
  /\ \A b \in walk.branches :
       /\ IsNet(b) => walk.hops > 0
       /\ Here(b).src \in session.index[Here(b).mod] /\ text[Here(b).src] # Nothing
  /\ edits \in 0..MaxEdits

\* A rejected endpoint does not exist, when the sources are those the session knows: no chain of
\* instances and blocks leads to a net or an instance of that name.  Rejects are final, so a
\* missed branch would be an endpoint reported absent.  Not covered, and rejected though they
\* exist: what is in a block that is not the first of its label in the text, what a label taken
\* for an instance leads to, an instance of a module no source declares, a net of a user type.
RejectExplained ==
  Gated("reject") /\ Agrees(session, text, disk) =>
    \A e \in DOMAIN gates : ~gates[e].ok => ~IsThere(session, disk, check[e])

\* A passed endpoint exists in the texts that were read, however old the index is: every hop is an
\* instance or a block of the text before it, or a guess where no instance has the name.
PassExplained == Gated("pass") => \A e \in DOMAIN gates : IsLoose(session, text, check[e])

\* A passed instance path of a text check means one module of one source, stubs aside: the walk
\* that trusts the gate's rows is not on one of several declarations.  Not when the last name of
\* the endpoint was peeled off as a net although the texts read may enter an instance of it: then
\* what is above it was not compared.  Of the blocks of one label only the first counts: nobody
\* looks into the others.
PassIsUnique ==
  Gated("pass") /\ ~session.only /\ Agrees(session, text, disk) =>
    \A e \in DOMAIN gates :
      gates[e].hier = check[e] \/ ~MayEnter(session, text, check[e]) =>
        LET ends == {c[Len(gates[e].hier)] : c \in SeenChains(session, disk, gates[e].hier)}
        IN  \A p, q \in {p \in ends : p.at = <<>> /\ Items(disk, p.src, p.mod) # {}} : p = q

\* The rows of a passed check are one hierarchy: the module of a row is instantiated in the module
\* of the row above it or guessed from its name, unless the endpoints took different declarations on the way there.
RowsAreOneHierarchy ==
  Gated("pass") =>
    \A r \in verdict.rows : \A u \in Above(verdict.rows, r) :
      \/ /\ text[u.src] # Nothing
         /\ \E i \in Edges(Items(text, u.src, u.mod), Last(r.path)) : i.cell = r.mod
      \/ Inferred[Last(r.path)] = r.mod
      \/ Disputed(r.path)
=============================================================================
