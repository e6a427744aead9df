------------------------------- MODULE FlTree -------------------------------
(***************************************************************************)
(* The filelist graph and the pools of RTL files the module database cuts  *)
(* from it (path_walk_db.py).  A filelist (a listing) may include other    *)
(* filelists, one listing may be included by several, and every RTL file   *)
(* is listed by one listing or by none.  A graph is a record               *)
(*   kids  _filelist_children: the listings a listing includes             *)
(*   via   _file_via_filelist: the listing of a file                       *)
(*   root  _root_filelist, given by the caller or not                      *)
(* The confident pool of an anchor file holds the files under the child    *)
(* listings of its own listing; the recovery pool those of the listing's   *)
(* whole subtree.                                                          *)
(***************************************************************************)
EXTENDS Naturals, FiniteSets

CONSTANTS Files, Listings, None

ASSUME FlTreeAssumption ==
  /\ IsFiniteSet(Files) /\ IsFiniteSet(Listings)
  /\ None \notin Files \cup Listings

Graph == [kids : [Listings -> SUBSET Listings],
          via : [Files -> Listings \cup {None}],
          root : Listings \cup {None}]

Kids(g, L) == UNION {g.kids[l] : l \in L}
Parents(g, L) == {l \in Listings : g.kids[l] \cap L # {}}

\* Everything reached from L, L included: the worklist loops end after at most
\* one round per listing.
Descendants(g, L) ==
  LET reach[n \in 0..Cardinality(Listings)] ==
        IF n = 0 THEN L ELSE reach[n - 1] \cup Kids(g, reach[n - 1])
  IN reach[Cardinality(Listings)]

Ancestors(g, l) ==
  LET reach[n \in 0..Cardinality(Listings)] ==
        IF n = 0 THEN {l} ELSE reach[n - 1] \cup Parents(g, reach[n - 1])
  IN reach[Cardinality(Listings)]

Siblings(g, l) == Kids(g, Parents(g, {l})) \ {l}

FilesOf(g, L) == {f \in Files : g.via[f] \in L}

\* Listings no other includes and that include one.
Tops(g) == {l \in Listings : g.kids[l] # {} /\ Parents(g, {l}) = {}}
\* first is the first source of the run.
InferRoot(g, first) ==
  IF g.root # None THEN g.root
  ELSE IF Cardinality(Tops(g)) = 1 THEN CHOOSE l \in Tops(g) : TRUE
  ELSE g.via[first]

Hierarchical(g) == g.root # None \/ \E l \in Listings : g.kids[l] # {}

\* The n-th shell around a centre: what n includes lead to, and fewer do not.
Shell(g, centre, n) ==
  LET seen[k \in 0..n] ==
        IF k = 0 THEN {centre} ELSE seen[k - 1] \cup Kids(g, seen[k - 1])
  IN IF n = 0 THEN {centre} ELSE seen[n] \ seen[n - 1]

-----------------------------------------------------------------------------
(* Pools of an anchor file a.                                              *)

ConfidentPool(g, a) ==
  LET l == g.via[a] IN
  IF l = None THEN {a}
  ELSE IF g.kids[l] = {} THEN FilesOf(g, {l})
  ELSE FilesOf(g, Descendants(g, g.kids[l]))

RecoveryPool(g, a) ==
  LET l == g.via[a] IN
  IF l = None THEN {a} ELSE FilesOf(g, Descendants(g, {l}))

AncestorDirect(g, l) == FilesOf(g, Ancestors(g, l) \ {l})
SiblingFiles(g, l) == FilesOf(g, Siblings(g, l))

\* Files outside the confident pool that may hold a better declaration.
ConfidentExtra(g, a) ==
  LET l == g.via[a] IN
  IF l = None THEN {}
  ELSE (AncestorDirect(g, l) \cup FilesOf(g, {l}) \cup SiblingFiles(g, l))
         \ ConfidentPool(g, a)

\* Mutant of ShouldRetry: files listed beside the anchor's listing do not count.
ShouldRetryAbove(g, a) ==
  LET l == g.via[a]
      extra == Files \ ConfidentPool(g, a)
  IN \/ RecoveryPool(g, a) # ConfidentPool(g, a)
     \/ l # None /\ AncestorDirect(g, l) \cap extra # {}
\* May recovery succeed where the confident policy could not?
ShouldRetry(g, a) ==
  LET l == g.via[a]
      extra == Files \ ConfidentPool(g, a)
  IN \/ RecoveryPool(g, a) # ConfidentPool(g, a)
     \/ /\ l # None
        /\ (AncestorDirect(g, l) \cup SiblingFiles(g, l)) \cap extra # {}

\* What a recovery search adds to the recovery pool.
RecoveryExpand(g, a) ==
  LET l == g.via[a]
      more == RecoveryPool(g, a) \ ConfidentPool(g, a)
  IN IF l # None /\ ShouldRetry(g, a)
     THEN (AncestorDirect(g, l) \cup SiblingFiles(g, l)) \ ConfidentPool(g, a)
     ELSE IF more = {} /\ l = None THEN Files \ ConfidentPool(g, a)
     ELSE more
=============================================================================
