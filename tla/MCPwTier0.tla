----------------------------- MODULE MCPwTier0 -----------------------------
(* Five files in five filelist graphs: a root with two children, a chain of *)
(* three listings, a flat list with a file of no listing, a listing whose   *)
(* only child lists nothing, and two listings beside each other under a     *)
(* root that lists no file; the fifth file is in no listing and empty.  In  *)
(* one more design two listings stand apart.  p is the top and instantiates *)
(* q.                                                                       *)
EXTENDS PwTier0

CONSTANTS fa, fb, fc, fd, fe, root, left, right, p, q
MCFiles == {fa, fb, fc, fd, fe}
MCListings == {root, left, right}
MCMods == {p, q}
MCChild == [m \in MCMods |-> IF m = p THEN q ELSE None]

Tree(kr, kl, ki, v, top) ==
  [kids |-> [n \in MCListings |-> IF n = root THEN kr ELSE IF n = left THEN kl ELSE ki],
   via |-> v, root |-> top]
Via(va, vb, vc, vd, ve) ==
  [f \in MCFiles |-> IF f = fa THEN va ELSE IF f = fb THEN vb ELSE IF f = fc THEN vc ELSE IF f = fd THEN vd ELSE ve]
Trees ==
  {Tree({left, right}, {}, {}, Via(root, left, right, left, None), root),
   Tree({left}, {right}, {}, Via(root, left, right, right, None), None),
   Tree({}, {}, {}, Via(root, root, root, None, None), None),
   Tree({left}, {right}, {}, Via(root, left, root, None, None), root),
   Tree({left, right}, {}, {}, Via(left, right, right, left, None), root)}

\* What a file holds.
None0 == [decl |-> {}, real |-> {}, inst |-> {}]
Parent == [decl |-> {p}, real |-> {p}, inst |-> {p}]
Stub == [decl |-> {p}, real |-> {p}, inst |-> {}]
Leaf == [decl |-> {q}, real |-> {q}, inst |-> {}]
Ghost == [decl |-> {q}, real |-> {}, inst |-> {}]
Contents ==
  {Via(Parent, Leaf, None0, None0, None0), Via(Stub, Parent, None0, Leaf, None0),
   Via(Stub, Ghost, Leaf, Parent, None0), Via(Parent, Ghost, None0, Leaf, None0),
   Via(Parent, Ghost, Ghost, Ghost, None0)}

Made(t, h) ==
  [tree |-> t, decl |-> [f \in MCFiles |-> h[f].decl],
   real |-> [f \in MCFiles |-> h[f].real], inst |-> [f \in MCFiles |-> h[f].inst]]
\* The top's name stands in a file that does not hold it, apart from the one
\* that does.
Apart == Made(Tree({}, {}, {}, Via(root, left, left, left, left), root),
              Via([None0 EXCEPT !.decl = {p}], None0, Leaf, Parent, None0))
MCDesigns == {Made(t, h) : t \in Trees, h \in Contents} \cup {Apart}
=============================================================================
