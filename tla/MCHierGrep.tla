---------------------------- MODULE MCHierGrep ----------------------------
(* A top and three modules in three sources, each with two or three texts: *)
(* alternatives of one instance, nested blocks, blocks of one label beside *)
(* and within others, a block and a net whose name suggests a module, a    *)
(* stub, a module declared twice, and a name that is an instance in one    *)
(* text and a net in another.                                              *)
EXTENDS HierGrep

CONSTANTS mtop, mmid, mlow, mlib, iu, umid, ix, iy, iz, ga, gb, ilib, np, nw, nt

I(n, m, at) == [kind |-> "inst", name |-> n, cell |-> m, scope |-> at]
V(k, n, at) == [kind |-> k, name |-> n, cell |-> Nothing, scope |-> at]

B(n, k) == [label |-> n, pos |-> k]

\* Of the first: if .. ga with a gb inside, else .. ga, and a gb of the module's own.
A1 == <<B(ga, 1)>>
A2 == <<B(ga, 3)>>
Tops == {
  mtop :> {I(iu, mmid, <<>>), V("port", np, <<>>), V("signal", umid, <<>>),
           V("signal", nw, A1), I(iy, mlow, A1), I(ix, mlow, A1 \o <<B(gb, 2)>>),
           I(iy, mmid, A2), I(iz, mlow, A2), I(iy, mlow, <<B(gb, 4)>>)},
  mtop :> {I(iu, mmid, <<>>), I(iu, mlow, <<>>), I(ix, mlow, <<B(umid, 1)>>), V("port", np, <<>>),
           I(ilib, mlib, <<>>), V("typed", nt, <<>>)}}
Low == mlow :> {V("port", np, <<>>), V("signal", nw, <<>>), V("signal", ilib, <<>>)}
Mids == {Low @@ mmid :> {I(ix, mlow, <<>>), V("port", np, <<>>), V("signal", umid, <<>>)}, Low,
         [m \in {mmid, mlow} |-> {I(ilib, mlib, <<>>)}] @@ mlib :> {V("port", np, <<>>)}}
Twins == {mmid :> {}, mmid :> {I(iy, mlow, <<>>), V("port", np, <<>>), V("signal", umid, <<>>)}, <<>>}
MCContents == 1 :> Tops @@ 2 :> Mids @@ 3 :> Twins
MCFilelists == {{1, 2}, {1, 2, 3}}
MCInferred == [n \in Name |-> IF n = umid THEN mmid ELSE Nothing]
MCChecks ==
  {<<e, f>> :
     e \in {<<iu, ix, np>>, <<iu, np>>, <<iu>>, <<umid, ix, np>>, <<umid>>, <<iu, umid>>,
            <<ga, gb, ix, nw>>, <<ga, nw>>, <<ga, np>>, <<ga, iy, np>>, <<ga, iz>>, <<gb, ix>>, <<gb, iy>>,
            <<ilib>>, <<iu, ilib>>, <<nt>>, <<>>},
     f \in {<<iu, iy, nw>>, <<np>>}}
=============================================================================
