------------------------------ MODULE MCPwWalk ------------------------------
(* Instances of PwWalk: a top with two instances p and q of one module, which *)
(* instantiates a and b; a instantiates x and y, b instantiates z.             *)
EXTENDS PwWalk

TwinPaths == {<<>>, <<"p">>, <<"q">>, <<"p", "a">>, <<"q", "a">>, <<"p", "b">>,
              <<"q", "b">>, <<"p", "a", "x">>, <<"q", "a", "x">>,
              <<"p", "a", "y">>, <<"q", "b", "z">>}
ModuleOf ==
  [p |-> "P", q |-> "P", a |-> "M", b |-> "N", x |-> "L", y |-> "L", z |-> "L"]
TwinOf == [p \in TwinPaths |-> IF p = <<>> THEN "T" ELSE ModuleOf[Last(p)]]

TopEdges == {<<"T", "p">>, <<"T", "q">>}
BodyEdges == {<<"P", "a">>, <<"P", "b">>, <<"M", "x">>}
BodyLoads == {<<"P", "M">>, <<"P", "N">>, <<"M", "L">>}

\* should_retry_deferred_recovery holds wherever the recovery policy finds more; of
\* the edges of P, only a is found by the confident policy without being indexed.
AllDesigns ==
  {[indexed |-> TopEdges \cup {e \in BodyEdges : tier[e] = "indexed"},
    confident |-> {e \in BodyEdges : tier[e] = "confident"} \cup {<<"M", "y">>},
    late |-> {e \in BodyEdges : tier[e] = "late"},
    loads |-> {<<"T", "P">>} \cup {l \in BodyLoads : load[l] = "confident"},
    lateLoads |-> {l \in BodyLoads : load[l] = "late"},
    retry |-> retry] :
      tier \in {f \in [BodyEdges -> {"indexed", "confident", "late", "never"}] :
                 f[<<"P", "b">>] # "confident"},
      load \in [BodyLoads -> {"confident", "late", "never"}],
      retry \in SUBSET {"P", "M"}}
\* p.b and q.b miss one module, y is nowhere, and z is first reached after the drain.
Stalling ==
  [indexed |-> TopEdges \cup {<<"P", "a">>, <<"P", "b">>}, confident |-> {},
   late |-> {<<"M", "x">>, <<"N", "z">>},
   loads |-> {<<"T", "P">>, <<"P", "M">>, <<"M", "L">>, <<"N", "L">>},
   lateLoads |-> {<<"P", "N">>}, retry |-> {"P", "M", "N"}]
GatedDesigns ==
  {Stalling} \cup
  {d \in AllDesigns : \A x \in d.late \cup d.lateLoads : x[1] \in d.retry}

Ask(checks, roots, connect) == [checks |-> checks, roots |-> roots, connect |-> connect]
TwoChecks == Ask(<<{<<"p", "a", "x">>, <<"q", "a", "x">>}, {<<"q", "b">>}>>, {}, TRUE)
Fork == Ask(<<{<<"p", "a">>, <<"p", "a", "x">>, <<"p", "a", "y">>}>>, {}, TRUE)
TwinsAsked == <<{<<"p", "a", "x">>, <<"q", "a", "x">>, <<"p", "b">>}>>
Stall == Ask(<<{<<"p", "a", "y">>}, {<<"p", "b">>, <<"q", "b", "z">>, <<"q", "a", "x">>}>>,
             {}, TRUE)
Indexed == Ask(TwinsAsked, {<<"p">>}, FALSE)

AllRequests == {TwoChecks, Fork, Stall, Indexed}
TwinRequest == {Ask(TwinsAsked, {}, FALSE)}
=============================================================================
