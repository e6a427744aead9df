----------------------------- MODULE MCConnText -----------------------------
(* Instances of ConnText: two bits of a bus and a port assigned one of them, *)
(* each of which may be checked against one other port.                      *)
EXTENDS ConnText, TLC

BusEnds == {"a[0]", "a[1]", "b", "c"}
BusCoarse == [e \in BusEnds |-> IF e \in {"b", "c"} THEN e ELSE "a"]

Lo == <<"b", "a[0]">>
Hi == <<"b", "a[1]">>
By == <<"b", "c">>

\* The declarations tell the ports apart, or name the bus for each of the three.
Bits == [e \in BusEnds |-> e]
Bus == [e \in BusEnds |-> IF e = "b" THEN "b" ELSE "a[0]"]

\* b and c always exist and are shown; the bits are found or not, shown or not.
Kept == {f \in SUBSET BusEnds : {"b", "c"} \subseteq f}
BusDesigns ==
  {d \in [found : Kept, shown : Kept, joined : {{Lo}, {Hi, By}, {Lo, Hi, By}},
          hides : BOOLEAN, rep : {Bits, Bus}] :
     d.shown \subseteq d.found}

Batch == <<<<Lo>>, <<Lo, Hi>>, <<Hi>>, <<By>>>>
Gatings == {<<"fallback", "fallback", "fallback", "fallback">>,
            <<"pass", "fallback", "fallback", "reject">>,
            <<"pass", "pass", "pass", "fallback">>}
Ask(checks, gates, trace, pipeline) ==
  [checks |-> checks, gates |-> gates, trace |-> trace, pipeline |-> pipeline]

\* Batches of four checks run in parallel, those of two or in the pipeline do not.
BusRequests == {Ask(Batch, g, FALSE, p) : g \in Gatings, p \in BOOLEAN}
               \cup {Ask(Batch, g, TRUE, TRUE) : g \in Gatings}
               \cup {Ask(<<<<Lo>>, <<Hi, By>>>>, <<"pass", "pass">>, FALSE, FALSE)}
OneCheck == {Ask(<<<<Lo>>>>, <<"pass">>, FALSE, TRUE)}

AnyWorker == Permutations(Workers)
=============================================================================
