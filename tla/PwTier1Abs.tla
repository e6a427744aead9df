----------------------------- MODULE PwTier1Abs -----------------------------
(***************************************************************************)
(* What tier 1 promises a single-threaded walk, with no cache in sight: a  *)
(* define environment that only grows, one source at a time, and for each  *)
(* file at most one scan in a run, which is the scan of the file under the *)
(* environment of the moment.  A result that came out of a sidecar written *)
(* under some other environment, or out of a stale text, is no behaviour   *)
(* of this specification.                                                  *)
(***************************************************************************)
EXTENDS Naturals, Sequences

CONSTANT Files

VARIABLES
  defines,  \* the sources whose `define lines hold, in the order they were applied
  scans     \* the validated scans of this run

Init == defines = <<>> /\ scans = {}

\* The `define lines of f are applied.
Apply(f) == defines' = Append(defines, f) /\ UNCHANGED scans

\* The validated scan of f is recorded.
Record(f) ==
  /\ \A s \in scans : s.file # f
  /\ scans' = scans \cup {[file |-> f, made |-> defines]}
  /\ UNCHANGED defines

\* A new run starts from the filelist's own defines and no results.
Restart == defines' = <<>> /\ scans' = {}

Next == (\E f \in Files : Apply(f) \/ Record(f)) \/ Restart

Spec == Init /\ [][Next]_<<defines, scans>>
=============================================================================
