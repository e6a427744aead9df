----------------------------- MODULE MCPwTier1 -----------------------------
(* Instances of PwTier1 for TLC. *)
EXTENDS PwTier1

\* A flat filelist: every source may define macros for every other.
FlatChain == [f \in Files |-> Files]

\* Two sibling listings, {1, 2} and {3}: neither is an ancestor of the other.
SiblingChain == [f \in Files |-> IF f = N THEN {N} ELSE 1 .. N - 1]
=============================================================================
