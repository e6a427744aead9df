----------------------------- MODULE MCPwStore ------------------------------
(* Instances of PwStore for TLC. *)
EXTENDS PwStore, TLC

ThreadSymmetry == Permutations(Threads)
DigestSymmetry == Permutations(Digests)
FileSymmetry == Permutations(Inodes)
Symmetry == ThreadSymmetry \cup FileSymmetry \cup DigestSymmetry
=============================================================================
