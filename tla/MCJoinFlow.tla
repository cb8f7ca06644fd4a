------------------------------ MODULE MCJoinFlow ------------------------------
(* JoinFlow on small instances; requests are interchangeable.              *)
EXTENDS JoinFlow, TLC
Symmetry == Permutations(Attempt) \cup Permutations(Tx)
=============================================================================
