---------------------------- MODULE MCJoinHistory ----------------------------
(* JoinHistory on small instances.                                         *)
EXTENDS JoinHistory, TLC
Symmetry == Permutations(User) \cup Permutations(Session)
=============================================================================
