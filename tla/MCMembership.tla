----------------------------- MODULE MCMembership -----------------------------
(* Membership on small instances.  Users, portfolios and sessions are      *)
(* model values the handlers only compare for equality, so permuting them  *)
(* maps behaviours to behaviours.                                          *)
EXTENDS Membership, TLC
Symmetry == Permutations(User) \cup Permutations(Portfolio)
            \cup Permutations(Session)
=============================================================================
