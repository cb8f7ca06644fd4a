----------------------------- MODULE MCAuthTokens -----------------------------
(* AuthTokens on small instances: every constant set holds identities that *)
(* are only compared, so permuting them maps behaviours to behaviours.     *)
EXTENDS AuthTokens, TLC
Symmetry == Permutations(User) \cup Permutations(Token)
            \cup Permutations(Code) \cup Permutations(Session)
=============================================================================
