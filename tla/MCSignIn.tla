------------------------------ MODULE MCSignIn ------------------------------
(* SignIn for TLC: two people on one device, two handlers at a time; both  *)
(* are interchangeable.                                                    *)
EXTENDS SignIn, TLC

CONSTANTS a1, a2, s1, s2
MCAccount == {a1, a2}
MCSlot == {s1, s2}
Symmetry == Permutations(MCAccount) \cup Permutations(MCSlot)

=============================================================================
