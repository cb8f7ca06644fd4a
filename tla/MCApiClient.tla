----------------------------- MODULE MCApiClient -----------------------------
(* ApiClient on small instances; pairs are ordered and are not permuted.   *)
EXTENDS ApiClient, TLC
Symmetry == Permutations(Call)
=============================================================================
