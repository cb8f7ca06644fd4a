---------------------------- MODULE MCSubscription ----------------------------
(* Subscription on small instances.                                        *)
EXTENDS Subscription, TLC
Symmetry == Permutations(User) \cup Permutations(Tx) \cup Permutations(Session)
=============================================================================
