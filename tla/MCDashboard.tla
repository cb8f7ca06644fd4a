----------------------------- MODULE MCDashboard -----------------------------
(* Dashboard for TLC: two events; they are interchangeable.              *)
EXTENDS Dashboard, TLC

CONSTANTS e1, e2
MCEvent == {e1, e2}
Symmetry == Permutations(MCEvent)

=============================================================================
