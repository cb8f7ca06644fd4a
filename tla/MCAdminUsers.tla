----------------------------- MODULE MCAdminUsers -----------------------------
(* AdminUsers for TLC: two users, and a text that takes two values.      *)
EXTENDS AdminUsers

MCUser == {"ann", "ben"}
MCText == {"x", "y"}

=============================================================================
