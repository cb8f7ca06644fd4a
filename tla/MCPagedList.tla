------------------------------ MODULE MCPagedList ------------------------------
(* PagedList for TLC: three pages of two rows.  The rows that are there at *)
(* the first fetch lie two places apart, so that a place is free before,   *)
(* between and after them, or two of them tie.                             *)
EXTENDS PagedList

MCStart == {<<2, 4, 6, 8>>, <<2, 4, 6, 8, 10>>, <<2, 4, 4, 6, 8>>}

=============================================================================
