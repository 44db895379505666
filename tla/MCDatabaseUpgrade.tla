------------------------- MODULE MCDatabaseUpgrade -------------------------
(* A small instance of DatabaseUpgrade for TLC. *)
EXTENDS DatabaseUpgrade, TLC

CONSTANTS o1, o2, s1, t1

OrderSymmetry == Permutations({o1, o2})
=============================================================================
