---------------------------- MODULE MCAdminGuard ----------------------------
(* Instances of AdminGuard for TLC. *)
EXTENDS AdminGuard, TLC

Symmetry == Permutations(Users) \cup Permutations(Workers)

=============================================================================
