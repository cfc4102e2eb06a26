--------------------------- MODULE MCMailedLinks ---------------------------
(* Small instance of MailedLinks. *)
EXTENDS MailedLinks, TLC
Symmetry == Permutations(Workers) \cup Permutations(Addresses)
=============================================================================
