-------------------------- MODULE MCDocumentIntake --------------------------
(* Instances of DocumentIntake for TLC. *)
EXTENDS DocumentIntake, TLC

Symmetry == Permutations(Documents) \cup Permutations(Contents) \cup Permutations(Handlers)
=============================================================================
