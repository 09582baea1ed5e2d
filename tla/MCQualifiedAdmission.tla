---------------------- MODULE MCQualifiedAdmission ----------------------
(* Two commands at a time on the store of one environment.                *)
EXTENDS QualifiedAdmission, TLC

Symmetry == Permutations(Procs)
=============================================================================
