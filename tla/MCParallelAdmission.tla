------------------------ MODULE MCParallelAdmission ------------------------
(* Model checking of ParallelAdmission: more resources than workers, so that *)
(* both channels fill up.                                                   *)
EXTENDS ParallelAdmission
=============================================================================
