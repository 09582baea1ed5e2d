--------------------------- MODULE MCCoreRecovery ---------------------------
(* One application and one offline workload, two data components.           *)
EXTENDS CoreRecovery
=============================================================================
