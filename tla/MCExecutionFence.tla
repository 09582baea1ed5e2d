-------------------------- MODULE MCExecutionFence --------------------------
(* Instances of ExecutionFence: two hosts, one of which runs an execution and *)
(* a reconciliation at the same time, and a single host that does.           *)
EXTENDS ExecutionFence, TLC

CONSTANTS c1, c2, c3, s1, s2

\* c1 and c3 work on the store of one host, c2 on that of the other.
HomeByHost == c1 :> s1 @@ c2 :> s2 @@ c3 :> s1

\* Both controllers work on the store of one host.
HomeShared == c1 :> s1 @@ c3 :> s1
=============================================================================
