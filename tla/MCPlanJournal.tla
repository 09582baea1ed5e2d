--------------------------- MODULE MCPlanJournal ---------------------------
(***************************************************************************)
(* Small plans for PlanJournal.                                            *)
(***************************************************************************)
EXTENDS PlanJournal, TLC

Symmetry == Permutations(Procs)

\* A claim, a workload that gets ready only after its peer exists, that peer,
\* which uses the claim, and a retirement.
Rollout ==
    [action |-> <<"create", "update", "create", "retire">>,
     kind |-> <<"claim", "workload", "workload", "config">>,
     phase |-> <<"storage", "workload", "workload", "retirement">>,
     deps |-> <<{}, {}, {1}, {}>>, prereq |-> <<{}, {3}, {}, {}>>, resumable |-> TRUE]

\* The same with delayed-binding storage: the claim binds after its consumer.
Delayed == [Rollout EXCEPT !.prereq = <<{3}, {3}, {}, {}>>]

\* A retained workload that an updated one explicitly depends on, after a
\* migration Job.
Upgrade ==
    [action |-> <<"create", "retain", "update">>,
     kind |-> <<"job", "workload", "workload">>,
     phase |-> <<"migration", "workload", "workload">>,
     deps |-> <<{}, {}, {2}>>, prereq |-> <<{}, {}, {}>>, resumable |-> FALSE]

\* A replaced workload: one created, one retired.
Swap ==
    [action |-> <<"create", "retire">>, kind |-> <<"workload", "workload">>,
     phase |-> <<"workload", "retirement">>,
     deps |-> <<{}, {}>>, prereq |-> <<{}, {}>>, resumable |-> TRUE]

\* Nothing to change.
Retain ==
    [action |-> <<"retain", "retain">>, kind |-> <<"claim", "config">>,
     phase |-> <<"storage", "configuration">>,
     deps |-> <<{}, {}>>, prereq |-> <<{}, {}>>, resumable |-> FALSE]

\* One retained claim, in a child of `deployment create`.
RetainChild ==
    [action |-> <<"retain">>, kind |-> <<"claim">>, phase |-> <<"storage">>,
     deps |-> <<{}>>, prereq |-> <<{}>>, resumable |-> TRUE]

\* One Pod, whose acceptance may be resumed.
Pod ==
    [action |-> <<"create">>, kind |-> <<"pod">>, phase |-> <<"workload">>,
     deps |-> <<{}>>, prereq |-> <<{}>>, resumable |-> TRUE]

RolloutPlans == {Rollout}
DelayedPlans == {Delayed}
AttemptPlans == {Upgrade, Swap, Retain, RetainChild, Pod}
=============================================================================
