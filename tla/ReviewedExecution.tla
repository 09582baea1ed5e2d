------------------------- MODULE ReviewedExecution -------------------------
(***************************************************************************)
(* What the execution of a reviewed plan promises to the operator who      *)
(* approved it (execute.go): the changes of the plan, each at most once,   *)
(* in plan order, each made only to what was reviewed, and acceptance at   *)
(* the end.  Everything else may be changed by others at any time.         *)
(***************************************************************************)
EXTENDS Integers

VARIABLES
    changes,    \* per resource: whether the plan changes it
    effects,    \* per resource: how often the plan's change took effect
    intact,     \* resources that are exactly as reviewed
    accepted    \* the execution is accepted

Init ==
    /\ changes \in [DOMAIN changes -> BOOLEAN]
    /\ effects = [i \in DOMAIN changes |-> 0]
    /\ intact = DOMAIN changes
    /\ accepted = FALSE

\* The plan's change of resource i takes effect.
Effect(i) ==
    /\ ~accepted /\ changes[i] /\ effects[i] = 0
    /\ i \in intact
    /\ \A j \in DOMAIN changes : j < i /\ changes[j] => effects[j] = 1
    /\ effects' = [effects EXCEPT ![i] = 1]
    /\ intact' = intact \ {i}
    /\ UNCHANGED <<changes, accepted>>

\* Somebody else changes, restores or replaces resources.
Drift ==
    /\ intact' \in SUBSET DOMAIN changes
    /\ UNCHANGED <<changes, effects, accepted>>

Accept ==
    /\ \A i \in DOMAIN changes : changes[i] => effects[i] = 1
    /\ accepted' = TRUE
    /\ UNCHANGED <<changes, effects, intact>>

Next == (\E i \in DOMAIN changes : Effect(i)) \/ Drift \/ Accept

Spec == Init /\ [][Next]_<<changes, effects, intact, accepted>>
=============================================================================
