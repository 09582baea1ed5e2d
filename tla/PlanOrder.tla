----------------------------- MODULE PlanOrder -----------------------------
(***************************************************************************)
(* The order of a compiled plan: the last part of Compile in               *)
(* internal/deploymentplan/plan.go.  It sorts the resources by stage and   *)
(* ID and then repeatedly moves the first one of the current stage whose   *)
(* dependencies are already placed.                                        *)
(*                                                                         *)
(* Resource IDs are unique; they are numbered here by their string order.  *)
(* The slice `remaining` is sorted and only loses elements, so it is kept  *)
(* as a set: its first element is the least by stage and then by ID.       *)
(* PlanJournal executes a plan in this order, and assumes of it what       *)
(* StageOrder and DependenciesFirst say.                                   *)
(***************************************************************************)
EXTENDS Integers, Sequences, FiniteSets

CONSTANTS
    Size,           \* number of resources
    Stages          \* phases[...]: the ranks of the deployment phases

ASSUME OrderAssumption ==
    /\ Size \in Nat \ {0}
    /\ Stages \subseteq Nat

IDs == 1..Size

\* The ID of a dependency that no definition declares.
Undeclared == 0

VARIABLES
    phase,          \* per resource: the rank of its phase (an input)
    deps,           \* per resource: its Dependencies (an input)
    remaining,      \* resources not yet placed
    ordered,        \* the order so far
    result          \* "compiling", "ordered" or "blocked"

vars == <<phase, deps, remaining, ordered, result>>

Init ==
    /\ phase \in [IDs -> Stages]
    /\ deps \in [IDs -> SUBSET (IDs \cup {Undeclared})]
    /\ remaining = IDs
    /\ ordered = <<>>
    /\ result = "compiling"

\* completed[...]
Placed == IDs \ remaining

\* The resources in the stage of remaining[0].
Stage == {r \in remaining : \A q \in remaining : phase[r] <= phase[q]}

\* Mutant of Candidates: a dependency in the current stage is never satisfied.
Candidates_EarlierStage ==
    {r \in Stage : deps[r] \subseteq {q \in Placed : phase[q] < phase[r]}}

\* Those whose dependencies are all placed.
Candidates == {r \in Stage : deps[r] \subseteq Placed}

\* Mutant of Select: the last candidate is moved.
Select_Last ==
    /\ result = "compiling"
    /\ \E r \in Candidates :
          /\ \A q \in Candidates : q <= r
          /\ ordered' = Append(ordered, r)
          /\ remaining' = remaining \ {r}
    /\ UNCHANGED <<phase, deps, result>>

\* Mutant of Select: the resource stays in the slice.
Select_Keeps ==
    /\ result = "compiling"
    /\ \E r \in Candidates :
          /\ \A q \in Candidates : r <= q
          /\ ordered' = Append(ordered, r)
          /\ remaining' = remaining
    /\ UNCHANGED <<phase, deps, result>>

\* Move the first of them to the end of the order.
Select ==
    /\ result = "compiling"
    /\ \E r \in Candidates :
          /\ \A q \in Candidates : r <= q
          /\ ordered' = Append(ordered, r)
          /\ remaining' = remaining \ {r}
    /\ UNCHANGED <<phase, deps, result>>

\* "dependency is absent, cyclic or in a later stage"
Block ==
    /\ result = "compiling"
    /\ remaining # {}
    /\ Candidates = {}
    /\ result' = "blocked"
    /\ UNCHANGED <<phase, deps, remaining, ordered>>

Finish ==
    /\ result = "compiling"
    /\ remaining = {}
    /\ result' = "ordered"
    /\ UNCHANGED <<phase, deps, remaining, ordered>>

\* Compile has returned.
Returned == result # "compiling" /\ UNCHANGED vars

Next == Select \/ Block \/ Finish \/ Returned

Spec == Init /\ [][Next]_vars /\ WF_vars(Next)

-----------------------------------------------------------------------------
(* Properties                                                               *)

\* The sort's variables are well typed, and no more is placed than there is.
TypeOK ==
    /\ phase \in [IDs -> Stages]
    /\ deps \in [IDs -> SUBSET (IDs \cup {Undeclared})]
    /\ remaining \in SUBSET IDs
    /\ ordered \in Seq(IDs)
    /\ Len(ordered) <= Size
    /\ result \in {"compiling", "ordered", "blocked"}

\* The order never returns to an earlier stage: the phases of a plan are
\* contiguous, as its stage fences and readiness blocks need.
StageOrder ==
    \A i, j \in 1..Len(ordered) :
        i <= j => phase[ordered[i]] <= phase[ordered[j]]

\* Every resource comes after everything it depends on.
DependenciesFirst ==
    \A i \in 1..Len(ordered) : \A d \in deps[ordered[i]] :
        \E j \in 1..(i - 1) : ordered[j] = d

\* All ways to place every resource once.
Orders ==
    {f \in [1..Size -> IDs] :
        /\ \A i, j \in 1..Size : f[i] = f[j] => i = j
        /\ \A r \in IDs : \E i \in 1..Size : f[i] = r}

\* The orders that respect stages and dependencies: what the compiler may
\* produce at all.
Legal(f) ==
    /\ \A i, j \in 1..Size : i <= j => phase[f[i]] <= phase[f[j]]
    /\ \A i \in 1..Size : \A d \in deps[f[i]] : \E j \in 1..(i - 1) : f[j] = d

\* A plan is refused only if no order at all would do: "dependency is absent,
\* cyclic or in a later stage".
BlockedOnlyIfImpossible ==
    result = "blocked" => \A f \in Orders : ~Legal(f)

\* "Deterministic topological ordering": the compiled order is a legal order of
\* all resources, and the least one by ID.  So the plan, and the digest that is
\* reviewed, do not depend on the order in which components are rendered.
CanonicalOrder ==
    result = "ordered" =>
        /\ ordered \in Orders /\ Legal(ordered)
        /\ \A f \in Orders : Legal(f) =>
              \A k \in 1..Size :
                 (\A i \in 1..(k - 1) : f[i] = ordered[i]) => ordered[k] <= f[k]
=============================================================================
