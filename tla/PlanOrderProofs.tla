-------------------------- MODULE PlanOrderProofs --------------------------
(***************************************************************************)
(* Proofs about PlanOrder, for every number of resources and every choice  *)
(* of stages and dependencies: the compiled order is the least legal one,  *)
(* and a plan is refused only when no legal order exists.                  *)
(***************************************************************************)
EXTENDS PlanOrder, FiniteSetTheorems, WellFoundedInduction, TLAPS

\* Every nonempty set of naturals has a least element: the first candidate of
\* the scan, the stage of remaining[0].
LEMMA LeastExists ==
    ASSUME NEW S, S \subseteq Nat, S # {}
    PROVE  \E m \in S : \A j \in S : m <= j
<1>1. PICK m \in S : \A j \in S : ~(<<j, m>> \in OpToRel(<, Nat))
    BY NatLessThanWellFounded, WFMin, Zenon
<1>2. ASSUME NEW j \in S PROVE m <= j
    <2>1. SUFFICES ASSUME j < m PROVE FALSE
        OBVIOUS
    <2>2. <<j, m>> \in OpToRel(<, Nat)
        BY <2>1 DEF OpToRel
    <2> QED BY <2>2, <1>1
<1> QED BY <1>2

-----------------------------------------------------------------------------
\* The placed resources are exactly the elements of the order, each once.
Coverage ==
    /\ \A r \in IDs : r \in Placed <=> \E i \in 1..Len(ordered) : ordered[i] = r
    /\ \A i, j \in 1..Len(ordered) : ordered[i] = ordered[j] => i = j

\* The order and the slice together hold as many resources as the plan.
Count ==
    /\ IsFiniteSet(remaining)
    /\ Cardinality(remaining) = Size - Len(ordered)

\* No resource that is left belongs before one that is placed.
StageBelow ==
    \A i \in 1..Len(ordered) : \A r \in remaining :
        phase[ordered[i]] <= phase[r]

\* Each choice was the least of what could come next, of all resources not
\* placed before it.
Greedy ==
    \A k \in 1..Len(ordered) : \A r \in IDs :
        /\ \A i \in 1..(k - 1) : ordered[i] # r
        /\ \A d \in deps[r] : \E j \in 1..(k - 1) : ordered[j] = d
        /\ phase[r] <= phase[ordered[k]]
        => ordered[k] <= r

\* What the two results say about the slice.
Outcome ==
    /\ result = "ordered" => remaining = {}
    /\ result = "blocked" => remaining # {} /\ Candidates = {}

Inv ==
    /\ TypeOK
    /\ Coverage
    /\ Count
    /\ StageBelow
    /\ StageOrder
    /\ DependenciesFirst
    /\ Greedy
    /\ Outcome

\* The invariant holds before the first choice.
LEMMA InitInv == Init => Inv
<1> SUFFICES ASSUME Init PROVE Inv
    OBVIOUS
<1>1. TypeOK /\ ordered = <<>> /\ Len(ordered) = 0 /\ remaining = IDs
    BY OrderAssumption DEF Init, TypeOK
<1>2. Coverage /\ StageBelow /\ StageOrder /\ DependenciesFirst /\ Greedy
    BY <1>1 DEF Coverage, StageBelow, StageOrder, DependenciesFirst, Greedy, Placed
<1>3. Count
    BY <1>1, FS_Interval, OrderAssumption DEF Count, IDs
<1>4. Outcome
    BY DEF Init, Outcome
<1> QED BY <1>1, <1>2, <1>3, <1>4 DEF Inv

\* Moving the first candidate preserves the invariant.
LEMMA SelectInv == Inv /\ Select => Inv'
<1> SUFFICES ASSUME Inv, Select PROVE Inv'
    OBVIOUS
<1>1. PICK r \in Candidates :
          /\ \A q \in Candidates : r <= q
          /\ ordered' = Append(ordered, r)
          /\ remaining' = remaining \ {r}
    BY DEF Select
<1>2. /\ r \in remaining /\ r \in IDs /\ r \in Nat
      /\ \A q \in remaining : phase[r] <= phase[q]
      /\ deps[r] \subseteq Placed
    BY DEF Candidates, Stage, Inv, TypeOK, IDs
<1>3. UNCHANGED <<phase, deps, result>> /\ result = "compiling"
    BY DEF Select
<1> DEFINE n == Len(ordered)
<1>4. /\ ordered \in Seq(IDs) /\ n \in Nat /\ Len(ordered') = n + 1
      /\ \A i \in 1..n : ordered'[i] = ordered[i] /\ ordered[i] \in IDs
      /\ ordered'[n + 1] = r
    BY <1>1, <1>2 DEF Inv, TypeOK
<1>5. 1..(n + 1) = (1..n) \cup {n + 1} /\ n + 1 \notin 1..n
    BY <1>4
<1>6. \A q \in IDs : q \in Placed <=> \E i \in 1..n : ordered[i] = q
    BY DEF Inv, Coverage
<1>7. \A q \in IDs : q \in Placed' <=> q \in Placed \/ q = r
    BY <1>1, <1>2 DEF Placed
<1>8. Count'
    <2>1. /\ IsFiniteSet(remaining \ {r})
          /\ Cardinality(remaining \ {r}) = Cardinality(remaining) - 1
        BY <1>2, FS_RemoveElement DEF Inv, Count
    <2> QED BY <2>1, <1>1, <1>4, OrderAssumption DEF Inv, Count
<1>9. TypeOK'
    <2>1. Cardinality(remaining') \in Nat
        BY <1>8, FS_CardinalityType DEF Count
    <2>2. Len(ordered') <= Size
        BY <2>1, <1>8, <1>4, OrderAssumption DEF Count
    <2>3. remaining' \in SUBSET IDs /\ ordered' \in Seq(IDs)
        BY <1>1, <1>2, <1>4 DEF Inv, TypeOK
    <2> QED BY <2>2, <2>3, <1>3 DEF Inv, TypeOK
<1>10. Coverage'
    <2>1. ASSUME NEW q \in IDs
          PROVE  q \in Placed' <=> \E i \in 1..Len(ordered') : ordered'[i] = q
        BY <1>4, <1>5, <1>6, <1>7
    <2>2. \A i \in 1..n : ordered[i] # r
        BY <1>2, <1>6 DEF Placed
    <2>3. \A i, j \in 1..Len(ordered') : ordered'[i] = ordered'[j] => i = j
        BY <2>2, <1>4, <1>5 DEF Inv, Coverage
    <2> QED BY <2>1, <2>3 DEF Coverage
<1>11. StageBelow'
    <2>1. SUFFICES ASSUME NEW i \in 1..(n + 1), NEW q \in remaining'
                   PROVE  phase[ordered'[i]] <= phase[q]
        BY <1>3, <1>4 DEF StageBelow
    <2>2. q \in remaining
        BY <1>1
    <2>3. CASE i \in 1..n
        BY <2>2, <2>3, <1>4 DEF Inv, StageBelow
    <2>4. CASE i = n + 1
        BY <2>2, <2>4, <1>4, <1>2
    <2> QED BY <2>3, <2>4, <1>5
<1>12. StageOrder'
    <2>1. SUFFICES ASSUME NEW i \in 1..(n + 1), NEW j \in 1..(n + 1), i <= j
                   PROVE  phase[ordered'[i]] <= phase[ordered'[j]]
        BY <1>3, <1>4 DEF StageOrder
    <2>2. CASE j \in 1..n
        <3>1. i \in 1..n
            BY <2>1, <2>2, <1>4
        <3> QED BY <3>1, <2>1, <2>2, <1>4 DEF Inv, StageOrder
    <2>3. CASE j = n + 1 /\ i \in 1..n
        BY <2>3, <1>4, <1>2 DEF Inv, StageBelow
    <2>4. CASE j = n + 1 /\ i = n + 1
        <3>1. phase[r] \in Nat
            BY <1>2, OrderAssumption DEF Inv, TypeOK
        <3> QED BY <2>4, <3>1, <1>4
    <2> QED BY <2>2, <2>3, <2>4, <1>5
<1>13. DependenciesFirst'
    <2>1. SUFFICES ASSUME NEW i \in 1..(n + 1), NEW d \in deps[ordered'[i]]
                   PROVE  \E j \in 1..(i - 1) : ordered'[j] = d
        BY <1>3, <1>4 DEF DependenciesFirst
    <2>2. CASE i \in 1..n
        <3>1. PICK j \in 1..(i - 1) : ordered[j] = d
            BY <2>1, <2>2, <1>4 DEF Inv, DependenciesFirst
        <3>2. j \in 1..n
            BY <2>2, <1>4
        <3> QED BY <3>1, <3>2, <1>4
    <2>3. CASE i = n + 1
        <3>1. d \in Placed /\ d \in IDs
            BY <2>1, <2>3, <1>4, <1>2 DEF Placed
        <3>2. PICK j \in 1..n : ordered[j] = d
            BY <3>1, <1>6
        <3> QED BY <3>2, <2>3, <1>4
    <2> QED BY <2>2, <2>3, <1>5
<1>14. Greedy'
    <2>1. SUFFICES ASSUME NEW k \in 1..(n + 1), NEW q \in IDs,
                          \A i \in 1..(k - 1) : ordered'[i] # q,
                          \A d \in deps[q] : \E j \in 1..(k - 1) : ordered'[j] = d,
                          phase[q] <= phase[ordered'[k]]
                   PROVE  ordered'[k] <= q
        BY <1>3, <1>4 DEF Greedy
    <2>2. \A i \in 1..(k - 1) : i \in 1..n
        BY <1>4
    <2>3. CASE k \in 1..n
        BY <2>1, <2>2, <2>3, <1>4 DEF Inv, Greedy
    <2>4. CASE k = n + 1
        <3>1. \A i \in 1..n : ordered[i] # q
            BY <2>1, <2>4, <1>4
        <3>2. q \in remaining
            BY <3>1, <1>6 DEF Placed
        <3>3. q \in Stage
            <4>1. ASSUME NEW p \in remaining PROVE phase[q] <= phase[p]
                <5>1. phase[q] <= phase[r] /\ phase[r] <= phase[p]
                    BY <2>1, <2>4, <1>4, <1>2
                <5>2. phase[q] \in Nat /\ phase[r] \in Nat /\ phase[p] \in Nat
                    BY <1>2, OrderAssumption DEF Inv, TypeOK
                <5> QED BY <5>1, <5>2
            <4> QED BY <4>1, <3>2 DEF Stage
        <3>4. deps[q] \subseteq Placed
            <4>1. SUFFICES ASSUME NEW d \in deps[q] PROVE d \in Placed
                OBVIOUS
            <4>2. PICK j \in 1..n : ordered'[j] = d
                BY <2>1, <2>4, <1>4
            <4>3. ordered[j] = d /\ d \in IDs
                BY <4>2, <1>4
            <4> QED BY <4>3, <1>6
        <3>5. q \in Candidates
            BY <3>3, <3>4 DEF Candidates
        <3> QED BY <3>5, <2>4, <1>1, <1>4
    <2> QED BY <2>3, <2>4, <1>5
<1>15. Outcome'
    BY <1>3 DEF Outcome
<1> QED BY <1>8, <1>9, <1>10, <1>11, <1>12, <1>13, <1>14, <1>15 DEF Inv

\* Every step preserves the invariant; only Select moves a resource.
LEMMA NextInv == Inv /\ [Next]_vars => Inv'
<1> SUFFICES ASSUME Inv, [Next]_vars PROVE Inv'
    OBVIOUS
<1>1. CASE Select
    BY <1>1, SelectInv
<1>2. ASSUME UNCHANGED <<phase, deps, remaining, ordered>>,
             result' \in {"compiling", "ordered", "blocked"}, Outcome'
      PROVE  Inv'
    BY <1>2 DEF Inv, TypeOK, Coverage, Placed, Count, StageBelow, StageOrder,
                DependenciesFirst, Greedy
<1>3. CASE Block
    <2>1. Outcome'
        BY <1>3 DEF Block, Outcome, Candidates, Stage, Placed
    <2> QED BY <1>2, <1>3, <2>1 DEF Block
<1>4. CASE Finish
    <2>1. Outcome'
        BY <1>4 DEF Finish, Outcome
    <2> QED BY <1>2, <1>4, <2>1 DEF Finish
<1>5. CASE UNCHANGED vars
    <2>1. Outcome'
        BY <1>5 DEF vars, Inv, Outcome, Candidates, Stage, Placed
    <2>2. result \in {"compiling", "ordered", "blocked"}
        BY DEF Inv, TypeOK
    <2> QED BY <1>2, <1>5, <2>1, <2>2 DEF vars
<1> QED BY <1>1, <1>3, <1>4, <1>5 DEF Next, Returned

\* If nothing of the current stage can be placed, no legal order exists: in any
\* order the first resource of that stage would have a dependency that is
\* undeclared, later in its stage, or in a later stage.
LEMMA StuckIsImpossible == Inv => BlockedOnlyIfImpossible
<1> SUFFICES ASSUME Inv, result = "blocked", NEW f \in Orders, Legal(f)
             PROVE  FALSE
    BY DEF BlockedOnlyIfImpossible
<1>1. remaining # {} /\ Candidates = {} /\ remaining \subseteq IDs
    BY DEF Inv, Outcome, TypeOK
<1>2. \A q \in IDs : phase[q] \in Nat
    BY OrderAssumption DEF Inv, TypeOK
<1>3. Stage # {}
    <2> DEFINE P == {phase[q] : q \in remaining}
    <2>1. P # {} /\ P \subseteq Nat
        BY <1>1, <1>2
    <2> HIDE DEF P
    <2>2. PICK m \in P : \A p \in P : m <= p
        BY <2>1, LeastExists
    <2>3. PICK q \in remaining : phase[q] = m
        BY DEF P
    <2>4. \A p \in remaining : phase[q] <= phase[p]
        BY <2>2, <2>3 DEF P
    <2> QED BY <2>3, <2>4 DEF Stage
<1>4. /\ \A i \in 1..Size : f[i] \in IDs
      /\ \A q \in IDs : \E i \in 1..Size : f[i] = q
    BY DEF Orders
<1> DEFINE I == {i \in 1..Size : f[i] \in Stage}
<1>5. I # {} /\ I \subseteq Nat
    BY <1>1, <1>3, <1>4 DEF Stage
<1>6. PICK i \in I : \A j \in I : i <= j
    <2> HIDE DEF I
    <2> QED BY <1>5, LeastExists
<1>7. i \in 1..Size /\ f[i] \in Stage /\ f[i] \in remaining
    BY DEF Stage
<1>8. PICK d \in deps[f[i]] : d \notin Placed
    BY <1>7, <1>1 DEF Candidates
<1>9. PICK j \in 1..(i - 1) : f[j] = d
    BY <1>7, <1>8 DEF Legal
<1>10. j \in 1..Size /\ j <= i /\ j # i
    BY <1>7, <1>9, OrderAssumption
<1>11. d \in IDs /\ d \in remaining
    BY <1>4, <1>8, <1>9, <1>10 DEF Placed
<1>12. d \notin Stage
    <2>1. ASSUME d \in Stage PROVE FALSE
        <3>1. j \in I
            BY <2>1, <1>9, <1>10
        <3>2. i <= j
            BY <3>1, <1>6
        <3> QED BY <3>2, <1>7, <1>9, <1>10
    <2> QED BY <2>1
<1>13. phase[d] <= phase[f[i]]
    BY <1>7, <1>9, <1>10 DEF Legal
<1>14. \A q \in remaining : phase[f[i]] <= phase[q]
    BY <1>7 DEF Stage
<1>15. ASSUME NEW q \in remaining PROVE phase[d] <= phase[q]
    <2>1. phase[d] \in Nat /\ phase[f[i]] \in Nat /\ phase[q] \in Nat
        BY <1>1, <1>2, <1>7, <1>11
    <2> QED BY <2>1, <1>13, <1>14
<1> QED BY <1>11, <1>12, <1>15 DEF Stage

\* A completed order is legal, holds every resource once, and is the least one.
LEMMA OrderIsCanonical == Inv => CanonicalOrder
<1> SUFFICES ASSUME Inv, result = "ordered"
             PROVE  /\ ordered \in Orders /\ Legal(ordered)
                    /\ \A f \in Orders : Legal(f) =>
                          \A k \in 1..Size :
                             (\A i \in 1..(k - 1) : f[i] = ordered[i])
                             => ordered[k] <= f[k]
    BY DEF CanonicalOrder
<1>1. remaining = {} /\ ordered \in Seq(IDs) /\ Len(ordered) \in Nat
    BY DEF Inv, Outcome, TypeOK
<1>2. Len(ordered) = Size
    <2>1. Cardinality(remaining) = 0
        BY <1>1, FS_EmptySet
    <2> QED BY <2>1, <1>1, OrderAssumption DEF Inv, Count
<1>3. \A q \in IDs : \E i \in 1..Size : ordered[i] = q
    BY <1>1, <1>2 DEF Inv, Coverage, Placed
<1>4. \A i, j \in 1..Size : ordered[i] = ordered[j] => i = j
    BY <1>2 DEF Inv, Coverage
<1>5. ordered \in [1..Size -> IDs]
    BY <1>1, <1>2
<1>6. ordered \in Orders
    BY <1>3, <1>4, <1>5 DEF Orders
<1>7. Legal(ordered)
    BY <1>2 DEF Inv, StageOrder, DependenciesFirst, Legal
<1>8. ASSUME NEW f \in Orders, Legal(f), NEW k \in 1..Size,
             \A i \in 1..(k - 1) : f[i] = ordered[i]
      PROVE  ordered[k] <= f[k]
    <2>1. /\ f[k] \in IDs /\ ordered[k] \in IDs
          /\ \A i, j \in 1..Size : f[i] = f[j] => i = j
        BY <1>5 DEF Orders
    <2>2. \A i \in 1..(k - 1) : i \in 1..Size /\ i # k
        BY OrderAssumption
    <2>3. \A i \in 1..(k - 1) : ordered[i] # f[k]
        BY <2>1, <2>2, <1>8
    <2>4. \A d \in deps[f[k]] : \E j \in 1..(k - 1) : ordered[j] = d
        BY <1>8 DEF Legal
    <2>5. PICK m \in 1..Size : f[m] = ordered[k]
        BY <2>1 DEF Orders
    <2>6. k <= m
        <3>1. ASSUME m \in 1..(k - 1) PROVE FALSE
            BY <3>1, <2>2, <2>5, <1>4, <1>8
        <3> QED BY <3>1, <2>5, OrderAssumption
    <2>7. phase[f[k]] <= phase[ordered[k]]
        BY <2>5, <2>6, <1>8 DEF Legal
    <2> QED BY <2>1, <2>3, <2>4, <2>7, <1>2 DEF Inv, Greedy
<1> QED BY <1>6, <1>7, <1>8

-----------------------------------------------------------------------------
\* The inductive invariant holds throughout the compilation.
THEOREM Invariance == Spec => []Inv
<1> QED BY InitInv, NextInv, PTL DEF Spec

\* Type correctness of the compiler's state.
THEOREM TypeCorrect == Spec => []TypeOK
<1>1. Inv => TypeOK
    BY DEF Inv
<1> QED BY <1>1, Invariance, PTL

\* Compile refuses an inventory only if no order of it respects stages and
\* dependencies.
THEOREM RefusalIsNecessary == Spec => []BlockedOnlyIfImpossible
<1> QED BY StuckIsImpossible, Invariance, PTL

\* The order Compile returns is the least legal order of all resources,
\* whatever the order of its definitions.
THEOREM OrderIsDetermined == Spec => []CanonicalOrder
<1> QED BY OrderIsCanonical, Invariance, PTL

\* Phases of the order are contiguous and dependencies come first: what the
\* execution of the plan assumes.
THEOREM OrderIsExecutable == Spec => [](StageOrder /\ DependenciesFirst)
<1>1. Inv => StageOrder /\ DependenciesFirst
    BY DEF Inv
<1> QED BY <1>1, Invariance, PTL
=============================================================================
