---------------------- MODULE ParallelAdmissionProofs ----------------------
(***************************************************************************)
(* Proofs about ParallelAdmission, for every number of resources, every    *)
(* concurrency and every set of refused resources: parallel admission      *)
(* returns the verdict of the sequential loop, and leaves no check behind. *)
(***************************************************************************)
EXTENDS ParallelAdmission, FiniteSetTheorems, WellFoundedInduction, TLAPS

\* Every nonempty set of plan indexes has the least element First names, the
\* error that the final loop over errorsByIndex returns.
LEMMA FirstIsLeast ==
    ASSUME NEW S, S \subseteq Nat, S # {}
    PROVE  First(S) \in S /\ \A j \in S : First(S) <= j
<1>1. \E i \in S : \A j \in S : ~(<<j, i>> \in OpToRel(<, Nat))
    BY NatLessThanWellFounded, WFMin, Zenon
<1>2. PICK i \in S : \A j \in S : ~(<<j, i>> \in OpToRel(<, Nat))
    BY <1>1
<1>3. \A j \in S : i <= j
    <2>1. SUFFICES ASSUME NEW j \in S, j < i PROVE FALSE
        OBVIOUS
    <2>2. <<j, i>> \in OpToRel(<, Nat)
        BY <2>1 DEF OpToRel
    <2> QED BY <2>2, <1>2
<1> QED BY <1>3 DEF First

\* The least index is the only one CHOOSE can pick.
LEMMA FirstUnique ==
    ASSUME NEW S, S \subseteq Nat, NEW m \in S, \A j \in S : m <= j
    PROVE  First(S) = m
<1>1. First(S) \in S /\ First(S) <= m
    BY FirstIsLeast
<1>2. m <= First(S)
    BY <1>1
<1>3. m \in Nat /\ First(S) \in Nat
    BY <1>1
<1> QED BY <1>1, <1>2, <1>3

-----------------------------------------------------------------------------
\* Dispatch follows plan order: exactly the first next indexes were handed out.
PrefixDispatched == \A i \in Resources : stage[i] = "unsent" <=> i > next

\* active counts the checks between the two channels.
ActiveCounts == active = Cardinality(Outstanding)

\* A verdict is the resource's own one as long as the context lives.
VerdictsTrue ==
    ~cancelled =>
        \A i \in Resources :
            stage[i] \in {"buffered", "settled"} =>
                verdict[i] = IF i \in bad THEN "blocked" ELSE "ok"

\* failed records the failing verdicts received.
FailedRecorded == failed <=> Failures # {}

\* Why the jobs channel is closed, and what the control points know.
ControlPoints ==
    /\ ~open => next = Size \/ failed \/ cancelled
    /\ pc \in {"disarm", "select"} /\ open => next < Size
    /\ pc = "enter" => next = 0 /\ Outstanding = {}
    /\ pc = "join" => ~open /\ active = 0

\* A worker holds a check that is running, and no two hold the same one.
HeldRunning ==
    /\ \A w \in Workers : work[w] \in Resources => stage[work[w]] = "running"
    /\ \A v, w \in Workers : work[v] \in Resources /\ work[v] = work[w] => v = w

\* The inductive invariant.
Inv ==
    /\ TypeOK
    /\ PrefixDispatched
    /\ ActiveCounts
    /\ VerdictsTrue
    /\ FailedRecorded
    /\ ControlPoints
    /\ HeldRunning
    /\ SequentialVerdict
    /\ NoLeak

\* min(concurrency, limit, len(p.Resources)) is zero only for an empty plan, the
\* early return of admitParallel.
LEMMA WorkersNonEmpty == Workers = {} => Size = 0
<1>1. Size # 0 => 1 \in Workers
    BY SizesAssumption DEF Workers
<1> QED BY <1>1

\* Only finitely many checks are ever out, so the counter active can count them.
LEMMA OutstandingFinite == IsFiniteSet(Outstanding)
<1>1. IsFiniteSet(Resources)
    BY SizesAssumption, FS_Interval DEF Resources
<1>2. Outstanding \in SUBSET Resources
    BY DEF Outstanding
<1> QED BY <1>1, <1>2, FS_Subset

\* The invariant holds when admitParallel is called.
LEMMA InitInv == Init => Inv
<1> SUFFICES ASSUME Init PROVE Inv
    OBVIOUS
<1> USE SizesAssumption DEF Init
<1>1. TypeOK
    <2>1. work \in [Workers -> -1..Size]
        BY DEF Receiving
    <2>2. next \in 0..Size /\ active \in 0..Size /\ ret \in -1..Size
        OBVIOUS
    <2> QED BY <2>1, <2>2 DEF TypeOK, Verdicts
<1>2. Outstanding = {} /\ Failures = {}
    BY DEF Outstanding, Failures
<1>3. ActiveCounts
    BY <1>2, FS_EmptySet DEF ActiveCounts
<1>4. PrefixDispatched /\ VerdictsTrue
    BY DEF PrefixDispatched, VerdictsTrue, Resources
<1>5. FailedRecorded /\ ControlPoints
    BY <1>2 DEF FailedRecorded, ControlPoints
<1>6. HeldRunning
    BY DEF HeldRunning, Receiving, Resources
<1>7. SequentialVerdict /\ NoLeak
    BY DEF SequentialVerdict, NoLeak
<1> QED BY <1>1, <1>3, <1>4, <1>5, <1>6, <1>7 DEF Inv

\* Every step of the caller, of a worker and of the context preserves it.
LEMMA NextInv == Inv /\ [Next]_vars => Inv'
<1> SUFFICES ASSUME Inv, [Next]_vars PROVE Inv'
    OBVIOUS
<1> USE SizesAssumption DEF Inv
<1>1. CASE Enter
    <2>1. TypeOK'
        BY <1>1 DEF Enter, TypeOK
    <2>2. Outstanding' = Outstanding /\ Failures' = Failures
        BY <1>1 DEF Enter, Outstanding, Failures
    <2>3. PrefixDispatched' /\ ActiveCounts' /\ VerdictsTrue' /\ HeldRunning'
        BY <1>1, <2>2 DEF Enter, PrefixDispatched, ActiveCounts, VerdictsTrue,
           HeldRunning
    <2>4. FailedRecorded' /\ ControlPoints'
        BY <1>1, <2>2 DEF Enter, FailedRecorded, ControlPoints
    <2>5. Workers = {} => bad = {}
        BY WorkersNonEmpty DEF TypeOK, Resources
    <2>6. SequentialVerdict' /\ NoLeak'
        BY <1>1, <2>2, <2>5 DEF Enter, SequentialVerdict, NoLeak, ControlPoints
    <2> QED BY <2>1, <2>3, <2>4, <2>6
<1>2. CASE CloseJobs
    <2>1. TypeOK'
        BY <1>2 DEF CloseJobs, TypeOK
    <2>2. Outstanding' = Outstanding /\ Failures' = Failures
        BY <1>2 DEF CloseJobs, Outstanding, Failures
    <2>3. PrefixDispatched' /\ ActiveCounts' /\ VerdictsTrue' /\ HeldRunning'
        BY <1>2, <2>2 DEF CloseJobs, PrefixDispatched, ActiveCounts,
           VerdictsTrue, HeldRunning
    <2>4. FailedRecorded' /\ ControlPoints'
        <3>1. FailedRecorded'
            BY <1>2, <2>2 DEF CloseJobs, FailedRecorded
        <3>2. ~open' => next = Size \/ failed \/ cancelled
            BY <1>2, Zenon DEF CloseJobs, ControlPoints
        <3>3. open' => next # Size
            BY <1>2, Zenon DEF CloseJobs
        <3>4. open' => next < Size
            BY <3>3 DEF TypeOK
        <3> QED BY <1>2, <3>1, <3>2, <3>4 DEF CloseJobs, ControlPoints
    <2>5. SequentialVerdict' /\ NoLeak'
        BY <1>2 DEF CloseJobs, SequentialVerdict, NoLeak
    <2> QED BY <2>1, <2>3, <2>4, <2>5
<1>3. CASE Disarm
    <2>1. TypeOK'
        BY <1>3 DEF Disarm, TypeOK
    <2>2. Outstanding' = Outstanding /\ Failures' = Failures
        BY <1>3 DEF Disarm, Outstanding, Failures
    <2>3. PrefixDispatched' /\ ActiveCounts' /\ VerdictsTrue' /\ HeldRunning'
        BY <1>3, <2>2 DEF Disarm, PrefixDispatched, ActiveCounts,
           VerdictsTrue, HeldRunning
    <2>4. FailedRecorded' /\ ControlPoints'
        BY <1>3, <2>2 DEF Disarm, FailedRecorded, ControlPoints, TypeOK
    <2>5. SequentialVerdict' /\ NoLeak'
        BY <1>3 DEF Disarm, SequentialVerdict, NoLeak
    <2> QED BY <2>1, <2>3, <2>4, <2>5
<1>4. ASSUME NEW w \in Workers, Dispatch(w) PROVE Inv'
    <2>1. next + 1 \in Resources /\ stage[next + 1] = "unsent"
        BY <1>4 DEF Dispatch, ControlPoints, TypeOK, Resources, PrefixDispatched
    <2>2. Outstanding' = Outstanding \cup {next + 1}
          /\ next + 1 \notin Outstanding
        BY <1>4, <2>1 DEF Dispatch, Outstanding, TypeOK
    <2>3. ActiveCounts' /\ active' \in Nat
        <3>1. active' = active + 1 /\ active \in Nat
            BY <1>4 DEF Dispatch, TypeOK
        <3>2. Cardinality(Outstanding \cup {next + 1}) = Cardinality(Outstanding) + 1
            BY <2>2, FS_AddElement, OutstandingFinite
        <3> QED BY <2>2, <3>1, <3>2 DEF ActiveCounts
    <2>4. Outstanding' \in SUBSET Resources
        BY DEF Outstanding
    <2>5. Cardinality(Resources) = Size /\ IsFiniteSet(Resources)
        BY FS_Interval DEF Resources
    <2>6. active' \in 0..Size
        BY <2>3, <2>4, <2>5, FS_Subset DEF ActiveCounts
    <2>7. TypeOK'
        BY <1>4, <2>1, <2>6 DEF Dispatch, TypeOK, Resources
    <2>8. PrefixDispatched' /\ VerdictsTrue'
        BY <1>4, <2>1 DEF Dispatch, PrefixDispatched, VerdictsTrue, TypeOK,
           Resources
    <2>9. Failures' = Failures
        BY <1>4, <2>1 DEF Dispatch, Failures, TypeOK
    <2>10. FailedRecorded' /\ ControlPoints'
        BY <1>4, <2>9 DEF Dispatch, FailedRecorded, ControlPoints, TypeOK
    <2>11. HeldRunning'
        BY <1>4, <2>1 DEF Dispatch, HeldRunning, TypeOK, Receiving, Resources
    <2>12. SequentialVerdict' /\ NoLeak'
        BY <1>4 DEF Dispatch, SequentialVerdict, NoLeak
    <2> QED BY <2>3, <2>7, <2>8, <2>10, <2>11, <2>12
<1>5. ASSUME NEW i \in Resources, Receive(i) PROVE Inv'
    <2>1. Outstanding' = Outstanding \ {i} /\ i \in Outstanding
        BY <1>5 DEF Receive, Outstanding, TypeOK
    <2>2. ActiveCounts'
        BY <1>5, <2>1, FS_RemoveElement, OutstandingFinite
        DEF Receive, ActiveCounts
    <2>3. Cardinality(Outstanding) # 0
        BY <2>1, FS_EmptySet, OutstandingFinite
    <2>4. TypeOK'
        BY <1>5, <2>3 DEF Receive, TypeOK, ActiveCounts
    <2>5. PrefixDispatched' /\ VerdictsTrue'
        BY <1>5 DEF Receive, PrefixDispatched, VerdictsTrue, TypeOK, Resources
    <2>6. Failures' = IF verdict[i] = "ok" THEN Failures ELSE Failures \cup {i}
        BY <1>5 DEF Receive, Failures, TypeOK
    <2>7. FailedRecorded' /\ ControlPoints'
        BY <1>5, <2>6 DEF Receive, FailedRecorded, ControlPoints, TypeOK
    <2>8. HeldRunning'
        BY <1>5 DEF Receive, HeldRunning, TypeOK
    <2>9. SequentialVerdict' /\ NoLeak'
        BY <1>5 DEF Receive, SequentialVerdict, NoLeak
    <2> QED BY <2>2, <2>4, <2>5, <2>7, <2>8, <2>9
<1>6. CASE Wake
    <2>1. TypeOK'
        BY <1>6 DEF Wake, TypeOK
    <2>2. Outstanding' = Outstanding /\ Failures' = Failures
        BY <1>6 DEF Wake, Outstanding, Failures
    <2>3. PrefixDispatched' /\ ActiveCounts' /\ VerdictsTrue' /\ HeldRunning'
        BY <1>6, <2>2 DEF Wake, PrefixDispatched, ActiveCounts,
           VerdictsTrue, HeldRunning
    <2>4. FailedRecorded' /\ ControlPoints' /\ SequentialVerdict' /\ NoLeak'
        BY <1>6, <2>2 DEF Wake, FailedRecorded, ControlPoints,
           SequentialVerdict, NoLeak
    <2> QED BY <2>1, <2>3, <2>4
<1>7. CASE Join
    <2>1. Outstanding = {}
        BY <1>7, FS_EmptySet, OutstandingFinite
        DEF Join, ControlPoints, ActiveCounts
    <2>2. \A i \in Resources : i <= next => stage[i] = "settled"
        BY <2>1 DEF PrefixDispatched, Outstanding, TypeOK, Resources
    <2>3. ~cancelled => Failures = {i \in bad : i <= next}
        <3>1. SUFFICES ASSUME ~cancelled, NEW i \in Resources
                       PROVE  i \in Failures <=> i \in bad /\ i <= next
            BY DEF Failures, TypeOK
        <3>2. stage[i] = "settled" <=> i <= next
            BY <2>2, <3>1 DEF PrefixDispatched, TypeOK, Resources
        <3>3. i <= next => (verdict[i] # "ok" <=> i \in bad)
            BY <3>1, <3>2 DEF VerdictsTrue
        <3> QED BY <3>1, <3>2, <3>3 DEF Failures
    <2>4. ~cancelled /\ Failures = {} => bad = {}
        BY <1>7, <2>3 DEF Join, ControlPoints, FailedRecorded, TypeOK, Resources
    <2>5. ASSUME ~cancelled, Failures # {}
          PROVE  First(bad) = First(Failures) /\ First(Failures) \in Resources
        <3>1. Failures \subseteq Nat /\ bad \subseteq Nat
            BY DEF Failures, TypeOK, Resources
        <3>2. First(Failures) \in Failures
              /\ \A j \in Failures : First(Failures) <= j
            BY <3>1, <2>5, FirstIsLeast
        <3>3. First(Failures) \in bad /\ First(Failures) <= next
            BY <3>2, <2>3, <2>5
        <3>4. \A j \in bad : First(Failures) <= j
            <4>1. SUFFICES ASSUME NEW j \in bad PROVE First(Failures) <= j
                OBVIOUS
            <4>2. CASE j <= next
                BY <4>1, <4>2, <3>2, <2>3, <2>5
            <4>3. CASE ~(j <= next)
                <5>1. next \in Nat
                    BY DEF TypeOK
                <5>2. First(Failures) \in Nat /\ j \in Nat
                    BY <4>1, <3>1, <3>2
                <5> QED BY <4>3, <3>3, <5>1, <5>2
            <4> QED BY <4>2, <4>3
        <3>5. First(bad) = First(Failures)
            BY <3>1, <3>3, <3>4, FirstUnique
        <3> QED BY <3>5, <3>3 DEF TypeOK
    <2>6. ret' \in -1..Size
        BY <1>7, <2>5 DEF Join, Resources
    <2>7. TypeOK'
        BY <1>7, <2>6 DEF Join, TypeOK
    <2>8. Outstanding' = Outstanding /\ Failures' = Failures
        BY <1>7 DEF Join, Outstanding, Failures
    <2>9. SequentialVerdict'
        <3>1. SUFFICES ASSUME ~cancelled
                       PROVE  ret' = IF bad = {} THEN 0 ELSE First(bad)
            BY <1>7 DEF Join, SequentialVerdict
        <3>2. CASE Failures = {}
            BY <1>7, <3>1, <3>2, <2>4 DEF Join
        <3>3. CASE Failures # {}
            <4>1. bad # {}
                BY <3>1, <3>3, <2>3
            <4> QED BY <1>7, <3>1, <3>3, <4>1, <2>5 DEF Join
        <3> QED BY <3>2, <3>3
    <2>10. NoLeak'
        BY <1>7, <2>1, <2>8 DEF Join, NoLeak
    <2>11. PrefixDispatched' /\ ActiveCounts' /\ VerdictsTrue' /\ HeldRunning'
        BY <1>7, <2>8 DEF Join, PrefixDispatched, ActiveCounts, VerdictsTrue,
           HeldRunning
    <2>12. FailedRecorded' /\ ControlPoints'
        BY <1>7, <2>8 DEF Join, FailedRecorded, ControlPoints
    <2> QED BY <2>7, <2>9, <2>10, <2>11, <2>12
<1>8. ASSUME NEW w \in Workers, AdmitResource(w) PROVE Inv'
    <2>1. stage' = [stage EXCEPT ![work[w]] = "buffered"]
          /\ stage[work[w]] = "running" /\ work[w] \in Resources
        BY <1>8 DEF AdmitResource
    <2>2. Outstanding' = Outstanding /\ Failures' = Failures
        BY <1>8, <2>1 DEF AdmitResource, Outstanding, Failures, TypeOK
    <2>3. PICK v \in Verdicts :
              /\ \/ v = (IF work[w] \in bad THEN "blocked" ELSE "ok")
                 \/ cancelled /\ v \in {"blocked", "context"}
              /\ verdict' = [verdict EXCEPT ![work[w]] = v]
        BY <1>8 DEF AdmitResource
    <2>4. TypeOK'
        BY <1>8, <2>3 DEF AdmitResource, TypeOK, Receiving
    <2>5. PrefixDispatched' /\ ActiveCounts'
        BY <1>8, <2>1, <2>2 DEF AdmitResource, PrefixDispatched, ActiveCounts,
           TypeOK
    <2>6. VerdictsTrue'
        BY <1>8, <2>1, <2>3 DEF AdmitResource, VerdictsTrue, TypeOK
    <2>7. FailedRecorded' /\ ControlPoints'
        BY <1>8, <2>2 DEF AdmitResource, FailedRecorded, ControlPoints
    <2>8. HeldRunning'
        BY <1>8, <2>1 DEF AdmitResource, HeldRunning, TypeOK, Receiving,
           Resources
    <2>9. SequentialVerdict' /\ NoLeak'
        BY <1>8, <2>1, <2>2 DEF AdmitResource, SequentialVerdict, NoLeak,
           Outstanding
    <2> QED BY <2>4, <2>5, <2>6, <2>7, <2>8, <2>9
<1>9. ASSUME NEW w \in Workers, Exit(w) PROVE Inv'
    <2>1. TypeOK'
        BY <1>9 DEF Exit, TypeOK, Exited
    <2>2. Outstanding' = Outstanding /\ Failures' = Failures
        BY <1>9 DEF Exit, Outstanding, Failures
    <2>3. PrefixDispatched' /\ ActiveCounts' /\ VerdictsTrue'
        BY <1>9, <2>2 DEF Exit, PrefixDispatched, ActiveCounts, VerdictsTrue
    <2>4. HeldRunning'
        BY <1>9 DEF Exit, HeldRunning, TypeOK, Exited, Resources
    <2>5. FailedRecorded' /\ ControlPoints' /\ SequentialVerdict'
        BY <1>9, <2>2 DEF Exit, FailedRecorded, ControlPoints, SequentialVerdict
    <2>6. NoLeak'
        BY <1>9, <2>2 DEF Exit, NoLeak, TypeOK
    <2> QED BY <2>1, <2>3, <2>4, <2>5, <2>6
<1>10. CASE Cancel
    <2>1. TypeOK'
        BY <1>10 DEF Cancel, TypeOK
    <2>2. Outstanding' = Outstanding /\ Failures' = Failures
        BY <1>10 DEF Cancel, Outstanding, Failures
    <2>3. PrefixDispatched' /\ ActiveCounts' /\ VerdictsTrue' /\ HeldRunning'
        BY <1>10, <2>2 DEF Cancel, PrefixDispatched, ActiveCounts,
           VerdictsTrue, HeldRunning
    <2>4. FailedRecorded' /\ ControlPoints' /\ SequentialVerdict' /\ NoLeak'
        BY <1>10, <2>2 DEF Cancel, FailedRecorded, ControlPoints,
           SequentialVerdict, NoLeak
    <2> QED BY <2>1, <2>3, <2>4
<1>11. CASE UNCHANGED vars
    <2>1. Outstanding' = Outstanding /\ Failures' = Failures
        BY <1>11 DEF vars, Outstanding, Failures
    <2>2. TypeOK' /\ PrefixDispatched' /\ ActiveCounts' /\ VerdictsTrue'
          /\ HeldRunning'
        BY <1>11, <2>1 DEF vars, TypeOK, PrefixDispatched, ActiveCounts,
           VerdictsTrue, HeldRunning
    <2>3. FailedRecorded' /\ ControlPoints' /\ SequentialVerdict' /\ NoLeak'
        BY <1>11, <2>1 DEF vars, FailedRecorded, ControlPoints,
           SequentialVerdict, NoLeak
    <2> QED BY <2>2, <2>3
<1> QED
    BY <1>1, <1>2, <1>3, <1>4, <1>5, <1>6, <1>7, <1>8, <1>9, <1>10, <1>11
    DEF Next, Caller, Worker, Returned

\* Every reachable state satisfies the inductive invariant.
THEOREM Invariance == Spec => []Inv
BY InitInv, NextInv, PTL DEF Spec

\* The worker pool of admitParallel returns what the sequential loop of
\* Plan.Admit returns, for every plan length, every concurrency and every set
\* of refused resources, unless its context is cancelled.
THEOREM ParallelEqualsSequential == Spec => []SequentialVerdict
<1>1. Inv => SequentialVerdict
    BY DEF Inv
<1> QED BY Invariance, <1>1, PTL

\* No check is running and no verdict is unread once admitParallel returned.
THEOREM NoCheckOutlivesTheCall == Spec => []NoLeak
<1>1. Inv => NoLeak
    BY DEF Inv
<1> QED BY Invariance, <1>1, PTL

\* Type correctness of the pool's state.
THEOREM TypeCorrect == Spec => []TypeOK
<1>1. Inv => TypeOK
    BY DEF Inv
<1> QED BY Invariance, <1>1, PTL
=============================================================================
