------------------------ MODULE ExecutionFenceProofs ------------------------
(***************************************************************************)
(* Exclusive execution (Inv) and what commands leave behind (Leftovers),   *)
(* for any number of hosts, stores, plans and attempts and of commands on  *)
(* one store, with crashes, lost and late Lease requests and               *)
(* reconciliations, in the behaviours of Compared; and that Compared are   *)
(* all behaviours of Spec when one command at a time runs on each store.   *)
(***************************************************************************)
EXTENDS ExecutionFence, TLAPS

\* The control points of an execution before its release began.
Executing == {"read", "create", "creating", "inspect"} \cup Owning

\* Everything that carries a run number was given it by an earlier Start.
RunsAreOld ==
    /\ \A c \in Controllers : run[c] \in Runs => run[c] < nextRun
    /\ \A r \in deletes : r < nextRun
    /\ \A s \in Stores : fence[s].by \in Runs => fence[s].by < nextRun

\* A run number is in the hands of one controller, and on one directory, of
\* the store where that controller works.
OneCommandPerRun ==
    \A c, d \in Controllers : run[c] = run[d] /\ run[c] \in Runs => c = d
OneDirectoryPerRun ==
    \A s, t \in Stores : fence[s].by = fence[t].by /\ fence[s].by \in Runs => s = t
DirectoryAtHome ==
    \A c \in Controllers, s \in Stores :
        run[c] \in Runs /\ fence[s].by = run[c] => Home[c] = s
RunsAreUnique == OneCommandPerRun /\ OneDirectoryPerRun /\ DirectoryAtHome

\* A running command knows its plan, and its run unless it is a
\* reconciliation that has not read owner.json yet.
CommandsKnowTheirRun ==
    \A c \in Controllers :
        /\ pc[c] # "idle" => plan[c] \in Plans
        /\ pc[c] \notin {"idle", "reflock", "verify"} => run[c] \in Runs
        /\ pc[c] \in {"idle", "reflock", "verify"} => run[c] = None

\* No request on the wire can delete the Lease of an execution that has not
\* begun its own release.
NoDeleteOfLiveLease ==
    \A c \in Controllers : pc[c] \in Executing => run[c] \notin deletes

\* The first half of the inductive invariant.
Inv ==
    /\ TypeOK
    /\ RunsAreOld
    /\ RunsAreUnique
    /\ CommandsKnowTheirRun
    /\ NoDeleteOfLiveLease
    /\ LiveOwnerKeepsLease

-----------------------------------------------------------------------------
(* What a command leaves behind                                             *)

\* The control points of Release, whoever called it, and of a reconciliation
\* that has read owner.json.
Releasing == {"release", "delete", "deleting", "confirm"}
Repairing == {"repeat", "reconfirm", "unactive", "rearchive"}

\* Command c works for the attempt it started, or for the one it reconciles.
Attempting(c) ==
    pc[c] \in Executing \cup {"archive"} \/ (pc[c] \in Releasing /\ after[c] # "reconcile")
Reconciling(c) ==
    pc[c] \in Repairing \/ (pc[c] \in Releasing /\ after[c] = "reconcile")

\* A release knows on whose behalf it runs.
ReleaseHasReason(c) ==
    /\ pc[c] \in Releasing => after[c] \in {"acquire", "execute", "reconcile"}
    /\ pc[c] = "archive" => after[c] = "execute"

\* The parts of the fence that a command has made are those its control point
\* says, and no other command makes any.
PartsMade(c) ==
    /\ pc[c] \in {"mklock", "flock", "owner", "mkactive", "evidence", "check", "work"}
         => "fence" \in holds[c]
    /\ pc[c] \notin {"mklock", "flock", "owner", "mkactive", "evidence", "check",
                     "work", "unlock", "archive"} \cup Releasing => holds[c] = {}
    /\ pc[c] \in Releasing /\ after[c] # "execute" => holds[c] = {}
    /\ pc[c] \in {"mklock", "flock"} => ~fence[Home[c]].owner
    /\ pc[c] \in {"owner", "mkactive", "evidence", "check", "work"} => flock[run[c]] = c
    /\ pc[c] \in {"mkactive", "evidence", "check", "work"} => fence[Home[c]].owner
    /\ "active" \in holds[c] => "fence" \in holds[c] /\ fence[Home[c]].owner

\* The directory of an attempt is at its home, with its plan, once the attempt
\* has made it and nowhere before; the lock of a directory with a receipt is
\* held; .active exists only after MakeActive and before RemoveActive.
DirectoryOfAttempt(c) ==
    /\ "fence" \in holds[c] =>
         /\ fence[Home[c]].by = run[c] /\ fence[Home[c]].plan = plan[c]
         /\ fence[Home[c]].owner => flock[run[c]] = c
         /\ "active" \notin holds[c] \/ pc[c] \in Releasing \cup {"archive"} =>
                active[Home[c]] = {}
    /\ Attempting(c) /\ "fence" \notin holds[c] =>
         \A s \in Stores : fence[s].by # run[c]

\* A reconciliation past its verification faces the directory it verified,
\* with a settled journal, and holds its lock.
DirectoryOfRepair(c) ==
    Reconciling(c) =>
        /\ fence[Home[c]].by = run[c] /\ fence[Home[c]].plan = plan[c]
        /\ fence[Home[c]].owner /\ flock[run[c]] = c
        /\ journal[Home[c]][plan[c]] \in Settled
        /\ pc[c] = "rearchive" => active[Home[c]] = {}

\* A reconciliation that is about to read owner.json holds a lock.
LockInHand(c) ==
    /\ pc[c] \in {"reflock", "verify"} => locked[c] \in Runs
    /\ pc[c] = "verify" => flock[locked[c]] = c

View(c) ==
    /\ ReleaseHasReason(c) /\ PartsMade(c) /\ LockInHand(c)
    /\ DirectoryOfAttempt(c) /\ DirectoryOfRepair(c)

\* A Lease create is sent once per attempt, before anything else of it exists,
\* and a Lease that was confirmed deleted does not come back.
CreatedOnce(c) ==
    /\ pc[c] \in {"read", "create"} => run[c] \notin creates \cup receipts /\ lease # run[c]
    /\ pc[c] \in Owning \cup Releasing \cup Repairing \cup {"archive"} => run[c] \notin creates
    /\ pc[c] \in {"confirm", "archive", "unactive", "rearchive"} => lease # run[c]
    /\ pc[c] \in {"confirm", "archive"} => run[c] \notin deletes
    /\ run[c] \notin closed

\* Every trace of an attempt comes from an attempt that was started.
TracesAreOld ==
    /\ lease \in Runs => lease < nextRun
    /\ \A r \in creates \cup receipts \cup closed : r < nextRun

\* A create on the wire is the first trace of its attempt in the cluster, and
\* receipts on disk are on record.
TracesInOrder ==
    /\ lease \notin creates
    /\ creates \cap receipts = {}
    /\ \A s \in Stores : fence[s].owner => fence[s].by \in receipts

\* The second half of the inductive invariant.
Leftovers ==
    /\ \A c \in Controllers : View(c)
    /\ \A c \in Controllers : CreatedOnce(c)
    /\ TracesAreOld
    /\ TracesInOrder
    /\ NothingStranded

-----------------------------------------------------------------------------
\* A directory that holds a lock file or a receipt was made by some run, and
\* the records that stand for directories are closed under the updates made.
LEMMA FenceTypes ==
    ASSUME TypeOK, NEW s \in Stores
    PROVE  /\ fence[s] \in Fences \cup {NoFence}
           /\ fence[s].by \in Runs \cup {None}
           /\ fence[s].lock => fence[s].by \in Runs
           /\ fence[s].owner => fence[s].by \in Runs
           /\ fence[s].by \in Runs =>
                /\ [fence[s] EXCEPT !.lock = TRUE] \in Fences
                /\ [fence[s] EXCEPT !.owner = TRUE] \in Fences
                /\ [fence[s] EXCEPT !.lock = TRUE].by = fence[s].by
                /\ [fence[s] EXCEPT !.owner = TRUE].by = fence[s].by
<1>0. None \notin Runs
    BY FenceAssumption DEF Runs
<1>1. fence[s] \in Fences \cup {NoFence}
    BY DEF TypeOK
<1>2. CASE fence[s] = NoFence
    BY <1>0, <1>2 DEF NoFence, Fences
<1>3. CASE fence[s] \in Fences
    BY <1>3 DEF Fences
<1> QED BY <1>1, <1>2, <1>3

\* The invariant holds before the first command.
LEMMA InitInv == Init => Inv
<1> SUFFICES ASSUME Init PROVE Inv
    OBVIOUS
<1> USE FenceAssumption DEF Init
<1>1. TypeOK
    BY DEF TypeOK, NoFence, JournalStates, Points
<1>2. \A s \in Stores : fence[s].by = None
    BY DEF NoFence
<1>3. None \notin Runs
    BY DEF Runs
<1>4. RunsAreOld /\ RunsAreUnique
    BY <1>2, <1>3 DEF RunsAreOld, RunsAreUnique, OneCommandPerRun,
       OneDirectoryPerRun, DirectoryAtHome
<1>5. CommandsKnowTheirRun /\ NoDeleteOfLiveLease /\ LiveOwnerKeepsLease
    BY DEF NoDeleteOfLiveLease, CommandsKnowTheirRun, LiveOwnerKeepsLease,
       Executing, Owning
<1> QED BY <1>1, <1>4, <1>5 DEF Inv
-----------------------------------------------------------------------------
(* Type correctness of each step                                            *)

\* Every step keeps the variables in their types.
LEMMA NextType == Inv /\ [Next]_vars => TypeOK'
<1> SUFFICES ASSUME Inv, [Next]_vars PROVE TypeOK'
    OBVIOUS
<1> USE FenceAssumption DEF Inv, TypeOK, vars, shared, local, history
<1>1. ASSUME NEW c \in Controllers, ReadLease(c) PROVE TypeOK'
    BY <1>1 DEF ReadLease, Go, Points
<1>2. ASSUME NEW c \in Controllers, SendCreate(c) PROVE TypeOK'
    BY <1>2 DEF SendCreate, Go, Points, CommandsKnowTheirRun
<1>3. ASSUME NEW c \in Controllers, CreateAnswered(c) PROVE TypeOK'
    BY <1>3 DEF CreateAnswered, Go, Points
<1>4. ASSUME NEW c \in Controllers, CreateUnanswered(c) PROVE TypeOK'
    BY <1>4 DEF CreateUnanswered, Go, Points
<1>5. ASSUME NEW c \in Controllers, InspectOwn(c) PROVE TypeOK'
    BY <1>5 DEF InspectOwn, Go, Points
<1>6. ASSUME NEW c \in Controllers, MakeActive(c) PROVE TypeOK'
    BY <1>6 DEF MakeActive, Go, Points, CommandsKnowTheirRun
<1>7. ASSUME NEW c \in Controllers, CheckLease(c) PROVE TypeOK'
    BY <1>7 DEF CheckLease, Go, Points
<1>8. ASSUME NEW c \in Controllers, Work(c) PROVE TypeOK'
    BY <1>8 DEF Work, Go, Points, SetState, State, JournalStates, CommandsKnowTheirRun
<1>9. ASSUME NEW c \in Controllers, Accept(c) PROVE TypeOK'
    BY <1>9 DEF Accept, Go, Points, SetState, State, JournalStates, CommandsKnowTheirRun
<1>10. ASSUME NEW c \in Controllers, Stop(c) PROVE TypeOK'
    BY <1>10 DEF Stop, Go, Points
<1>11. ASSUME NEW c \in Controllers, RemoveActive(c) PROVE TypeOK'
    BY <1>11 DEF RemoveActive, Go, Points
<1>12. ASSUME NEW c \in Controllers, ReleaseCheck(c) PROVE TypeOK'
    BY <1>12 DEF ReleaseCheck, Go, Points
<1>13. ASSUME NEW c \in Controllers, SendDelete(c) PROVE TypeOK'
    BY <1>13 DEF SendDelete, Go, Points, CommandsKnowTheirRun
<1>14. ASSUME NEW c \in Controllers, DeleteAnswered(c) PROVE TypeOK'
    BY <1>14 DEF DeleteAnswered, Go, Points
<1>15. ASSUME NEW c \in Controllers, Repeat(c) PROVE TypeOK'
    <2>1. pc' \in [Controllers -> Points]
        <3>1. Go(c, "reconfirm") \/ Go(c, "release")
            BY <1>15 DEF Repeat
        <3> QED BY <3>1 DEF Go, Points
    <2>2. after' \in [Controllers -> {None, "acquire", "execute", "reconcile"}]
        BY <1>15 DEF Repeat
    <2> QED BY <1>15, <2>1, <2>2 DEF Repeat
<1>16. ASSUME NEW c \in Controllers, Reconfirm(c) PROVE TypeOK'
    BY <1>16 DEF Reconfirm, Go, Points
<1>17. ASSUME NEW c \in Controllers, ReconcileUnlock(c) PROVE TypeOK'
    BY <1>17 DEF ReconcileUnlock, Go, Points
<1>18. ASSUME NEW c \in Controllers, OpenJournal(c) PROVE TypeOK'
    <2>1. journal' \in [Stores -> [Plans -> JournalStates]]
        <3>1. UNCHANGED journal \/ SetState(c, "plan") \/ SetState(c, "clean")
            BY <1>18 DEF OpenJournal
        <3>2. CASE UNCHANGED journal
            BY <3>2
        <3>3. CASE SetState(c, "plan")
            BY <3>3 DEF SetState, JournalStates
        <3>4. CASE SetState(c, "clean")
            BY <3>4 DEF SetState, JournalStates
        <3> QED BY <3>1, <3>2, <3>3, <3>4
    <2>2. pc' \in [Controllers -> Points]
        <3>1. UNCHANGED pc \/ Go(c, "check")
            BY <1>18 DEF OpenJournal
        <3> QED BY <3>1 DEF Go, Points
    <2>3. holds' \in [Controllers -> SUBSET {"fence", "active", "fresh"}]
        BY <1>18 DEF OpenJournal
    <2> QED BY <1>18, <2>1, <2>2, <2>3 DEF OpenJournal
<1>19. ASSUME NEW c \in Controllers, TakeLock(c) PROVE TypeOK'
    BY <1>19 DEF TakeLock, Go, Points
<1>20. ASSUME NEW c \in Controllers, LockOwner(c) PROVE TypeOK'
    BY <1>20 DEF LockOwner, Go, Points
<1>21. ASSUME NEW c \in Controllers, MakeFence(c) PROVE TypeOK'
    <2>1. Home[c] \in Stores /\ run[c] \in Runs /\ plan[c] \in Plans
        BY <1>21 DEF MakeFence, CommandsKnowTheirRun
    <2>2. fence' \in [Stores -> Fences \cup {NoFence}]
        BY <1>21, <2>1 DEF MakeFence, Fences
    <2> QED BY <1>21, <2>2 DEF MakeFence, Go, Points
<1>22. ASSUME NEW c \in Controllers, MakeLock(c) PROVE TypeOK'
    <2>1. Home[c] \in Stores /\ run[c] \in Runs
        BY <1>22 DEF MakeLock, CommandsKnowTheirRun
    <2>2. fence' \in [Stores -> Fences \cup {NoFence}]
        BY <1>22, <2>1, FenceTypes DEF MakeLock
    <2> QED BY <1>22, <2>1, <2>2 DEF MakeLock, Go, Points
<1>23. ASSUME NEW c \in Controllers, WriteOwner(c) PROVE TypeOK'
    <2>1. Home[c] \in Stores /\ run[c] \in Runs
        BY <1>23 DEF WriteOwner, CommandsKnowTheirRun
    <2>2. fence' \in [Stores -> Fences \cup {NoFence}]
        BY <1>23, <2>1, FenceTypes DEF WriteOwner
    <2> QED BY <1>23, <2>1, <2>2 DEF WriteOwner, Go, Points
<1>24. ASSUME NEW c \in Controllers, Verify(c) PROVE TypeOK'
    <2>1. fence[Home[c]].by \in Runs
        BY <1>24, FenceTypes DEF Verify, Reconcilable
    <2> QED BY <1>24, <2>1 DEF Verify, Go, Points
<1>25. ASSUME NEW c \in Controllers, AcquireFails(c) PROVE TypeOK'
    BY <1>25 DEF AcquireFails, Go, Points, End
<1>26. ASSUME NEW c \in Controllers, ReleaseFails(c) PROVE TypeOK'
    BY <1>26 DEF ReleaseFails, Go, Points, End
<1>27. ASSUME NEW c \in Controllers, ArchiveFails(c) PROVE TypeOK'
    BY <1>27 DEF ArchiveFails, Go, Points, End
<1>28. ASSUME NEW c \in Controllers, ReconcileFails(c) PROVE TypeOK'
    BY <1>28 DEF ReconcileFails, Go, Points, End
<1>29. ASSUME NEW c \in Controllers, Crash(c) PROVE TypeOK'
    BY <1>29 DEF Crash, Go, Points, End
<1>30. ASSUME NEW c \in Controllers, Archive(c) PROVE TypeOK'
    BY <1>30 DEF Archive, Go, Points, End, CommandsKnowTheirRun
<1>31. ASSUME NEW c \in Controllers, ReconcileArchive(c) PROVE TypeOK'
    BY <1>31 DEF ReconcileArchive, Go, Points, End
<1>32. ASSUME NEW c \in Controllers, ReleaseConfirmed(c) PROVE TypeOK'
    <2>1. run[c] \in Runs
        BY <1>32 DEF ReleaseConfirmed, CommandsKnowTheirRun
    <2>2. CASE End(c)
        BY <1>32, <2>1, <2>2 DEF ReleaseConfirmed, End, Go, Points
    <2>3. CASE Go(c, "archive") /\ UNCHANGED <<flock, run, plan, holds, after, locked, closed>>
        BY <1>32, <2>3 DEF ReleaseConfirmed, Go, Points
    <2>4. CASE Go(c, "reconfirm") /\ UNCHANGED <<flock, run, plan, holds, after, locked, closed>>
        BY <1>32, <2>4 DEF ReleaseConfirmed, Go, Points
    <2> QED BY <1>32, <2>2, <2>3, <2>4 DEF ReleaseConfirmed
<1>33. ASSUME NEW c \in Controllers, NEW p \in Plans, Start(c, p) PROVE TypeOK'
    BY <1>33 DEF Start, Go, Points, Runs
<1>34. ASSUME NEW c \in Controllers, NEW p \in Plans, OpenOwner(c, p) PROVE TypeOK'
    <2>1. fence[Home[c]].by \in Runs
        BY <1>34, FenceTypes DEF OpenOwner
    <2> QED BY <1>34, <2>1 DEF OpenOwner, Go, Points
<1>35. ASSUME NEW r \in Runs, ApplyCreate(r) PROVE TypeOK'
    BY <1>35 DEF ApplyCreate
<1>36. ASSUME NEW r \in Runs, ApplyDelete(r) PROVE TypeOK'
    BY <1>36 DEF ApplyDelete
<1>37. ASSUME NEW r \in Runs, Lose(r) PROVE TypeOK'
    BY <1>37 DEF Lose
<1>38. CASE UNCHANGED vars
    BY <1>38
<1> QED
    BY <1>1, <1>2, <1>3, <1>4, <1>5, <1>6, <1>7, <1>8, <1>9, <1>10, <1>11,
       <1>12, <1>13, <1>14, <1>15, <1>16, <1>17, <1>18, <1>19, <1>20,
       <1>21, <1>22, <1>23, <1>24, <1>25, <1>26, <1>27, <1>28, <1>29,
       <1>30, <1>31, <1>32, <1>33, <1>34, <1>35, <1>36, <1>37, <1>38
    DEF Next, Other, Step, Acquire, Execute, Release, Reconcile
-----------------------------------------------------------------------------
(* Preservation of the rest of the invariant                                *)

Rest == RunsAreOld /\ RunsAreUnique /\ CommandsKnowTheirRun
        /\ NoDeleteOfLiveLease /\ LiveOwnerKeepsLease

\* A step that moves one command forward and touches neither the Lease, a
\* directory nor a run number preserves the invariant when it enters the
\* owning part of the execution only with the Lease in hand.
LEMMA QuietStep ==
    ASSUME Inv, NEW c \in Controllers, NEW point \in Points,
           Go(c, point), UNCHANGED <<lease, deletes, fence, run, plan, nextRun>>,
           pc[c] \notin {"idle", "reflock", "verify"} \/ point \in {"reflock", "verify"},
           pc[c] # "idle",
           point \in {"idle", "reflock", "verify"} => pc[c] = "reflock",
           point \in Executing => pc[c] \in Executing,
           point \in Owning => pc[c] \in Owning \/ lease = run[c]
    PROVE  Rest'
<1> USE DEF Inv, TypeOK
<1>1. \A d \in Controllers : pc'[d] = IF d = c THEN point ELSE pc[d]
    BY DEF Go
<1>2. RunsAreOld' /\ RunsAreUnique'
    BY DEF RunsAreOld, RunsAreUnique, OneCommandPerRun, OneDirectoryPerRun,
       DirectoryAtHome
<1>3. CommandsKnowTheirRun'
    BY <1>1 DEF CommandsKnowTheirRun
<1>4. NoDeleteOfLiveLease'
    BY <1>1 DEF NoDeleteOfLiveLease
<1>5. LiveOwnerKeepsLease'
    BY <1>1 DEF LiveOwnerKeepsLease
<1> QED BY <1>2, <1>3, <1>4, <1>5 DEF Rest

\* The end of a command preserves the invariant, whether or not its store's
\* directory is moved away with it.
LEMMA EndStep ==
    ASSUME Inv, NEW c \in Controllers, End(c),
           UNCHANGED <<lease, deletes, nextRun>>,
           fence' = fence \/ fence' = [fence EXCEPT ![Home[c]] = NoFence]
    PROVE  Rest'
<1> USE FenceAssumption DEF Inv, TypeOK
<1>0. None \notin Runs
    BY DEF Runs
<1>1. \A d \in Controllers :
         /\ pc'[d] = IF d = c THEN "idle" ELSE pc[d]
         /\ run'[d] = IF d = c THEN None ELSE run[d]
         /\ plan'[d] = IF d = c THEN None ELSE plan[d]
    BY DEF End, Go
<1>2. \A s \in Stores : fence'[s].by \in {fence[s].by, None}
    <2>1. CASE fence' = fence
        BY <2>1
    <2>2. CASE fence' = [fence EXCEPT ![Home[c]] = NoFence]
        BY <2>2 DEF NoFence
    <2> QED BY <2>1, <2>2
<1>3. RunsAreOld'
    BY <1>0, <1>1, <1>2 DEF RunsAreOld
<1>4. RunsAreUnique'
    <2>1. OneCommandPerRun'
        BY <1>0, <1>1 DEF RunsAreUnique, OneCommandPerRun
    <2>2. OneDirectoryPerRun'
        BY <1>0, <1>2 DEF RunsAreUnique, OneDirectoryPerRun
    <2>3. DirectoryAtHome'
        BY <1>0, <1>1, <1>2 DEF RunsAreUnique, DirectoryAtHome
    <2> QED BY <2>1, <2>2, <2>3 DEF RunsAreUnique
<1>5. CommandsKnowTheirRun'
    BY <1>1 DEF CommandsKnowTheirRun
<1>6. NoDeleteOfLiveLease' /\ LiveOwnerKeepsLease'
    BY <1>1 DEF NoDeleteOfLiveLease, LiveOwnerKeepsLease, Executing, Owning
<1> QED BY <1>3, <1>4, <1>5, <1>6 DEF Rest

\* Every step preserves the rest of the invariant.  The locks are used once:
\* the run that a reconciliation reads from owner.json is in nobody else's
\* hands, since whoever had it in hand would hold the lock of its directory.
LEMMA NextRest == Inv /\ Leftovers /\ [NextCompared]_vars => Rest'
<1> SUFFICES ASSUME Inv, Leftovers, [NextCompared]_vars PROVE Rest'
    OBVIOUS
<1> USE FenceAssumption DEF Inv
<1>0. None \notin Runs
    BY DEF Runs
<1>1. ASSUME NEW c \in Controllers, ReadLease(c) PROVE Rest'
    BY <1>1, QuietStep DEF ReadLease, Points, Executing, Owning, shared
<1>2. ASSUME NEW c \in Controllers, SendCreate(c) PROVE Rest'
    BY <1>2, QuietStep DEF SendCreate, Points, Executing, Owning, shared
<1>3. ASSUME NEW c \in Controllers, CreateAnswered(c) PROVE Rest'
    BY <1>3, QuietStep DEF CreateAnswered, Points, Executing, Owning, shared
<1>4. ASSUME NEW c \in Controllers, CreateUnanswered(c) PROVE Rest'
    BY <1>4, QuietStep DEF CreateUnanswered, Points, Executing, Owning, shared
<1>5. ASSUME NEW c \in Controllers, InspectOwn(c) PROVE Rest'
    BY <1>5, QuietStep DEF InspectOwn, Points, Executing, Owning, shared
<1>6. ASSUME NEW c \in Controllers, MakeActive(c) PROVE Rest'
    BY <1>6, QuietStep DEF MakeActive, Points, Executing, Owning, shared
<1>7. ASSUME NEW c \in Controllers, CheckLease(c) PROVE Rest'
    BY <1>7, QuietStep DEF CheckLease, Points, Executing, Owning, shared
<1>8. ASSUME NEW c \in Controllers, Work(c) PROVE Rest'
    BY <1>8, QuietStep DEF Work, Points, Executing, Owning, shared
<1>9. ASSUME NEW c \in Controllers, Accept(c) PROVE Rest'
    BY <1>9, QuietStep DEF Accept, Points, Executing, Owning, shared
<1>10. ASSUME NEW c \in Controllers, Stop(c) PROVE Rest'
    BY <1>10, QuietStep DEF Stop, Points, Executing, Owning, shared
<1>11. ASSUME NEW c \in Controllers, RemoveActive(c) PROVE Rest'
    BY <1>11, QuietStep DEF RemoveActive, Points, Executing, Owning, shared
<1>12. ASSUME NEW c \in Controllers, ReleaseCheck(c) PROVE Rest'
    BY <1>12, QuietStep DEF ReleaseCheck, Points, Executing, Owning, shared
<1>13. ASSUME NEW c \in Controllers, DeleteAnswered(c) PROVE Rest'
    BY <1>13, QuietStep DEF DeleteAnswered, Points, Executing, Owning, shared
<1>14. ASSUME NEW c \in Controllers, Reconfirm(c) PROVE Rest'
    BY <1>14, QuietStep DEF Reconfirm, Points, Executing, Owning, shared
<1>15. ASSUME NEW c \in Controllers, ReconcileUnlock(c) PROVE Rest'
    BY <1>15, QuietStep DEF ReconcileUnlock, Points, Executing, Owning, shared
<1>16. ASSUME NEW c \in Controllers, TakeLock(c) PROVE Rest'
    BY <1>16, QuietStep DEF TakeLock, Points, Executing, Owning, shared
<1>17. ASSUME NEW c \in Controllers, LockOwner(c) PROVE Rest'
    BY <1>17, QuietStep DEF LockOwner, Points, Executing, Owning, shared
<1>18. ASSUME NEW c \in Controllers, OpenJournal(c) PROVE Rest'
    <2>1. Go(c, "check") \/ Go(c, "evidence")
        BY <1>18 DEF OpenJournal, Go, Inv, TypeOK
    <2> QED BY <1>18, <2>1, QuietStep DEF OpenJournal, Points, Executing, Owning
<1>19. ASSUME NEW c \in Controllers, Repeat(c) PROVE Rest'
    <2>1. Go(c, "reconfirm") \/ Go(c, "release")
        BY <1>19 DEF Repeat
    <2> QED BY <1>19, <2>1, QuietStep DEF Repeat, Points, Executing, Owning, shared
<1>20. ASSUME NEW c \in Controllers, AcquireFails(c) PROVE Rest'
    BY <1>20, EndStep DEF AcquireFails
<1>21. ASSUME NEW c \in Controllers, ReleaseFails(c) PROVE Rest'
    BY <1>21, EndStep DEF ReleaseFails
<1>22. ASSUME NEW c \in Controllers, ArchiveFails(c) PROVE Rest'
    BY <1>22, EndStep DEF ArchiveFails
<1>23. ASSUME NEW c \in Controllers, ReconcileFails(c) PROVE Rest'
    BY <1>23, EndStep DEF ReconcileFails
<1>24. ASSUME NEW c \in Controllers, Crash(c) PROVE Rest'
    BY <1>24, EndStep DEF Crash
<1>25. ASSUME NEW c \in Controllers, Archive(c) PROVE Rest'
    BY <1>25, EndStep DEF Archive
<1>26. ASSUME NEW c \in Controllers, ReconcileArchive(c) PROVE Rest'
    BY <1>26, EndStep DEF ReconcileArchive
<1>27. ASSUME NEW c \in Controllers, ReleaseConfirmed(c) PROVE Rest'
    <2>1. CASE End(c)
        BY <1>27, <2>1, EndStep DEF ReleaseConfirmed
    <2>2. CASE Go(c, "archive") /\ UNCHANGED <<run, plan>>
        BY <1>27, <2>2, QuietStep DEF ReleaseConfirmed, Points, Executing, Owning
    <2>3. CASE Go(c, "reconfirm") /\ UNCHANGED <<run, plan>>
        BY <1>27, <2>3, QuietStep DEF ReleaseConfirmed, Points, Executing, Owning
    <2> QED BY <1>27, <2>1, <2>2, <2>3 DEF ReleaseConfirmed
<1>28. ASSUME NEW c \in Controllers, NEW p \in Plans, Start(c, p) PROVE Rest'
    <2> USE <1>28 DEF TypeOK
    <2>1. \A d \in Controllers :
             /\ pc'[d] = IF d = c THEN "read" ELSE pc[d]
             /\ run'[d] = IF d = c THEN nextRun ELSE run[d]
             /\ plan'[d] = IF d = c THEN p ELSE plan[d]
        BY DEF Start, Go
    <2>2. UNCHANGED <<lease, deletes, fence>> /\ nextRun' = nextRun + 1
          /\ nextRun \in Runs
        BY DEF Start, shared, Runs
    <2>3. RunsAreOld'
        BY <2>1, <2>2 DEF RunsAreOld, Runs
    <2>4. RunsAreUnique'
        <3>1. OneCommandPerRun'
            BY <2>1, <2>2 DEF RunsAreUnique, OneCommandPerRun, RunsAreOld, Runs
        <3>2. OneDirectoryPerRun'
            BY <2>2 DEF RunsAreUnique, OneDirectoryPerRun
        <3>3. DirectoryAtHome'
            BY <2>1, <2>2 DEF RunsAreUnique, DirectoryAtHome, RunsAreOld, Runs
        <3> QED BY <3>1, <3>2, <3>3 DEF RunsAreUnique
    <2>5. CommandsKnowTheirRun'
        BY <2>1, <2>2 DEF CommandsKnowTheirRun
    <2>6. NoDeleteOfLiveLease'
        <3>1. nextRun \notin deletes
            BY <2>2 DEF RunsAreOld, Runs
        <3>2. run'[c] \notin deletes'
            BY <2>1, <2>2, <3>1
        <3>3. \A d \in Controllers \ {c} : pc'[d] = pc[d] /\ run'[d] = run[d]
            BY <2>1
        <3> QED BY <2>2, <3>2, <3>3 DEF NoDeleteOfLiveLease
    <2>7. LiveOwnerKeepsLease'
        BY <2>1, <2>2 DEF LiveOwnerKeepsLease, Owning
    <2> QED BY <2>3, <2>4, <2>5, <2>6, <2>7 DEF Rest
<1>29. ASSUME NEW c \in Controllers, NEW p \in Plans, OpenOwner(c, p) PROVE Rest'
    <2> USE <1>29 DEF TypeOK
    <2>1. \A d \in Controllers :
             /\ pc'[d] = IF d = c THEN "reflock" ELSE pc[d]
             /\ plan'[d] = IF d = c THEN p ELSE plan[d]
        BY DEF OpenOwner, Go
    <2>2. UNCHANGED <<lease, deletes, fence, run, nextRun>> /\ pc[c] = "idle"
        BY DEF OpenOwner, shared
    <2>3. RunsAreOld' /\ RunsAreUnique'
        BY <2>2 DEF RunsAreOld, RunsAreUnique, OneCommandPerRun,
           OneDirectoryPerRun, DirectoryAtHome
    <2>4. CommandsKnowTheirRun'
        BY <2>1, <2>2 DEF CommandsKnowTheirRun
    <2>5. NoDeleteOfLiveLease' /\ LiveOwnerKeepsLease'
        BY <2>1, <2>2 DEF NoDeleteOfLiveLease, LiveOwnerKeepsLease, Executing, Owning
    <2> QED BY <2>3, <2>4, <2>5 DEF Rest
<1>30. ASSUME NEW c \in Controllers, SendDelete(c) PROVE Rest'
    <2> USE <1>30 DEF TypeOK
    <2>1. \A d \in Controllers : pc'[d] = IF d = c THEN "deleting" ELSE pc[d]
        BY DEF SendDelete, Go
    <2>2. UNCHANGED <<lease, fence, run, plan, nextRun>>
          /\ deletes' = deletes \cup {run[c]} /\ run[c] \in Runs
          /\ pc[c] = "delete"
        BY DEF SendDelete, CommandsKnowTheirRun
    <2>3. RunsAreOld' /\ RunsAreUnique'
        BY <2>2 DEF RunsAreOld, RunsAreUnique, OneCommandPerRun,
           OneDirectoryPerRun, DirectoryAtHome
    <2>4. CommandsKnowTheirRun'
        BY <2>1, <2>2 DEF CommandsKnowTheirRun
    <2>5. NoDeleteOfLiveLease'
        BY <2>1, <2>2 DEF NoDeleteOfLiveLease, RunsAreUnique, OneCommandPerRun,
           Executing, Owning
    <2>6. LiveOwnerKeepsLease'
        BY <2>1, <2>2 DEF LiveOwnerKeepsLease, Owning
    <2> QED BY <2>3, <2>4, <2>5, <2>6 DEF Rest
<1>31. ASSUME NEW c \in Controllers, VerifyLocked(c) PROVE Rest'
    <2> USE <1>31 DEF VerifyLocked, TypeOK
    <2> DEFINE r == fence[Home[c]].by
    <2>1. \A d \in Controllers :
             /\ pc'[d] = IF d = c THEN "repeat" ELSE pc[d]
             /\ run'[d] = IF d = c THEN r ELSE run[d]
        BY DEF Verify, Go
    <2>2. UNCHANGED <<lease, deletes, fence, plan, nextRun>>
          /\ r \in Runs /\ pc[c] = "verify"
        BY FenceTypes DEF Verify, Reconcilable, shared
    <2>3. RunsAreOld'
        BY <2>1, <2>2 DEF RunsAreOld
    <2>4. \A d \in Controllers : run[d] = r => d = c
        <3> SUFFICES ASSUME NEW d \in Controllers, run[d] = r, d # c PROVE FALSE
            OBVIOUS
        <3>1. flock[r] = c /\ fence[Home[c]].owner
            BY <2>2 DEF Leftovers, View, LockInHand, Verify, Reconcilable
        <3>2. Home[d] = Home[c]
            BY <2>2 DEF RunsAreUnique, DirectoryAtHome
        <3>3. View(d)
            BY DEF Leftovers
        <3>4. Attempting(d) \/ Reconciling(d)
            <4>1. pc[d] \in Points \ {"idle", "reflock", "verify"}
                BY <1>0, <2>2 DEF CommandsKnowTheirRun
            <4> QED BY <4>1 DEF Attempting, Reconciling, Points, Executing, Owning,
                   Releasing, Repairing
        <3>5. CASE Attempting(d)
            BY <3>1, <3>2, <3>3, <3>5 DEF View, DirectoryOfAttempt
        <3>6. CASE Reconciling(d)
            BY <3>1, <3>3, <3>6 DEF View, DirectoryOfRepair
        <3> QED BY <3>4, <3>5, <3>6
    <2>5. RunsAreUnique'
        <3>1. OneCommandPerRun'
            BY <2>1, <2>2, <2>4 DEF RunsAreUnique, OneCommandPerRun
        <3>2. OneDirectoryPerRun'
            BY <2>2 DEF RunsAreUnique, OneDirectoryPerRun
        <3>3. DirectoryAtHome'
            <4>1. \A t \in Stores : fence[t].by = r => t = Home[c]
                BY <2>2 DEF RunsAreUnique, OneDirectoryPerRun
            <4>2. \A t \in Stores : fence'[t].by = fence[t].by
                BY <2>2
            <4>3. \A d \in Controllers, t \in Stores :
                     run[d] \in Runs /\ fence[t].by = run[d] => Home[d] = t
                BY DEF RunsAreUnique, DirectoryAtHome
            <4> HIDE DEF r
            <4> QED BY <2>1, <4>1, <4>2, <4>3 DEF DirectoryAtHome
        <3> QED BY <3>1, <3>2, <3>3 DEF RunsAreUnique
    <2>6. CommandsKnowTheirRun'
        BY <2>1, <2>2 DEF CommandsKnowTheirRun
    <2>7. NoDeleteOfLiveLease' /\ LiveOwnerKeepsLease'
        BY <2>1, <2>2 DEF NoDeleteOfLiveLease, LiveOwnerKeepsLease, Executing, Owning
    <2> QED BY <2>3, <2>5, <2>6, <2>7 DEF Rest
<1>32. ASSUME NEW c \in Controllers, MakeFence(c) PROVE Rest'
    <2> USE <1>32 DEF TypeOK
    <2>1. \A d \in Controllers : pc'[d] = IF d = c THEN "mklock" ELSE pc[d]
        BY DEF MakeFence, Go
    <2>2. UNCHANGED <<lease, deletes, run, plan, nextRun>> /\ run[c] \in Runs
        BY DEF MakeFence, CommandsKnowTheirRun
    <2>3. \A s \in Stores :
             fence'[s].by = IF s = Home[c] THEN run[c] ELSE fence[s].by
        BY <2>2 DEF MakeFence
    <2>4. RunsAreOld'
        BY <2>2, <2>3 DEF RunsAreOld
    <2>5. RunsAreUnique'
        <3>1. OneCommandPerRun'
            BY <2>2 DEF RunsAreUnique, OneCommandPerRun
        <3>2. OneDirectoryPerRun'
            <4>1. \A s \in Stores : fence[s].by = run[c] => s = Home[c]
                BY <2>2 DEF RunsAreUnique, DirectoryAtHome
            <4>2. \A s, t \in Stores \ {Home[c]} :
                     fence'[s].by = fence'[t].by /\ fence'[s].by \in Runs => s = t
                BY <2>3 DEF RunsAreUnique, OneDirectoryPerRun
            <4>3. \A s \in Stores \ {Home[c]} : fence'[s].by # run[c]
                BY <2>3, <4>1
            <4>4. Home[c] \in Stores /\ fence'[Home[c]].by = run[c]
                BY <2>3
            <4> QED BY <4>2, <4>3, <4>4 DEF OneDirectoryPerRun
        <3>3. DirectoryAtHome'
            BY <2>2, <2>3 DEF RunsAreUnique, DirectoryAtHome, OneCommandPerRun
        <3> QED BY <3>1, <3>2, <3>3 DEF RunsAreUnique
    <2>6. CommandsKnowTheirRun'
        BY <2>1, <2>2 DEF CommandsKnowTheirRun, MakeFence
    <2>7. NoDeleteOfLiveLease' /\ LiveOwnerKeepsLease'
        BY <2>1, <2>2 DEF NoDeleteOfLiveLease, LiveOwnerKeepsLease, Executing, Owning, MakeFence
    <2> QED BY <2>4, <2>5, <2>6, <2>7 DEF Rest
<1>33. ASSUME NEW c \in Controllers, MakeLock(c) PROVE Rest'
    <2> USE <1>33 DEF TypeOK
    <2>1. \A d \in Controllers : pc'[d] = IF d = c THEN "flock" ELSE pc[d]
        BY DEF MakeLock, Go
    <2>2. UNCHANGED <<lease, deletes, run, plan, nextRun>> /\ run[c] \in Runs
        BY DEF MakeLock, CommandsKnowTheirRun
    <2>3. \A s \in Stores :
             fence'[s].by = IF s = Home[c] THEN run[c] ELSE fence[s].by
        BY <2>2, FenceTypes DEF MakeLock
    <2>4. RunsAreOld'
        BY <2>2, <2>3 DEF RunsAreOld
    <2>5. RunsAreUnique'
        <3>1. OneCommandPerRun'
            BY <2>2 DEF RunsAreUnique, OneCommandPerRun
        <3>2. OneDirectoryPerRun'
            <4>1. \A s \in Stores : fence[s].by = run[c] => s = Home[c]
                BY <2>2 DEF RunsAreUnique, DirectoryAtHome
            <4>2. \A s, t \in Stores \ {Home[c]} :
                     fence'[s].by = fence'[t].by /\ fence'[s].by \in Runs => s = t
                BY <2>3 DEF RunsAreUnique, OneDirectoryPerRun
            <4>3. \A s \in Stores \ {Home[c]} : fence'[s].by # run[c]
                BY <2>3, <4>1
            <4>4. Home[c] \in Stores /\ fence'[Home[c]].by = run[c]
                BY <2>3
            <4> QED BY <4>2, <4>3, <4>4 DEF OneDirectoryPerRun
        <3>3. DirectoryAtHome'
            BY <2>2, <2>3 DEF RunsAreUnique, DirectoryAtHome, OneCommandPerRun
        <3> QED BY <3>1, <3>2, <3>3 DEF RunsAreUnique
    <2>6. CommandsKnowTheirRun'
        BY <2>1, <2>2 DEF CommandsKnowTheirRun, MakeLock
    <2>7. NoDeleteOfLiveLease' /\ LiveOwnerKeepsLease'
        BY <2>1, <2>2 DEF NoDeleteOfLiveLease, LiveOwnerKeepsLease, Executing, Owning, MakeLock
    <2> QED BY <2>4, <2>5, <2>6, <2>7 DEF Rest
<1>34. ASSUME NEW c \in Controllers, WriteOwner(c) PROVE Rest'
    <2> USE <1>34 DEF TypeOK
    <2>1. \A d \in Controllers : pc'[d] = IF d = c THEN "mkactive" ELSE pc[d]
        BY DEF WriteOwner, Go
    <2>2. UNCHANGED <<lease, deletes, run, plan, nextRun>> /\ run[c] \in Runs
        BY DEF WriteOwner, CommandsKnowTheirRun
    <2>3. \A s \in Stores :
             fence'[s].by = IF s = Home[c] THEN run[c] ELSE fence[s].by
        BY <2>2, FenceTypes DEF WriteOwner
    <2>4. RunsAreOld'
        BY <2>2, <2>3 DEF RunsAreOld
    <2>5. RunsAreUnique'
        <3>1. OneCommandPerRun'
            BY <2>2 DEF RunsAreUnique, OneCommandPerRun
        <3>2. OneDirectoryPerRun'
            <4>1. \A s \in Stores : fence[s].by = run[c] => s = Home[c]
                BY <2>2 DEF RunsAreUnique, DirectoryAtHome
            <4>2. \A s, t \in Stores \ {Home[c]} :
                     fence'[s].by = fence'[t].by /\ fence'[s].by \in Runs => s = t
                BY <2>3 DEF RunsAreUnique, OneDirectoryPerRun
            <4>3. \A s \in Stores \ {Home[c]} : fence'[s].by # run[c]
                BY <2>3, <4>1
            <4>4. Home[c] \in Stores /\ fence'[Home[c]].by = run[c]
                BY <2>3
            <4> QED BY <4>2, <4>3, <4>4 DEF OneDirectoryPerRun
        <3>3. DirectoryAtHome'
            BY <2>2, <2>3 DEF RunsAreUnique, DirectoryAtHome, OneCommandPerRun
        <3> QED BY <3>1, <3>2, <3>3 DEF RunsAreUnique
    <2>6. CommandsKnowTheirRun'
        BY <2>1, <2>2 DEF CommandsKnowTheirRun, WriteOwner
    <2>7. NoDeleteOfLiveLease' /\ LiveOwnerKeepsLease'
        BY <2>1, <2>2 DEF NoDeleteOfLiveLease, LiveOwnerKeepsLease, Executing, Owning, WriteOwner
    <2> QED BY <2>4, <2>5, <2>6, <2>7 DEF Rest
<1>35. ASSUME NEW r \in Runs, ApplyCreate(r) PROVE Rest'
    <2> USE <1>35 DEF ApplyCreate, local
    <2>1. RunsAreOld' /\ RunsAreUnique' /\ CommandsKnowTheirRun'
        BY DEF RunsAreOld, RunsAreUnique, OneCommandPerRun,
           OneDirectoryPerRun, DirectoryAtHome, CommandsKnowTheirRun
    <2>2. NoDeleteOfLiveLease'
        BY DEF NoDeleteOfLiveLease
    <2>3. LiveOwnerKeepsLease'
        BY <1>0 DEF LiveOwnerKeepsLease, CommandsKnowTheirRun, Owning
    <2> QED BY <2>1, <2>2, <2>3 DEF Rest
<1>36. ASSUME NEW r \in Runs, ApplyDelete(r) PROVE Rest'
    <2> USE <1>36 DEF ApplyDelete, local
    <2>1. RunsAreOld' /\ RunsAreUnique' /\ CommandsKnowTheirRun'
        BY DEF RunsAreOld, RunsAreUnique, OneCommandPerRun,
           OneDirectoryPerRun, DirectoryAtHome, CommandsKnowTheirRun
    <2>2. NoDeleteOfLiveLease'
        BY DEF NoDeleteOfLiveLease
    <2>3. LiveOwnerKeepsLease'
        BY DEF LiveOwnerKeepsLease, NoDeleteOfLiveLease, Executing
    <2> QED BY <2>1, <2>2, <2>3 DEF Rest
<1>37. ASSUME NEW r \in Runs, Lose(r) PROVE Rest'
    BY <1>37 DEF Lose, local, Rest, RunsAreOld, RunsAreUnique, OneCommandPerRun,
       OneDirectoryPerRun, DirectoryAtHome, CommandsKnowTheirRun, NoDeleteOfLiveLease, LiveOwnerKeepsLease
<1>38. CASE UNCHANGED vars
    BY <1>38 DEF vars, shared, local, Rest, RunsAreOld, RunsAreUnique, OneCommandPerRun,
       OneDirectoryPerRun, DirectoryAtHome, CommandsKnowTheirRun, NoDeleteOfLiveLease, LiveOwnerKeepsLease
<1> QED
    BY <1>1, <1>2, <1>3, <1>4, <1>5, <1>6, <1>7, <1>8, <1>9, <1>10, <1>11,
       <1>12, <1>13, <1>14, <1>15, <1>16, <1>17, <1>18, <1>19, <1>20,
       <1>21, <1>22, <1>23, <1>24, <1>25, <1>26, <1>27, <1>28, <1>29,
       <1>30, <1>31, <1>32, <1>33, <1>34, <1>35, <1>36, <1>37, <1>38
    DEF NextCompared, Other, Step, Acquire, Execute, Release, Reconcile

-----------------------------------------------------------------------------
(* Preservation of Leftovers                                                *)

\* One step of command c.
Moves(c) ==
    \/ Step(c) \/ VerifyLocked(c) \/ Crash(c)
    \/ \E p \in Plans : Start(c, p) \/ OpenOwner(c, p)

\* A step of command c leaves the other commands and the locks they hold
\* alone, and changes a store only at its home and only while the directory
\* there is its own or there is none; it puts nobody else's name on it.  It
\* faces a lock only by opening the one of the directory there is.
Frame(c) ==
    /\ \A d \in Controllers \ {c} :
          pc'[d] = pc[d] /\ run'[d] = run[d] /\ plan'[d] = plan[d]
          /\ holds'[d] = holds[d] /\ after'[d] = after[d] /\ locked'[d] = locked[d]
    /\ \A s \in Stores :
          s # Home[c] \/ fence[s].by \notin {None, run[c]} =>
             fence'[s] = fence[s] /\ active'[s] = active[s] /\ journal'[s] = journal[s]
    /\ fence'[Home[c]].by \in {fence[Home[c]].by, run[c], None}
    /\ \A r \in Runs, d \in Controllers \ {c} : flock[r] = d => flock'[r] = d
    /\ pc'[c] \in {"reflock", "verify"} =>
          /\ fence' = fence
          /\ \/ locked'[c] = fence[Home[c]].by
             \/ pc[c] = "reflock" /\ locked'[c] = locked[c]

\* What a step of one command does to the view of another: nothing.  On a
\* store of another host it changes nothing; on the same store either the
\* other command has the directory, which then is not the first one's, or its
\* view says nothing of the directory.
LEMMA OthersKeepView ==
    ASSUME Inv, NEW c \in Controllers, Frame(c),
           NEW d \in Controllers \ {c}, View(d)
    PROVE  View(d)'
<1> USE FenceAssumption DEF Inv
<1>0. None \notin Runs /\ Home[d] \in Stores /\ Home[c] \in Stores
    BY DEF Runs
<1>1. /\ pc'[d] = pc[d] /\ run'[d] = run[d] /\ plan'[d] = plan[d]
      /\ holds'[d] = holds[d] /\ after'[d] = after[d] /\ locked'[d] = locked[d]
    BY DEF Frame
<1>2. \A r \in Runs : flock[r] = d => flock'[r] = d
    BY DEF Frame
<1>3. pc[d] \notin {"idle", "reflock", "verify"} => run[d] \in Runs
    BY DEF CommandsKnowTheirRun
<1>4. run[d] \in Runs => run[c] # run[d]
    BY DEF RunsAreUnique, OneCommandPerRun
<1>5. Attempting(d)' = Attempting(d) /\ Reconciling(d)' = Reconciling(d)
    BY <1>1 DEF Attempting, Reconciling
<1>6. ReleaseHasReason(d)' /\ LockInHand(d)'
    BY <1>1, <1>2 DEF View, ReleaseHasReason, LockInHand
<1>7. CASE "fence" \in holds[d] \/ Reconciling(d)
    <2>1. fence[Home[d]].by = run[d]
        BY <1>7 DEF View, DirectoryOfAttempt, DirectoryOfRepair
    <2>2. run[d] \in Runs
        <3>1. CASE Reconciling(d)
            BY <1>3, <3>1 DEF Reconciling, Repairing, Releasing
        <3>2. CASE "fence" \in holds[d]
            BY <1>3, <3>2 DEF View, PartsMade, Releasing
        <3> QED BY <1>7, <3>1, <3>2
    <2>3. /\ fence'[Home[d]] = fence[Home[d]] /\ active'[Home[d]] = active[Home[d]]
          /\ journal'[Home[d]] = journal[Home[d]]
        BY <1>0, <1>4, <2>1, <2>2 DEF Frame
    <2>4. flock[run[d]] = d => flock'[run[d]] = d
        BY <1>2, <2>2
    <2>5. PartsMade(d)'
        BY <1>1, <2>3, <2>4 DEF View, PartsMade
    <2>6. DirectoryOfRepair(d)'
        BY <1>1, <1>5, <2>3, <2>4 DEF View, DirectoryOfRepair
    <2>7. ASSUME Attempting(d), "fence" \notin holds[d] PROVE FALSE
        BY <1>0, <2>1, <2>7 DEF View, DirectoryOfAttempt
    <2>8. DirectoryOfAttempt(d)'
        BY <1>1, <1>5, <2>3, <2>4, <2>7 DEF View, DirectoryOfAttempt
    <2> QED BY <1>6, <2>5, <2>6, <2>8 DEF View
<1>8. CASE "fence" \notin holds[d] /\ ~Reconciling(d)
    <2>1. PartsMade(d)'
        BY <1>1, <1>8 DEF View, PartsMade
    <2>2. DirectoryOfRepair(d)'
        BY <1>5, <1>8 DEF DirectoryOfRepair
    <2>3. ASSUME Attempting(d), NEW s \in Stores PROVE fence'[s].by # run[d]
        <3>1. fence[s].by # run[d] /\ run[d] \in Runs
            BY <1>3, <1>8, <2>3 DEF View, DirectoryOfAttempt, Attempting, Executing,
               Owning, Releasing
        <3>2. CASE s = Home[c]
            BY <1>0, <1>4, <3>1, <3>2 DEF Frame
        <3>3. CASE s # Home[c]
            BY <3>1, <3>3 DEF Frame
        <3> QED BY <3>2, <3>3
    <2>4. DirectoryOfAttempt(d)'
        BY <1>1, <1>5, <1>8, <2>3 DEF DirectoryOfAttempt
    <2> QED BY <1>6, <2>1, <2>2, <2>4 DEF View
<1> QED BY <1>7, <1>8

\* Every step of a command stays within its frame.
LEMMA StepsHaveFrames ==
    ASSUME Inv, Leftovers, NEW c \in Controllers, Moves(c)
    PROVE  Frame(c)
<1> USE FenceAssumption DEF Inv, TypeOK, Frame, Go, shared, local
<1>0. /\ pc[c] \in {"mkactive", "evidence", "work", "unactive", "rearchive"} \/ "active" \in holds[c]
           => fence[Home[c]].by = run[c]
      /\ Home[c] \in Stores
    BY DEF Leftovers, View, PartsMade, DirectoryOfAttempt, DirectoryOfRepair, Reconciling,
       Repairing
<1>1. CASE ReadLease(c)
    BY <1>1 DEF ReadLease
<1>2. CASE SendCreate(c)
    BY <1>2 DEF SendCreate
<1>3. CASE CreateAnswered(c)
    BY <1>3 DEF CreateAnswered
<1>4. CASE CreateUnanswered(c)
    BY <1>4 DEF CreateUnanswered
<1>5. CASE InspectOwn(c)
    BY <1>5 DEF InspectOwn
<1>6. CASE AcquireFails(c)
    BY <1>6 DEF AcquireFails, End
<1>7. CASE MakeFence(c)
    BY <1>0, <1>7 DEF MakeFence, NoFence
<1>8. CASE MakeLock(c)
    BY <1>0, <1>8, FenceTypes DEF MakeLock, CommandsKnowTheirRun
<1>9. CASE TakeLock(c)
    BY <1>9 DEF TakeLock
<1>10. CASE WriteOwner(c)
    BY <1>0, <1>10, FenceTypes DEF WriteOwner, CommandsKnowTheirRun
<1>11. CASE MakeActive(c)
    BY <1>0, <1>11 DEF MakeActive
<1>12. CASE OpenJournal(c)
    BY <1>0, <1>12 DEF OpenJournal, SetState
<1>13. CASE CheckLease(c)
    BY <1>13 DEF CheckLease
<1>14. CASE Work(c)
    BY <1>0, <1>14 DEF Work, SetState
<1>15. CASE Accept(c)
    BY <1>0, <1>15 DEF Accept, SetState
<1>16. CASE Stop(c)
    BY <1>16 DEF Stop
<1>17. CASE RemoveActive(c)
    BY <1>0, <1>17 DEF RemoveActive
<1>18. CASE ReleaseCheck(c)
    BY <1>18 DEF ReleaseCheck
<1>19. CASE SendDelete(c)
    BY <1>19 DEF SendDelete
<1>20. CASE DeleteAnswered(c)
    BY <1>20 DEF DeleteAnswered
<1>21. CASE ReleaseConfirmed(c)
    BY <1>21 DEF ReleaseConfirmed, End
<1>22. CASE ReleaseFails(c)
    BY <1>22 DEF ReleaseFails, End
<1>23. CASE Archive(c)
    BY <1>0, <1>23 DEF Archive, End, NoFence
<1>24. CASE ArchiveFails(c)
    BY <1>24 DEF ArchiveFails, End
<1>25. CASE LockOwner(c)
    BY <1>25 DEF LockOwner
<1>26. CASE VerifyLocked(c)
    BY <1>26 DEF VerifyLocked, Verify
<1>27. CASE Repeat(c)
    BY <1>27 DEF Repeat
<1>28. CASE Reconfirm(c)
    BY <1>28 DEF Reconfirm
<1>29. CASE ReconcileUnlock(c)
    BY <1>0, <1>29 DEF ReconcileUnlock
<1>30. CASE ReconcileArchive(c)
    BY <1>0, <1>30 DEF ReconcileArchive, End, NoFence
<1>31. CASE ReconcileFails(c)
    BY <1>31 DEF ReconcileFails, End
<1>32. CASE Crash(c)
    BY <1>32 DEF Crash, End
<1>33. ASSUME NEW p \in Plans, Start(c, p) PROVE Frame(c)
    BY <1>33 DEF Start
<1>34. ASSUME NEW p \in Plans, OpenOwner(c, p) PROVE Frame(c)
    BY <1>34 DEF OpenOwner
<1> QED
    BY <1>1, <1>2, <1>3, <1>4, <1>5, <1>6, <1>7, <1>8, <1>9, <1>10, <1>11,
       <1>12, <1>13, <1>14, <1>15, <1>16, <1>17, <1>18, <1>19, <1>20, <1>21,
       <1>22, <1>23, <1>24, <1>25, <1>26, <1>27, <1>28, <1>29, <1>30, <1>31,
       <1>32, <1>33, <1>34
    DEF Moves, Step, Acquire, Execute, Release, Reconcile

\* The end of a command leaves it without any part.
LEMMA EndView ==
    ASSUME Inv, NEW c \in Controllers, End(c) PROVE View(c)'
<1>1. pc'[c] = "idle" /\ holds'[c] = {}
    BY DEF Inv, TypeOK, End, Go
<1> QED BY <1>1 DEF View, ReleaseHasReason, PartsMade, LockInHand, DirectoryOfAttempt,
       DirectoryOfRepair, Attempting, Reconciling, Releasing, Repairing, Executing, Owning

\* Every step of a command keeps its own view true.
LEMMA OwnView ==
    ASSUME Inv, Leftovers, NEW c \in Controllers,
           Moves(c)
    PROVE  View(c)'
<1> USE FenceAssumption
<1>0. /\ TypeOK /\ View(c) /\ Home[c] \in Stores /\ None \notin Runs
      /\ pc[c] \notin {"idle", "reflock", "verify"} => run[c] \in Runs /\ plan[c] \in Plans
      /\ \A q \in active[Home[c]] : fence[Home[c]].plan = q /\ fence[Home[c]].owner
    BY DEF Inv, Leftovers, NothingStranded, ActiveCovered, CommandsKnowTheirRun, Runs
<1> USE DEF View, ReleaseHasReason, PartsMade, LockInHand, DirectoryOfAttempt,
       DirectoryOfRepair, Attempting, Reconciling, Releasing, Repairing, Executing, Owning
<1>1. CASE ReadLease(c)
    BY <1>0, <1>1 DEF ReadLease, Go, TypeOK, shared
<1>2. CASE SendCreate(c)
    BY <1>0, <1>2 DEF SendCreate, Go, TypeOK, shared
<1>3. CASE CreateAnswered(c)
    BY <1>0, <1>3 DEF CreateAnswered, Go, TypeOK, shared
<1>4. CASE CreateUnanswered(c)
    BY <1>0, <1>4 DEF CreateUnanswered, Go, TypeOK, shared
<1>5. CASE InspectOwn(c)
    BY <1>0, <1>5 DEF InspectOwn, Go, TypeOK, shared
<1>6. CASE AcquireFails(c)
    BY <1>6, EndView DEF AcquireFails
<1>7. CASE MakeFence(c)
    BY <1>0, <1>7 DEF MakeFence, Go, TypeOK, shared, NoFence
<1>8. CASE MakeLock(c)
    BY <1>0, <1>8 DEF MakeLock, Go, TypeOK, shared
<1>9. CASE TakeLock(c)
    BY <1>0, <1>9 DEF TakeLock, Go, TypeOK, shared
<1>10. CASE WriteOwner(c)
    BY <1>0, <1>10 DEF WriteOwner, Go, TypeOK, shared
<1>11. CASE MakeActive(c)
    BY <1>0, <1>11 DEF MakeActive, Go, TypeOK, shared
<1>12. CASE OpenJournal(c)
    BY <1>0, <1>12 DEF OpenJournal, Go, TypeOK, shared, SetState, State
<1>13. CASE CheckLease(c)
    BY <1>0, <1>13 DEF CheckLease, Go, TypeOK, shared
<1>14. CASE Work(c)
    BY <1>0, <1>14 DEF Work, Go, TypeOK, shared, SetState, State
<1>15. CASE Accept(c)
    BY <1>0, <1>15 DEF Accept, Go, TypeOK, shared, SetState, State
<1>16. CASE Stop(c)
    BY <1>0, <1>16 DEF Stop, Go, TypeOK, shared
<1>17. CASE RemoveActive(c)
    BY <1>0, <1>17 DEF RemoveActive, Go, TypeOK, shared
<1>18. CASE ReleaseCheck(c)
    BY <1>0, <1>18 DEF ReleaseCheck, Go, TypeOK, shared
<1>19. CASE SendDelete(c)
    BY <1>0, <1>19 DEF SendDelete, Go, TypeOK, shared
<1>20. CASE DeleteAnswered(c)
    BY <1>0, <1>20 DEF DeleteAnswered, Go, TypeOK, shared
<1>21. CASE ReleaseConfirmed(c)
    <2>1. CASE End(c)
        BY <2>1, EndView
    <2>2. CASE Go(c, "archive") /\ after[c] = "execute" /\ UNCHANGED <<flock, run, plan, holds, after>>
        BY <1>0, <1>21, <2>2 DEF ReleaseConfirmed, Go, TypeOK
    <2>3. CASE Go(c, "reconfirm") /\ after[c] = "reconcile" /\ UNCHANGED <<flock, run, plan, holds, after>>
        BY <1>0, <1>21, <2>3 DEF ReleaseConfirmed, Go, TypeOK
    <2> QED BY <1>21, <2>1, <2>2, <2>3 DEF ReleaseConfirmed
<1>22. CASE ReleaseFails(c)
    BY <1>22, EndView DEF ReleaseFails
<1>23. CASE Archive(c)
    BY <1>23, EndView DEF Archive
<1>24. CASE ArchiveFails(c)
    BY <1>24, EndView DEF ArchiveFails
<1>25. CASE LockOwner(c)
    BY <1>0, <1>25 DEF LockOwner, Go, TypeOK, shared
<1>26. CASE VerifyLocked(c)
    BY <1>0, <1>26 DEF VerifyLocked, Verify, Go, TypeOK, shared, Reconcilable, State
<1>27. CASE Repeat(c)
    BY <1>0, <1>27 DEF Repeat, Go, TypeOK, shared
<1>28. CASE Reconfirm(c)
    BY <1>0, <1>28 DEF Reconfirm, Go, TypeOK, shared
<1>29. CASE ReconcileUnlock(c)
    BY <1>0, <1>29 DEF ReconcileUnlock, Go, TypeOK, shared
<1>30. CASE ReconcileArchive(c)
    BY <1>30, EndView DEF ReconcileArchive
<1>31. CASE ReconcileFails(c)
    BY <1>31, EndView DEF ReconcileFails
<1>32. CASE Crash(c)
    BY <1>32, EndView DEF Crash
<1>33. ASSUME NEW p \in Plans, Start(c, p) PROVE View(c)'
    <2>1. pc'[c] = "read" /\ holds'[c] = {} /\ run'[c] = nextRun /\ fence' = fence
        BY <1>0, <1>33 DEF Start, Go, TypeOK, shared
    <2>2. \A s \in Stores : fence[s].by # nextRun
        BY <1>0, <1>33 DEF Start, Inv, RunsAreOld, TypeOK, Runs
    <2> QED BY <2>1, <2>2
<1>34. ASSUME NEW p \in Plans, OpenOwner(c, p) PROVE View(c)'
    <2>1. fence[Home[c]].by \in Runs
        BY <1>0, <1>34, FenceTypes DEF OpenOwner
    <2> QED BY <1>0, <1>34, <2>1 DEF OpenOwner, Go, TypeOK, shared
<1> QED
    BY <1>1, <1>2, <1>3, <1>4, <1>5, <1>6, <1>7, <1>8, <1>9, <1>10, <1>11,
       <1>12, <1>13, <1>14, <1>15, <1>16, <1>17, <1>18, <1>19, <1>20, <1>21,
       <1>22, <1>23, <1>24, <1>25, <1>26, <1>27, <1>28, <1>29, <1>30, <1>31,
       <1>32, <1>33, <1>34
    DEF Moves, Step, Acquire, Execute, Release, Reconcile

\* A step of command c marks nothing but its own attempt, and only the API
\* server changes the Lease.
Marks(c) ==
    /\ lease' = lease
    /\ creates' \subseteq creates \cup {run[c]} /\ deletes' \subseteq deletes \cup {run[c]}
    /\ receipts' \subseteq receipts \cup {run[c]} /\ closed' \subseteq closed \cup {run[c]}

\* Every step of a command marks its own attempt only.
LEMMA StepsMarkTheirOwn ==
    ASSUME NEW c \in Controllers,
           Moves(c)
    PROVE  Marks(c)
<1> USE DEF Marks, shared, history
<1>1. CASE ReadLease(c)
    BY <1>1 DEF ReadLease
<1>2. CASE SendCreate(c)
    BY <1>2 DEF SendCreate
<1>3. CASE CreateAnswered(c)
    BY <1>3 DEF CreateAnswered
<1>4. CASE CreateUnanswered(c)
    BY <1>4 DEF CreateUnanswered
<1>5. CASE InspectOwn(c)
    BY <1>5 DEF InspectOwn
<1>6. CASE AcquireFails(c)
    BY <1>6 DEF AcquireFails
<1>7. CASE MakeFence(c)
    BY <1>7 DEF MakeFence
<1>8. CASE MakeLock(c)
    BY <1>8 DEF MakeLock
<1>9. CASE TakeLock(c)
    BY <1>9 DEF TakeLock
<1>10. CASE WriteOwner(c)
    BY <1>10 DEF WriteOwner
<1>11. CASE MakeActive(c)
    BY <1>11 DEF MakeActive
<1>12. CASE OpenJournal(c)
    BY <1>12 DEF OpenJournal
<1>13. CASE CheckLease(c)
    BY <1>13 DEF CheckLease
<1>14. CASE Work(c)
    BY <1>14 DEF Work
<1>15. CASE Accept(c)
    BY <1>15 DEF Accept
<1>16. CASE Stop(c)
    BY <1>16 DEF Stop
<1>17. CASE RemoveActive(c)
    BY <1>17 DEF RemoveActive
<1>18. CASE ReleaseCheck(c)
    BY <1>18 DEF ReleaseCheck
<1>19. CASE SendDelete(c)
    BY <1>19 DEF SendDelete
<1>20. CASE DeleteAnswered(c)
    BY <1>20 DEF DeleteAnswered
<1>21. CASE ReleaseConfirmed(c)
    BY <1>21 DEF ReleaseConfirmed
<1>22. CASE ReleaseFails(c)
    BY <1>22 DEF ReleaseFails
<1>23. CASE Archive(c)
    BY <1>23 DEF Archive
<1>24. CASE ArchiveFails(c)
    BY <1>24 DEF ArchiveFails
<1>25. CASE LockOwner(c)
    BY <1>25 DEF LockOwner
<1>26. CASE VerifyLocked(c)
    BY <1>26 DEF VerifyLocked, Verify
<1>27. CASE Repeat(c)
    BY <1>27 DEF Repeat
<1>28. CASE Reconfirm(c)
    BY <1>28 DEF Reconfirm
<1>29. CASE ReconcileUnlock(c)
    BY <1>29 DEF ReconcileUnlock
<1>30. CASE ReconcileArchive(c)
    BY <1>30 DEF ReconcileArchive
<1>31. CASE ReconcileFails(c)
    BY <1>31 DEF ReconcileFails
<1>32. CASE Crash(c)
    BY <1>32 DEF Crash
<1>33. ASSUME NEW p \in Plans, Start(c, p) PROVE Marks(c)
    BY <1>33 DEF Start
<1>34. ASSUME NEW p \in Plans, OpenOwner(c, p) PROVE Marks(c)
    BY <1>34 DEF OpenOwner
<1> QED
    BY <1>1, <1>2, <1>3, <1>4, <1>5, <1>6, <1>7, <1>8, <1>9, <1>10, <1>11,
       <1>12, <1>13, <1>14, <1>15, <1>16, <1>17, <1>18, <1>19, <1>20, <1>21,
       <1>22, <1>23, <1>24, <1>25, <1>26, <1>27, <1>28, <1>29, <1>30, <1>31,
       <1>32, <1>33, <1>34
    DEF Moves, Step, Acquire, Execute, Release, Reconcile

\* Such a step leaves the other commands' requests as they were.
LEMMA OthersKeepRequests ==
    ASSUME Inv, TypeOK', NEW c \in Controllers, Frame(c), Marks(c),
           NEW d \in Controllers \ {c}, CreatedOnce(d)
    PROVE  CreatedOnce(d)'
<1> USE FenceAssumption DEF Inv
<1>0. None \notin Runs
    BY DEF Runs
<1>1. pc'[d] = pc[d] /\ run'[d] = run[d] /\ run[d] \in Runs \cup {None}
    BY DEF Frame, TypeOK
<1>2. pc[d] \in Executing \cup Owning \cup Releasing \cup Repairing \cup {"archive"}
        => run[d] \in Runs
    BY DEF CommandsKnowTheirRun, Owning, Releasing, Repairing, Executing
<1>3. run[d] \in Runs => run[c] # run[d]
    BY DEF RunsAreUnique, OneCommandPerRun
<1>4. CASE run[d] = None
    BY <1>0, <1>1, <1>2, <1>4 DEF TypeOK, CreatedOnce, Executing, Owning, Releasing, Repairing
<1>5. CASE run[d] \in Runs
    BY <1>1, <1>3, <1>5 DEF CreatedOnce, Marks
<1> QED BY <1>1, <1>4, <1>5

\* The end of a command leaves it without an attempt.
LEMMA EndRequests ==
    ASSUME Inv, TypeOK', NEW c \in Controllers, End(c) PROVE CreatedOnce(c)'
<1>1. pc'[c] = "idle" /\ run'[c] = None
    BY DEF Inv, TypeOK, End, Go
<1>2. None \notin closed'
    BY FenceAssumption DEF TypeOK, Runs
<1> QED BY <1>1, <1>2 DEF CreatedOnce, Releasing, Repairing, Owning

\* Every step of a command keeps its own requests in order.
LEMMA OwnRequests ==
    ASSUME Inv, TypeOK', Leftovers, NEW c \in Controllers,
           Moves(c)
    PROVE  CreatedOnce(c)'
<1> USE FenceAssumption
<1>0. /\ TypeOK /\ CreatedOnce(c) /\ TracesInOrder /\ Home[c] \in Stores /\ None \notin Runs
      /\ pc[c] \notin {"idle", "reflock", "verify"} => run[c] \in Runs
      /\ pc[c] \in Owning => lease = run[c]
    BY DEF Inv, Leftovers, LiveOwnerKeepsLease, CommandsKnowTheirRun, Runs
<1> USE DEF CreatedOnce, TracesInOrder, Releasing, Repairing, Owning
<1>1. CASE ReadLease(c)
    BY <1>0, <1>1 DEF ReadLease, Go, TypeOK, shared, history
<1>2. CASE SendCreate(c)
    BY <1>0, <1>2 DEF SendCreate, Go, TypeOK, shared, history
<1>3. CASE CreateAnswered(c)
    BY <1>0, <1>3 DEF CreateAnswered, Go, TypeOK, shared, history
<1>4. CASE CreateUnanswered(c)
    BY <1>0, <1>4 DEF CreateUnanswered, Go, TypeOK, shared, history
<1>5. CASE InspectOwn(c)
    BY <1>0, <1>5 DEF InspectOwn, Go, TypeOK, shared, history
<1>6. CASE AcquireFails(c)
    BY <1>6, EndRequests DEF AcquireFails
<1>7. CASE MakeFence(c)
    BY <1>0, <1>7 DEF MakeFence, Go, TypeOK, shared, history
<1>8. CASE MakeLock(c)
    BY <1>0, <1>8 DEF MakeLock, Go, TypeOK, shared, history
<1>9. CASE TakeLock(c)
    BY <1>0, <1>9 DEF TakeLock, Go, TypeOK, shared, history
<1>10. CASE WriteOwner(c)
    BY <1>0, <1>10 DEF WriteOwner, Go, TypeOK, shared, history
<1>11. CASE MakeActive(c)
    BY <1>0, <1>11 DEF MakeActive, Go, TypeOK, shared, history
<1>12. CASE OpenJournal(c)
    BY <1>0, <1>12 DEF OpenJournal, Go, TypeOK, shared, history
<1>13. CASE CheckLease(c)
    BY <1>0, <1>13 DEF CheckLease, Go, TypeOK, shared, history
<1>14. CASE Work(c)
    BY <1>0, <1>14 DEF Work, Go, TypeOK, shared, history
<1>15. CASE Accept(c)
    BY <1>0, <1>15 DEF Accept, Go, TypeOK, shared, history
<1>16. CASE Stop(c)
    BY <1>0, <1>16 DEF Stop, Go, TypeOK, shared, history
<1>17. CASE RemoveActive(c)
    BY <1>0, <1>17 DEF RemoveActive, Go, TypeOK, shared, history
<1>18. CASE ReleaseCheck(c)
    BY <1>0, <1>18 DEF ReleaseCheck, Go, TypeOK, shared, history
<1>19. CASE SendDelete(c)
    BY <1>0, <1>19 DEF SendDelete, Go, TypeOK, shared, history
<1>20. CASE DeleteAnswered(c)
    BY <1>0, <1>20 DEF DeleteAnswered, Go, TypeOK, shared, history
<1>21. CASE ReleaseConfirmed(c)
    <2>1. CASE End(c)
        BY <2>1, EndRequests
    <2>2. CASE Go(c, "archive") /\ UNCHANGED <<run, closed>>
        BY <1>0, <1>21, <2>2 DEF ReleaseConfirmed, Go, TypeOK
    <2>3. CASE Go(c, "reconfirm") /\ UNCHANGED <<run, closed>>
        BY <1>0, <1>21, <2>3 DEF ReleaseConfirmed, Go, TypeOK
    <2> QED BY <1>21, <2>1, <2>2, <2>3 DEF ReleaseConfirmed
<1>22. CASE ReleaseFails(c)
    BY <1>22, EndRequests DEF ReleaseFails
<1>23. CASE Archive(c)
    BY <1>23, EndRequests DEF Archive
<1>24. CASE ArchiveFails(c)
    BY <1>24, EndRequests DEF ArchiveFails
<1>25. CASE LockOwner(c)
    BY <1>0, <1>25 DEF LockOwner, Go, TypeOK, shared, history
<1>26. CASE VerifyLocked(c)
    BY <1>0, <1>26 DEF VerifyLocked, Verify, Reconcilable, Go, TypeOK, shared, history, Leftovers,
       NothingStranded, ClosedLeavesNothing
<1>27. CASE Repeat(c)
    BY <1>0, <1>27 DEF Repeat, Go, TypeOK, shared, history
<1>28. CASE Reconfirm(c)
    BY <1>0, <1>28 DEF Reconfirm, Go, TypeOK, shared, history
<1>29. CASE ReconcileUnlock(c)
    BY <1>0, <1>29 DEF ReconcileUnlock, Go, TypeOK, shared, history
<1>30. CASE ReconcileArchive(c)
    BY <1>30, EndRequests DEF ReconcileArchive
<1>31. CASE ReconcileFails(c)
    BY <1>31, EndRequests DEF ReconcileFails
<1>32. CASE Crash(c)
    BY <1>32, EndRequests DEF Crash
<1>33. ASSUME NEW p \in Plans, Start(c, p) PROVE CreatedOnce(c)'
    <2>1. /\ pc'[c] = "read" /\ run'[c] = nextRun /\ nextRun \in Runs
          /\ UNCHANGED <<lease, creates, deletes, receipts, closed>>
        BY <1>0, <1>33 DEF Start, Go, TypeOK, shared, history, Runs
    <2>2. nextRun \notin creates \cup receipts \cup closed /\ lease # nextRun
        BY <1>0, <2>1 DEF Leftovers, TracesAreOld, TypeOK, Runs
    <2> QED BY <2>1, <2>2
<1>34. ASSUME NEW p \in Plans, OpenOwner(c, p) PROVE CreatedOnce(c)'
    BY <1>0, <1>34 DEF OpenOwner, Go, TypeOK, shared, history
<1> QED
    BY <1>1, <1>2, <1>3, <1>4, <1>5, <1>6, <1>7, <1>8, <1>9, <1>10, <1>11,
       <1>12, <1>13, <1>14, <1>15, <1>16, <1>17, <1>18, <1>19, <1>20, <1>21,
       <1>22, <1>23, <1>24, <1>25, <1>26, <1>27, <1>28, <1>29, <1>30, <1>31,
       <1>32, <1>33, <1>34
    DEF Moves, Step, Acquire, Execute, Release, Reconcile

\* The fields of a directory after its lock file or its receipt is written.
LEMMA FenceUpdates ==
    ASSUME TypeOK, NEW s \in Stores, fence[s].by \in Runs
    PROVE  /\ [fence[s] EXCEPT !.lock = TRUE].by = fence[s].by
           /\ [fence[s] EXCEPT !.lock = TRUE].plan = fence[s].plan
           /\ [fence[s] EXCEPT !.lock = TRUE].owner = fence[s].owner
           /\ [fence[s] EXCEPT !.owner = TRUE].by = fence[s].by
           /\ [fence[s] EXCEPT !.owner = TRUE].plan = fence[s].plan
           /\ [fence[s] EXCEPT !.owner = TRUE].owner = TRUE
<1>1. fence[s] \in Fences
    BY FenceAssumption DEF TypeOK, NoFence, Runs
<1> QED BY <1>1 DEF Fences

\* What is left in the cluster and on the disks, over all commands.
Traces == TracesAreOld /\ TracesInOrder /\ NothingStranded

\* A step that changes neither requests, receipts nor directories keeps it.
LEMMA SameTraces ==
    ASSUME Traces,
           UNCHANGED <<lease, creates, deletes, fence, active, nextRun, receipts, closed>>
    PROVE  Traces'
BY DEF Traces, TracesAreOld, TracesInOrder, NothingStranded, ReceiptOutlivesLease,
   ActiveCovered, ClosedLeavesNothing

\* Every step of a command leaves traces in order.
LEMMA StepTraces ==
    ASSUME Inv, Leftovers, NEW c \in Controllers,
           Moves(c)
    PROVE  Traces'
<1> USE FenceAssumption
<1>0. Traces /\ None \notin Runs
    BY DEF Leftovers, Traces, Runs
<1>1. CASE ReadLease(c)
    BY <1>0, <1>1, SameTraces DEF ReadLease, shared, history
<1>2. CASE SendCreate(c)
    <2>1. /\ creates' = creates \cup {run[c]} /\ run[c] \in Runs /\ lease # run[c]
          /\ run[c] \notin receipts /\ run[c] \notin closed
          /\ UNCHANGED <<lease, deletes, fence, active, nextRun, receipts, closed>>
        BY <1>2 DEF SendCreate, history, Inv, CommandsKnowTheirRun, Leftovers, CreatedOnce
    <2>2. run[c] < nextRun
        BY <2>1 DEF Inv, RunsAreOld
    <2> QED BY <1>0, <2>1, <2>2 DEF Traces, TracesAreOld, TracesInOrder,
           NothingStranded, ReceiptOutlivesLease, ActiveCovered, ClosedLeavesNothing
<1>3. CASE CreateAnswered(c)
    BY <1>0, <1>3, SameTraces DEF CreateAnswered, shared, history
<1>4. CASE CreateUnanswered(c)
    BY <1>0, <1>4, SameTraces DEF CreateUnanswered, shared, history
<1>5. CASE InspectOwn(c)
    BY <1>0, <1>5, SameTraces DEF InspectOwn, shared, history
<1>6. CASE AcquireFails(c)
    BY <1>0, <1>6, SameTraces DEF AcquireFails, shared, history
<1>7. CASE MakeFence(c)
    <2>1. /\ UNCHANGED <<lease, creates, deletes, active, nextRun, receipts, closed>>
          /\ run[c] \in Runs /\ run[c] \notin closed /\ Home[c] \in Stores
          /\ fence[Home[c]] = NoFence
        BY <1>7 DEF MakeFence, history, Inv, CommandsKnowTheirRun, Leftovers, CreatedOnce
    <2>2. /\ \A s \in Stores \ {Home[c]} : fence'[s] = fence[s]
          /\ fence'[Home[c]].by = run[c] /\ ~fence'[Home[c]].owner
          /\ ~fence[Home[c]].owner
        BY <1>7, <2>1 DEF MakeFence, NoFence, Inv, TypeOK
    <2>3. TracesAreOld' /\ TracesInOrder'
        BY <1>0, <2>1, <2>2 DEF Traces, TracesAreOld, TracesInOrder
    <2>4. ReceiptOutlivesLease'
        BY <1>0, <2>1, <2>2 DEF Traces, NothingStranded, ReceiptOutlivesLease
    <2>5. ActiveCovered'
        BY <1>0, <2>1, <2>2 DEF Traces, NothingStranded, ActiveCovered
    <2>6. ClosedLeavesNothing'
        BY <1>0, <2>1, <2>2 DEF Traces, NothingStranded, ClosedLeavesNothing
    <2> QED BY <2>3, <2>4, <2>5, <2>6 DEF Traces, NothingStranded
<1>8. CASE MakeLock(c)
    <2>1. /\ UNCHANGED <<lease, creates, deletes, active, nextRun, receipts, closed>>
          /\ Home[c] \in Stores /\ fence[Home[c]].by \in Runs
        BY <1>8 DEF MakeLock, history, Inv, CommandsKnowTheirRun
    <2>2. \A s \in Stores : /\ fence'[s].by = fence[s].by /\ fence'[s].plan = fence[s].plan
                            /\ fence'[s].owner = fence[s].owner
        BY <1>8, <2>1, FenceUpdates DEF MakeLock, Inv, TypeOK
    <2> QED BY <1>0, <2>1, <2>2 DEF Traces, TracesAreOld, TracesInOrder,
           NothingStranded, ReceiptOutlivesLease, ActiveCovered, ClosedLeavesNothing
<1>9. CASE TakeLock(c)
    BY <1>0, <1>9, SameTraces DEF TakeLock, shared, history
<1>10. CASE WriteOwner(c)
    <2>1. /\ UNCHANGED <<lease, creates, deletes, active, nextRun, closed>>
          /\ receipts' = receipts \cup {run[c]} /\ lease = run[c]
          /\ Home[c] \in Stores /\ run[c] \in Runs /\ fence[Home[c]].by = run[c]
        BY <1>10 DEF WriteOwner, Inv, CommandsKnowTheirRun, LiveOwnerKeepsLease, Owning
    <2>2. /\ \A s \in Stores : fence'[s].by = fence[s].by /\ fence'[s].plan = fence[s].plan
          /\ \A s \in Stores : fence'[s].owner = IF s = Home[c] THEN TRUE ELSE fence[s].owner
        BY <1>10, <2>1, FenceUpdates DEF WriteOwner, Inv, TypeOK
    <2>3. TracesAreOld' /\ TracesInOrder'
        BY <1>0, <2>1, <2>2 DEF Traces, TracesAreOld, TracesInOrder, Inv, RunsAreOld
    <2>4. ReceiptOutlivesLease'
        BY <1>0, <2>1, <2>2 DEF Traces, NothingStranded, ReceiptOutlivesLease
    <2>5. ActiveCovered'
        BY <1>0, <2>1, <2>2 DEF Traces, NothingStranded, ActiveCovered
    <2>6. ClosedLeavesNothing'
        BY <1>0, <2>1, <2>2 DEF Traces, NothingStranded, ClosedLeavesNothing
    <2> QED BY <2>3, <2>4, <2>5, <2>6 DEF Traces, NothingStranded
<1>11. CASE MakeActive(c)
    <2>1. /\ UNCHANGED <<lease, creates, deletes, fence, nextRun, receipts, closed>>
          /\ fence[Home[c]].plan = plan[c] /\ fence[Home[c]].owner
        BY <1>11 DEF MakeActive, history, Leftovers, View, PartsMade, DirectoryOfAttempt
    <2>2. \A s \in Stores : \A q \in active'[s] : q \in active[s] \/ (s = Home[c] /\ q = plan[c])
        BY <1>11 DEF MakeActive, Inv, TypeOK
    <2> QED BY <1>0, <2>1, <2>2 DEF Traces, TracesAreOld, TracesInOrder,
           NothingStranded, ReceiptOutlivesLease, ActiveCovered, ClosedLeavesNothing
<1>12. CASE OpenJournal(c)
    BY <1>0, <1>12, SameTraces DEF OpenJournal, shared, history
<1>13. CASE CheckLease(c)
    BY <1>0, <1>13, SameTraces DEF CheckLease, shared, history
<1>14. CASE Work(c)
    BY <1>0, <1>14, SameTraces DEF Work, shared, history
<1>15. CASE Accept(c)
    BY <1>0, <1>15, SameTraces DEF Accept, shared, history
<1>16. CASE Stop(c)
    BY <1>0, <1>16, SameTraces DEF Stop, shared, history
<1>17. CASE RemoveActive(c)
    <2>1. UNCHANGED <<lease, creates, deletes, fence, nextRun, receipts, closed>>
        BY <1>17 DEF RemoveActive, history
    <2>2. \A s \in Stores : active'[s] \subseteq active[s]
        BY <1>17 DEF RemoveActive, Inv, TypeOK
    <2> QED BY <1>0, <2>1, <2>2 DEF Traces, TracesAreOld, TracesInOrder,
           NothingStranded, ReceiptOutlivesLease, ActiveCovered, ClosedLeavesNothing
<1>18. CASE ReleaseCheck(c)
    BY <1>0, <1>18, SameTraces DEF ReleaseCheck, shared, history
<1>19. CASE SendDelete(c)
    <2>1. /\ deletes' = deletes \cup {run[c]} /\ run[c] \notin closed
          /\ UNCHANGED <<lease, creates, fence, active, nextRun, receipts, closed>>
        BY <1>19 DEF SendDelete, history, Leftovers, CreatedOnce
    <2> QED BY <1>0, <2>1 DEF Traces, TracesAreOld, TracesInOrder,
           NothingStranded, ReceiptOutlivesLease, ActiveCovered, ClosedLeavesNothing
<1>20. CASE DeleteAnswered(c)
    BY <1>0, <1>20, SameTraces DEF DeleteAnswered, shared, history
<1>21. CASE ReleaseConfirmed(c)
    <2>1. UNCHANGED <<lease, creates, deletes, fence, active, nextRun, receipts>>
        BY <1>21 DEF ReleaseConfirmed
    <2>2. CASE UNCHANGED closed
        BY <1>0, <2>1, <2>2, SameTraces
    <2>3. CASE after[c] = "acquire" /\ closed' = closed \cup {run[c]}
        <3>1. /\ run[c] \in Runs /\ lease # run[c] /\ run[c] \notin creates \cup deletes
              /\ \A s \in Stores : fence[s].by # run[c]
            BY <1>21, <2>3 DEF ReleaseConfirmed, Inv, CommandsKnowTheirRun, Leftovers,
               CreatedOnce, View, PartsMade, DirectoryOfAttempt, Attempting, Releasing
        <3>2. run[c] < nextRun
            BY <3>1 DEF Inv, RunsAreOld
        <3> QED BY <1>0, <2>1, <2>3, <3>1, <3>2 DEF Traces, TracesAreOld, TracesInOrder,
           NothingStranded, ReceiptOutlivesLease, ActiveCovered, ClosedLeavesNothing
    <2> QED BY <1>21, <2>2, <2>3 DEF ReleaseConfirmed
<1>22. CASE ReleaseFails(c)
    BY <1>0, <1>22, SameTraces DEF ReleaseFails, shared, history
<1>23. CASE Archive(c)
    <2>1. /\ UNCHANGED <<lease, creates, deletes, active, nextRun, receipts>>
          /\ closed' = closed \cup {run[c]} /\ run[c] \in Runs /\ Home[c] \in Stores
          /\ lease # run[c] /\ run[c] \notin creates \cup deletes
        BY <1>23 DEF Archive, Inv, CommandsKnowTheirRun, Leftovers, CreatedOnce
    <2>2. run[c] < nextRun
        BY <2>1 DEF Inv, RunsAreOld
    <2>3. CASE "fence" \notin holds[c]
        <3>1. fence' = fence /\ \A s \in Stores : fence[s].by # run[c]
            BY <1>23, <2>3 DEF Archive, Leftovers, View, DirectoryOfAttempt, Attempting
        <3> QED BY <1>0, <2>1, <2>2, <3>1 DEF Traces, TracesAreOld, TracesInOrder,
           NothingStranded, ReceiptOutlivesLease, ActiveCovered, ClosedLeavesNothing
    <2>4. CASE "fence" \in holds[c]
        <3>1. active[Home[c]] = {} /\ fence[Home[c]].by = run[c]
            BY <1>23, <2>4 DEF Archive, Leftovers, View, DirectoryOfAttempt
        <3>2. /\ \A s \in Stores \ {Home[c]} : fence'[s] = fence[s] /\ fence[s].by # run[c]
              /\ fence'[Home[c]].by = None /\ ~fence'[Home[c]].owner
            BY <1>23, <2>1, <2>4, <3>1 DEF Archive, NoFence, Inv, TypeOK, RunsAreUnique,
               OneDirectoryPerRun
        <3>3. TracesAreOld' /\ TracesInOrder'
            BY <1>0, <2>1, <2>2, <3>2 DEF Traces, TracesAreOld, TracesInOrder
        <3>4. ReceiptOutlivesLease' /\ ActiveCovered'
            BY <1>0, <2>1, <3>1, <3>2 DEF Traces, NothingStranded, ReceiptOutlivesLease, ActiveCovered
        <3>5. ClosedLeavesNothing'
            BY <1>0, <2>1, <3>2 DEF Traces, NothingStranded, ClosedLeavesNothing, Inv, TypeOK
        <3> QED BY <3>3, <3>4, <3>5 DEF Traces, NothingStranded
    <2> QED BY <2>3, <2>4
<1>24. CASE ArchiveFails(c)
    BY <1>0, <1>24, SameTraces DEF ArchiveFails, shared, history
<1>25. CASE LockOwner(c)
    BY <1>0, <1>25, SameTraces DEF LockOwner, shared, history
<1>26. CASE VerifyLocked(c)
    BY <1>0, <1>26, SameTraces DEF VerifyLocked, Verify, shared, history
<1>27. CASE Repeat(c)
    BY <1>0, <1>27, SameTraces DEF Repeat, shared, history
<1>28. CASE Reconfirm(c)
    BY <1>0, <1>28, SameTraces DEF Reconfirm, shared, history
<1>29. CASE ReconcileUnlock(c)
    <2>1. UNCHANGED <<lease, creates, deletes, fence, nextRun, receipts, closed>>
        BY <1>29 DEF ReconcileUnlock, history
    <2>2. \A s \in Stores : active'[s] \subseteq active[s]
        BY <1>29 DEF ReconcileUnlock, Inv, TypeOK
    <2> QED BY <1>0, <2>1, <2>2 DEF Traces, TracesAreOld, TracesInOrder,
           NothingStranded, ReceiptOutlivesLease, ActiveCovered, ClosedLeavesNothing
<1>30. CASE ReconcileArchive(c)
    <2>1. /\ UNCHANGED <<lease, creates, deletes, active, nextRun, receipts, closed>>
          /\ Home[c] \in Stores /\ lease # run[c]
          /\ active[Home[c]] = {} /\ fence[Home[c]].by = run[c]
        BY <1>30 DEF ReconcileArchive, history, Leftovers, CreatedOnce, View,
           DirectoryOfRepair, Reconciling, Repairing
    <2>2. /\ \A s \in Stores \ {Home[c]} : fence'[s] = fence[s]
          /\ fence'[Home[c]].by = None /\ ~fence'[Home[c]].owner
        BY <1>30, <2>1 DEF ReconcileArchive, NoFence, Inv, TypeOK
    <2>3. TracesAreOld' /\ TracesInOrder'
        BY <1>0, <2>1, <2>2 DEF Traces, TracesAreOld, TracesInOrder
    <2>4. ReceiptOutlivesLease' /\ ActiveCovered'
        BY <1>0, <2>1, <2>2 DEF Traces, NothingStranded, ReceiptOutlivesLease, ActiveCovered
    <2>5. ClosedLeavesNothing'
        BY <1>0, <2>1, <2>2 DEF Traces, NothingStranded, ClosedLeavesNothing, Inv, TypeOK
    <2> QED BY <2>3, <2>4, <2>5 DEF Traces, NothingStranded
<1>31. CASE ReconcileFails(c)
    BY <1>0, <1>31, SameTraces DEF ReconcileFails, shared, history
<1>32. CASE Crash(c)
    BY <1>0, <1>32, SameTraces DEF Crash, shared, history
<1>33. ASSUME NEW p \in Plans, Start(c, p) PROVE Traces'
    <2>1. /\ UNCHANGED <<lease, creates, deletes, fence, active, receipts, closed>>
          /\ nextRun' = nextRun + 1 /\ nextRun \in Nat
        BY <1>33 DEF Start, shared, history, Inv, TypeOK
    <2>2. \A r \in Runs : r < nextRun => r < nextRun'
        BY <2>1 DEF Runs
    <2>3. TracesAreOld'
        BY <1>0, <2>1, <2>2 DEF Traces, TracesAreOld, Inv, TypeOK
    <2> QED BY <1>0, <2>1, <2>3 DEF Traces, TracesInOrder, NothingStranded,
           ReceiptOutlivesLease, ActiveCovered, ClosedLeavesNothing
<1>34. ASSUME NEW p \in Plans, OpenOwner(c, p) PROVE Traces'
    BY <1>0, <1>34, SameTraces DEF OpenOwner, shared, history
<1> QED
    BY <1>1, <1>2, <1>3, <1>4, <1>5, <1>6, <1>7, <1>8, <1>9, <1>10, <1>11,
       <1>12, <1>13, <1>14, <1>15, <1>16, <1>17, <1>18, <1>19, <1>20, <1>21,
       <1>22, <1>23, <1>24, <1>25, <1>26, <1>27, <1>28, <1>29, <1>30, <1>31,
       <1>32, <1>33, <1>34
    DEF Moves, Step, Acquire, Execute, Release, Reconcile

\* Requests that the API server applies or that are lost leave every command's
\* view alone and the traces in order: a create is applied only while the
\* attempt has neither receipt nor success, so it revives nothing.
LEMMA ServerStep ==
    ASSUME Inv, Leftovers, NEW r \in Runs, ApplyCreate(r) \/ ApplyDelete(r) \/ Lose(r)
    PROVE  Leftovers'
<1> USE FenceAssumption
<1>0. None \notin Runs /\ lease \in Runs \cup {None}
    BY DEF Runs, Inv, TypeOK
<1>1. /\ UNCHANGED <<fence, flock, active, journal, pc, run, plan, holds, after, locked,
                     nextRun, receipts, closed>>
      /\ creates' \subseteq creates /\ deletes' \subseteq deletes
      /\ lease' \in {lease, None} \/ (lease' = r /\ r \in creates /\ r \notin creates')
    BY <1>0 DEF ApplyCreate, ApplyDelete, Lose, local, history
<1>2. \A c \in Controllers : View(c)'
    <2>1. TAKE c \in Controllers
    <2>2. View(c)
        BY DEF Leftovers
    <2> QED BY <1>1, <2>2 DEF View, ReleaseHasReason, PartsMade, LockInHand, DirectoryOfAttempt,
           DirectoryOfRepair, Attempting, Reconciling
<1>3. \A c \in Controllers : CreatedOnce(c)'
    <2>1. TAKE c \in Controllers
    <2>2. CreatedOnce(c)
        BY DEF Leftovers
    <2>3. pc[c] \notin {"idle", "reflock", "verify"} => run[c] \in Runs
        BY DEF Inv, CommandsKnowTheirRun
    <2> QED BY <1>0, <1>1, <2>2, <2>3 DEF CreatedOnce, Owning, Releasing, Repairing
<1>4. TracesAreOld'
    BY <1>0, <1>1 DEF Leftovers, TracesAreOld
<1>5. TracesInOrder'
    BY <1>0, <1>1 DEF Leftovers, TracesInOrder, Inv, TypeOK
<1>6. NothingStranded'
    <2>1. ReceiptOutlivesLease'
        BY <1>0, <1>1 DEF Leftovers, NothingStranded, ReceiptOutlivesLease, TracesInOrder,
           Inv, TypeOK
    <2>2. ActiveCovered'
        BY <1>1 DEF Leftovers, NothingStranded, ActiveCovered
    <2>3. ClosedLeavesNothing'
        BY <1>0, <1>1 DEF Leftovers, NothingStranded, ClosedLeavesNothing, Inv, TypeOK
    <2> QED BY <2>1, <2>2, <2>3 DEF NothingStranded
<1> QED BY <1>2, <1>3, <1>4, <1>5, <1>6 DEF Leftovers

\* A step of one command: its own view and requests by OwnView and OwnRequests,
\* those of the others by their frame.
LEMMA CommandStep ==
    ASSUME Inv, TypeOK', Leftovers, NEW c \in Controllers, Moves(c)
    PROVE  Leftovers'
<1>1. Frame(c) /\ Marks(c)
    BY StepsHaveFrames, StepsMarkTheirOwn
<1>2. \A d \in Controllers : View(d)'
    <2>1. View(c)'
        BY OwnView
    <2>2. \A d \in Controllers \ {c} : View(d)'
        BY <1>1, OthersKeepView DEF Leftovers
    <2> QED BY <2>1, <2>2
<1>3. \A d \in Controllers : CreatedOnce(d)'
    <2>1. CreatedOnce(c)'
        BY OwnRequests
    <2>2. \A d \in Controllers \ {c} : CreatedOnce(d)'
        BY <1>1, OthersKeepRequests DEF Leftovers
    <2> QED BY <2>1, <2>2
<1>4. Traces'
    BY StepTraces
<1> QED BY <1>2, <1>3, <1>4 DEF Leftovers, Traces

\* Before the first command there is nothing to be left behind.
LEMMA InitLeftovers == Init => Leftovers
<1> SUFFICES ASSUME Init PROVE Leftovers
    OBVIOUS
<1> USE FenceAssumption DEF Init
<1>0. None \notin Runs /\ \A s \in Stores : ~fence[s].owner
    BY DEF Runs, NoFence
<1>1. \A c \in Controllers : View(c)
    BY DEF View, ReleaseHasReason, PartsMade, LockInHand, DirectoryOfAttempt, DirectoryOfRepair,
       Attempting, Reconciling, Releasing, Repairing, Executing, Owning
<1>2. \A c \in Controllers : CreatedOnce(c)
    BY DEF CreatedOnce, Releasing, Repairing, Owning
<1>3. TracesAreOld /\ TracesInOrder /\ NothingStranded
    BY <1>0 DEF TracesAreOld, TracesInOrder, NothingStranded, ReceiptOutlivesLease,
       ActiveCovered, ClosedLeavesNothing
<1> QED BY <1>1, <1>2, <1>3 DEF Leftovers

\* Every step preserves the second half of the invariant.
LEMMA NextLeftovers ==
    Inv /\ TypeOK' /\ Leftovers /\ [NextCompared]_vars => Leftovers'
<1> SUFFICES ASSUME Inv, TypeOK', Leftovers, [NextCompared]_vars
             PROVE  Leftovers'
    OBVIOUS
<1>1. ASSUME NEW c \in Controllers, NEW p \in Plans, Start(c, p) \/ OpenOwner(c, p)
      PROVE  Leftovers'
    BY <1>1, CommandStep DEF Moves
<1>2. ASSUME NEW c \in Controllers, Step(c) \/ VerifyLocked(c) \/ Crash(c)
      PROVE  Leftovers'
    BY <1>2, CommandStep DEF Moves
<1>3. ASSUME NEW r \in Runs, ApplyCreate(r) \/ ApplyDelete(r) \/ Lose(r) PROVE Leftovers'
    BY <1>3, ServerStep
<1>4. CASE UNCHANGED vars
    <2>1. /\ UNCHANGED <<lease, creates, deletes, fence, flock, active, journal, pc, run,
                         plan, holds, after, locked, nextRun, receipts, closed>>
        BY <1>4 DEF vars, shared, local, history
    <2>2. \A c \in Controllers : View(c)'
        BY <2>1 DEF Leftovers, View, ReleaseHasReason, PartsMade, LockInHand, DirectoryOfAttempt,
           DirectoryOfRepair, Attempting, Reconciling
    <2>3. \A c \in Controllers : CreatedOnce(c)'
        BY <2>1 DEF Leftovers, CreatedOnce
    <2>4. Traces'
        BY <2>1, SameTraces DEF Leftovers, Traces
    <2> QED BY <2>2, <2>3, <2>4 DEF Leftovers, Traces
<1> QED BY <1>1, <1>2, <1>3, <1>4 DEF NextCompared, Other
-----------------------------------------------------------------------------
(* The theorems                                                             *)

\* Both halves of the invariant hold in every state of every behaviour.
THEOREM Invariance == Compared => [](Inv /\ Leftovers)
<1>1. Init => Inv /\ Leftovers
    BY InitInv, InitLeftovers
<1>2. Inv /\ Leftovers /\ [NextCompared]_vars => (Inv /\ Leftovers)'
    <2> SUFFICES ASSUME Inv, Leftovers, [NextCompared]_vars PROVE Inv' /\ Leftovers'
        OBVIOUS
    <2>1. [Next]_vars
        BY DEF Next, NextCompared, VerifyLocked
    <2>2. Inv'
        BY <2>1, NextType, NextRest DEF Inv, Rest
    <2>3. Leftovers'
        BY <2>2, NextLeftovers DEF Inv
    <2> QED BY <2>2, <2>3
<1> QED BY <1>1, <1>2, PTL DEF Compared

\* "Never steal a live owner": as long as reconciliations read the directory
\* they locked, no execution of Plan.execute loses its Lease before it
\* releases it, whatever crashes, late requests, executions and
\* reconciliations happen on any host.
THEOREM LeaseIsKept == Compared => []LiveOwnerKeepsLease
<1>1. Inv => LiveOwnerKeepsLease
    BY DEF Inv
<1> QED BY <1>1, Invariance, PTL

\* Under the same condition two executions never work at the same time: each
\* would hold the one Lease, whose holder is unique to the attempt.
THEOREM Exclusion == Compared => []ExclusiveExecution
<1>1. Inv => ExclusiveExecution
    BY DEF Inv, ExclusiveExecution, LiveOwnerKeepsLease, RunsAreUnique,
       OneCommandPerRun, CommandsKnowTheirRun, Owning
<1> QED BY <1>1, Invariance, PTL

\* Under the same condition every variable keeps its type.
THEOREM TypeCorrect == Compared => []TypeOK
<1>1. Inv => TypeOK
    BY DEF Inv
<1> QED BY <1>1, Invariance, PTL

\* Whatever step a command dies at, and whichever late requests the API server
\* still applies: a Lease whose execution wrote owner.json is found from that
\* receipt, no .active directory outlives its fence, and a cleanup that
\* reported success left nothing of its attempt (Plan.execute's deferred
\* release and archival, reconcileEnvironmentExecution).  Of a Lease whose
\* execution died before owner.json it says nothing.
THEOREM NothingIsStranded == Compared => []NothingStranded
<1>1. Leftovers => NothingStranded
    BY DEF Leftovers
<1> QED BY <1>1, Invariance, PTL

\* From os.Mkdir(.execution-active) to its own release, an execution finds its
\* own directory there, and it holds the process lock as soon as its receipt
\* could be reconciled by somebody else, against any number of executions and
\* reconciliations on the same store.
THEOREM FenceIsTheExecutions == Compared => []FenceBelongsToExecution
<1>1. Leftovers => FenceBelongsToExecution
    BY DEF Leftovers, FenceBelongsToExecution, View, DirectoryOfAttempt
<1> QED BY <1>1, Invariance, PTL

\* What one step may do to the directory of a store.
RemovalIsSettled(s) ==
    fence[s].by # None /\ fence'[s].by # fence[s].by =>
        /\ fence'[s] = NoFence
        /\ \/ fence[s].by \in closed'
           \/ /\ \E c \in Controllers : Home[c] = s /\ pc[c] = "rearchive"
              /\ journal[s][fence[s].plan] \in Settled

\* Only Archive and ReconcileArchive take a directory away: the first reports
\* success for the run it belongs to, the second has verified its journal and
\* nobody else writes the journals of that store.
LEMMA RemovalStep ==
    ASSUME Inv, Leftovers, [Next]_vars, NEW s \in Stores
    PROVE  RemovalIsSettled(s)
<1> USE FenceAssumption
<1>1. CASE fence'[s].by = fence[s].by
    BY <1>1 DEF RemovalIsSettled
<1>2. ASSUME NEW c \in Controllers, MakeFence(c) PROVE RemovalIsSettled(s)
    BY <1>2 DEF MakeFence, NoFence, RemovalIsSettled, Inv, TypeOK
<1>3. ASSUME NEW c \in Controllers, MakeLock(c) PROVE RemovalIsSettled(s)
    <2>1. fence[Home[c]].by \in Runs /\ Home[c] \in Stores
        BY <1>3 DEF MakeLock, Inv, CommandsKnowTheirRun
    <2> QED BY <1>3, <2>1, FenceUpdates DEF MakeLock, RemovalIsSettled, Inv, TypeOK
<1>4. ASSUME NEW c \in Controllers, WriteOwner(c) PROVE RemovalIsSettled(s)
    <2>1. fence[Home[c]].by \in Runs /\ Home[c] \in Stores
        BY <1>4 DEF WriteOwner, Inv, CommandsKnowTheirRun
    <2> QED BY <1>4, <2>1, FenceUpdates DEF WriteOwner, RemovalIsSettled, Inv, TypeOK
<1>5. ASSUME NEW c \in Controllers, Archive(c) PROVE RemovalIsSettled(s)
    BY <1>5 DEF Archive, NoFence, RemovalIsSettled, Inv, TypeOK
<1>6. ASSUME NEW c \in Controllers, ReconcileArchive(c) PROVE RemovalIsSettled(s)
    <2>1. /\ fence[Home[c]].plan = plan[c] /\ journal[Home[c]][plan[c]] \in Settled
          /\ pc[c] = "rearchive"
        BY <1>6 DEF ReconcileArchive, Leftovers, View, DirectoryOfRepair, Reconciling, Repairing
    <2>2. CASE s = Home[c]
        BY <1>6, <2>1, <2>2 DEF ReconcileArchive, RemovalIsSettled, Inv, TypeOK
    <2>3. CASE s # Home[c]
        BY <1>6, <2>3 DEF ReconcileArchive, RemovalIsSettled, Inv, TypeOK
    <2> QED BY <2>2, <2>3
<1>7. ASSUME NEW c \in Controllers, Step(c) \/ Crash(c), fence' # fence
      PROVE  MakeFence(c) \/ MakeLock(c) \/ WriteOwner(c) \/ Archive(c) \/ ReconcileArchive(c)
    <2> USE <1>7 DEF shared
    <2>1. ~(Acquire(c) /\ ~(MakeFence(c) \/ MakeLock(c) \/ WriteOwner(c)))
        BY DEF Acquire, ReadLease, SendCreate, CreateAnswered, CreateUnanswered,
           InspectOwn, AcquireFails, TakeLock, MakeActive
    <2>2. ~Execute(c)
        BY DEF Execute, OpenJournal, CheckLease, Work, Accept, Stop
    <2>3. ~(Release(c) /\ ~Archive(c))
        BY DEF Release, RemoveActive, ReleaseCheck, SendDelete, DeleteAnswered,
           ReleaseConfirmed, ReleaseFails, ArchiveFails
    <2>4. ~(Reconcile(c) /\ ~ReconcileArchive(c))
        BY DEF Reconcile, LockOwner, Repeat, Reconfirm, ReconcileUnlock, ReconcileFails
    <2>5. ~Crash(c)
        BY DEF Crash
    <2> QED BY <2>1, <2>2, <2>3, <2>4, <2>5 DEF Step
<1>8. ASSUME fence' # fence PROVE \E c \in Controllers : Step(c) \/ Crash(c)
    <2>1. Next
        BY <1>8 DEF vars, shared
    <2>2. ~\E c \in Controllers, p \in Plans : Start(c, p) \/ OpenOwner(c, p)
        BY <1>8 DEF Start, OpenOwner, shared
    <2>3. ~\E r \in Runs : ApplyCreate(r) \/ ApplyDelete(r) \/ Lose(r)
        BY <1>8 DEF ApplyCreate, ApplyDelete, Lose
    <2>4. ~\E c \in Controllers : Verify(c)
        BY <1>8 DEF Verify, shared
    <2> QED BY <2>1, <2>2, <2>3, <2>4 DEF Next, Other
<1> QED BY <1>1, <1>2, <1>3, <1>4, <1>5, <1>6, <1>7, <1>8

\* "Only a provably unstarted mutation or an already accepted, unchanged
\* target can release fences" (ReconcileOutcome in execute.go): no step of any
\* command replaces the directory of an attempt or takes it away otherwise.
THEOREM RemovalNeedsSettlement == Compared => FenceRemovedOnlyWhenSettled
<1>1. Inv /\ Leftovers /\ [NextCompared]_vars =>
        [\A s \in Stores :
          fence[s].by # None /\ fence'[s].by # fence[s].by =>
            /\ fence'[s] = NoFence
            /\ \/ fence[s].by \in closed'
               \/ /\ \E c \in Controllers : Home[c] = s /\ pc[c] = "rearchive"
                  /\ journal[s][fence[s].plan] \in Settled]_vars
    <2>1. [NextCompared]_vars => [Next]_vars
        BY DEF Next, NextCompared, VerifyLocked
    <2> QED BY <2>1, RemovalStep DEF RemovalIsSettled
<1> QED BY <1>1, Invariance, PTL DEF Compared, FenceRemovedOnlyWhenSettled
-----------------------------------------------------------------------------
(* When the condition holds by itself                                       *)

\* One rtk-cloud command at a time on the store of a host.
OneCommandPerStore ==
    \A c, d \in Controllers : Home[c] = Home[d] => c = d

\* A reconciliation that has not read owner.json yet faces the directory whose
\* running.lock it opened.
FacesItsLock ==
    \A c \in Controllers :
        pc[c] \in {"reflock", "verify"} => fence[Home[c]].by = locked[c]

\* With one command at a time on each store nobody replaces that directory.
LEMMA NobodyReplaces ==
    ASSUME OneCommandPerStore, Inv, Leftovers, FacesItsLock, [Next]_vars
    PROVE  [NextCompared]_vars /\ FacesItsLock'
<1> USE FenceAssumption
<1>1. ASSUME NEW c \in Controllers, Verify(c) PROVE VerifyLocked(c)
    BY <1>1 DEF FacesItsLock, Verify, VerifyLocked
<1>2. [NextCompared]_vars
    BY <1>1 DEF Next, NextCompared
<1>3. ASSUME NEW c \in Controllers, Moves(c) PROVE FacesItsLock'
    <2>1. Frame(c)
        BY <1>3, StepsHaveFrames
    <2>2. ASSUME NEW d \in Controllers \ {c}, pc'[d] \in {"reflock", "verify"}
          PROVE  fence'[Home[d]].by = locked'[d]
        <3>1. Home[d] # Home[c] /\ Home[d] \in Stores
            BY DEF OneCommandPerStore
        <3>2. fence'[Home[d]] = fence[Home[d]] /\ locked'[d] = locked[d] /\ pc'[d] = pc[d]
            BY <2>1, <3>1 DEF Frame
        <3> QED BY <2>2, <3>2 DEF FacesItsLock
    <2>3. pc'[c] \in {"reflock", "verify"} => fence'[Home[c]].by = locked'[c]
        BY <2>1 DEF Frame, FacesItsLock
    <2> QED BY <2>2, <2>3 DEF FacesItsLock
<1>4. ASSUME NEW r \in Runs, ApplyCreate(r) \/ ApplyDelete(r) \/ Lose(r)
      PROVE  FacesItsLock'
    BY <1>4 DEF ApplyCreate, ApplyDelete, Lose, local, FacesItsLock
<1>5. CASE UNCHANGED vars
    BY <1>5 DEF vars, shared, local, FacesItsLock
<1> QED BY <1>2, <1>3, <1>4, <1>5 DEF NextCompared, Other, Moves

\* With one command at a time on the store of each host, every behaviour of
\* the code is one of Compared, and all theorems above hold of it.  The
\* run fence_race shows what a second command on the store allows.
THEOREM SeparateStores == OneCommandPerStore => (Spec => Compared)
<1> SUFFICES ASSUME OneCommandPerStore PROVE Spec => Compared
    OBVIOUS
<1> DEFINE All == Inv /\ Leftovers /\ FacesItsLock
<1>1. Init => All
    BY InitInv, InitLeftovers DEF Init, FacesItsLock
<1>2. All /\ [Next]_vars => All' /\ [NextCompared]_vars
    <2> SUFFICES ASSUME All, [Next]_vars PROVE All' /\ [NextCompared]_vars
        OBVIOUS
    <2>1. [NextCompared]_vars /\ FacesItsLock'
        BY NobodyReplaces
    <2>2. Inv'
        BY <2>1, NextType, NextRest DEF Inv, Rest
    <2>3. Leftovers'
        BY <2>1, <2>2, NextLeftovers DEF Inv
    <2> QED BY <2>1, <2>2, <2>3
<1> HIDE DEF All
<1> QED BY <1>1, <1>2, PTL DEF Spec, Compared

=============================================================================
