--------------------------- MODULE ExecutionFence ---------------------------
(***************************************************************************)
(* Who may execute a deployment plan: the cluster Lease                    *)
(* rtk-deployment-execution, the environment-local directory               *)
(* .execution-active with its process lock and owner receipt, the per-plan *)
(* directory .active, their acquisition and release by Plan.execute, and   *)
(* their recovery by `deployment reconcile-execution`.                     *)
(*                                                                         *)
(* Sources: internal/deploymentplan/execute.go, deployment_unified_lease.go*)
(* and deployment_unified_reconcile.go.  What an execution does to the     *)
(* cluster between acquisition and release is reduced here to the state of *)
(* its journal; PlanJournal models it.                                     *)
(*                                                                         *)
(* A controller is one rtk-cloud process at a time on one host.  It may    *)
(* crash at every step; requests it sent may be applied later, or never.   *)
(***************************************************************************)
EXTENDS Integers

CONSTANTS
    Controllers,    \* processes that run the CLI
    Executors,      \* the controllers that execute plans
    Reconcilers,    \* the controllers that reconcile interrupted executions
    Stores,         \* private environment stores, one per host
    Home,           \* the store each controller works on
    Plans,          \* reviewed plan digests
    MaxRuns,        \* bound: execution attempts in one behaviour
    None

ASSUME FenceAssumption ==
    /\ Executors \subseteq Controllers
    /\ Reconcilers \subseteq Controllers
    /\ Home \in [Controllers -> Stores]
    /\ MaxRuns \in Nat \ {0}
    /\ None \notin Controllers /\ None \notin Plans /\ None \notin Nat

\* An attempt.  Its number stands for the unpredictable Lease holder, for the
\* UID of the Lease it creates and for the directory it makes.
Runs == 1..MaxRuns

\* What the private plan.json and journal.json say: neither exists, only the
\* plan, a journal without any write, one with writes or started acceptance,
\* an accepted one.
JournalStates == {"none", "plan", "clean", "dirty", "accepted"}

\* Journals whose outcome ReconcileOutcome can establish.
Settled == {"clean", "accepted"}

NoFence == [by |-> None, plan |-> None, lock |-> FALSE, owner |-> FALSE]
Fences == [by : Runs, plan : Plans, lock : BOOLEAN, owner : BOOLEAN]

VARIABLES
    lease,          \* the run that owns the cluster Lease, or None
    creates,        \* Lease create requests the API server may still apply
    deletes,        \* Lease delete requests the API server may still apply
    fence,          \* per store: the directory .execution-active
    flock,          \* per run's directory: the controller that locks it
    active,         \* per store: the plans whose .active directory exists
    journal,        \* per store and plan: the journal state
    nextRun,        \* number of the next attempt
    pc,             \* per controller: where it is
    run,            \* per controller: its attempt, or the one it reconciles
    plan,           \* per controller: its plan
    holds,          \* per controller: the parts of the fence it has made
    after,          \* per controller: whose release is in progress
    locked,         \* per reconciling controller: the directory it locked
    closed,         \* history: runs whose cleanup reported success
    receipts        \* history: runs that wrote their owner.json

shared == <<lease, creates, deletes, fence, flock, active, journal>>
local == <<pc, run, plan, holds, after, locked>>
history == <<closed, receipts>>
vars == <<shared, local, nextRun, history>>

Points == {"idle", "read", "create", "creating", "inspect", "mkdir", "mklock",
           "flock", "owner", "mkactive", "evidence", "check", "work", "unlock",
           "release", "delete", "deleting", "confirm", "archive",
           "reflock", "verify", "repeat", "reconfirm", "unactive",
           "rearchive"}

Init ==
    /\ lease = None
    /\ creates = {} /\ deletes = {}
    /\ fence = [s \in Stores |-> NoFence]
    /\ flock = [r \in Runs |-> None]
    /\ active = [s \in Stores |-> {}]
    /\ journal = [s \in Stores |-> [p \in Plans |-> "none"]]
    /\ nextRun = 1
    /\ pc = [c \in Controllers |-> "idle"]
    /\ run = [c \in Controllers |-> None]
    /\ plan = [c \in Controllers |-> None]
    /\ holds = [c \in Controllers |-> {}]
    /\ after = [c \in Controllers |-> None]
    /\ locked = [c \in Controllers |-> None]
    /\ closed = {} /\ receipts = {}

Go(c, point) == pc' = [pc EXCEPT ![c] = point]

\* The process of c returns, or is killed: the kernel drops its locks.
End(c) ==
    /\ Go(c, "idle")
    /\ run' = [run EXCEPT ![c] = None]
    /\ plan' = [plan EXCEPT ![c] = None]
    /\ holds' = [holds EXCEPT ![c] = {}]
    /\ after' = [after EXCEPT ![c] = None]
    /\ locked' = [locked EXCEPT ![c] = None]
    /\ flock' = [r \in Runs |-> IF flock[r] = c THEN None ELSE flock[r]]

Crash(c) ==
    /\ pc[c] # "idle"
    /\ End(c)
    /\ UNCHANGED <<lease, creates, deletes, fence, active, journal, nextRun,
                   history>>

-----------------------------------------------------------------------------
(* The API server                                                           *)

\* A create names a fixed object: it is applied only while no Lease exists.
ApplyCreate(r) ==
    /\ r \in creates
    /\ creates' = creates \ {r}
    /\ lease' = IF lease = None THEN r ELSE lease
    /\ UNCHANGED <<deletes, fence, flock, active, journal, local, nextRun,
                   history>>

\* Mutant of ApplyDelete: a release without the UID precondition.
ApplyDelete_NoPrecondition(r) ==
    /\ r \in deletes
    /\ deletes' = deletes \ {r}
    /\ lease' = None
    /\ UNCHANGED <<creates, fence, flock, active, journal, local, nextRun,
                   history>>

\* A delete carries the UID and the resourceVersion of the Lease it read.
ApplyDelete(r) ==
    /\ r \in deletes
    /\ deletes' = deletes \ {r}
    /\ lease' = IF lease = r THEN None ELSE lease
    /\ UNCHANGED <<creates, fence, flock, active, journal, local, nextRun,
                   history>>

\* A request that never reaches the API server.
Lose(r) ==
    /\ r \in creates \cup deletes
    /\ creates' = creates \ {r}
    /\ deletes' = deletes \ {r}
    /\ UNCHANGED <<lease, fence, flock, active, journal, local, nextRun, history>>

-----------------------------------------------------------------------------
(* Execution: acquiring the fences                                          *)

\* checkEnvironmentExecutionOccupancy: qualification looks at the local fence
\* and then at the Lease.
Unoccupied(c) == fence[Home[c]] = NoFence /\ lease = None

\* `deployment execute`, qualified and admitted.
Start(c, p) ==
    /\ c \in Executors
    /\ pc[c] = "idle"
    /\ nextRun <= MaxRuns
    /\ Unoccupied(c)
    /\ nextRun' = nextRun + 1
    /\ run' = [run EXCEPT ![c] = nextRun]
    /\ plan' = [plan EXCEPT ![c] = p]
    /\ Go(c, "read")
    /\ UNCHANGED <<shared, holds, after, locked, history>>

\* acquireEnvironmentExecutionLease reads once more before it creates.
ReadLease(c) ==
    /\ pc[c] = "read"
    /\ lease = None
    /\ Go(c, "create")
    /\ UNCHANGED <<shared, run, plan, holds, after, locked, nextRun, history>>

SendCreate(c) ==
    /\ pc[c] = "create"
    /\ creates' = creates \cup {run[c]}
    /\ Go(c, "creating")
    /\ UNCHANGED <<lease, deletes, fence, flock, active, journal, run, plan,
                   holds, after, locked, nextRun, history>>

\* The created Lease comes back with our holder.
CreateAnswered(c) ==
    /\ pc[c] = "creating"
    /\ lease = run[c]
    /\ Go(c, "mkdir")
    /\ UNCHANGED <<shared, run, plan, holds, after, locked, nextRun, history>>

\* Conflict, refused admission, lost or late response: read back the holder.
CreateUnanswered(c) ==
    /\ pc[c] = "creating"
    /\ Go(c, "inspect")
    /\ UNCHANGED <<shared, run, plan, holds, after, locked, nextRun, history>>

\* Only a Lease with our own holder is released; its release is Release below.
InspectOwn(c) ==
    /\ pc[c] = "inspect"
    /\ lease = run[c]
    /\ after' = [after EXCEPT ![c] = "acquire"]
    /\ Go(c, "release")
    /\ UNCHANGED <<shared, run, plan, holds, locked, nextRun, history>>

\* Occupied, unreadable, or nothing of ours is there: the attempt ends.
AcquireFails(c) ==
    /\ pc[c] \in {"read", "create", "inspect"}
    /\ End(c)
    /\ UNCHANGED <<lease, creates, deletes, fence, active, journal, nextRun,
                   history>>

\* os.Mkdir(.execution-active)
MakeFence(c) ==
    /\ pc[c] = "mkdir"
    /\ fence[Home[c]] = NoFence
    /\ fence' = [fence EXCEPT ![Home[c]] =
                    [by |-> run[c], plan |-> plan[c], lock |-> FALSE, owner |-> FALSE]]
    /\ holds' = [holds EXCEPT ![c] = @ \cup {"fence"}]
    /\ Go(c, "mklock")
    /\ UNCHANGED <<lease, creates, deletes, flock, active, journal, run, plan,
                   after, locked, nextRun, history>>

\* LockExecutionOwner(create): open running.lock with O_CREAT|O_EXCL ...
MakeLock(c) ==
    /\ pc[c] = "mklock"
    /\ fence[Home[c]].by = run[c]
    /\ fence' = [fence EXCEPT ![Home[c]].lock = TRUE]
    /\ Go(c, "flock")
    /\ UNCHANGED <<lease, creates, deletes, flock, active, journal, run, plan,
                   holds, after, locked, nextRun, history>>

\* ... and then flock(LOCK_EX|LOCK_NB) it.
TakeLock(c) ==
    /\ pc[c] = "flock"
    /\ flock[run[c]] = None
    /\ flock' = [flock EXCEPT ![run[c]] = c]
    /\ Go(c, "owner")
    /\ UNCHANGED <<lease, creates, deletes, fence, active, journal, run, plan,
                   holds, after, locked, nextRun, history>>

\* writeExclusiveJSON(owner.json)
WriteOwner(c) ==
    /\ pc[c] = "owner"
    /\ fence[Home[c]].by = run[c]
    /\ fence' = [fence EXCEPT ![Home[c]].owner = TRUE]
    /\ receipts' = receipts \cup {run[c]}
    /\ Go(c, "mkactive")
    /\ UNCHANGED <<lease, creates, deletes, flock, active, journal, run, plan,
                   holds, after, locked, nextRun, closed>>

\* os.Mkdir(.active) of the plan's journal directory.
MakeActive(c) ==
    /\ pc[c] = "mkactive"
    /\ plan[c] \notin active[Home[c]]
    /\ active' = [active EXCEPT ![Home[c]] = @ \cup {plan[c]}]
    /\ holds' = [holds EXCEPT ![c] = @ \cup {"active"}]
    /\ Go(c, "evidence")
    /\ UNCHANGED <<lease, creates, deletes, fence, flock, journal, run, plan,
                   after, locked, nextRun, history>>

-----------------------------------------------------------------------------
(* Execution: the plan, reduced to its journal                              *)

State(c) == journal[Home[c]][plan[c]]
SetState(c, st) == journal' = [journal EXCEPT ![Home[c]][plan[c]] = st]

\* First attempt: plan.json, then the empty journal.json.  An accepted journal
\* of a plan that retains everything is revalidated; any other evidence of an
\* earlier attempt stops this one (Stop).
OpenJournal(c) ==
    /\ pc[c] = "evidence"
    /\ \/ /\ State(c) = "none"
          /\ SetState(c, "plan")
          /\ UNCHANGED pc
       \/ /\ State(c) = "plan"
          /\ "fresh" \in holds[c]
          /\ SetState(c, "clean")
          /\ Go(c, "check")
       \/ /\ State(c) = "accepted"
          /\ UNCHANGED journal
          /\ Go(c, "check")
    /\ holds' = IF State(c) = "none" THEN [holds EXCEPT ![c] = @ \cup {"fresh"}]
                ELSE holds
    /\ UNCHANGED <<lease, creates, deletes, fence, flock, active, run, plan,
                   after, locked, nextRun, history>>

\* lease.Check before each resource and before acceptance.
CheckLease(c) ==
    /\ pc[c] = "check"
    /\ lease = run[c]
    /\ Go(c, "work")
    /\ UNCHANGED <<shared, run, plan, holds, after, locked, nextRun, history>>

\* The resource writes and the start of acceptance.  A plan is finite: the
\* first of them stands for all.
Work(c) ==
    /\ pc[c] = "work"
    /\ State(c) = "clean"
    /\ SetState(c, "dirty")
    /\ Go(c, "check")
    /\ UNCHANGED <<lease, creates, deletes, fence, flock, active, run, plan,
                   holds, after, locked, nextRun, history>>

\* Accepted = true is the last journal write.  Acceptance has started before,
\* or an accepted journal is left as it is.
Accept(c) ==
    /\ pc[c] = "work"
    /\ State(c) \in {"dirty", "accepted"}
    /\ SetState(c, "accepted")
    /\ Go(c, "unlock")
    /\ UNCHANGED <<lease, creates, deletes, fence, flock, active, run, plan,
                   holds, after, locked, nextRun, history>>

\* Every early return after acquisition: a fence that exists already, a lock
\* or file that cannot be made, unusable evidence, a lost Lease, a failed or
\* cancelled step.  It runs the deferred cleanup.
Stop(c) ==
    /\ pc[c] \in {"mkdir", "mklock", "flock", "owner", "mkactive", "evidence",
                  "check", "work"}
    /\ Go(c, "unlock")
    /\ UNCHANGED <<shared, run, plan, holds, after, locked, nextRun, history>>

-----------------------------------------------------------------------------
(* Execution: the deferred cleanup                                          *)

\* Mutant of RemoveActive: the local fence is archived before the release.
RemoveActive_ArchivesFirst(c) ==
    /\ pc[c] = "unlock"
    /\ active' = IF "active" \in holds[c]
                 THEN [active EXCEPT ![Home[c]] = @ \ {plan[c]}] ELSE active
    /\ fence' = IF "fence" \in holds[c]
                THEN [fence EXCEPT ![Home[c]] = NoFence] ELSE fence
    /\ after' = [after EXCEPT ![c] = "execute"]
    /\ Go(c, "release")
    /\ UNCHANGED <<lease, creates, deletes, flock, journal, run, plan,
                   holds, locked, nextRun, history>>

\* defer os.Remove(.active) runs before the deferred release.
RemoveActive(c) ==
    /\ pc[c] = "unlock"
    /\ active' = IF "active" \in holds[c]
                 THEN [active EXCEPT ![Home[c]] = @ \ {plan[c]}] ELSE active
    /\ after' = [after EXCEPT ![c] = "execute"]
    /\ Go(c, "release")
    /\ UNCHANGED <<lease, creates, deletes, fence, flock, journal, run, plan,
                   holds, locked, nextRun, history>>

\* Release: owned() must still find our UID and holder ...
ReleaseCheck(c) ==
    /\ pc[c] = "release"
    /\ lease = run[c]
    /\ Go(c, "delete")
    /\ UNCHANGED <<shared, run, plan, holds, after, locked, nextRun, history>>

SendDelete(c) ==
    /\ pc[c] = "delete"
    /\ deletes' = deletes \cup {run[c]}
    /\ Go(c, "deleting")
    /\ UNCHANGED <<lease, creates, fence, flock, active, journal, run, plan,
                   holds, after, locked, nextRun, history>>

\* ... the conditional delete is answered ...
DeleteAnswered(c) ==
    /\ pc[c] = "deleting"
    /\ run[c] \notin deletes /\ lease # run[c]
    /\ Go(c, "confirm")
    /\ UNCHANGED <<shared, run, plan, holds, after, locked, nextRun, history>>

\* ... and no Lease at all may be there afterwards.
ReleaseConfirmed(c) ==
    /\ pc[c] = "confirm"
    /\ lease = None
    /\ \/ /\ after[c] = "acquire"
          /\ closed' = closed \cup {run[c]}
          /\ End(c)
       \/ /\ after[c] = "execute"
          /\ Go(c, "archive")
          /\ UNCHANGED <<flock, run, plan, holds, after, locked, closed>>
       \/ /\ after[c] = "reconcile"
          /\ Go(c, "reconfirm")
          /\ UNCHANGED <<flock, run, plan, holds, after, locked, closed>>
    /\ UNCHANGED <<lease, creates, deletes, fence, active, journal, nextRun,
                   receipts>>

\* Any failed step of Release: the command ends and keeps its local fence.
ReleaseFails(c) ==
    /\ pc[c] \in {"release", "delete", "deleting", "confirm"}
    /\ End(c)
    /\ UNCHANGED <<lease, creates, deletes, fence, active, journal, nextRun,
                   history>>

\* Rename .execution-active into the plan's archive, only if it is still the
\* directory this execution made; then the process lock is closed.
Archive(c) ==
    /\ pc[c] = "archive"
    /\ \/ /\ "fence" \notin holds[c]
          /\ UNCHANGED fence
       \/ /\ "fence" \in holds[c]
          /\ fence[Home[c]].by = run[c]
          /\ fence' = [fence EXCEPT ![Home[c]] = NoFence]
    /\ closed' = closed \cup {run[c]}
    /\ End(c)
    /\ UNCHANGED <<lease, creates, deletes, active, journal, nextRun, receipts>>

\* The directory changed or cannot be renamed: it stays.
ArchiveFails(c) ==
    /\ pc[c] = "archive"
    /\ "fence" \in holds[c]
    /\ End(c)
    /\ UNCHANGED <<lease, creates, deletes, fence, active, journal, nextRun,
                   history>>

-----------------------------------------------------------------------------
(* reconcileEnvironmentExecution                                            *)

\* LockExecutionOwner(.execution-active, false): open the running.lock of the
\* directory that is there now ...
OpenOwner(c, p) ==
    /\ c \in Reconcilers
    /\ pc[c] = "idle"
    /\ fence[Home[c]].lock
    /\ locked' = [locked EXCEPT ![c] = fence[Home[c]].by]
    /\ plan' = [plan EXCEPT ![c] = p]
    /\ Go(c, "reflock")
    /\ UNCHANGED <<shared, run, holds, after, nextRun, history>>

\* Mutant of LockOwner: the process lock is not taken.
LockOwner_NoFlock(c) ==
    /\ pc[c] = "reflock"
    /\ Go(c, "verify")
    /\ UNCHANGED <<shared, run, plan, holds, after, locked, nextRun, history>>

\* ... and flock(LOCK_EX|LOCK_NB) it, wherever that directory is by now.
LockOwner(c) ==
    /\ pc[c] = "reflock"
    /\ flock[locked[c]] = None
    /\ flock' = [flock EXCEPT ![locked[c]] = c]
    /\ Go(c, "verify")
    /\ UNCHANGED <<lease, creates, deletes, fence, active, journal, run, plan,
                   holds, after, locked, nextRun, history>>

\* Mutant of Reconcilable: the journal's outcome is not established.
Reconcilable_AnyOutcome(c) ==
    /\ fence[Home[c]].owner
    /\ fence[Home[c]].plan = plan[c]
    /\ lease \in {None, fence[Home[c]].by}

\* owner.json names this plan, plan.json and journal.json are readable, the
\* Lease is absent or exactly the recorded one, and ReconcileOutcome passes.
\* All of it is read through the path, whatever directory is there now.
Reconcilable(c) ==
    /\ fence[Home[c]].owner
    /\ fence[Home[c]].plan = plan[c]
    /\ lease \in {None, fence[Home[c]].by}
    /\ State(c) \in Settled

\* First verification; owner.json is read once, here.
Verify(c) ==
    /\ pc[c] = "verify"
    /\ Reconcilable(c)
    /\ run' = [run EXCEPT ![c] = fence[Home[c]].by]
    /\ Go(c, "repeat")
    /\ UNCHANGED <<shared, plan, holds, after, locked, nextRun, history>>

\* The outcome (of the journal read before) and the Lease are verified again
\* after the receipt is written; an occupied Lease is then released.
Repeat(c) ==
    /\ pc[c] = "repeat"
    /\ lease \in {None, run[c]}
    /\ IF lease = None
       THEN Go(c, "reconfirm") /\ UNCHANGED after
       ELSE Go(c, "release") /\ after' = [after EXCEPT ![c] = "reconcile"]
    /\ UNCHANGED <<shared, run, plan, holds, locked, nextRun, history>>

Reconfirm(c) ==
    /\ pc[c] = "reconfirm"
    /\ lease = None
    /\ Go(c, "unactive")
    /\ UNCHANGED <<shared, run, plan, holds, after, locked, nextRun, history>>

\* os.Remove(.active), absent or not.
ReconcileUnlock(c) ==
    /\ pc[c] = "unactive"
    /\ active' = [active EXCEPT ![Home[c]] = @ \ {plan[c]}]
    /\ Go(c, "rearchive")
    /\ UNCHANGED <<lease, creates, deletes, fence, flock, journal, run, plan,
                   holds, after, locked, nextRun, history>>

\* Mutant of ReconcileArchive: the directory is emptied but not moved.
ReconcileArchive_KeepsDirectory(c) ==
    /\ pc[c] = "rearchive"
    /\ fence[Home[c]] # NoFence
    /\ fence' = [fence EXCEPT ![Home[c]].by = None]
    /\ End(c)
    /\ UNCHANGED <<lease, creates, deletes, active, journal, nextRun, history>>

\* os.Rename(.execution-active): whatever directory has that name.
ReconcileArchive(c) ==
    /\ pc[c] = "rearchive"
    /\ fence[Home[c]] # NoFence
    /\ fence' = [fence EXCEPT ![Home[c]] = NoFence]
    /\ End(c)
    /\ UNCHANGED <<lease, creates, deletes, active, journal, nextRun, history>>

\* Every refusal and failed step: both fences are retained.
ReconcileFails(c) ==
    /\ pc[c] \in {"reflock", "verify", "repeat", "reconfirm", "unactive",
                  "rearchive"}
    /\ End(c)
    /\ UNCHANGED <<lease, creates, deletes, fence, active, journal, nextRun,
                   history>>

-----------------------------------------------------------------------------
Acquire(c) ==
    \/ ReadLease(c) \/ SendCreate(c) \/ CreateAnswered(c) \/ CreateUnanswered(c)
    \/ InspectOwn(c) \/ AcquireFails(c) \/ MakeFence(c) \/ MakeLock(c)
    \/ TakeLock(c) \/ WriteOwner(c) \/ MakeActive(c)

Execute(c) ==
    OpenJournal(c) \/ CheckLease(c) \/ Work(c) \/ Accept(c) \/ Stop(c)

Release(c) ==
    \/ RemoveActive(c) \/ ReleaseCheck(c) \/ SendDelete(c) \/ DeleteAnswered(c)
    \/ ReleaseConfirmed(c) \/ ReleaseFails(c) \/ Archive(c) \/ ArchiveFails(c)

Reconcile(c) ==
    \/ LockOwner(c) \/ Repeat(c) \/ Reconfirm(c)
    \/ ReconcileUnlock(c) \/ ReconcileArchive(c) \/ ReconcileFails(c)

\* One step of a running command other than Verify.
Step(c) == Acquire(c) \/ Execute(c) \/ Release(c) \/ Reconcile(c)

Other ==
    \/ \E c \in Controllers, p \in Plans : Start(c, p) \/ OpenOwner(c, p)
    \/ \E c \in Controllers : Step(c) \/ Crash(c)
    \/ \E r \in Runs : ApplyCreate(r) \/ ApplyDelete(r) \/ Lose(r)

Next == Other \/ \E c \in Controllers : Verify(c)

Spec == Init /\ [][Next]_vars

\* A reconciliation that reads owner.json in the directory whose running.lock
\* it holds.  The code reads it through the path and compares nothing, so this
\* is a condition on its surroundings: between OpenOwner and Verify no other
\* command of the host has replaced the directory.
VerifyLocked(c) == fence[Home[c]].by = locked[c] /\ Verify(c)

\* The behaviours in which every reconciliation does so, with any number of
\* commands on one store.
NextCompared == Other \/ \E c \in Controllers : VerifyLocked(c)

Compared == Init /\ [][NextCompared]_vars

-----------------------------------------------------------------------------
(* Properties                                                               *)

\* The Lease, the directories, the requests and the commands are well typed.
TypeOK ==
    /\ lease \in Runs \cup {None}
    /\ creates \in SUBSET Runs /\ deletes \in SUBSET Runs
    /\ fence \in [Stores -> Fences \cup {NoFence}]
    /\ flock \in [Runs -> Controllers \cup {None}]
    /\ active \in [Stores -> SUBSET Plans]
    /\ journal \in [Stores -> [Plans -> JournalStates]]
    /\ nextRun \in 1..(MaxRuns + 1)
    /\ pc \in [Controllers -> Points]
    /\ run \in [Controllers -> Runs \cup {None}]
    /\ plan \in [Controllers -> Plans \cup {None}]
    /\ holds \in [Controllers -> SUBSET {"fence", "active", "fresh"}]
    /\ after \in [Controllers -> {None, "acquire", "execute", "reconcile"}]
    /\ locked \in [Controllers -> Runs \cup {None}]
    /\ closed \in SUBSET Runs /\ receipts \in SUBSET Runs

\* The control points at which Plan.execute relies on owning the Lease.
Owning == {"mkdir", "mklock", "flock", "owner", "mkactive", "evidence",
           "check", "work", "unlock"}

\* "never [...] steal a live owner": as long as an execution runs, from the
\* answered creation of its Lease to its own release, the Lease is its own.
LiveOwnerKeepsLease ==
    \A c \in Controllers : pc[c] \in Owning => lease = run[c]

\* Two executions never work at the same time, on whatever hosts and plans.
ExclusiveExecution ==
    \A c, d \in Controllers :
        pc[c] \in Owning /\ pc[d] \in Owning => c = d

\* The local fence of a store belongs to the execution that is past making it,
\* and only that execution or nobody holds its process lock.
FenceBelongsToExecution ==
    \A c \in Controllers :
        pc[c] \in Owning /\ "fence" \in holds[c] =>
            /\ fence[Home[c]].by = run[c]
            /\ fence[Home[c]].owner => flock[run[c]] = c

\* Release precedes archival: while a Lease exists whose execution wrote its
\* owner receipt, the receipt is still in place, so reconcile-execution can
\* find and release that Lease after a crash at any step.
ReceiptOutlivesLease ==
    lease \in receipts =>
        \E s \in Stores : fence[s].by = lease /\ fence[s].owner

\* A plan's .active directory never outlives the local fence of its store:
\* otherwise the plan could never be executed again, and no command would
\* remove it.
ActiveCovered ==
    \A s \in Stores : \A p \in active[s] :
        fence[s].plan = p /\ fence[s].owner

\* Once cleanup has reported success for an attempt, nothing of it is left:
\* no Lease, no request that could bring the Lease back, no local directory.
ClosedLeavesNothing ==
    \A r \in closed :
        /\ lease # r
        /\ r \notin creates \cup deletes
        /\ \A s \in Stores : fence[s].by # r

\* Whatever step a command dies at once its owner.json is written, its Lease
\* and its .active directory can be found from that receipt, and an attempt
\* whose cleanup reported success left nothing.  A command that dies between
\* the creation of its Lease and owner.json does strand the Lease: nothing on
\* the host names it, and an operator has to remove it.
NothingStranded == ReceiptOutlivesLease /\ ActiveCovered /\ ClosedLeavesNothing

\* "Only a provably unstarted mutation or an already accepted, unchanged
\* target can release fences": the local fence of an attempt is never replaced
\* by another one, and goes away only when the attempt's own cleanup succeeded
\* or when reconciliation archives it while its journal is settled.
FenceRemovedOnlyWhenSettled ==
    [][\A s \in Stores :
          fence[s].by # None /\ fence'[s].by # fence[s].by =>
            /\ fence'[s] = NoFence
            /\ \/ fence[s].by \in closed'
               \/ /\ \E c \in Controllers : Home[c] = s /\ pc[c] = "rearchive"
                  /\ journal[s][fence[s].plan] \in Settled]_vars
=============================================================================
