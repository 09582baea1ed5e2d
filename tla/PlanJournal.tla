---------------------------- MODULE PlanJournal ----------------------------
(***************************************************************************)
(* The execution of one reviewed plan against a Kubernetes cluster, and    *)
(* the private journal that makes its effects known after an interruption: *)
(* Plan.execute, ExecuteResumable and ReconcileOutcome.                    *)
(*                                                                         *)
(* Sources: internal/deploymentplan/execute.go, resume.go,                 *)
(* resume_acceptance.go, workload_readiness.go and Resource.Body (plan.go). *)
(*                                                                         *)
(* Several processes may try to execute the same plan.  Each first checks  *)
(* the recorded prefix and admits the rest, then takes the execution lease *)
(* (ExecutionFence: at most one holds it, and keeps it while it runs),     *)
(* and then reads the evidence again.  The plan is any one of Plans; its   *)
(* resources are the positions 1..Size in compiled order.  The read of one *)
(* resource, with the wait and the second read that may follow it, is one  *)
(* step; other writers, readiness and late requests interleave between the *)
(* steps.  ResumeAppliedPodAcceptance accepts the one Pod of a plan later. *)
(***************************************************************************)
EXTENDS Integers, FiniteSets, Sequences

CONSTANTS
    Procs,          \* processes that execute or reconcile this plan
    Plans,          \* the plans considered
    MaxFaults,      \* bound: crashes, failed calls and failed saves
    MaxForeign,     \* bound: writes of other clients
    None

\* What a plan says of each resource: the action, "create", "update", "retain"
\* or "retire"; the kind, "claim", "workload", "pod", "job" or "config"; the
\* phase, contiguous in plan order; the explicit Dependencies; and what must
\* exist before it gets ready.  A resumable plan is a child of `deployment
\* create` (ExecuteResumable), any other is given to Execute.
WellFormed(p) ==
    LET R == DOMAIN p.action IN
    /\ p.action \in Seq({"create", "update", "retain", "retire"})
    /\ p.action # <<>>
    /\ p.kind \in [R -> {"claim", "workload", "pod", "job", "config"}]
    /\ DOMAIN p.phase = R
    /\ \A i, j, k \in R : i < j /\ j < k /\ p.phase[i] = p.phase[k] => p.phase[j] = p.phase[i]
    /\ p.deps \in [R -> SUBSET R]
    /\ \A i \in R : \A j \in p.deps[i] : j < i
    /\ p.prereq \in [R -> SUBSET R]
    /\ p.resumable \in BOOLEAN

ASSUME PlanAssumption ==
    /\ \A p \in Plans : WellFormed(p)
    /\ MaxFaults \in Nat /\ MaxForeign \in Nat
    /\ None \notin Procs \cup {"old", "new"}

Positions == UNION {DOMAIN p.action : p \in Plans}

\* UIDs: the reviewed owner's, the one a create of this plan is given, and
\* those of objects that other clients create.
Uids == {"old", "new", "foreign"}

\* Bodies: the reviewed baseline, the desired body, one that satisfies the
\* desired body without being it, and any other.
Bodies == {"base", "desired", "extra", "other"}

Absent == [uid |-> None, body |-> None, deleting |-> FALSE]
Objects == [uid : Uids, body : Bodies, deleting : BOOLEAN]

NoJournal == [done |-> 0, owners |-> <<>>, inflight |-> 0, failed |-> FALSE,
              started |-> FALSE, accepted |-> FALSE]

VARIABLES
    plan,           \* the reviewed plan
    obj,            \* per resource: the object of that name in the cluster
    ver,            \* per resource: its resourceVersion
    ready,          \* resources whose object is rolled out, bound or complete
    wire,           \* write requests the API server may still apply
    answer,         \* per process: the answer to its request
    planFile,       \* plan.json exists
    disk,           \* journal.json, or NoJournal
    lease,          \* the process that holds the execution lease, or None
    pc, at,         \* per process: where it is, and in a scan at which resource
    prior,          \* per process: the journal it read before the lease
    mem,            \* per process: its journal
    phase,          \* per process: the phase it has fenced
    request,        \* per process: the write it has prepared
    faults, foreign,
    applied,        \* history: per resource, the writes of this plan applied
    waited,         \* history: resources seen ready since their write
    outcomes        \* history: outcomes that reconciliation reported

cluster == <<obj, ver, ready, wire, applied, waited>>
store == <<planFile, disk>>
local == <<pc, at, prior, mem, phase, request, answer>>
budget == <<faults, foreign>>
vars == <<plan, cluster, store, lease, local, budget, outcomes>>

Action == plan.action
Kind == plan.kind
Phase == plan.phase
Deps == plan.deps
Prereq == plan.prereq
Resumable == plan.resumable
Size == Len(Action)
Resources == 1..Size

\* Journal{PlanSHA256: expectedDigest, Owners: map[string]string{}}
EmptyJournal == [done |-> 0, owners |-> [i \in Resources |-> None], inflight |-> 0,
                 failed |-> FALSE, started |-> FALSE, accepted |-> FALSE]

\* Read-only passes over the plan: verifyRecorded before and after the lease
\* and after a repeated acceptance, Admit, the phase fence, explicit workload
\* dependencies, the workload block's readiness, Verify, the final ownership
\* check and ReconcileOutcome.
ScanPoints == {"recorded", "admit", "recorded2", "recorded3", "fence", "deps",
               "block", "verify", "reverify", "owners", "retained", "retained2",
               "outcome", "podverify", "podreverify"}

Points == ScanPoints \cup
          {"idle", "dead", "acquire", "open", "first", "next", "read", "inflight",
           "send", "sent", "saveowner", "wait", "complete", "start", "accept",
           "accepted", "reaccept", "cleanup", "podacquire", "podaccept",
           "podaccepted"}

Uid(i) == IF Action[i] = "create" THEN None ELSE "old"

Init ==
    /\ plan \in Plans
    /\ obj = [i \in Resources |->
                IF Action[i] = "create" THEN Absent
                ELSE [uid |-> "old", body |-> "base", deleting |-> FALSE]]
    /\ ver = [i \in Resources |-> 0]
    /\ ready = {i \in Resources : Action[i] # "create"}
    /\ wire = {} /\ answer = [c \in Procs |-> None]
    /\ planFile = FALSE /\ disk = NoJournal
    /\ lease = None
    /\ pc = [c \in Procs |-> "idle"] /\ at = [c \in Procs |-> 1]
    /\ prior = [c \in Procs |-> NoJournal] /\ mem = [c \in Procs |-> NoJournal]
    /\ phase = [c \in Procs |-> None] /\ request = [c \in Procs |-> None]
    /\ faults = 0 /\ foreign = 0
    /\ applied = [i \in Resources |-> 0] /\ waited = {} /\ outcomes = {}

-----------------------------------------------------------------------------
(* What the engine reads of a resource                                      *)

\* Matches: unrelated additions are permitted, drift is not.
Matches(i) ==
    /\ obj[i] # Absent
    /\ obj[i].body \in {"extra", IF Action[i] = "retain" THEN "base" ELSE "desired"}

\* Resource.Body: the absent or exactly reviewed object, or an error.
BodyOK(i) ==
    IF Action[i] = "create" THEN obj[i] = Absent
    ELSE obj[i] = [uid |-> "old", body |-> "base", deleting |-> FALSE]

\* recordedResourceMatches
RecordedMatches(i, owner) ==
    IF Action[i] = "retire" THEN obj[i] = Absent
    ELSE Matches(i) /\ obj[i].uid = owner

\* recordedRetirementResponseMatches: gone, or the original owner deleting.
RetirementMatches(i, owner) ==
    obj[i] \in {Absent, [uid |-> owner, body |-> "base", deleting |-> TRUE]}

\* backend.Wait succeeds.
Ready(i) ==
    CASE Action[i] = "retire" -> obj[i] = Absent
      [] Kind[i] = "config" -> TRUE
      [] OTHER -> i \in ready

\* deferredWorkloadReadiness
Deferred(i) ==
    Kind[i] \in {"workload", "pod"} /\ Phase[i] = "workload" /\ Action[i] # "retire"

\* workloadReadinessBlock
Block(i) == {j \in Resources : Phase[j] = Phase[i]}
BlockDone(i, j) == \A k \in Block(i) : k <= j.done

\* workloadReadinessOwnerMatches, and the wait it surrounds.
ReadyOwner(i, j) ==
    /\ RecordedMatches(i, j.owners[i])
    /\ Action[i] = "retain" => BodyOK(i)
    /\ Ready(i)

\* Mutant of Recorded: a completed block is not rechecked for readiness.
Recorded_NoBarrier(i, j) ==
    CASE j.owners[i] = None -> TRUE
      [] Action[i] = "retire" /\ i = j.done + 1 ->
            RetirementMatches(i, j.owners[i]) /\ obj[i] = Absent
      [] OTHER -> RecordedMatches(i, j.owners[i])

\* Mutant of Recorded: every recorded workload is waited for at once.
Recorded_WaitsAtOnce(i, j) ==
    CASE j.owners[i] = None -> TRUE
      [] Action[i] = "retire" /\ i = j.done + 1 ->
            RetirementMatches(i, j.owners[i]) /\ obj[i] = Absent
      [] OTHER -> RecordedMatches(i, j.owners[i]) /\ Ready(i)

\* One step of verifyRecorded.
Recorded(i, j) ==
    CASE j.owners[i] = None -> TRUE
      [] Action[i] = "retire" /\ i = j.done + 1 ->
            RetirementMatches(i, j.owners[i]) /\ obj[i] = Absent
      [] Deferred(i) ->
            IF BlockDone(i, j) THEN ReadyOwner(i, j)
            ELSE RecordedMatches(i, j.owners[i])
      [] OTHER -> RecordedMatches(i, j.owners[i]) /\ Ready(i)

\* One step of the phase fence before resource n.
Fenced(i, n, j) ==
    CASE i < n /\ Action[i] = "retire" -> obj[i] = Absent
      [] i < n /\ Action[i] # "retain" ->
            Matches(i) /\ j.owners[i] # None /\ obj[i].uid = j.owners[i]
      [] j.owners[i] # None -> RecordedMatches(i, j.owners[i])
      [] OTHER -> BodyOK(i)

\* The target of one step of Plan.Verify.
VerifiedTarget(i) ==
    IF Action[i] = "retire" THEN obj[i] = Absent
    ELSE /\ Matches(i)
         /\ Uid(i) # None => obj[i].uid = Uid(i)
         /\ Action[i] = "retain" => BodyOK(i)

\* Mutant of Verified: claims need not be bound.
Verified_NoClaims(i) == VerifiedTarget(i)

\* One step of Plan.Verify.
Verified(i) ==
    /\ Kind[i] = "claim" /\ Action[i] # "retire" => Ready(i)
    /\ VerifiedTarget(i)

\* One step of the accepted case of ReconcileOutcome.
AcceptedTarget(i, j) ==
    /\ Ready(i)
    /\ IF Action[i] = "retire" THEN obj[i] = Absent
       ELSE RecordedMatches(i, j.owners[i]) /\ j.owners[i] # None
    /\ Action[i] = "retain" => BodyOK(i)

\* verify of ResumeAppliedPodAcceptance: the judged journal is still on disk,
\* and the recorded owner is ready and as reviewed.
PodTarget(i, j) == disk = j /\ Verified(i) /\ AcceptedTarget(i, j)

\* The check that process c makes of resource i in the pass it is in.
Pass(c, i) ==
    CASE pc[c] = "recorded" -> Recorded(i, prior[c])
      [] pc[c] = "admit" ->
            (Resumable /\ prior[c] # NoJournal /\ prior[c].owners[i] # None) \/ BodyOK(i)
      [] pc[c] \in {"recorded2", "recorded3"} -> Recorded(i, mem[c])
      [] pc[c] = "fence" -> Fenced(i, mem[c].done + 1, mem[c])
      [] pc[c] = "deps" ->
            i \in Deps[mem[c].done + 1] /\ Deferred(i) => ReadyOwner(i, mem[c])
      [] pc[c] = "block" ->
            i \in Block(mem[c].done) /\ Deferred(i) => ReadyOwner(i, mem[c])
      [] pc[c] \in {"verify", "reverify"} -> Verified(i)
      [] pc[c] = "owners" ->
            Action[i] # "retire" => obj[i].uid = mem[c].owners[i] /\ obj[i] # Absent
      [] pc[c] \in {"retained", "retained2"} -> AcceptedTarget(i, mem[c])
      [] pc[c] = "outcome" ->
            IF mem[c].accepted THEN AcceptedTarget(i, mem[c]) ELSE BodyOK(i)
      [] pc[c] \in {"podverify", "podreverify"} -> PodTarget(i, mem[c])

\* Whether that check includes a readiness wait.
Waits(c, i) ==
    CASE pc[c] = "recorded" -> prior[c].owners[i] # None /\
            (Deferred(i) => BlockDone(i, prior[c]))
      [] pc[c] \in {"recorded2", "recorded3"} -> mem[c].owners[i] # None /\
            (Deferred(i) => BlockDone(i, mem[c]))
      [] pc[c] = "deps" -> i \in Deps[mem[c].done + 1] /\ Deferred(i)
      [] pc[c] = "block" -> i \in Block(mem[c].done) /\ Deferred(i)
      [] pc[c] \in {"verify", "reverify"} -> Kind[i] = "claim"
      [] pc[c] \in {"retained", "retained2", "podverify", "podreverify"} -> TRUE
      [] OTHER -> FALSE

\* The journal records an in-order prefix, at most one write ahead of it.
KnownPrefix(j) ==
    /\ j # NoJournal
    /\ j.started => j.done = Size
    /\ j.accepted => j.started /\ ~j.failed
    /\ \A i \in Resources :
          /\ i <= j.done => j.owners[i] # None
          /\ j.owners[i] # None =>
                /\ i <= j.done + 1
                /\ Uid(i) # None => j.owners[i] = Uid(i)
                /\ i = j.done + 1 => Action[i] # "retain"

\* Mutant of ResumableEvidence: an uncertain write is continued.
ResumableEvidence_InFlight(j) == KnownPrefix(j)

\* resumableEvidence: a known prefix and no uncertain write.
ResumableEvidence(j) == KnownPrefix(j) /\ j.inflight = 0

\* acceptedRetainEvidence
RetainEvidence(j) ==
    /\ \A i \in Resources : Action[i] = "retain"
    /\ j # NoJournal /\ j.accepted /\ j.started /\ ~j.failed /\ j.inflight = 0
    /\ j.done = Size /\ \A i \in Resources : j.owners[i] # None

\* What ResumeAppliedPodAcceptance asks of the plan and its journal: one Pod,
\* created, whose acceptance was started and recorded as failed.
AppliedPodEvidence(j) ==
    /\ Resumable /\ Size = 1 /\ Action[1] = "create" /\ Kind[1] = "pod"
    /\ j.started /\ j.failed /\ ~j.accepted /\ j.inflight = 0
    /\ j.done = 1 /\ j.owners[1] # None

-----------------------------------------------------------------------------
(* Helpers for the actions of a process                                     *)

Go(c, point) ==
    /\ pc' = [pc EXCEPT ![c] = point]
    /\ at' = [at EXCEPT ![c] = 1]

\* The process returns; its deferred cleanup releases the lease.
End(c) ==
    /\ Go(c, "idle")
    /\ prior' = [prior EXCEPT ![c] = NoJournal]
    /\ mem' = [mem EXCEPT ![c] = NoJournal]
    /\ phase' = [phase EXCEPT ![c] = None]
    /\ request' = [request EXCEPT ![c] = None]
    /\ answer' = [answer EXCEPT ![c] = None]
    /\ lease' = IF lease = c THEN None ELSE lease

\* saveJournal: write, sync and rename; readers see the old file or the new.
Save(c, j) ==
    /\ mem' = [mem EXCEPT ![c] = j]
    /\ disk' = j

\* Points at which a failure is recorded in the journal before returning.
Recording == {"next", "fence", "deps", "block", "read", "inflight", "send",
              "sent", "wait", "verify", "reverify", "accept"}

\* journal.Failed is saved, unless that save fails too, which is ignored.
SaveFailed(c) ==
    \/ pc[c] \in Recording /\ disk' = [mem[c] EXCEPT !.failed = TRUE]
    \/ UNCHANGED disk

\* The process fails and returns an error.
Fails(c) ==
    /\ SaveFailed(c)
    /\ End(c)
    /\ UNCHANGED <<cluster, planFile, foreign, outcomes, plan>>

-----------------------------------------------------------------------------
(* The steps of a process                                                   *)

\* Qualification passed: read the evidence, if continuing is allowed at all.
Start(c) ==
    /\ pc[c] = "idle"
    /\ IF Resumable
       THEN /\ \/ ~planFile /\ disk = NoJournal
               \/ planFile /\ ResumableEvidence(disk)
            /\ prior' = [prior EXCEPT ![c] = disk]
            /\ Go(c, IF disk = NoJournal THEN "admit" ELSE "recorded")
       ELSE /\ Go(c, "admit")
            /\ UNCHANGED prior
    /\ UNCHANGED <<cluster, store, lease, mem, phase, request, answer, budget,
                   outcomes, plan>>

\* ResumeAppliedPodAcceptance judges the journal before it takes the lease.
ResumeAcceptance(c) ==
    /\ pc[c] = "idle"
    /\ planFile /\ AppliedPodEvidence(disk)
    /\ prior' = [prior EXCEPT ![c] = disk]
    /\ Go(c, "podacquire")
    /\ UNCHANGED <<cluster, store, lease, mem, phase, request, answer, budget,
                   outcomes, plan>>

\* One resource of the pass in progress is as it must be.
Scan(c) ==
    /\ pc[c] \in ScanPoints
    /\ at[c] <= Size
    /\ Pass(c, at[c])
    /\ at' = [at EXCEPT ![c] = @ + 1]
    /\ waited' = IF Waits(c, at[c]) /\ Ready(at[c]) THEN waited \cup {at[c]}
                 ELSE waited
    /\ UNCHANGED <<obj, ver, ready, wire, applied, store, lease, pc, prior, mem,
                   phase, request, answer, budget, outcomes, plan>>

\* It is not: drift, or a wait that ran into the rollout timeout.
ScanFails(c) ==
    /\ pc[c] \in ScanPoints
    /\ at[c] <= Size
    /\ ~Pass(c, at[c])
    /\ Fails(c)
    /\ UNCHANGED faults

\* Where a finished pass leads.
After(c) ==
    CASE pc[c] = "recorded" -> "admit"
      [] pc[c] = "admit" -> "acquire"
      [] pc[c] = "recorded2" -> IF mem[c].accepted THEN "reaccept" ELSE "next"
      [] pc[c] = "fence" -> "deps"
      [] pc[c] = "deps" -> "read"
      [] pc[c] = "block" -> "next"
      [] pc[c] = "verify" -> "start"
      [] pc[c] = "reverify" -> "owners"
      [] pc[c] = "owners" -> "accepted"
      [] pc[c] = "retained" -> "reaccept"
      [] pc[c] = "podverify" -> "podaccept"
      [] pc[c] = "podreverify" -> "podaccepted"
      [] pc[c] \in {"recorded3", "retained2", "outcome"} -> "idle"

ScanEnds(c) ==
    /\ pc[c] \in ScanPoints \ {"recorded3", "retained2", "outcome"}
    /\ at[c] > Size
    /\ Go(c, After(c))
    /\ phase' = IF pc[c] = "fence"
                THEN [phase EXCEPT ![c] = Phase[mem[c].done + 1]] ELSE phase
    /\ UNCHANGED <<cluster, store, lease, prior, mem, request, answer, budget,
                   outcomes, plan>>

\* An accepted target was verified once more, and a receipt is written.
Revalidated(c) ==
    /\ pc[c] \in {"recorded3", "retained2"}
    /\ at[c] > Size
    /\ disk = mem[c]
    /\ End(c)
    /\ UNCHANGED <<cluster, store, budget, outcomes, plan>>

Acquire(c) ==
    /\ pc[c] \in {"acquire", "podacquire"}
    /\ lease = None
    /\ lease' = c
    /\ Go(c, IF pc[c] = "acquire" THEN "open" ELSE "podverify")
    /\ mem' = IF pc[c] = "acquire" THEN mem ELSE [mem EXCEPT ![c] = prior[c]]
    /\ UNCHANGED <<cluster, store, prior, phase, request, answer, budget,
                   outcomes, plan>>

\* The lease, or the local fence that goes with it, is occupied.
Occupied(c) ==
    /\ pc[c] \in {"acquire", "podacquire"}
    /\ lease # None
    /\ Fails(c)
    /\ UNCHANGED faults

\* The journal to continue, which must still be the one that was verified
\* before the lease, or NoJournal.
Evidence(c) == IF disk = prior[c] THEN disk ELSE NoJournal

Continue(c) ==
    /\ pc[c] = "open"
    /\ Resumable /\ prior[c] # NoJournal
    /\ Evidence(c) # NoJournal
    /\ mem' = [mem EXCEPT ![c] = Evidence(c)]
    /\ Go(c, "recorded2")
    /\ UNCHANGED <<cluster, store, lease, prior, phase, request, answer, budget,
                   outcomes, plan>>

\* Mutant of OpenNew: earlier evidence is overwritten.
OpenNew_Overwrites(c) ==
    /\ pc[c] = "open"
    /\ ~(Resumable /\ prior[c] # NoJournal)
    /\ planFile' = TRUE
    /\ Go(c, "first")
    /\ UNCHANGED <<cluster, disk, lease, prior, mem, phase, request, answer,
                   budget, outcomes, plan>>

\* No evidence at all: plan.json is written first.
OpenNew(c) ==
    /\ pc[c] = "open"
    /\ ~(Resumable /\ prior[c] # NoJournal)
    /\ ~planFile /\ disk = NoJournal
    /\ planFile' = TRUE
    /\ Go(c, "first")
    /\ UNCHANGED <<cluster, disk, lease, prior, mem, phase, request, answer,
                   budget, outcomes, plan>>

\* Evidence of an earlier execution: only an accepted all-retain plan is
\* checked again, without changing its journal.
Revalidate(c) ==
    /\ pc[c] = "open"
    /\ ~(Resumable /\ prior[c] # NoJournal)
    /\ planFile /\ RetainEvidence(disk)
    /\ mem' = [mem EXCEPT ![c] = disk]
    /\ Go(c, "retained")
    /\ UNCHANGED <<cluster, store, lease, prior, phase, request, answer, budget,
                   outcomes, plan>>

\* Any other evidence stops the execution.
Refuse(c) ==
    /\ pc[c] = "open"
    /\ IF Resumable /\ prior[c] # NoJournal THEN Evidence(c) = NoJournal
       ELSE (planFile \/ disk # NoJournal) /\ ~RetainEvidence(disk)
    /\ Fails(c)
    /\ UNCHANGED faults

SaveFirst(c) ==
    /\ pc[c] = "first"
    /\ Save(c, EmptyJournal)
    /\ Go(c, "next")
    /\ UNCHANGED <<cluster, planFile, lease, prior, phase, request, answer,
                   budget, outcomes, plan>>

\* Mutant of Fencing: within a phase explicit dependencies are not waited for.
Fencing_NoDependencies(c) == IF Phase[mem[c].done + 1] # phase[c] THEN "fence" ELSE "read"

\* A new phase is fenced first; dependencies are waited for in any case.
Fencing(c) == IF Phase[mem[c].done + 1] # phase[c] THEN "fence" ELSE "deps"

\* The head of the loop: the next resource not completed.
NextResource(c) ==
    /\ pc[c] = "next"
    /\ Go(c, IF mem[c].done = Size THEN "verify" ELSE Fencing(c))
    /\ UNCHANGED <<cluster, store, lease, prior, mem, phase, request, answer,
                   budget, outcomes, plan>>

\* backend.Read of the selected resource: a recorded write is only checked, a
\* retained one must be unchanged, any other gets its request, bound to the
\* version read, and passes a server dry-run.
Read(c) ==
    LET n == mem[c].done + 1 IN
    /\ pc[c] = "read"
    /\ \/ /\ mem[c].owners[n] # None
          /\ RecordedMatches(n, mem[c].owners[n])
          /\ Go(c, "wait")
          /\ UNCHANGED request
       \/ /\ mem[c].owners[n] = None
          /\ BodyOK(n)
          /\ IF Action[n] = "retain"
             THEN Go(c, "wait") /\ UNCHANGED request
             ELSE /\ request' = [request EXCEPT ![c] = [res |-> n, ver |-> ver[n]]]
                  /\ Go(c, "inflight")
    /\ UNCHANGED <<cluster, store, lease, prior, mem, phase, answer, budget,
                   outcomes, plan>>

ReadFails(c) ==
    LET n == mem[c].done + 1 IN
    /\ pc[c] = "read"
    /\ IF mem[c].owners[n] # None THEN ~RecordedMatches(n, mem[c].owners[n])
       ELSE ~BodyOK(n)
    /\ Fails(c)
    /\ UNCHANGED faults

\* Mutant of Marked: the position of the following resource is saved.
Marked_OffByOne(c) == [mem[c] EXCEPT !.inflight = request[c].res + 1]

\* Mutant of Marked: the mark is forgotten.
Marked_Forgotten(c) == mem[c]

\* journal.InFlight = resource.ID, saved before the request is sent ...
Marked(c) == [mem[c] EXCEPT !.inflight = request[c].res]

SaveInFlight(c) ==
    /\ pc[c] = "inflight"
    /\ Save(c, Marked(c))
    /\ Go(c, "send")
    /\ UNCHANGED <<cluster, planFile, lease, prior, phase, request, answer,
                   budget, outcomes, plan>>

Send(c) ==
    /\ pc[c] = "send"
    /\ wire' = wire \cup {request[c]}
    /\ answer' = [answer EXCEPT ![c] = "pending"]
    /\ Go(c, "sent")
    /\ UNCHANGED <<obj, ver, ready, applied, waited, store, lease, prior, mem,
                   phase, request, budget, outcomes, plan>>

\* ... and cleared, in memory, only by a successful answer with its owner.
Answered(c) ==
    LET n == mem[c].done + 1 IN
    /\ pc[c] = "sent"
    /\ answer[c] = "ok"
    /\ mem' = [mem EXCEPT ![c] =
                 [@ EXCEPT !.owners[n] = IF Action[n] = "create" THEN "new" ELSE "old",
                           !.inflight = 0]]
    /\ Go(c, "saveowner")
    /\ UNCHANGED <<cluster, store, lease, prior, phase, request, answer, budget,
                   outcomes, plan>>

\* A refused request is treated like a lost one: InFlight stays.
Refused(c) ==
    /\ pc[c] = "sent"
    /\ answer[c] = "conflict"
    /\ Fails(c)
    /\ UNCHANGED faults

SaveOwner(c) ==
    /\ pc[c] = "saveowner"
    /\ Save(c, mem[c])
    /\ Go(c, "wait")
    /\ UNCHANGED <<cluster, planFile, lease, prior, phase, request, answer,
                   budget, outcomes, plan>>

\* backend.Wait, immediate except for claims and deferred workloads.
Wait(c) ==
    LET n == mem[c].done + 1 IN
    /\ pc[c] = "wait"
    /\ \/ /\ Kind[n] = "claim" \/ Deferred(n)
          /\ UNCHANGED waited
       \/ /\ Kind[n] # "claim" /\ ~Deferred(n)
          /\ Ready(n)
          /\ waited' = waited \cup {n}
    /\ Go(c, "complete")
    /\ UNCHANGED <<obj, ver, ready, wire, applied, store, lease, prior, mem,
                   phase, request, answer, budget, outcomes, plan>>

WaitFails(c) ==
    LET n == mem[c].done + 1 IN
    /\ pc[c] = "wait"
    /\ Kind[n] # "claim" /\ ~Deferred(n) /\ ~Ready(n)
    /\ Fails(c)
    /\ UNCHANGED faults

\* Completed grows by one; at the end of a workload block comes its barrier.
Complete(c) ==
    LET n == mem[c].done + 1 IN
    /\ pc[c] = "complete"
    /\ Save(c, [mem[c] EXCEPT !.done = n,
                   !.owners[n] = IF @ = None THEN Uid(n) ELSE @])
    /\ Go(c, IF Phase[n] = "workload" /\ (n = Size \/ Phase[n + 1] # Phase[n])
             THEN "block" ELSE "next")
    /\ UNCHANGED <<cluster, planFile, lease, prior, phase, request, answer,
                   budget, outcomes, plan>>

\* Acceptance may commit effects of its own: its start is saved first.
StartAcceptance(c) ==
    /\ pc[c] = "start"
    /\ Save(c, [mem[c] EXCEPT !.started = TRUE])
    /\ Go(c, "accept")
    /\ UNCHANGED <<cluster, planFile, lease, prior, phase, request, answer,
                   budget, outcomes, plan>>

\* accept and the input fence after it; what follows a repeated acceptance
\* depends on whether the journal was read before the lease.
Accept(c) ==
    /\ pc[c] \in {"accept", "reaccept", "podaccept"}
    /\ Go(c, CASE pc[c] = "accept" -> "reverify"
               [] pc[c] = "podaccept" -> "podreverify"
               [] OTHER -> IF prior[c] # NoJournal THEN "recorded3" ELSE "retained2")
    /\ UNCHANGED <<cluster, store, lease, prior, mem, phase, request, answer,
                   budget, outcomes, plan>>

SaveAccepted(c) ==
    /\ pc[c] \in {"accepted", "podaccepted"}
    /\ Save(c, [mem[c] EXCEPT !.accepted = TRUE, !.failed = FALSE])
    /\ Go(c, "cleanup")
    /\ UNCHANGED <<cluster, planFile, lease, prior, phase, request, answer,
                   budget, outcomes, plan>>

Cleanup(c) ==
    /\ pc[c] = "cleanup"
    /\ End(c)
    /\ UNCHANGED <<cluster, store, budget, outcomes, plan>>

\* A call, a save, a context or an input fence fails.
Fault(c) ==
    /\ pc[c] \notin {"idle", "dead", "cleanup"}
    /\ faults < MaxFaults
    /\ faults' = faults + 1
    /\ Fails(c)

\* The process is killed, or its cleanup fails: the lease stays.
Crash(c) ==
    /\ pc[c] \notin {"idle", "dead"}
    /\ faults < MaxFaults
    /\ faults' = faults + 1
    /\ SaveFailed(c)
    /\ Go(c, "dead")
    /\ UNCHANGED <<cluster, planFile, lease, prior, mem, phase, request, answer,
                   foreign, outcomes, plan>>

\* A dead process that held no lease leaves nothing behind.
Recover(c) ==
    /\ pc[c] = "dead"
    /\ lease # c
    /\ End(c)
    /\ UNCHANGED <<cluster, store, budget, outcomes, plan>>

\* No command clears the Lease and the .active directory of a killed child of
\* `deployment create`: an operator may, after inspection.
OperatorClears(c) ==
    /\ pc[c] = "dead"
    /\ Resumable /\ lease = c
    /\ End(c)
    /\ UNCHANGED <<cluster, store, budget, outcomes, plan>>

\* What ReconcileOutcome asks of the journal: nothing written and acceptance
\* not started, or everything accepted.
Conclusive(j) ==
    IF j.accepted THEN j.started /\ ~j.failed /\ j.done = Size
    ELSE /\ ~j.started
         /\ \A i \in Resources : j.owners[i] # None => Action[i] = "retain"

\* Mutant of Decided: an uncertain write is taken for unstarted.
Decided_InFlight(j) == Conclusive(j)

\* The journal's half of ReconcileOutcome.
Decided(j) == Conclusive(j) /\ j.inflight = 0

\* reconcile-execution of a dead execution: ReconcileOutcome on its journal.
Reconcile(c, d) ==
    /\ ~Resumable
    /\ pc[c] = "idle"
    /\ pc[d] = "dead" /\ lease = d
    /\ planFile /\ disk # NoJournal /\ Decided(disk)
    /\ mem' = [mem EXCEPT ![c] = disk]
    /\ Go(c, "outcome")
    /\ UNCHANGED <<cluster, store, lease, prior, phase, request, answer, budget,
                   outcomes, plan>>

\* The outcome is established: the receipt is written and the lease released.
Reconciled(c, d) ==
    /\ pc[c] = "outcome"
    /\ at[c] > Size
    /\ pc[d] = "dead" /\ lease = d
    /\ outcomes' = outcomes \cup
         {IF mem[c].accepted THEN "accepted-target" ELSE "no-resource-writes"}
    /\ pc' = [pc EXCEPT ![c] = "idle", ![d] = "idle"]
    /\ at' = [at EXCEPT ![c] = 1]
    /\ mem' = [mem EXCEPT ![c] = NoJournal, ![d] = NoJournal]
    /\ prior' = [prior EXCEPT ![d] = NoJournal]
    /\ phase' = [phase EXCEPT ![d] = None]
    /\ request' = [request EXCEPT ![d] = None]
    /\ answer' = [answer EXCEPT ![d] = None]
    /\ lease' = None
    /\ UNCHANGED <<cluster, store, budget, plan>>

-----------------------------------------------------------------------------
(* The cluster                                                              *)

\* The object the API server makes of a write of resource i.
Written(i) ==
    CASE Action[i] = "create" -> [uid |-> "new", body |-> "desired", deleting |-> FALSE]
      [] Action[i] = "update" -> [obj[i] EXCEPT !.body = "desired"]
      [] Action[i] = "retire" -> [obj[i] EXCEPT !.deleting = TRUE]

\* Mutant of Admissible: updates and deletes carry no resourceVersion.
Admissible_NoVersion(q) ==
    IF Action[q.res] = "create" THEN obj[q.res] = Absent
    ELSE obj[q.res] # Absent

\* A create needs absence, an update or a foreground delete the version read.
Admissible(q) ==
    IF Action[q.res] = "create" THEN obj[q.res] = Absent
    ELSE obj[q.res] # Absent /\ ver[q.res] = q.ver

Change(i, o) ==
    /\ obj' = [obj EXCEPT ![i] = o]
    /\ ver' = [ver EXCEPT ![i] = @ + 1]
    /\ ready' = ready \ {i}

\* A request is applied or refused; whoever still waits gets the answer.
Apply(q) ==
    /\ q \in wire
    /\ wire' = wire \ {q}
    /\ IF Admissible(q)
       THEN /\ Change(q.res, Written(q.res))
            /\ applied' = [applied EXCEPT ![q.res] = @ + 1]
            /\ waited' = waited \ {q.res}
       ELSE UNCHANGED <<obj, ver, ready, applied, waited>>
    /\ answer' = [c \in Procs |->
                    IF pc[c] = "sent" /\ request[c] = q
                    THEN IF Admissible(q) THEN "ok" ELSE "conflict"
                    ELSE answer[c]]
    /\ UNCHANGED <<store, lease, pc, at, prior, mem, phase, request, budget,
                   outcomes, plan>>

\* A request never arrives; its sender runs into its deadline.
Lose(q) ==
    /\ q \in wire
    /\ faults < MaxFaults
    /\ faults' = faults + 1
    /\ wire' = wire \ {q}
    /\ answer' = [c \in Procs |->
                    IF pc[c] = "sent" /\ request[c] = q THEN "conflict" ELSE answer[c]]
    /\ UNCHANGED <<obj, ver, ready, applied, waited, store, lease, pc, at, prior,
                   mem, phase, request, foreign, outcomes, plan>>

\* A rollout finishes, a claim binds, a Job completes.
BecomeReady(i) ==
    /\ i \in Resources
    /\ obj[i] # Absent /\ ~obj[i].deleting
    /\ i \notin ready
    /\ \A j \in Prereq[i] : obj[j] # Absent
    /\ ready' = ready \cup {i}
    /\ UNCHANGED <<obj, ver, wire, applied, waited, store, lease, local, budget,
                   outcomes, plan>>

FinishDelete(i) ==
    /\ i \in Resources
    /\ obj[i] # Absent /\ obj[i].deleting
    /\ Change(i, Absent)
    /\ UNCHANGED <<wire, applied, waited, store, lease, local, budget, outcomes, plan>>

\* Another client edits, deletes or creates an object of this name.
Foreign(i) ==
    /\ foreign < MaxForeign
    /\ foreign' = foreign + 1
    /\ \/ /\ obj[i] # Absent
          /\ \/ \E b \in Bodies \ {obj[i].body} : Change(i, [obj[i] EXCEPT !.body = b])
             \/ Change(i, Absent)
       \/ /\ obj[i] = Absent
          /\ \E b \in Bodies :
                Change(i, [uid |-> "foreign", body |-> b, deleting |-> FALSE])
    /\ UNCHANGED <<wire, applied, waited, store, lease, local, faults, outcomes, plan>>

-----------------------------------------------------------------------------
Step(c) ==
    \/ Scan(c) \/ ScanFails(c) \/ ScanEnds(c) \/ Revalidated(c)
    \/ Acquire(c) \/ Occupied(c)
    \/ Continue(c) \/ OpenNew(c) \/ Revalidate(c) \/ Refuse(c)
    \/ SaveFirst(c) \/ NextResource(c) \/ Read(c) \/ ReadFails(c)
    \/ SaveInFlight(c) \/ Send(c) \/ Answered(c) \/ Refused(c) \/ SaveOwner(c)
    \/ Wait(c) \/ WaitFails(c) \/ Complete(c)
    \/ StartAcceptance(c) \/ Accept(c) \/ SaveAccepted(c) \/ Cleanup(c)
    \/ \E d \in Procs : Reconciled(c, d)

Environment ==
    \/ \E q \in wire : Apply(q) \/ Lose(q)
    \/ \E i \in Resources : BecomeReady(i) \/ FinishDelete(i) \/ Foreign(i)

Next ==
    \/ \E c \in Procs :
          \/ Start(c) \/ ResumeAcceptance(c) \/ Step(c) \/ Fault(c) \/ Crash(c)
          \/ Recover(c) \/ OperatorClears(c)
    \/ \E c, d \in Procs : Reconcile(c, d)
    \/ Environment

\* Commands take their steps and end; the API server answers; controllers
\* finish rollouts and deletions; the operator repeats a failed command.
Fairness ==
    /\ \A c \in Procs : WF_vars(Step(c)) /\ WF_vars(Start(c)) /\ WF_vars(Recover(c))
    /\ WF_vars(\E q \in wire : Apply(q))
    /\ \A i \in Positions : WF_vars(BecomeReady(i)) /\ WF_vars(FinishDelete(i))

Spec == Init /\ [][Next]_vars
FairSpec == Spec /\ Fairness

-----------------------------------------------------------------------------
(* Properties                                                               *)

Journals ==
    {NoJournal} \cup
    [done : 0..Size, owners : [Resources -> {"old", "new", None}],
     inflight : 0..Size, failed : BOOLEAN, started : BOOLEAN, accepted : BOOLEAN]
Requests == [res : Resources, ver : Nat]

\* The cluster, the journal and the processes are well typed.
TypeOK ==
    /\ plan \in Plans
    /\ obj \in [Resources -> Objects \cup {Absent}]
    /\ ver \in [Resources -> Nat]
    /\ ready \in SUBSET Resources
    /\ wire \in SUBSET Requests
    /\ answer \in [Procs -> {None, "pending", "ok", "conflict"}]
    /\ planFile \in BOOLEAN /\ disk \in Journals
    /\ lease \in Procs \cup {None}
    /\ pc \in [Procs -> Points] /\ at \in [Procs -> 1..(Size + 1)]
    /\ prior \in [Procs -> Journals] /\ mem \in [Procs -> Journals]
    /\ request \in [Procs -> Requests \cup {None}]
    /\ phase \in [Procs -> {Phase[i] : i \in Resources} \cup {None}]
    /\ faults \in 0..MaxFaults /\ foreign \in 0..MaxForeign
    /\ applied \in [Resources -> Nat] /\ waited \in SUBSET Resources
    /\ outcomes \in SUBSET {"accepted-target", "no-resource-writes"}

\* The owner that journal j records for resource i.
Owner(j, i) == IF j = NoJournal THEN None ELSE j.owners[i]

\* "A failed response may follow a persisted API write.  Preserve its in-flight
\* journal evidence": a write that may still arrive, or that took effect and
\* whose owner is not on disk, is the one journal.json names as in flight.
UncertainIsRecorded ==
    \A i \in Resources :
        (\E q \in wire : q.res = i) \/ (applied[i] > 0 /\ Owner(disk, i) = None)
            => disk.inflight = i

\* A recorded owner of a write is proof of that write, and writes reach the
\* cluster only in plan order, each after everything before it is completed
\* on disk.
RecordedPrefix ==
    \A i \in Resources :
        /\ Owner(disk, i) # None /\ Action[i] # "retain" => applied[i] > 0
        /\ applied[i] > 0 \/ (\E q \in wire : q.res = i) => disk.done >= i - 1

\* journal.json tells the truth at every moment at which a process may die: the
\* write that is uncertain is marked, and what is recorded is what happened.
JournalAccurate == UncertainIsRecorded /\ RecordedPrefix

\* No write is sent before everything in earlier phases except claims, and
\* every explicit workload dependency, was seen ready after its own write.
PhaseBarrier ==
    [][\A q \in wire' \ wire : \A j \in 1..(q.res - 1) :
          \/ Phase[j] # Phase[q.res] /\ Kind[j] # "claim"
          \/ j \in Deps[q.res] /\ Deferred(j)
          => j \in waited]_vars

\* An accepted journal stands for the whole plan: every write took effect,
\* everything was seen ready afterwards, claims included, nothing is uncertain.
AcceptedIsComplete ==
    disk.accepted =>
        /\ disk.done = Size /\ disk.inflight = 0 /\ disk.started /\ ~disk.failed
        /\ waited = Resources
        /\ \A i \in Resources : Action[i] # "retain" => applied[i] = 1
        /\ wire = {}

\* The journal never forgets: completed resources, owners, the start and the
\* end of acceptance stay, and an in-flight mark gives way only to its owner.
JournalNeverForgets ==
    [][/\ disk'.done >= disk.done
       /\ disk.started => disk'.started
       /\ disk.accepted => disk' = disk
       /\ \A i \in Resources : Owner(disk, i) # None => Owner(disk', i) = Owner(disk, i)
       /\ disk.inflight # 0 =>
            disk'.inflight = disk.inflight \/ Owner(disk', disk.inflight) # None]_vars

\* "Only a provably unstarted mutation [...] can release fences": when
\* reconciliation reports no resource writes, none happened and none will.
ReconcileSound ==
    "no-resource-writes" \in outcomes =>
        wire = {} /\ \A i \in Resources : applied[i] = 0

\* ReviewedExecution, seen through the writes that took effect, the objects that
\* are still as reviewed and the accepted journal.
Reviewed == INSTANCE ReviewedExecution WITH
    changes <- [i \in Resources |-> Action[i] # "retain"],
    effects <- applied,
    intact <- {i \in Resources : BodyOK(i)},
    accepted <- disk.accepted

\* The engine, with its journal, its lease and all its failures, executes the
\* reviewed plan and nothing else: each write takes effect at most once, in
\* plan order, on exactly the object or the absence that was reviewed ("never
\* overwrite the concurrent owner"), and acceptance follows all of them.
ExecutesReviewedPlan == Reviewed!Spec

\* "ExecuteResumable continues only recorded, successful resource writes":
\* if nobody else writes, repeated attempts reach acceptance, unless a write
\* stays uncertain, an attempt was killed while it held the lease and nobody
\* clears it, or the first attempt ended between its two first files.
RetriesComplete ==
    <>[](\/ disk.accepted \/ disk.inflight # 0 \/ foreign > 0
         \/ planFile /\ disk = NoJournal
         \/ \E c \in Procs : pc[c] = "dead" /\ lease = c)
=============================================================================
