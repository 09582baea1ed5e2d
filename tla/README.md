# Verification of rtk-cloud: deployment, backup and recovery

`rtk_cloud_workspace` is the operations repository of a device cloud. Most of
its own logic is the Go command `rtk-cloud` (`src/scripts/go/rtk-cloud`), which
turns reviewed definitions into a plan and executes that plan against a live
Kubernetes cluster. The services themselves live in submodules that are not part
of the repository. This project models the part of `rtk-cloud` in which a mistake
is expensive and a test hardly looks: who may execute and on which qualification,
what an interrupted execution leaves behind and when it may be continued, and
whether a backup or a restore can be trusted after anything went wrong.

Everything is in this directory: TLA+ modules, TLC configurations, and
`PROJECT.json`, which maps every definition to the lines it models and lists the
components, runs, mutants, findings, hazards and theorems.

## 1. Inventory

Paths are relative to `src/scripts/go/rtk-cloud/`.

| Part | State it keeps | Operations | Hard behaviour | What makes it correct |
|---|---|---|---|---|
| Plan compiler (`internal/deploymentplan/plan.go`) | none; the ordered list of resources | classify definitions, order them by stage and dependency | cycles, dependencies on later stages, undeclared ones, names as tie-break | a legal, unique order, refused only if there is none |
| Admission (`execute.go`, `Admit`, `admitParallel`) | worker pool, two channels, index, first error | dispatch, receive, cancel, join | goroutines, full channels, cancellation between two looks | the verdict of a sequential check; nothing left running |
| Execution lease (`deployment_unified_lease.go`) | the cluster Lease, its UID and holder | acquire, check, release | lost and late requests, several hosts | a live owner is never displaced |
| Local fence (`execute.go`) | `.execution-active/{running.lock,owner.json}`, `<plan>/.active` | make, lock, receipt, archive | crash between any two file operations | the receipt of an execution that wrote one stays as long as its Lease |
| Reconciliation (`deployment_unified_reconcile.go`) | receipts | lock, verify twice, release, archive | races with the next execution | fences go only when the outcome is settled |
| Execution engine (`execute.go`, `resume.go`, `workload_readiness.go`) | `plan.json`, `journal.json`: completed prefix, owners, in-flight mark, acceptance | read, dry-run, write, wait, verify, accept, save; resume; revalidate | uncertain writes, other writers, crashes, two processes with one journal | each write at most once, in order, on the reviewed object; the journal tells what is uncertain; retries finish |
| Kubernetes backend (`deployment_unified_backend.go`) | none | `Read`, `Write`, `Wait`, `retire` | optimistic concurrency, foreground deletion | writes carry UID and version |
| Preflight and admission (`deployment_preflight_proof.go`, `deployment_unified_cli.go`, `deployment_unified_consumer.go`, `deployment_unified_proof_execution.go`) | active GO pointer, create's own pointer, identity bindings, one immutable artifact per generation | invalidate, observe, publish, activate, revoke, load, fence | files written one after the other, two commands at once, expiry, cancellation, inputs that change | only a whole, current qualification admits anything |
| Create journal (`deployment_create.go`, `deployment_create_state.go` and the stage drivers) | the parent's fence, one entry per provider resource or stage | admit, begin entry, receipt, complete, release | lost provider answers, two creates, crash after any file | an allocation always has an intent and an owner |
| Applied Pod acceptance (`internal/deploymentplan/resume_acceptance.go`) | the child's journal | accept one recorded Pod later | journal judged before the Lease | acceptance only of a fully applied child |
| Qualification (`internal/deploymentplan/qualification.go`) | observations with an age | gate checks in order | stale proof | only fresh, complete proof passes |
| Core recovery (`internal/recovery`, `recovery.go`) | maintenance journal in a ConfigMap and its local copy, command lock, archives | create, apply, retry, verify, resume, abort, online backup | restore in parts, crash between any two writes, writers restarted by others | nothing runs on mixed data, no archive of a capture that a detectable writer disturbed, a way out always exists |
| PostgreSQL backup (`internal/postgresbackup`, `postgres_backup_worker.go`, `postgres_restore_drill.go`) | scratch files, archives, markers, holds, drill record, status | run, retry, prune, drill, hold | lost answers of the object store, crashes between two files | a marker has its archive; retention keeps what it must; captures are not lost |
| Billing backup and storage cutover (`internal/billingbackup`, `deployment_storage*.go`) | manifests, retirement and cutover stage | stream, verify, retire, switch | a retirement against a repeated request | never retire the last good copy |
| Ceremony adapters (`deployment_create_*recovery.go`, `*_root_crl*.go`) | receipts inside the create journal | PKI, OpenBao and CRL steps | very long sequences | each step once |
| Configuration, CLI, secret store, LKE provider, DNS/TLS, relays | files | parse, render, call providers | pure input and output | not modelled |
| Test, coverage and monitor tools, e2e and load tests | reports | run and report | outside the deployed system | not modelled |

How the parts interact. The CLI compiles a plan and qualifies it. `Execute` (or,
for a stage of `deployment create`, `ExecuteResumable`) then admits every resource
with a server dry-run, takes the cluster Lease, makes the local fence, reads what
earlier attempts recorded, walks the plan, verifies the result, runs acceptance
and verifies again. Every return runs the deferred cleanup: remove `.active`,
release the Lease, archive the local fence. What a killed process leaves behind is
for `deployment reconcile-execution`. Processes share only files in the private
store, `flock` on `running.lock`, and objects in the cluster; there are no
callbacks between processes. `deployment preflight` qualifies a compiled plan and
publishes it; `deployment upgrade` and `deployment create` load that qualification,
take the environment and compare it again before every phase. Recovery and backup
commands share the cluster, a command lock in a ConfigMap and the object store.

## 2. Modules

### ParallelAdmission

`Plan.admitParallel`: the caller's `select` loop and its workers.

| Model | Code |
|---|---|
| `open`, `armed` | the jobs channel is not closed; `select` still listens on `ctx.Done()` |
| `next`, `active`, `failed` | the local variables of the same meaning |
| `work[w]` | what worker `w` does: waits for a job, checks a resource, has returned |
| `stage[i]`, `verdict[i]` | where resource `i` is on its way through the channels, and its result |
| `bad`, `cancelled` | inputs: the resources the cluster refuses, and the context |

One iteration of the loop is four steps (`CloseJobs`, `Disarm`, then `Dispatch`,
`Receive` or `Wake`), because the context may be cancelled between its two looks
at `ctx.Err()`. A worker's check and its send on the results channel are one step,
which waits while that channel, as long as there are workers, is full.

### PlanOrder

The end of `Compile`: the resources, sorted by stage and ID, are placed one by one;
the first resource of the current stage whose dependencies are placed comes next.
IDs are numbered in string order; stages and dependencies are inputs, and every
choice of them is an initial state, cyclic and undeclared dependencies included.

### ExecutionFence

Who may execute. A *controller* is a host's process; a *run* is one attempt and
stands for the unpredictable Lease holder, for the UID of its Lease and for the
inode of the directory it makes. Create and delete requests for the Lease are sets
of messages which the API server applies whenever it likes, also after their
sender has ended, or loses. Every file operation of acquisition, cleanup and
reconciliation is a step of its own, and a crash may come before each.

What an execution does between acquisition and release is reduced to the state of
its journal (`none`, `plan`, `clean`, `dirty`, `accepted`), which is all that
reconciliation looks at. `flock` is indexed by run, not by path: the kernel locks
an inode, and the path may meanwhile name another directory.

`Spec` is the code: a reconciliation reads `owner.json` by path, whatever directory it
locked. `Compared` are those of its behaviours in which every reconciliation reads the
directory it locked (`VerifyLocked`); the code does not compare the two, so this is a
condition on what else happens on the host, and finding 1 is what happens without it.
Any number of executions and reconciliations may work on one store under it. With one
command at a time per store it always holds (theorem `SeparateStores`).

### PlanJournal

What an execution does. Resources are the positions of the compiled plan; an
object is a UID, one of four bodies (reviewed baseline, desired, desired with
additions, anything else) and a deletion mark; `ver` is its resourceVersion. A
process goes through the control points of `Plan.execute`; each pass over the plan
(recorded prefix, admission, phase fence, dependencies, block barrier,
verification, ownership, revalidation, outcome) visits one resource per step, so
that other clients, controllers and late requests can act in between. A request
that was sent is in `wire` until the API server applies or refuses it; its sender
may be gone by then.

The plan is a variable chosen among the constant `Plans`, so that one run covers
plans of different shapes. `ResumeAcceptance` is `ResumeAppliedPodAcceptance`: it
judges the journal, then takes the lease, verifies the Pod, accepts, verifies again
and saves.

*ReviewedExecution* is the abstract specification: every change of the reviewed plan
takes effect at most once, in plan order and only on what was reviewed, and
acceptance comes when all have; anybody else may change anything. PlanJournal
implements it (`ExecutesReviewedPlan == Reviewed!Spec`) with a mapping that counts
the effects the API server applied and calls a resource intact while its UID, body
and version are the reviewed ones.

The lease is one variable here: ExecutionFence shows (run `fence`, theorem
`LeaseIsKept`) that a live execution keeps it. The plans are constants
whose assumption `PlanAssumption` is what PlanOrder establishes (`StageOrder` and
`DependenciesFirst`).

A save of the journal is one step: `saveJournal` writes a temporary file, syncs it
and renames it. The dry-run and the read before a write are one step with the
preparation of the request; both are reads as far as the cluster is concerned.
A killed child of `deployment create` leaves its Lease and `.active`; no command of
the repository clears them, so `OperatorClears` may happen at any time, or never.

### QualifiedAdmission

How a plan becomes executable. A plan is its operation and the inputs it was
compiled from; the generations, random in the code, are numbered. Each file of the
private store (`active`, `pointer`, `bindings`, the artifacts in `saved`) is written
in a step of its own, and a crash, a cancellation, the expiry of evidence or a change
of the inputs may come between any two. The publication lock is a variable; a
process that wants it while it is held fails, as the non-blocking `flock` does. What
an upgrade does per phase is one step `Phase` (the fence) and one step `Write`; a
create goes through the entries of its journal: intent, provider call, receipt,
completion. `rejected` records the generations that were answered with NO-GO, and
`unrevoked` those of them whose revocation met a busy lock (`RevokeRefused`;
`deployment_unified_cli.go:719` drops the error), which is finding 4. `Reconcile` is
`reconcile-execution` as far as this module sees it: the local fence goes away;
ExecutionFence has the details.

### CoreRecovery

The maintenance lifecycle. `maint` is the journal in the ConfigMap, `local` the
hosts with a copy, `cmdLock` and `fileLock` the two command locks, `data` what each
component holds (what was there, the restored archive, or half of each), `archives`
what each operation packed and whether it is published. Stopping, asserting,
capturing and applying are one step per workload or component; `Save` and
`WriteFile` are the two writes of one `save`. An operator issues the documented next
command (`Documented`) or a stray one. Waiting for the Pods of a role is one step at
the end of the role; a verification that runs into its 30 minutes is a `Fault`. Other
controllers may start a workload during maintenance and stop it again (`ForeignStart`,
`ForeignStop`). `watch` is a history: the workloads that ran during a capture, and those
of them that somebody else stopped before the second check; an archive keeps it.

### PostgresBackup

Backups are numbered by capture. A job is one worker or drill command and holds the
command lock. `enc` and `meta` are the files on the scratch volume, `stored` and
`marked` the objects of the repository. A call that fails may have been applied
(`Applied`), since an answer can be lost. `Age` makes backups older than the retention
days, `Hold` places a hold without any lock, as the operator's command does.

### How they fit together

    PlanOrder ----order----> PlanJournal <---one owner at a time--- ExecutionFence
    ParallelAdmission --the "admit" pass--> PlanJournal --implements--> ReviewedExecution
    QualifiedAdmission --which plan may start--> ExecutionFence, PlanJournal
    CoreRecovery --one command at a time, no maintenance--> PostgresBackup

The composition is by assumption and guarantee: PlanJournal's `PlanAssumption`,
its single `lease` and its sequential "admit" pass are the properties PlanOrder,
ExecutionFence and ParallelAdmission are checked and proved to have. QualifiedAdmission
sees an upgrade as fenced phases and writes, which PlanJournal details. PostgresBackup
assumes that commands exclude each other, which is the lock of CoreRecovery
(`OnlineExcluded`).

## 3. Runs

| Run | Question | Instance |
|---|---|---|
| `admission` | same verdict as a sequential check, no leak, termination | 4 resources, 2 workers, every set of refused ones, cancellation at any step |
| `order` | least legal order, refusal only if none exists | 3 resources, 3 stages, all dependency relations |
| `fence` | live owner keeps its Lease, an execution keeps its directory and lock, what an execution with a receipt leaves is found, fences removed only when settled | `Compared`: 2 hosts that execute, on one of them also a reconciliation at the same time, 3 attempts, 1 plan |
| `fence_race` (violation) | the first of these for `Spec`, where the directory is not compared | 1 store, executor and reconciler, 2 attempts; finding 1 |
| `journal_resume` | implements ReviewedExecution; journal accurate; acceptance complete; barrier; retries finish | claim, two workloads with a mutual need, retirement; 3 faults |
| `journal_attempts` | implements ReviewedExecution; reconciliation sound; the journal never forgets; barrier with an explicit dependency | five plans: create and retire, upgrade with a Job and a dependency inside a phase, all-retain on its own and as a child of create, a single Pod; 2 processes |
| `journal_delayed` (violation) | retries with delayed-binding storage | finding 2 |
| `recovery` | no mixed data runs or is released, nothing packed under a writer that is still up, safety backup first, locks exclude, a way out | 1 host and the online worker, 1 application and 1 offline workload, 2 components, 2 operations, 2 faults, 2 foreign starts or stops, 3 stray commands |
| `recovery_stuck` (violation) | a local journal can be used | finding 3 |
| `backup` | marker has archive, status current, retention, captures kept, scratch clears | 2 jobs, 3 captures, minimum 1, 2 faults |
| `preflight` | active GO is whole, superseded upgrades stop, allocations owned, creates admitted fresh | 2 processes, 2 inputs, 2 phases, 2 preflights, 2 faults |
| `preflight_nogo` (violation) | a preflight that answered NO-GO has no active GO | 1 phase, 1 fault; finding 4 |

The bounds. Two hosts are enough for a conflict over the Lease and three attempts for a
late request of the first to meet the third; the reconciliation on the first host meets
the execution it finds, the next one there, and those of the other host. The plan of
`journal_resume` has one resource of each kind that the engine treats differently (a
claim, a deferred workload that gets ready only after a later one, that later one, a
retirement), and three faults allow an interruption of the interruption's recovery. Two
components let a restore stop in the middle, two operations let a second one meet what
the first left. Three captures with a minimum of one leave a backup that retention may
delete, one it may not and one being captured. Two preflights let one supersede the
other's qualification while a third command uses it. A crash, a failed call, a failed
save and a lost request each cost one fault (`MaxFaults`); `MaxForeign` bounds what
others do (writes of resources; starts and stops of workloads, so that two let a writer
come and go during one capture), `MaxStray` commands that are not the documented next
one, `MaxRuns` attempts, `MaxOps`, `MaxBackups` and `MaxPreflights` operations. Runs
with `CHECK_DEADLOCK FALSE` are those in which the bounds, or a kill that nobody clears,
legitimately stop everything. The processes of PlanJournal and QualifiedAdmission are
interchangeable; symmetry is used in safety runs only.

Fairness. ParallelAdmission: goroutines are scheduled and a check ends (the
context's deadline bounds it). PlanOrder: the loop runs. PlanJournal: commands take
steps and are repeated by the operator (`Start`), the API server answers requests,
controllers finish rollouts and deletions; nothing is assumed about faults, kills,
the operator clearing a kill, or other clients. CoreRecovery: commands take steps
(every call has a deadline), controllers follow the replicas, and the operator clears
the lock of a killed command and issues the command that `docs/backup-restore.md`
names for the phase; `MaintenanceEnds` says that this is enough. PostgresBackup:
commands take steps; the operator clears the lock of a killed command, retries an
upload and reviews an unpaired file as `docs/postgres-backup-restore.md` asks. These
two are strongly fair, because scheduled captures can disable them again and again;
a person who keeps trying gets the lock at some time. ExecutionFence and
QualifiedAdmission have safety properties only: their commands never wait for each other,
every lock is tried once and every call has a deadline.

Every property of a passing run has a mutant: a changed form of one definition,
kept beside it and marked as such, that a plausible mistake in the code would
produce and that breaks the property.

## 4. Findings

1. **Reconciliation can take the Lease of the next execution** (`fence_race`).
   `reconcileEnvironmentExecution` opens `.execution-active/running.lock`; the
   execution ends and archives that directory; the lock is free and is taken; the
   next execution makes a new `.execution-active` with its own lock; the
   reconciler, which reads `owner.json` by path, now verifies, releases and
   archives the live execution's Lease and fence. It needs a settled journal
   (nothing written yet) and an operator who names the same plan. The executor's
   cleanup compares the directories with `os.SameFile`; reconciliation does not.
2. **Delayed-binding claims block every resume** (`journal_delayed`). `execute`
   does not wait for a claim before its consumer, on purpose; `verifyRecorded` does,
   so an interruption between the two is never resumed.
3. **A half-finished resume leaves a host unusable** (`recovery_stuck`). `Resume`
   deletes the maintenance ConfigMap and then removes `recovery-state.json`. After a
   crash in between, `Load` finds no ConfigMap and `Begin` refuses because of the
   file: "use status/verify/resume", none of which works. Only removing the file by
   hand helps. The cluster itself is fine, which is why `MaintenanceEnds` holds.
4. **A rejected preflight can stay executable** (`preflight_nogo`). An upgrade preflight
   that is cancelled after its publication revokes its GO with one non-blocking try of the
   publication lock and drops the error (`deployment_unified_cli.go:719`). If another
   process holds the lock at that moment the command answers NO-GO and the GO stays
   active. `docs/cloud-deployment-architecture.md:761` and
   `docs/deployment-secrets-governance.md:80` say that cancellation revokes the
   generation. `ActiveIsQualified` holds for every rejection whose revocation got the lock.

Limits the code accepts, which the properties state as exceptions: an attempt that ends
between `plan.json` and the first `journal.json` can never be continued, and a killed
child of `deployment create` stops every later attempt at `.active` (`RetriesComplete`);
a crash between the creation of the Lease and `owner.json`, or a create applied late,
strands a Lease that no receipt names (`NothingStranded` is about executions that wrote
one; `docs/cloud-deployment-architecture.md:834-836` says so too); a writer that another
controller starts and stops again between the two pause checks of a capture is not
detected (`ArchivesConsistent`).

## 5. Proofs

TLAPS checks the theorems of seven modules for every value of the constants.

*ParallelAdmissionProofs.* `Invariance` proves the inductive invariant: besides
types it says that resources are dispatched in order (`next` separates them), that
`active` counts exactly the outstanding ones (an explicit relation between a counter and a
set, for which the cardinality theorems are used), that a busy worker's resource is
running, and that a verdict agrees with the input. The weaker
`SequentialVerdict` is not inductive: that the first failure is *the* first needs
"everything before a dispatched resource was dispatched". From it follow
`ParallelEqualsSequential` (property `SequentialVerdict`) and
`NoCheckOutlivesTheCall` (`NoLeak`).

*PlanOrderProofs.* The invariant adds to `TypeOK`: the placed resources are exactly
the range of `ordered`, without repetition (`Coverage`, `Count`); placed ones lie in
stages not above the remaining ones (`StageBelow`); each was the least candidate
when it was placed (`Greedy`); and a refusal names a state without candidates
(`Outcome`). `RefusalIsNecessary` takes a supposed legal order, looks at its first
resource that is not placed, and finds it to be a candidate; `OrderIsDetermined`
gives `CanonicalOrder`, `OrderIsExecutable` gives what PlanJournal assumes.

*ExecutionFenceProofs.* `LiveOwnerKeepsLease` becomes inductive with: runs of
requests, Leases and directories are older than `nextRun` (`RunsAreOld`), no two
controllers execute one run (`RunsAreUnique`), a controller at a point of the
protocol knows its run (`CommandsKnowTheirRun`), and no delete request names the run of
a live execution (`NoDeleteOfLiveLease`). The last is where finding 1 enters: a
reconciliation sends such a request unless the directory it read is the one it locked.
The theorems are therefore about `Compared`, for any number of hosts, of commands on
one store, of plans and of attempts; with one command at a time per store (an assumption
on `Home`) nobody can replace a directory that a reconciliation has locked
(`NobodyReplaces`), so every behaviour of `Spec` is one of `Compared` (`SeparateStores`).

A second invariant, `Leftovers`, is proved together with that one and says what a
command that dies leaves behind. The process lock is what ties the two together: a
reconciliation past its verification holds the lock of the directory it read, hence that
directory is not a live execution's, and no two commands face one directory with its
lock in hand. `View` relates each command to the files of its own attempt or of the one
it reconciles: a release knows on whose behalf it runs (`ReleaseHasReason`), the parts
of the fence a command has made are those its control point says (`PartsMade`), and the
directory it faces is that attempt's (`DirectoryOfAttempt`, `DirectoryOfRepair`).
`CreatedOnce` says that a Lease create is sent once per attempt and that a Lease
confirmed deleted does not come back; `TracesAreOld` and `TracesInOrder` that every
trace stems from an attempt that was started, with a create under way as its first. A
step of one command changes a store only while the directory there is its own or absent,
and so keeps what the others see (`Frame`). `NothingStranded` alone is not inductive:
the API server applies creates and deletes after the command that sent them has gone on
or died. Results: `NothingIsStranded`, `FenceIsTheExecutions`
(`FenceBelongsToExecution`) and `RemovalNeedsSettlement` (the action property
`FenceRemovedOnlyWhenSettled`).

*PlanJournalProofs.* The lease excludes all but one process from the journal
(`Locking`), so for each action the other processes need one lemma (`Others`) and only
the acting one is looked at. `DiskOK`: the journal records an in-order prefix and marks at
most the resource after it. `WireOK`: at most one request is under way, for a write
without effect yet, and a request that carries the current version meets the reviewed
object (`VersionFence`); this is why a delayed request cannot overwrite what somebody else
wrote. `WaitedOK` and `Barriers` say what has been seen ready, on disk (everything, once
acceptance has started: a deferred Pod or workload is recorded before it is waited for) and
at each point of the loop; `OutcomeOK` that nobody writes once an outcome is reconciled.
`Prior`, `Memory` and `Requesting` tie what a process holds in memory to the disk.
`JournalAccurate` needs all of them: a process that resumes trusts what a
dead one saved. From it, for any well-formed plan and any number of processes, faults and
foreign writes: `TypeCorrect`, `JournalIsAccurate`, `AcceptanceIsComplete`,
`ReconciliationIsSound`, and the action properties `NeverForgets`
(`JournalNeverForgets`) and `PhasesAreBarred` (`PhaseBarrier`, where the phases being
contiguous in the plan is used). `ImplementsReviewed` proves the refinement
`ExecutesReviewedPlan`: a request that takes effect is an Effect of ReviewedExecution,
saving the accepted journal is its Accept, foreign writes and finished deletions are its
Drift, every other step stutters. `PlanAssumption` is what it rests on: the plan is in the
order PlanOrder yields, and `None` is neither a process nor an object's identity.

*QualifiedAdmissionProofs.* `ActiveIsQualified` says what the files contain between
commands and is not inductive: it needs what a publication in progress has already
written. `IInv` adds that a process in a locked section holds the lock (`Holds`), that
generations are unique and not yet rejected while they are being qualified
(`OwnGen`), and how far publishing has come: artifact saved, then the secondary
record written, then the pointer activated (`Progress`). The steps that only move a
command, most of the upgrade and the create, share one lemma (`MovesPreserves`);
each step that writes a file has its own. `PublicationIsWhole` gives
`ActiveIsQualified`, `TypeCorrect` gives `TypeOK`, for any number of processes,
preflights, phases and inputs.

The invariant `Consumption`, on top of it, is about the commands that use a
qualification: the GO an execution loaded, once replaced or revoked, never becomes
active again (`SeenOnce`); upgrades and creates go separate ways (`KindKnown`); a phase
written under a superseded GO is the last (`LateOnce`); `.execution-active` names a
process exactly while it executes (`Ownership`); and when a create is about to make that
directory, either its qualification was replaced, or its plan has been executed before,
or nothing is allocated and no other create is the owner (`FreshStart`). It gives
`SupersessionStops` (`SupersededStops`), `AllocationsStayOwned` and `CreatesStartFresh`
(`AdmittedFresh`). The constant `None` is assumed to be no process, plan or owner
record.

*PostgresBackupProofs.* `IInv` starts from the lock: a command past its start owns it,
so all others are idle (`Locks`, lemma `Alone`), and what one command has read stays
true for it. `Uploads` says which of capture, archive and marker exist at each point;
`Prunes` that every backup still in a prune's plan may go, which survives each deletion
because the plan is deleted oldest first and so no deletion lowers the number of newer
ones (`Expendable`, with lemmas about least and greatest elements); `Reports` and
`Current` what the status says while and after a command runs. From it:
`RetentionIsSafe` (`RetentionKeeps`), `MarkersAreTrue` (`MarkerHasArchive`),
`CapturesAreKept` (`CaptureKept`), `StatusIsCurrent` (`SuccessIsCurrent`), for any number
of backups, commands, holds and faults.

*CoreRecoveryProofs.* Again the lock comes first (`Locking`, `Alone`): a step of the command
inside leaves the others outside, so each action needs only its own host's part.
`JournalOK` says what the journal in the cluster promises in each phase (data untouched
until captured; from "restoring" on a published safety backup with the old data; from
"restored" on the data of the named archive; in "verified" all recorded workloads up),
`Quiesced` that mixed data exist only in phase "restoring" with nothing running.
`Control` ties the point a command has reached to the phase it saved, `Publishing`
covers the gap between packing a safety backup and recording it, `Progress` how
far capture, overwrite and startup have come, and that a workload which ran during a
capture is still up unless another controller stopped it, so that the second check finds it.
`SafetyBeforeOverwrite` alone is not
inductive: a retry overwrites with an archive an earlier command recorded. From it:
`OnlineIsExcluded`, `SafetyComesFirst`, `ArchivesAreConsistent`,
`NothingRunsOnPartialData`, and `ReleaseIsWhole` (the action property
`ReleasedWhole`: only Resume removes a journal, lemma `WhoRemoves`), for any number of
hosts, workloads, components, operations, faults and stray commands. Where the TLC run
has one host, the theorems cover commands from several.

Only model-checked: liveness, that is `Terminates`, `RetriesComplete`, `MaintenanceEnds`
and `ScratchClears`. They need fairness and ENABLED, which this version of TLAPS does
not handle. Every other property of a passing run is stated by a theorem. The condition
in `Compared` marks the limit of the ExecutionFence results; `fence_race` shows that it
is needed.

## 6. Not modelled, and why

- The parent variant of the local fence (`RecordParentExecutionLease`) and continuing
  a failed create: which stages may be continued is decided by the ceremony adapters.
- Ceremony adapters (about 150 files `deployment_create_*`): each is bound to the
  evidence of one particular interrupted environment, by digests, serial numbers and
  image pins that are not in the repository; what they share is the engine and the
  create journal, which are modelled.
- Billing backup: what a repeated retirement does is decided by the billing authority
  and the logger, whose source is in submodules.
- The other publisher of the active pointer
  (`deployment_create_normal_tail_program_flow.go:126-145`): the program of a checkpointed
  create writes its own GO under the same lock and with the same comparison of the
  generation, but without create's pointer or the bindings; it belongs to the ceremony of
  continuing a create.
- Storage cutover: in reach, see the plan.
- Loss of a completed rename after a power failure (`saveJournal` does not sync the
  directory): it needs a model of the file system.
- The textual content of plans: classification of definitions, projections and
  admission diagnostics are reduced to "matches" and "differs". The gates of a
  qualification are one step that succeeds or fails.
- Formats and encryption of archives, `pg_dump`, the helper Pods of a restore, and
  requests to the object store that take effect after their command has ended.
- `lke.go`, `main.go`, provider calls, DNS, TLS, relays, secret files, dashboards, test
  and load-test tools: sequential input and output without shared state. They are the
  bulk of the repository's lines.

## 7. Plan

Done: PlanOrder, ParallelAdmission, ExecutionFence, PlanJournal with ReviewedExecution,
QualifiedAdmission, PostgresBackup and CoreRecovery; every safety property of theirs is
proved.

Next, in this order:

1. **StorageCutover** (`deployment_storage_cutover.go`).
2. The parent variant of the fence as a further kind of execution of ExecutionFence.

## 8. Running it

    tlc -workers 2 -config MCExecutionFence.cfg MCExecutionFence
    tlapm ExecutionFenceProofs.tla

Each run of `PROJECT.json` names its module and configuration; the longest takes
about two minutes.
