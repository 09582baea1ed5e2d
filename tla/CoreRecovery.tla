---------------------------- MODULE CoreRecovery ----------------------------
(***************************************************************************)
(* The maintenance lifecycle of core backup and restore: create, apply,    *)
(* retry, verify, resume and abort, with the journal in the cluster, its   *)
(* copy in the SecretStore of a host, and the command locks.               *)
(*                                                                         *)
(* Sources: internal/recovery/lifecycle.go, kubernetes.go, components.go,  *)
(* cluster_lock.go, remote.go and the dispatch in recovery.go.             *)
(*                                                                         *)
(* Data that stay online (PostgreSQL, Redis) have no workload here: only   *)
(* application and offline workloads are stopped.  Archives are numbered:  *)
(* 0 was made before, n is the backup or the safety backup of operation n. *)
(* Operator checks are steps that may fail.  The scheduled online backup   *)
(* of PostgreSQL (PostgresBackup) shares the command lock.                 *)
(***************************************************************************)
EXTENDS Integers, FiniteSets

CONSTANTS
    Hosts,          \* hosts with a SecretStore from which commands are run
    Applications,   \* workloads of role application
    Offline,        \* workloads of role offline
    Components,     \* how many data components there are, globals first
    MaxOps,         \* bound: maintenance operations
    MaxFaults,      \* bound: crashes, failed calls and failed checks
    MaxForeign,     \* bound: workloads started or stopped by other controllers
    MaxStray,       \* bound: commands other than the documented next one
    None

\* The online worker as an owner of the command lock.
Worker == "online"

Parts == 1..Components

\* What a component holds: what was there first, archive 0, or half of each.
Values == {"live", "source", "torn"}

ASSUME RecoveryAssumption ==
    /\ Components \in Nat \ {0}
    /\ MaxOps \in Nat \ {0} /\ MaxFaults \in Nat
    /\ MaxForeign \in Nat /\ MaxStray \in Nat
    /\ Applications \cap Offline = {}
    /\ None \notin Hosts \cup {Worker} /\ Worker \notin Hosts
    /\ None \notin 0..MaxOps /\ None \notin [Parts -> Values]

Workloads == Applications \cup Offline
Operations == 1..MaxOps
Commands == {"create", "apply", "retry", "verify", "resume", "abort"}
Phases == {"quiescing", "paused", "captured", "restoring", "restored",
           "verifying", "verified"}

NoJournal == [n |-> 0, op |-> None, phase |-> None, backup |-> None,
              safety |-> None, saved |-> {}]

\* The workloads that ran during a capture, and those of them that another
\* controller stopped again until the second check.
Unwatched == [ran |-> {}, stopped |-> {}]

Unmade == [content |-> None, during |-> Unwatched, published |-> FALSE]

VARIABLES
    maint,      \* journal in the ConfigMap rtk-core-recovery, or NoJournal
    local,      \* hosts with a recovery-state.json
    cmdLock,    \* owner of the ConfigMap rtk-core-recovery-command, or None
    online,     \* where the online backup worker is
    fileLock,   \* hosts with a recovery-command.lock
    up, pods,   \* workloads scaled to their replicas; workloads with Pods
    data,       \* per component: its content
    archives,   \* per operation: the archive made by it
    pc, cmd,    \* per host: where its command is, and which one it is
    file,       \* per host: the archive given with --file
    mem,        \* per host: the journal its command works with
    todo, part, \* per host: workloads to scale, next component
    copy,       \* per host: what Capture has collected
    ops, faults, foreign, stray,
    watch,      \* history, per host: what other controllers did in its capture
    before      \* history: data when the current operation began

cluster == <<maint, cmdLock, up, pods, data>>
disks == <<local, fileLock, archives>>
process == <<pc, cmd, file, mem, todo, part, copy, watch>>
budget == <<ops, faults, foreign, stray>>
vars == <<cluster, disks, process, budget, before, online>>

Init ==
    /\ maint = NoJournal /\ cmdLock = None /\ online = "idle"
    /\ up = Workloads /\ pods = Workloads
    /\ data = [c \in Parts |-> "live"] /\ before = data
    /\ local = {} /\ fileLock = {}
    /\ archives = [n \in Operations |-> Unmade]
    /\ pc = [h \in Hosts |-> "idle"] /\ cmd = [h \in Hosts |-> None]
    /\ file = [h \in Hosts |-> 0] /\ mem = [h \in Hosts |-> NoJournal]
    /\ todo = [h \in Hosts |-> {}] /\ part = [h \in Hosts |-> 1]
    /\ copy = [h \in Hosts |-> None] /\ watch = [h \in Hosts |-> Unwatched]
    /\ ops = 0 /\ faults = 0 /\ foreign = 0 /\ stray = 0

Content(n) == IF n = 0 THEN [c \in Parts |-> "source"] ELSE archives[n].content

\* The data are those of one moment: untouched since the operation began, or
\* entirely those of one archive.
OneMoment ==
    data \in {before, Content(0)} \cup {archives[n].content : n \in Operations}

\* What the journal says that the data are.
AsRecorded == data = IF maint.op = "restore" THEN Content(maint.backup) ELSE before

-----------------------------------------------------------------------------
(* Commands and their locks                                                 *)

Go(h, point) == pc' = [pc EXCEPT ![h] = point]

\* The command returns, with or without an error, and releases its locks.
End(h) ==
    /\ Go(h, "idle")
    /\ cmdLock' = IF cmdLock = h THEN None ELSE cmdLock
    /\ fileLock' = fileLock \ {h}
    /\ cmd' = [cmd EXCEPT ![h] = None] /\ file' = [file EXCEPT ![h] = 0]
    /\ mem' = [mem EXCEPT ![h] = NoJournal]
    /\ todo' = [todo EXCEPT ![h] = {}] /\ part' = [part EXCEPT ![h] = 1]
    /\ copy' = [copy EXCEPT ![h] = None] /\ watch' = [watch EXCEPT ![h] = Unwatched]

\* It returns an error and changes nothing more.
Refuse(h) ==
    /\ End(h)
    /\ UNCHANGED <<maint, up, pods, data, local, archives, budget, before, online>>

\* The command that docs/backup-restore.md names for a phase.
Documented(phase) ==
    CASE phase \in {"quiescing", "paused"} -> "abort"
      [] phase = "restoring" -> "retry"
      [] phase = "verified" -> "resume"
      [] OTHER -> "verify"

\* The archive that a retry accepts.
Retriable(j, f) == f \in {j.backup, j.safety}

\* --file names an encrypted archive, fetched or still in the local directory.
Restorable == {0} \cup {n \in Operations : archives[n] # Unmade}

\* recovery-command.lock is created exclusively.
Issue(h, c, f) ==
    /\ pc[h] = "idle" /\ h \notin fileLock
    /\ fileLock' = fileLock \cup {h}
    /\ cmd' = [cmd EXCEPT ![h] = c] /\ file' = [file EXCEPT ![h] = f]
    /\ Go(h, "lock")
    /\ UNCHANGED <<cluster, local, archives, mem, todo, part, copy, watch, ops,
                   faults, foreign, before, online>>

\* The operator waits for the running command and follows the documentation.
NextCommand(h) ==
    /\ maint # NoJournal
    /\ \A g \in Hosts : pc[g] = "idle"
    /\ \E f \in Restorable :
          /\ Documented(maint.phase) = "retry" => Retriable(maint, f)
          /\ Issue(h, Documented(maint.phase), f)
    /\ UNCHANGED stray

\* Any other command, at any time.
StrayCommand(h) ==
    /\ stray < MaxStray /\ stray' = stray + 1
    /\ \E c \in Commands : \E f \in Restorable :
          /\ c \notin {"apply", "retry"} => f = 0
          /\ Issue(h, c, f)

\* The ConfigMap of the command lock is created.
LockCluster(h) ==
    /\ pc[h] = "lock"
    /\ cmdLock = None
    /\ cmdLock' = h
    /\ Go(h, IF cmd[h] \in {"create", "apply"} THEN "begin" ELSE "load")
    /\ UNCHANGED <<maint, up, pods, data, disks, cmd, file, mem, todo, part,
                   copy, watch, budget, before, online>>

LockRefused(h) ==
    /\ pc[h] = "lock"
    /\ cmdLock # None
    /\ Refuse(h)

\* A killed owner is checked by an operator before its locks are removed.
OperatorClears(h) ==
    /\ pc[h] = "dead"
    /\ End(h)
    /\ UNCHANGED <<maint, up, pods, data, local, archives, budget, before, online>>

\* What the online worker leaves alone.
OnlineKeeps ==
    UNCHANGED <<maint, up, pods, data, disks, process, ops, foreign, before>>

\* AcquireClusterLock with rejectMaintenance: the lock first.  Preflight asks
\* that CronJobs are suspended: a start during maintenance is a stray one ...
OnlineLock ==
    /\ online = "idle" /\ cmdLock = None
    /\ \/ maint = NoJournal /\ UNCHANGED stray
       \/ maint # NoJournal /\ stray < MaxStray /\ stray' = stray + 1
    /\ online' = "locked" /\ cmdLock' = Worker
    /\ OnlineKeeps /\ UNCHANGED faults

\* Mutant of OnlineChecked: the maintenance journal is not looked at.
OnlineChecked_NoLook ==
    /\ online = "locked"
    /\ online' = "working"
    /\ OnlineKeeps /\ UNCHANGED <<cmdLock, faults, stray>>

\* ... then the maintenance journal, which must be absent.
OnlineChecked ==
    /\ online = "locked" /\ maint = NoJournal
    /\ online' = "working"
    /\ OnlineKeeps /\ UNCHANGED <<cmdLock, faults, stray>>

OnlineRefused ==
    /\ online = "locked" /\ maint # NoJournal
    /\ online' = "idle" /\ cmdLock' = None
    /\ OnlineKeeps /\ UNCHANGED <<faults, stray>>

OnlineDone ==
    /\ online = "working"
    /\ online' = "idle" /\ cmdLock' = None
    /\ OnlineKeeps /\ UNCHANGED <<faults, stray>>

\* The worker is killed: its lock stays until an operator removes it.
OnlineCrash ==
    /\ online \in {"locked", "working"}
    /\ faults < MaxFaults /\ faults' = faults + 1
    /\ online' = "dead"
    /\ OnlineKeeps /\ UNCHANGED <<cmdLock, stray>>

OperatorClearsOnline ==
    /\ online = "dead"
    /\ online' = "idle" /\ cmdLock' = None
    /\ OnlineKeeps /\ UNCHANGED <<faults, stray>>

-----------------------------------------------------------------------------
(* Journal                                                                  *)

\* Where a command continues after it saved a phase.
AfterSave(h) ==
    CASE mem[h].phase = "quiescing" -> "stop"
      [] mem[h].phase = "paused" -> "assert"
      [] mem[h].phase = "captured" -> IF cmd[h] = "create" THEN "publish" ELSE "load"
      [] mem[h].phase = "restoring" -> IF cmd[h] = "apply" THEN "reassert" ELSE "stop"
      [] mem[h].phase = "verifying" -> "startup"
      [] OTHER -> "end"

\* save: the ConfigMap first ...
Save(h, j) ==
    /\ maint' = j
    /\ mem' = [mem EXCEPT ![h] = j]
    /\ Go(h, "file")

\* ... and then the local file.
WriteFile(h) ==
    /\ pc[h] = "file"
    /\ local' = local \cup {h}
    /\ Go(h, AfterSave(h))
    /\ todo' = [todo EXCEPT ![h] =
                  CASE AfterSave(h) = "stop" -> Applications
                    [] AfterSave(h) = "startup" -> mem[h].saved \cap Offline
                    [] OTHER -> {}]
    /\ UNCHANGED <<cluster, fileLock, archives, cmd, file, mem, part, copy, watch,
                   budget, before, online>>

\* Preflight and the exclusive create of the journal, before the first scale.
Begin(h) ==
    /\ pc[h] = "begin"
    /\ h \notin local /\ maint = NoJournal /\ ops < MaxOps
    /\ ops' = ops + 1
    /\ Save(h, [n |-> ops + 1, op |-> IF cmd[h] = "create" THEN "backup" ELSE "restore",
                phase |-> "quiescing", backup |-> None, safety |-> None, saved |-> up])
    /\ before' = data
    /\ UNCHANGED <<cmdLock, up, pods, data, disks, cmd, file, todo, part, copy,
                   watch, faults, foreign, stray, online>>

BeginRefused(h) ==
    /\ pc[h] = "begin"
    /\ h \in local \/ maint # NoJournal \/ ops = MaxOps
    /\ Refuse(h)

\* Mutant of Allowed: an interrupted restore may be verified.
Allowed_Unfinished(c, j, f) ==
    CASE c = "retry" -> /\ j.op = "restore" /\ j.safety # None /\ Retriable(j, f)
                        /\ j.phase \in {"restoring", "restored", "verifying", "verified"}
      [] c = "verify" -> j.phase \in Phases \ {"quiescing", "paused"}
      [] c = "resume" -> j.phase = "verified"
      [] c = "abort" -> j.phase \in {"quiescing", "paused", "captured"}

\* Mutant of Allowed: a verification that was interrupted is not repeated.
Allowed_VerifyOnce(c, j, f) ==
    CASE c = "retry" -> /\ j.op = "restore" /\ j.safety # None /\ Retriable(j, f)
                        /\ j.phase \in {"restoring", "restored", "verifying", "verified"}
      [] c = "verify" -> j.phase \in {"captured", "restored"}
      [] c = "resume" -> j.phase = "verified"
      [] c = "abort" -> j.phase \in {"quiescing", "paused", "captured"}

\* The phases in which a command may go on.
Allowed(c, j, f) ==
    CASE c = "retry" -> /\ j.op = "restore" /\ j.safety # None /\ Retriable(j, f)
                        /\ j.phase \in {"restoring", "restored", "verifying", "verified"}
      [] c = "verify" -> j.phase \in {"captured", "restored", "verifying", "verified"}
      [] c = "resume" -> j.phase = "verified"
      [] c = "abort" -> j.phase \in {"quiescing", "paused", "captured"}

\* After abort has saved its journal it verifies.
Entering(h) == IF cmd[h] = "abort" /\ mem[h] # NoJournal THEN "verify" ELSE cmd[h]

\* Mutant of Retrying: the phase is left as it was.
Retrying_KeepsPhase(h) == [maint EXCEPT !.backup = file[h]]

\* What a retry saves before it stops a workload or overwrites anything.
Retrying(h) == [maint EXCEPT !.phase = "restoring", !.backup = file[h]]

\* Load and the check of the phase; retry, verify and abort save at once.
Load(h) ==
    /\ pc[h] = "load"
    /\ maint # NoJournal /\ Allowed(Entering(h), maint, file[h])
    /\ CASE Entering(h) = "retry" -> Save(h, Retrying(h))
         [] Entering(h) = "verify" -> Save(h, [maint EXCEPT !.phase = "verifying"])
         [] Entering(h) = "abort" ->
              Save(h, [maint EXCEPT !.op = "backup", !.phase = "captured"])
         [] Entering(h) = "resume" ->
              /\ mem' = [mem EXCEPT ![h] = maint]
              /\ Go(h, "recheck")
              /\ UNCHANGED maint
    /\ UNCHANGED <<cmdLock, up, pods, data, disks, cmd, file, todo, part, copy,
                   watch, budget, before, online>>

LoadRefused(h) ==
    /\ pc[h] = "load"
    /\ maint = NoJournal \/ ~Allowed(Entering(h), maint, file[h])
    /\ Refuse(h)

-----------------------------------------------------------------------------
(* Stopping and starting workloads                                          *)

\* scale to 0, one workload after the other.
ScaleDown(h) ==
    /\ pc[h] = "stop"
    /\ \E w \in todo[h] :
          /\ todo' = [todo EXCEPT ![h] = @ \ {w}]
          /\ up' = up \ {w}
    /\ UNCHANGED <<maint, cmdLock, pods, data, disks, pc, cmd, file, mem, part,
                   copy, watch, budget, before, online>>

\* waitStopped and the quiescence checks; offline workloads come second.
Stopped(h) ==
    /\ pc[h] = "stop" /\ todo[h] = {}
    /\ pods \cap Applications = {}
    /\ Go(h, "stopoffline")
    /\ todo' = [todo EXCEPT ![h] = Offline]
    /\ UNCHANGED <<cluster, disks, cmd, file, mem, part, copy, watch, budget, before, online>>

ScaleOffline(h) ==
    /\ pc[h] = "stopoffline"
    /\ \E w \in todo[h] :
          /\ todo' = [todo EXCEPT ![h] = @ \ {w}]
          /\ up' = up \ {w}
    /\ UNCHANGED <<maint, cmdLock, pods, data, disks, pc, cmd, file, mem, part,
                   copy, watch, budget, before, online>>

\* Begin saves that everything is paused; a retry goes on to apply.
Paused(h) ==
    /\ pc[h] = "stopoffline" /\ todo[h] = {}
    /\ pods \cap Offline = {}
    /\ IF cmd[h] = "retry" THEN Go(h, "reassert") /\ UNCHANGED <<maint, mem>>
       ELSE Save(h, [mem[h] EXCEPT !.phase = "paused"])
    /\ UNCHANGED <<cmdLock, up, pods, data, disks, cmd, file, todo, part, copy,
                   watch, budget, before, online>>

\* A workload that was started again keeps its Pods: the wait times out.
StopFails(h) ==
    /\ pc[h] \in {"stop", "stopoffline"} /\ todo[h] = {}
    /\ pods \cap up \cap (IF pc[h] = "stop" THEN Applications ELSE Offline) # {}
    /\ Refuse(h)

\* AssertPaused
AllPaused == up = {} /\ pods = {}

Assert(h) ==
    /\ pc[h] \in {"assert", "checkagain", "reassert"}
    /\ AllPaused
    /\ Go(h, CASE pc[h] = "assert" -> "capture"
               [] pc[h] = "checkagain" -> "pack"
               [] pc[h] = "reassert" -> "overwrite")
    /\ part' = [part EXCEPT ![h] = 1]
    /\ copy' = IF pc[h] = "assert" THEN [copy EXCEPT ![h] = data] ELSE copy
    /\ watch' = IF pc[h] = "assert" THEN [watch EXCEPT ![h] = Unwatched] ELSE watch
    /\ UNCHANGED <<cluster, disks, cmd, file, mem, todo, budget, before, online>>

AssertFails(h) ==
    /\ pc[h] \in {"assert", "checkagain", "reassert"}
    /\ ~AllPaused
    /\ Refuse(h)

-----------------------------------------------------------------------------
(* Archives                                                                 *)

\* Mutant of AfterCapture: writers are not checked again after the capture.
AfterCapture_NotAgain == "pack"

\* "Check again after capture, detecting writers that restarted during it."
AfterCapture == "checkagain"

\* Capture, component by component.
Capture(h) ==
    /\ pc[h] = "capture"
    /\ IF part[h] > Components THEN Go(h, AfterCapture) /\ UNCHANGED <<part, copy>>
       ELSE /\ copy' = [copy EXCEPT ![h][part[h]] = data[part[h]]]
            /\ part' = [part EXCEPT ![h] = @ + 1]
            /\ UNCHANGED pc
    /\ UNCHANGED <<cluster, disks, cmd, file, mem, todo, watch, budget, before, online>>

\* Mutant of Pack: the overwrite is announced before the safety backup is
\* published.
Pack_RestoresFirst(h) ==
    /\ pc[h] = "pack"
    /\ archives' = [archives EXCEPT ![mem[h].n] =
                      [content |-> copy[h], during |-> watch[h], published |-> FALSE]]
    /\ Save(h, IF cmd[h] = "create"
               THEN [mem[h] EXCEPT !.phase = "captured", !.backup = mem[h].n]
               ELSE [mem[h] EXCEPT !.phase = "restoring", !.backup = file[h],
                                   !.safety = mem[h].n])
    /\ UNCHANGED <<cmdLock, up, pods, data, local, fileLock, cmd, file, todo,
                   part, copy, watch, budget, before, online>>

\* The encrypted archive exists locally.  A backup is recorded as captured and
\* then published; a safety backup is published first.
Pack(h) ==
    /\ pc[h] = "pack"
    /\ archives' = [archives EXCEPT ![mem[h].n] =
                      [content |-> copy[h], during |-> watch[h], published |-> FALSE]]
    /\ IF cmd[h] = "create"
       THEN Save(h, [mem[h] EXCEPT !.phase = "captured", !.backup = mem[h].n])
       ELSE /\ mem' = [mem EXCEPT ![h].backup = file[h], ![h].safety = mem[h].n]
            /\ Go(h, "publish")
            /\ UNCHANGED maint
    /\ UNCHANGED <<cmdLock, up, pods, data, local, fileLock, cmd, file, todo,
                   part, copy, watch, budget, before, online>>

\* Upload: archive, full readback and completion marker under immutable names.
Publish(h) ==
    /\ pc[h] = "publish"
    /\ archives' = [archives EXCEPT ![mem[h].n].published = TRUE]
    /\ IF cmd[h] = "create" THEN Go(h, "end") /\ UNCHANGED <<maint, mem>>
       ELSE Save(h, [mem[h] EXCEPT !.phase = "restoring"])
    /\ UNCHANGED <<cmdLock, up, pods, data, local, fileLock, cmd, file, todo,
                   part, copy, watch, budget, before, online>>

\* `backup upload` publishes a local archive later, without any lock.
Upload(n) ==
    /\ archives[n] # Unmade /\ ~archives[n].published
    /\ archives' = [archives EXCEPT ![n].published = TRUE]
    /\ UNCHANGED <<cluster, local, fileLock, process, budget, before, online>>

\* Apply overwrites one component after the other.
Apply(h) ==
    /\ pc[h] = "overwrite"
    /\ part[h] <= Components
    /\ data' = [data EXCEPT ![part[h]] = Content(mem[h].backup)[part[h]]]
    /\ part' = [part EXCEPT ![h] = @ + 1]
    /\ UNCHANGED <<maint, cmdLock, up, pods, disks, pc, cmd, file, mem, todo,
                   copy, watch, budget, before, online>>

Applied(h) ==
    /\ pc[h] = "overwrite"
    /\ part[h] > Components
    /\ Save(h, [mem[h] EXCEPT !.phase = "restored"])
    /\ UNCHANGED <<cmdLock, up, pods, data, disks, cmd, file, todo, part, copy,
                   watch, budget, before, online>>

-----------------------------------------------------------------------------
(* Verification and release                                                 *)

\* startRole: offline workloads, recovery checks, then applications.
StartWorkload(h) ==
    /\ pc[h] \in {"startup", "startapps"}
    /\ \E w \in todo[h] :
          /\ todo' = [todo EXCEPT ![h] = @ \ {w}]
          /\ up' = up \cup {w}
    /\ UNCHANGED <<maint, cmdLock, pods, data, disks, pc, cmd, file, mem, part,
                   copy, watch, budget, before, online>>

RoleStarted(h) ==
    /\ pc[h] \in {"startup", "startapps"} /\ todo[h] = {}
    /\ IF pc[h] = "startup"
       THEN /\ todo' = [todo EXCEPT ![h] = mem[h].saved \cap Applications]
            /\ Go(h, "startapps")
       ELSE Go(h, "health") /\ UNCHANGED todo
    /\ UNCHANGED <<cluster, disks, cmd, file, mem, part, copy, watch, budget, before, online>>

Verified(h) ==
    /\ pc[h] = "health"
    /\ Save(h, [mem[h] EXCEPT !.phase = "verified"])
    /\ UNCHANGED <<cmdLock, up, pods, data, disks, cmd, file, todo, part, copy,
                   watch, budget, before, online>>

\* Failed health checks: applications are paused again as far as possible.
Unhealthy(h) ==
    /\ pc[h] = "health"
    /\ faults < MaxFaults /\ faults' = faults + 1
    /\ \E W \in SUBSET Applications : up' = up \ W
    /\ End(h)
    /\ UNCHANGED <<maint, pods, data, local, archives, ops, foreign, stray, before, online>>

\* Mutant of Resume: completion is written into the ConfigMap.
Resume_SavesComplete(h) ==
    /\ pc[h] = "recheck"
    /\ maint' = [mem[h] EXCEPT !.phase = "complete"]
    /\ Go(h, "unjournal")
    /\ UNCHANGED <<cmdLock, up, pods, data, disks, cmd, file, mem, todo, part,
                   copy, watch, budget, before, online>>

\* Resume: evidence and health checks passed; the ConfigMap is deleted ...
Resume(h) ==
    /\ pc[h] = "recheck"
    /\ maint' = NoJournal
    /\ Go(h, "unjournal")
    /\ UNCHANGED <<cmdLock, up, pods, data, disks, cmd, file, mem, todo, part,
                   copy, watch, budget, before, online>>

\* ... and then the local file.
RemoveFile(h) ==
    /\ pc[h] = "unjournal"
    /\ local' = local \ {h}
    /\ Go(h, "end")
    /\ UNCHANGED <<cluster, fileLock, archives, cmd, file, mem, todo, part, copy,
                   watch, budget, before, online>>

Return(h) ==
    /\ pc[h] = "end"
    /\ Refuse(h)

-----------------------------------------------------------------------------
(* Failures and the cluster                                                 *)

\* A component that Apply was writing is left half written.
Tear(h) ==
    \/ UNCHANGED data
    \/ pc[h] = "overwrite" /\ part[h] <= Components
       /\ data' = [data EXCEPT ![part[h]] = "torn"]

\* A call, a check or a wait fails, and the command returns.
Fault(h) ==
    /\ pc[h] \notin {"idle", "dead", "health"}
    /\ faults < MaxFaults /\ faults' = faults + 1
    /\ Tear(h)
    /\ End(h)
    /\ UNCHANGED <<maint, up, pods, local, archives, ops, foreign, stray, before, online>>

\* The command is killed, or cannot release its locks.
Crash(h) ==
    /\ pc[h] \notin {"idle", "dead"}
    /\ faults < MaxFaults /\ faults' = faults + 1
    /\ Tear(h)
    /\ Go(h, "dead")
    /\ UNCHANGED <<maint, cmdLock, up, pods, disks, cmd, file, mem, todo, part,
                   copy, watch, ops, foreign, stray, before, online>>

\* Controllers follow the replicas.
PodsFollow(w) ==
    /\ pods' = IF w \in up THEN pods \cup {w} ELSE pods \ {w}
    /\ pods' # pods
    /\ watch' = [h \in Hosts |->
                   IF pc[h] = "capture" /\ w \in up
                   THEN [watch[h] EXCEPT !.ran = @ \cup {w}] ELSE watch[h]]
    /\ UNCHANGED <<maint, cmdLock, up, data, disks, pc, cmd, file, mem, todo, part,
                   copy, budget, before, online>>

\* Another controller starts a workload in the middle of the maintenance.
ForeignStart(w) ==
    /\ foreign < MaxForeign /\ foreign' = foreign + 1
    /\ maint # NoJournal /\ w \notin up
    /\ up' = up \cup {w}
    /\ UNCHANGED <<maint, cmdLock, pods, data, disks, process, ops, faults, stray,
                   before, online>>

\* Another controller stops a workload while all are meant to be stopped.
ForeignStop(w) ==
    /\ foreign < MaxForeign /\ foreign' = foreign + 1
    /\ maint # NoJournal /\ maint.phase \notin {"verifying", "verified"}
    /\ w \in up
    /\ up' = up \ {w}
    /\ watch' = [h \in Hosts |->
                   IF pc[h] \in {"capture", "checkagain"} /\ w \in watch[h].ran
                   THEN [watch[h] EXCEPT !.stopped = @ \cup {w}] ELSE watch[h]]
    /\ UNCHANGED <<maint, cmdLock, pods, data, disks, pc, cmd, file, mem, todo, part,
                   copy, ops, faults, stray, before, online>>

-----------------------------------------------------------------------------
Step(h) ==
    \/ LockCluster(h) \/ LockRefused(h) \/ WriteFile(h)
    \/ Begin(h) \/ BeginRefused(h) \/ Load(h) \/ LoadRefused(h)
    \/ ScaleDown(h) \/ Stopped(h) \/ ScaleOffline(h) \/ Paused(h) \/ StopFails(h)
    \/ Assert(h) \/ AssertFails(h)
    \/ Capture(h) \/ Pack(h) \/ Publish(h) \/ Apply(h) \/ Applied(h)
    \/ StartWorkload(h) \/ RoleStarted(h) \/ Verified(h)
    \/ Resume(h) \/ RemoveFile(h) \/ Return(h)

Next ==
    \/ \E h \in Hosts :
          \/ NextCommand(h) \/ StrayCommand(h) \/ Step(h)
          \/ Unhealthy(h) \/ Fault(h) \/ Crash(h) \/ OperatorClears(h)
    \/ OnlineLock \/ OnlineChecked \/ OnlineRefused \/ OnlineDone
    \/ OnlineCrash \/ OperatorClearsOnline
    \/ \E n \in Operations : Upload(n)
    \/ \E w \in Workloads : PodsFollow(w) \/ ForeignStart(w) \/ ForeignStop(w)

\* Commands take their steps, controllers follow the replicas, and the operator
\* clears the locks of killed commands and issues the documented command.
Fairness ==
    /\ \A h \in Hosts : WF_vars(Step(h)) /\ WF_vars(OperatorClears(h))
    /\ WF_vars(OnlineChecked \/ OnlineRefused \/ OnlineDone \/ OperatorClearsOnline)
    /\ WF_vars(\E h \in Hosts : NextCommand(h))
    /\ \A w \in Workloads : WF_vars(PodsFollow(w))

Spec == Init /\ [][Next]_vars
FairSpec == Spec /\ Fairness

-----------------------------------------------------------------------------
(* Properties                                                               *)

Journals ==
    {NoJournal} \cup
    [n : Operations, op : {"backup", "restore"}, phase : Phases,
     backup : 0..MaxOps \cup {None}, safety : Operations \cup {None},
     saved : SUBSET Workloads]

Watches == [ran : SUBSET Workloads, stopped : SUBSET Workloads]

\* The journal, its copies in the commands, the locks and the archives are
\* well typed.
TypeOK ==
    /\ maint \in Journals /\ mem \in [Hosts -> Journals]
    /\ cmdLock \in Hosts \cup {Worker, None}
    /\ online \in {"idle", "locked", "working", "dead"}
    /\ local \in SUBSET Hosts /\ fileLock \in SUBSET Hosts
    /\ up \in SUBSET Workloads /\ pods \in SUBSET Workloads
    /\ data \in [Parts -> Values] /\ before \in [Parts -> Values]
    /\ \A n \in Operations : archives[n] # Unmade =>
          archives[n] \in [content : [Parts -> Values], during : Watches, published : BOOLEAN]
    /\ cmd \in [Hosts -> Commands \cup {None}] /\ file \in [Hosts -> 0..MaxOps]
    /\ todo \in [Hosts -> SUBSET Workloads] /\ part \in [Hosts -> 1..(Components + 1)]
    /\ ops \in 0..MaxOps /\ faults \in 0..MaxFaults
    /\ foreign \in 0..MaxForeign /\ stray \in 0..MaxStray

\* "It can never be made healthy by simply clearing a lock": maintenance ends
\* only with the data untouched, or entirely those of the archive that the
\* journal and the reconciliation evidence name, and with every workload back
\* at the replicas that were recorded before the first scale.
ReleasedWhole ==
    [][maint # NoJournal /\ maint' = NoJournal =>
          AsRecorded /\ maint.saved \subseteq up]_vars

\* "No application can run while this loop is partially complete": unless
\* another controller starts it, no workload runs on data of two moments.
NoneRunsOnPartialData == foreign = 0 /\ ~OneMoment => pods = {}

\* "Check again after capture, detecting writers that restarted during it": no
\* archive is packed of a capture during which a workload ran, unless another
\* controller itself stopped that workload again before the second check.  A
\* writer that came and went between the two checks is not detected.
ArchivesConsistent ==
    \A n \in Operations :
        archives[n] # Unmade => archives[n].during.ran \subseteq archives[n].during.stopped

\* "No target dataset is overwritten unless this succeeds": what the target held
\* when the operation began is in a published archive that retry accepts.
SafetyBeforeOverwrite ==
    maint # NoJournal /\ data # before =>
        /\ maint.safety # None /\ Retriable(maint, maint.safety)
        /\ archives[maint.safety].published
        /\ archives[maint.safety].content = before

\* "The shared operation lock prevents overlap with this maintenance
\* procedure": while the online worker works there is no maintenance journal
\* and no recovery command past its lock.
OnlineExcluded ==
    online = "working" =>
        maint = NoJournal /\ \A h \in Hosts : pc[h] \in {"idle", "dead", "lock"}

\* Whatever failed, the documented commands lead out of maintenance.
MaintenanceEnds == []<>(maint = NoJournal)

\* "local recovery journal exists; use status/verify/resume": where no command
\* runs, a local journal stands for one in the cluster that can be loaded.
JournalIsUsable ==
    \A h \in Hosts : h \in local /\ pc[h] \in {"idle", "dead"} => maint # NoJournal
=============================================================================
