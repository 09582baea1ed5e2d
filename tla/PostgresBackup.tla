--------------------------- MODULE PostgresBackup ---------------------------
(***************************************************************************)
(* The online PostgreSQL backup: capture on the scratch volume, immutable  *)
(* publication in the object store, retry of an upload, retention by       *)
(* markers, restore drills and the status that monitoring reads.           *)
(*                                                                         *)
(* Sources: postgres_backup_worker.go, postgres_restore_drill.go and       *)
(* internal/postgresbackup (runner.go, archive.go, remote.go,              *)
(* retention.go).                                                          *)
(*                                                                         *)
(* Backups are numbered in the order of their capture.  A job is one       *)
(* worker or drill command; commands exclude each other by the ConfigMap   *)
(* of the recovery command lock (CoreRecovery shows that it also excludes  *)
(* maintenance).  A request whose answer is lost may have been applied.    *)
(***************************************************************************)
EXTENDS Integers, FiniteSets, FiniteSetsExt

CONSTANTS
    Jobs,       \* concurrent commands
    MaxBackups, \* bound: captures
    Minimum,    \* MinimumBackups of the configuration
    MaxFaults,  \* bound: crashes, failed calls and lost answers
    None

ASSUME BackupAssumption ==
    /\ MaxBackups \in Nat \ {0} /\ Minimum \in Nat \ {0} /\ MaxFaults \in Nat
    /\ None \notin Jobs

Backups == 1..MaxBackups
Actions == {"run", "retry", "prune", "drill"}

VARIABLES
    enc, meta,      \* scratch: each .age file, the .manifest.json files
    stored, marked, \* repository: archives and completion markers
    pin,            \* repository: backup of the latest successful drill, or 0
    holds,          \* repository: backups with a hold record
    owner,          \* holder of the command lock, or None
    status,         \* the status ConfigMap
    job,            \* per command: where it is and what it has read; held is
                    \* history: the holds when prune last looked
    made,           \* captures so far
    aged,           \* backups up to this one are older than the retention days
    faults

scratch == <<enc, meta>>
remote == <<stored, marked, pin, holds>>
vars == <<scratch, remote, owner, status, job, made, aged, faults>>

Idle == [pc |-> "idle", act |-> None, id |-> 0, latest |-> 0, plan |-> {},
         kept |-> {}, cut |-> 0, held |-> {}]

Init ==
    /\ enc = [n \in Backups |-> "none"] /\ meta = {}
    /\ stored = {} /\ marked = {} /\ pin = 0 /\ holds = {}
    /\ owner = None /\ status = [latest |-> 0, attempt |-> None]
    /\ job = [w \in Jobs |-> Idle]
    /\ made = 0 /\ aged = 0 /\ faults = 0

\* GetStatus: the newest published backup.
Newest == Max(marked \cup {0})

At(w, point) == job[w].pc = point
Go(w, point) == job' = [job EXCEPT ![w].pc = point]

\* The command returns and gives the lock back.
End(w) ==
    /\ job' = [job EXCEPT ![w] = Idle]
    /\ owner' = IF owner = w THEN None ELSE owner

\* It returns an error: the deferred status says so.
Fail(w) ==
    /\ End(w)
    /\ status' = IF job[w].act = "drill" THEN [status EXCEPT !.latest = Newest]
                 ELSE [latest |-> job[w].latest, attempt |-> "failed"]
    /\ UNCHANGED <<scratch, remote, made, aged, faults>>

-----------------------------------------------------------------------------
(* Commands                                                                 *)

\* A command begins by creating the lock; one that cannot changes nothing.
Start(w, a, n) ==
    /\ At(w, "idle") /\ owner = None
    /\ owner' = w
    /\ job' = [job EXCEPT ![w] = [Idle EXCEPT !.act = a, !.id = n,
                 !.pc = IF a = "drill" THEN "record" ELSE "begin"]]
    /\ UNCHANGED <<scratch, remote, status, made, aged, faults>>

\* A CronJob run, or a command of the operator.
Command(w) ==
    \/ \E a \in {"run", "prune"} : Start(w, a, 0)
    \/ \E n \in 1..made : Start(w, "drill", n)

\* The operator retries the upload of a retained capture.
Retry(w) == \E n \in meta : Start(w, "retry", n)

\* The attempt is announced before anything else.
Begin(w) ==
    /\ At(w, "begin")
    /\ status' = [status EXCEPT !.attempt = "running"]
    /\ job' = [job EXCEPT ![w].latest = status.latest,
                          ![w].pc = CASE job[w].act = "run" -> "ready"
                                      [] job[w].act = "retry" -> "manifest"
                                      [] job[w].act = "prune" -> "look"]
    /\ UNCHANGED <<scratch, remote, owner, made, aged, faults>>

-----------------------------------------------------------------------------
(* Capture                                                                  *)

ScratchEmpty == meta = {} /\ \A n \in Backups : enc[n] = "none"

\* postgresBackupScratchReady: never a second unpublished backup.
ScratchReady(w) ==
    /\ At(w, "ready") /\ ScratchEmpty /\ made < MaxBackups
    /\ made' = made + 1
    /\ enc' = [enc EXCEPT ![made + 1] = "partial"]
    /\ job' = [job EXCEPT ![w].id = made + 1, ![w].pc = "pack"]
    /\ UNCHANGED <<meta, remote, owner, status, aged, faults>>

ScratchRefused(w) ==
    /\ At(w, "ready") /\ (~ScratchEmpty \/ made = MaxBackups)
    /\ Fail(w)

\* Pack writes the encrypted archive in place ...
Pack(w) ==
    /\ At(w, "pack")
    /\ enc' = [enc EXCEPT ![job[w].id] = "whole"]
    /\ Go(w, "savemeta")
    /\ UNCHANGED <<meta, remote, owner, status, made, aged, faults>>

\* ... and its metadata follow.
SaveManifest(w) ==
    /\ At(w, "savemeta")
    /\ meta' = meta \cup {job[w].id}
    /\ Go(w, "send")
    /\ UNCHANGED <<enc, remote, owner, status, made, aged, faults>>

\* retry-upload starts from the saved metadata.
ReadManifest(w) ==
    /\ At(w, "manifest")
    /\ IF job[w].id \in meta
       THEN Go(w, "send") /\ UNCHANGED <<scratch, remote, owner, status, made, aged, faults>>
       ELSE Fail(w)

-----------------------------------------------------------------------------
(* Upload                                                                   *)

\* Mutant of Send: an archive that is already there is an error.
Send_Once(w) ==
    /\ At(w, "send")
    /\ IF enc[job[w].id] = "none" \/ job[w].id \in stored THEN Fail(w)
       ELSE /\ stored' = stored \cup {job[w].id}
            /\ Go(w, "readback")
            /\ UNCHANGED <<scratch, marked, pin, holds, owner, status, made, aged, faults>>

\* The multipart upload is completed under a name that must not exist; an
\* error of that call is not final.
Send(w) ==
    /\ At(w, "send")
    /\ IF enc[job[w].id] = "none" THEN Fail(w)
       ELSE /\ \/ stored' = stored \cup {job[w].id} /\ UNCHANGED faults
               \/ UNCHANGED stored /\ faults < MaxFaults /\ faults' = faults + 1
            /\ Go(w, "readback")
            /\ UNCHANGED <<scratch, marked, pin, holds, owner, status, made, aged>>

\* Mutant of Readback: the answer of the upload is trusted.
Readback_Trusts(w) ==
    /\ At(w, "readback")
    /\ Go(w, "mark")
    /\ UNCHANGED <<scratch, remote, owner, status, made, aged, faults>>

\* verifyRemote reads the whole archive back.
Readback(w) ==
    /\ At(w, "readback")
    /\ IF job[w].id \in stored
       THEN Go(w, "mark") /\ UNCHANGED <<scratch, remote, owner, status, made, aged, faults>>
       ELSE Fail(w)

\* The completion marker is published last.
Mark(w) ==
    /\ At(w, "mark")
    /\ marked' = marked \cup {job[w].id}
    /\ Go(w, "published")
    /\ UNCHANGED <<scratch, stored, pin, holds, owner, status, made, aged, faults>>

\* Mutant of Published: the status names a backup that does not exist yet.
Published_Ahead(w) ==
    /\ At(w, "published")
    /\ job' = [job EXCEPT ![w].latest = job[w].id + 1, ![w].pc = "remove"]
    /\ UNCHANGED <<scratch, remote, owner, status, made, aged, faults>>

\* complete.json is written and the status in memory names the newest backup.
Published(w) ==
    /\ At(w, "published")
    /\ job' = [job EXCEPT ![w].latest = Max({@, job[w].id}), ![w].pc = "remove"]
    /\ UNCHANGED <<scratch, remote, owner, status, made, aged, faults>>

\* postgresBackupRemovePublished: the archive first, then its metadata.
RemoveArchive(w) ==
    /\ At(w, "remove")
    /\ enc' = [enc EXCEPT ![job[w].id] = "none"]
    /\ Go(w, "unmeta")
    /\ UNCHANGED <<meta, remote, owner, status, made, aged, faults>>

RemoveManifest(w) ==
    /\ At(w, "unmeta")
    /\ meta' = meta \ {job[w].id}
    /\ Go(w, IF job[w].act = "run" THEN "look" ELSE "refresh")
    /\ UNCHANGED <<enc, remote, owner, status, made, aged, faults>>

-----------------------------------------------------------------------------
(* Retention                                                                *)

\* planRetention: what is kept when backups up to cut are past the cutoff.
Kept(cut) ==
    {n \in marked : \/ pin \notin marked
                    \/ Cardinality({m \in marked : m > n}) < Minimum
                    \/ n > cut
                    \/ n = pin
                    \/ n \in holds}

\* listCompleted fails on a marker without its archive.
Listable == marked \subseteq stored

Look(w) ==
    /\ At(w, "look")
    /\ IF ~Listable THEN Fail(w)
       ELSE /\ LET plan == marked \ Kept(aged) IN
                 job' = [job EXCEPT ![w].plan = plan, ![w].kept = Kept(aged),
                                    ![w].cut = aged, ![w].held = holds,
                                    ![w].pc = IF plan = {} THEN "refresh" ELSE "again"]
            /\ UNCHANGED <<scratch, remote, owner, status, made, aged, faults>>

\* Mutant of Again: the second snapshot is not compared with the first.
Again_NotCompared(w) ==
    /\ At(w, "again")
    /\ job' = [job EXCEPT ![w].pc = "delete", ![w].held = holds]
    /\ UNCHANGED <<scratch, remote, owner, status, made, aged, faults>>

\* "Recheck the retained set and holds immediately before deletion."
Again(w) ==
    /\ At(w, "again")
    /\ IF /\ Listable
          /\ Kept(job[w].cut) = job[w].kept /\ marked \ job[w].kept = job[w].plan
       THEN /\ job' = [job EXCEPT ![w].pc = "delete", ![w].held = holds]
            /\ UNCHANGED <<scratch, remote, owner, status, made, aged, faults>>
       ELSE Fail(w)

\* The marker goes first ...
DeleteMarker(w) ==
    /\ At(w, "delete")
    /\ IF job[w].plan = {}
       THEN Go(w, "refresh") /\ UNCHANGED <<scratch, remote, owner, status, made, aged, faults>>
       ELSE LET n == Min(job[w].plan) IN
              IF n \notin marked THEN Fail(w)
              ELSE /\ marked' = marked \ {n}
                   /\ Go(w, "orphan")
                   /\ UNCHANGED <<scratch, stored, pin, holds, owner, status, made, aged, faults>>

\* ... and the archive after it.
DeleteArchive(w) ==
    /\ At(w, "orphan")
    /\ LET n == Min(job[w].plan) IN
         /\ stored' = stored \ {n}
         /\ job' = [job EXCEPT ![w].plan = @ \ {n}, ![w].pc = "delete"]
    /\ UNCHANGED <<scratch, marked, pin, holds, owner, status, made, aged, faults>>

-----------------------------------------------------------------------------
(* Drills, status and release                                               *)

\* The isolated restore has run; RecordDrill needs the marker.
RecordDrill(w) ==
    /\ At(w, "record")
    /\ pin' \in {pin} \cup ({job[w].id} \cap marked)
    /\ Go(w, "refresh")
    /\ UNCHANGED <<scratch, stored, marked, holds, owner, status, made, aged, faults>>

\* Mutant of Refresh: the repository is not read again.
Refresh_NotRead(w) ==
    /\ At(w, "refresh")
    /\ Go(w, "finish")
    /\ UNCHANGED <<scratch, remote, owner, status, made, aged, faults>>

\* GetStatus reads the repository again.
Refresh(w) ==
    /\ At(w, "refresh")
    /\ IF Listable
       THEN /\ job' = [job EXCEPT ![w].latest = Newest, ![w].pc = "finish"]
            /\ UNCHANGED <<scratch, remote, owner, status, made, aged, faults>>
       ELSE Fail(w)

\* The status is written, a drill leaves the last attempt as it was.
Finish(w) ==
    /\ At(w, "finish")
    /\ status' = [latest |-> job[w].latest,
                  attempt |-> IF job[w].act = "drill" THEN status.attempt ELSE "succeeded"]
    /\ Go(w, "release")
    /\ UNCHANGED <<scratch, remote, owner, made, aged, faults>>

Release(w) ==
    /\ At(w, "release")
    /\ End(w)
    /\ UNCHANGED <<scratch, remote, status, made, aged, faults>>

-----------------------------------------------------------------------------
(* Faults and the operator                                                  *)

\* A request that was under way when its command stopped may have been applied.
Applied(w) ==
    \/ UNCHANGED <<stored, marked, pin>>
    \/ At(w, "send") /\ enc[job[w].id] = "whole"
       /\ stored' = stored \cup {job[w].id} /\ UNCHANGED <<marked, pin>>
    \/ At(w, "mark") /\ marked' = marked \cup {job[w].id} /\ UNCHANGED <<stored, pin>>
    \/ At(w, "delete") /\ job[w].plan # {}
       /\ marked' = marked \ {Min(job[w].plan)} /\ UNCHANGED <<stored, pin>>
    \/ At(w, "orphan") /\ stored' = stored \ {Min(job[w].plan)} /\ UNCHANGED <<marked, pin>>
    \/ At(w, "record") /\ job[w].id \in marked
       /\ pin' = job[w].id /\ UNCHANGED <<stored, marked>>

\* Mutant of CleanedUp: a failed command always removes its archive.
CleanedUp_Always(w) ==
    IF job[w].id = 0 THEN enc ELSE [enc EXCEPT ![job[w].id] = "none"]

\* Capture removes an archive that it could not complete or describe.
CleanedUp(w) ==
    IF At(w, "pack") \/ At(w, "savemeta") THEN [enc EXCEPT ![job[w].id] = "none"]
    ELSE enc

\* A call fails: the command returns, its last status may not be written.
Fault(w) ==
    /\ job[w].pc \notin {"idle", "dead"}
    /\ faults < MaxFaults /\ faults' = faults + 1
    /\ Applied(w) /\ enc' = CleanedUp(w)
    /\ End(w)
    /\ status' \in {status} \cup
          IF job[w].act = "drill" THEN {[status EXCEPT !.latest = Newest]}
          ELSE IF At(w, "begin") THEN {[status EXCEPT !.attempt = "failed"]}
          ELSE {[latest |-> job[w].latest, attempt |-> "failed"]}
    /\ UNCHANGED <<meta, holds, made, aged>>

\* The command is killed: its lock and its files stay.
Crash(w) ==
    /\ job[w].pc \notin {"idle", "dead"}
    /\ faults < MaxFaults /\ faults' = faults + 1
    /\ Applied(w)
    /\ Go(w, "dead")
    /\ UNCHANGED <<scratch, holds, owner, status, made, aged>>

\* "inspect the old operation before recovering its lock"
OperatorClears(w) ==
    /\ At(w, "dead")
    /\ End(w)
    /\ UNCHANGED <<scratch, remote, status, made, aged, faults>>

\* "Review plaintext and encrypted scratch cleanup after a killed runner; retain
\* the known encrypted capture needed by an upload retry."
OperatorReviews ==
    /\ owner = None
    /\ enc' = [n \in Backups |-> IF n \in meta THEN enc[n] ELSE "none"]
    /\ meta' = {n \in meta : enc[n] # "none"}
    /\ <<enc, meta>>' # <<enc, meta>>
    /\ UNCHANGED <<remote, owner, status, job, made, aged, faults>>

\* A hold record is put by hand, without the lock.
Hold(n) ==
    /\ n \in marked \ holds
    /\ holds' = holds \cup {n}
    /\ UNCHANGED <<scratch, stored, marked, pin, owner, status, job, made, aged, faults>>

\* Time passes.
Age ==
    /\ aged < made
    /\ aged' = aged + 1
    /\ UNCHANGED <<scratch, remote, owner, status, job, made, faults>>

-----------------------------------------------------------------------------
Step(w) ==
    \/ Begin(w)
    \/ ScratchReady(w) \/ ScratchRefused(w) \/ Pack(w) \/ SaveManifest(w)
    \/ ReadManifest(w) \/ Send(w) \/ Readback(w) \/ Mark(w) \/ Published(w)
    \/ RemoveArchive(w) \/ RemoveManifest(w)
    \/ Look(w) \/ Again(w) \/ DeleteMarker(w) \/ DeleteArchive(w)
    \/ RecordDrill(w) \/ Refresh(w) \/ Finish(w) \/ Release(w)

Next ==
    \/ \E w \in Jobs : \/ Command(w) \/ Retry(w) \/ Step(w)
                       \/ Fault(w) \/ Crash(w) \/ OperatorClears(w)
    \/ OperatorReviews \/ Age
    \/ \E n \in Backups : Hold(n)

\* Commands take their steps; the operator clears the lock of a killed command,
\* reviews the scratch volume and retries a retained upload, again and again as
\* other commands may come first.
Fairness ==
    /\ \A w \in Jobs : WF_vars(Step(w)) /\ WF_vars(OperatorClears(w))
    /\ SF_vars(OperatorReviews) /\ SF_vars(\E w \in Jobs : Retry(w))

Spec == Init /\ [][Next]_vars
FairSpec == Spec /\ Fairness

-----------------------------------------------------------------------------
(* Properties                                                               *)

Points == {"idle", "begin", "ready", "pack", "savemeta", "manifest",
           "send", "readback", "mark", "published", "remove", "unmeta", "look",
           "again", "delete", "orphan", "record", "refresh", "finish",
           "release", "dead"}

\* The state is well typed; a backup is never marked before it was captured.
TypeOK ==
    /\ enc \in [Backups -> {"none", "partial", "whole"}] /\ meta \subseteq 1..made
    /\ stored \subseteq 1..made /\ marked \subseteq 1..made
    /\ pin \in 0..made /\ holds \subseteq 1..made
    /\ owner \in Jobs \cup {None}
    /\ status \in [latest : 0..made, attempt : {None, "running", "failed", "succeeded"}]
    /\ job \in [Jobs -> [pc : Points, act : Actions \cup {None}, id : 0..made,
                         latest : 0..made, plan : SUBSET Backups,
                         kept : SUBSET Backups, held : SUBSET Backups,
                         cut : 0..made]]
    /\ made \in 0..MaxBackups /\ aged \in 0..made /\ faults \in 0..MaxFaults

\* "An interrupted delete may leave an orphan archive but can never leave a
\* marker advertising missing data", and a partial upload has no marker.
MarkerHasArchive == marked \subseteq stored

\* The documented retention, whatever other commands do and whenever one is
\* interrupted: a marker disappears only while a successful drill pins a backup
\* that is still there, and it is not that one, not among the newest Minimum,
\* past the retention days and not held when prune last looked.
RetentionKeeps ==
    [][\A n \in marked \ marked' :
          /\ pin \in marked /\ n # pin /\ n <= aged
          /\ \A w \in Jobs : n \notin job[w].held
          /\ Cardinality({m \in marked : m > n}) >= Minimum]_vars

\* An encrypted capture with its metadata leaves the scratch volume only after
\* its completion marker is in the repository.
CaptureKept ==
    [][\A n \in meta : enc[n] = "whole" /\ enc'[n] # "whole" => n \in marked]_vars

\* What monitoring reads is true: where no command runs, a successful last
\* attempt comes with the newest published backup.
SuccessIsCurrent ==
    owner = None /\ status.attempt = "succeeded" => status.latest = Newest

\* Whatever fails, retry-upload and the documented review clear the scratch
\* volume, so that new captures are possible again.
ScratchClears == []<>ScratchEmpty
=============================================================================
