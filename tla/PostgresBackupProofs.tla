----------------------- MODULE PostgresBackupProofs -----------------------
(***************************************************************************)
(* For any number of commands, captures and faults: markers have archives, *)
(* retention keeps what it must, captures are not lost and the status is   *)
(* not outdated.                                                           *)
(***************************************************************************)
EXTENDS PostgresBackup, FiniteSetTheorems, WellFoundedInduction, TLAPS

\* Every nonempty set of naturals has a least element ...
LEMMA LeastElement ==
    ASSUME NEW S, S \subseteq Nat, S # {}
    PROVE  Min(S) \in S /\ \A y \in S : Min(S) <= y
  <1>1. PICK x \in S : \A y \in S : ~ (<<y, x>> \in OpToRel(<, Nat))
    BY NatLessThanWellFounded, WFMin, Zenon
  <1>2. ASSUME NEW y \in S PROVE x <= y
    <2>1. SUFFICES ASSUME y < x PROVE FALSE OBVIOUS
    <2>2. <<y, x>> \in OpToRel(<, Nat) BY <2>1 DEF OpToRel
    <2> QED BY <1>1, <2>2
  <1> QED BY <1>2 DEF Min

\* ... and one that is bounded has a greatest.
LEMMA GreatestElement ==
    ASSUME NEW m \in Nat, NEW S, S \subseteq 0..m, S # {}
    PROVE  Max(S) \in S
  <1> DEFINE T == {k \in 0..m : m - k \in S}
  <1>1. T # {}
    <2>1. PICK s \in S : TRUE OBVIOUS
    <2>2. m - s \in T BY <2>1
    <2> QED BY <2>2
  <1>2. Min(T) \in T /\ \A y \in T : Min(T) <= y
    <2>1. T \subseteq Nat OBVIOUS
    <2> HIDE DEF T
    <2> QED BY <1>1, <2>1, LeastElement
  <1>3. m - Min(T) \in S /\ \A y \in S : m - Min(T) >= y
    <2>1. Min(T) \in 0..m /\ m - Min(T) \in S BY <1>2
    <2>2. ASSUME NEW y \in S PROVE m - Min(T) >= y
      <3>1. y \in 0..m OBVIOUS
      <3>2. m - y \in T BY <3>1
      <3>3. Min(T) <= m - y BY <1>2, <3>2
      <3> HIDE DEF T
      <3> QED BY <2>1, <3>1, <3>3
    <2> QED BY <2>1, <2>2
  <1>4. \E x \in S : \A y \in S : x >= y BY <1>3
  <1> QED BY <1>4 DEF Max

-----------------------------------------------------------------------------
(* The inductive invariant                                                  *)

JobType(m) ==
    [pc : Points, act : Actions \cup {None}, id : 0..m, latest : 0..m,
     plan : SUBSET Backups, kept : SUBSET Backups, held : SUBSET Backups, cut : 0..m]

\* A command holds the lock from its start to its end, killed ones included.
Locks(w) ==
    /\ job[w].pc = "idle" => job[w] = Idle
    /\ job[w].pc # "idle" => owner = w

\* What an upload has done so far.
Uploads(w) ==
    /\ job[w].pc \in {"pack", "savemeta", "manifest", "send", "readback", "mark",
                      "published", "remove", "unmeta", "record"} => job[w].id \in 1..made
    /\ job[w].pc = "begin" /\ job[w].act = "retry" => job[w].id \in 1..made
    /\ job[w].pc \in {"pack", "savemeta"} => job[w].id \notin meta
    /\ job[w].pc = "mark" => job[w].id \in stored
    /\ job[w].pc \in {"published", "remove", "unmeta"} => job[w].id \in marked

\* What may be said of backup n while its deletion is under way.
Expendable(w, n) ==
    /\ pin \in marked /\ n # pin /\ n <= aged /\ n \notin job[w].held
    /\ Cardinality({m \in marked : m > n}) >= Minimum

Prunes(w) ==
    /\ job[w].pc = "again" => job[w].cut <= aged
    /\ job[w].pc \in {"delete", "orphan"} => \A n \in job[w].plan : Expendable(w, n)
    /\ job[w].pc = "orphan" => job[w].plan # {} /\ Min(job[w].plan) \notin marked

Busy == {"ready", "pack", "savemeta", "manifest", "send", "readback", "mark", "published",
         "remove", "unmeta", "look", "again", "delete", "orphan"}

\* What the status says of the attempt.
Reports(w) ==
    /\ job[w].pc = "begin" => job[w].act \in {"run", "retry", "prune"}
    /\ job[w].pc \in Busy => status.attempt = "running"
    /\ job[w].pc = "finish" => job[w].latest = Newest

JobOK(w) == Locks(w) /\ Uploads(w) /\ Prunes(w) /\ Reports(w)

\* SuccessIsCurrent, even while commands run.
Current == status.attempt = "succeeded" => status.latest = Newest

IInv ==
    /\ TypeOK
    /\ MarkerHasArchive
    /\ Current
    /\ \A w \in Jobs : JobOK(w)

\* Which commands exist besides w: none.
LEMMA Alone ==
    ASSUME IInv, NEW w \in Jobs, owner = None \/ job[w].pc # "idle"
    PROVE  \A v \in Jobs \ {w} : job[v] = Idle /\ job[v].pc = "idle"
  BY BackupAssumption DEF IInv, JobOK, Locks

\* A command that does not run is in order.
LEMMA IdleOK ==
    ASSUME NEW v \in Jobs, job'[v] = Idle
    PROVE  JobOK(v)'
  BY DEF JobOK, Locks, Uploads, Prunes, Reports, Busy, Idle

\* A step of command w: what has to be shown of it.
LEMMA StepOK ==
    ASSUME IInv, NEW w \in Jobs, owner = None \/ job[w].pc # "idle",
           \A v \in Jobs \ {w} : job'[v] = job[v],
           TypeOK', MarkerHasArchive', Current', JobOK(w)'
    PROVE  IInv'
  <1>1. ASSUME NEW v \in Jobs PROVE JobOK(v)'
    <2>1. CASE v = w BY <2>1
    <2>2. CASE v # w
      <3>1. job'[v] = Idle BY <2>2, Alone
      <3> QED BY <3>1, IdleOK
    <2> QED BY <2>1, <2>2
  <1> QED BY <1>1 DEF IInv

\* The newest published backup is one of those made, or none.
LEMMA NewestOK ==
    ASSUME TypeOK
    PROVE  Newest \in 0..made
  <1>1. made \in Nat /\ marked \cup {0} \subseteq 0..made /\ marked \cup {0} # {}
    BY BackupAssumption DEF TypeOK
  <1>2. Max(marked \cup {0}) \in marked \cup {0}
    BY <1>1, GreatestElement
  <1> QED BY <1>1, <1>2 DEF Newest

\* Returning, with whatever the status says afterwards.
LEMMA EndOK ==
    ASSUME TypeOK, NEW w \in Jobs, End(w)
    PROVE  /\ job' \in [Jobs -> JobType(made)] /\ owner' \in Jobs \cup {None}
           /\ job'[w] = Idle /\ \A v \in Jobs \ {w} : job'[v] = job[v]
  <1>1. Idle \in JobType(made)
    BY BackupAssumption DEF Idle, JobType, TypeOK, Points, Actions
  <1>2. job \in [Jobs -> JobType(made)]
    BY DEF TypeOK, JobType
  <1> QED BY <1>1, <1>2 DEF End, TypeOK

\* The commands' types, and what is left to show for TypeOK.
LEMMA Typed ==
    ASSUME TypeOK
    PROVE  /\ job \in [Jobs -> JobType(made)] /\ made \in Nat /\ 1..made \subseteq Backups
           /\ marked \subseteq Nat /\ stored \subseteq Nat
  BY BackupAssumption DEF TypeOK, JobType, Backups

\* A step that leaves all files and the repository alone and moves w from one
\* point to another.
LEMMA MoveOK ==
    ASSUME IInv, NEW w \in Jobs, owner = None \/ job[w].pc # "idle",
           job' \in [Jobs -> JobType(made)], \A v \in Jobs \ {w} : job'[v] = job[v],
           UNCHANGED <<scratch, remote, made, aged, faults>>,
           owner' \in Jobs \cup {None},
           status' \in [latest : 0..made, attempt : {None, "running", "failed", "succeeded"}],
           Current', JobOK(w)'
    PROVE  IInv'
  <1>2. TypeOK' /\ MarkerHasArchive'
    BY DEF IInv, TypeOK, MarkerHasArchive, JobType, scratch, remote
  <1> QED BY <1>2, StepOK

\* A failed command.
LEMMA FailOK ==
    ASSUME IInv, NEW w \in Jobs, job[w].pc # "idle", Fail(w)
    PROVE  IInv'
  <1>1. /\ job'[w] = Idle /\ owner' \in Jobs \cup {None}
        /\ job' \in [Jobs -> JobType(made)] /\ \A v \in Jobs \ {w} : job'[v] = job[v]
    BY EndOK DEF Fail, IInv
  <1>3. JobOK(w)'
    BY <1>1, IdleOK
  <1>4. UNCHANGED <<scratch, remote, made, aged, faults>>
    BY DEF Fail
  <1>5. /\ status' \in [latest : 0..made, attempt : {None, "running", "failed", "succeeded"}]
        /\ Current'
    <2>1. Newest' = Newest BY <1>4 DEF Newest, remote
    <2>2. Newest \in 0..made BY NewestOK DEF IInv
    <2>3. status \in [latest : 0..made, attempt : {None, "running", "failed", "succeeded"}]
          /\ job[w].latest \in 0..made
      BY DEF IInv, TypeOK
    <2> QED BY <2>1, <2>2, <2>3 DEF Fail, Current, IInv
  <1> QED BY <1>1, <1>3, <1>4, <1>5, MoveOK

-----------------------------------------------------------------------------
(* One lemma per action, or per group that changes the same state          *)

StatusType == [latest : 0..made, attempt : {None, "running", "failed", "succeeded"}]

\* Starting, announcing, reading the manifest, reading back, the status in
\* memory, refreshing and finishing change no file and no object.
LEMMA StartOK ==
    ASSUME IInv, NEW w \in Jobs, Command(w) \/ Retry(w)
    PROVE  IInv'
  <1>1. PICK a \in Actions, n \in 0..made :
          Start(w, a, n) /\ (a \in {"drill", "retry"} => n \in 1..made)
    <2>1. meta \subseteq 1..made /\ made \in Nat BY Typed DEF IInv, TypeOK
    <2>2. CASE Command(w) BY <2>1, <2>2 DEF Command, Actions
    <2>3. CASE Retry(w) BY <2>1, <2>3 DEF Retry, Actions
    <2> QED BY <2>2, <2>3
  <1> DEFINE r == [Idle EXCEPT !.act = a, !.id = n,
                     !.pc = IF a = "drill" THEN "record" ELSE "begin"]
  <1>2. Idle \in JobType(made)
    BY BackupAssumption DEF Idle, JobType, IInv, TypeOK, Points, Actions
  <1>3. /\ r \in JobType(made) /\ r.act = a /\ r.id = n
        /\ r.pc = IF a = "drill" THEN "record" ELSE "begin"
    BY <1>2 DEF JobType, Idle, Points
  <1>4. job' = [job EXCEPT ![w] = r] /\ owner = None /\ owner' = w
        /\ UNCHANGED <<scratch, remote, made, aged, faults>> /\ status' = status
    BY <1>1 DEF Start
  <1> HIDE DEF r
  <1>5. /\ job'[w] = r /\ job' \in [Jobs -> JobType(made)]
        /\ \A v \in Jobs \ {w} : job'[v] = job[v]
    BY <1>3, <1>4, Typed DEF IInv
  <1>6. JobOK(w)'
    BY <1>1, <1>3, <1>4, <1>5 DEF JobOK, Locks, Uploads, Prunes, Reports, Busy, Actions
  <1>7. Current' /\ status' \in StatusType
    BY <1>4 DEF IInv, TypeOK, Current, Newest, remote, StatusType
  <1> QED BY <1>4, <1>5, <1>6, <1>7, MoveOK DEF StatusType

\* A command starts with nothing read and nothing captured.
LEMMA BeginOK ==
    ASSUME IInv, NEW w \in Jobs, Begin(w)
    PROVE  IInv'
  <1>1. job[w] \in JobType(made) /\ job[w].act \in {"run", "retry", "prune"}
        /\ job[w].pc = "begin" /\ status \in StatusType
    BY Typed DEF Begin, At, IInv, JobOK, Reports, TypeOK, StatusType
  <1>2. /\ job' \in [Jobs -> JobType(made)] /\ \A v \in Jobs \ {w} : job'[v] = job[v]
        /\ job'[w].pc \in {"ready", "manifest", "look"}
        /\ job'[w].id = job[w].id /\ job'[w].act = job[w].act
        /\ (job'[w].pc = "manifest" => job[w].act = "retry")
    BY <1>1, Typed DEF JobType, Points, StatusType, Begin, IInv
  <1>3. status' = [status EXCEPT !.attempt = "running"]
        /\ UNCHANGED <<scratch, remote, made, aged, faults, owner>>
    BY DEF Begin
  <1>6. JobOK(w)'
    BY <1>1, <1>2, <1>3 DEF IInv, JobOK, Locks, Uploads, Prunes, Reports, Busy, StatusType
  <1>7. Current' /\ status' \in StatusType /\ owner' \in Jobs \cup {None}
    BY <1>1, <1>3 DEF IInv, TypeOK, Current, StatusType
  <1> QED BY <1>1, <1>2, <1>3, <1>6, <1>7, MoveOK DEF StatusType

\* A step to another point that keeps everything else of the command.
LEMMA GoOK ==
    ASSUME IInv, NEW w \in Jobs, NEW point \in Points, Go(w, point)
    PROVE  /\ job' \in [Jobs -> JobType(made)] /\ \A v \in Jobs \ {w} : job'[v] = job[v]
           /\ job'[w] = [job[w] EXCEPT !.pc = point]
           /\ job'[w].pc = point /\ job'[w].id = job[w].id /\ job'[w].act = job[w].act
           /\ job'[w].plan = job[w].plan /\ job'[w].held = job[w].held
           /\ job'[w].latest = job[w].latest /\ job'[w].cut = job[w].cut
  BY Typed DEF IInv, Go, JobType

\* A file or an object changes: what is left to show.
LEMMA ChangeOK ==
    ASSUME IInv, NEW w \in Jobs, job[w].pc # "idle",
           job' \in [Jobs -> JobType(made)], \A v \in Jobs \ {w} : job'[v] = job[v],
           enc' \in [Backups -> {"none", "partial", "whole"}], meta' \subseteq 1..made,
           stored' \subseteq 1..made, marked' \subseteq stored',
           pin' \in 0..made, faults' \in 0..MaxFaults, owner' \in Jobs \cup {None},
           status' \in StatusType, UNCHANGED <<holds, made, aged>>,
           Current', JobOK(w)'
    PROVE  IInv'
  <1>1. TypeOK' /\ MarkerHasArchive'
    BY DEF IInv, TypeOK, MarkerHasArchive, JobType, StatusType
  <1> QED BY <1>1, StepOK

\* The types of everything that a step may leave alone.
LEMMA Kinds ==
    ASSUME IInv
    PROVE  /\ enc \in [Backups -> {"none", "partial", "whole"}] /\ meta \subseteq 1..made
           /\ stored \subseteq 1..made /\ marked \subseteq stored
           /\ pin \in 0..made /\ faults \in 0..MaxFaults /\ owner \in Jobs \cup {None}
           /\ status \in StatusType /\ made \in Nat /\ 1..made \subseteq Backups
           /\ aged \in 0..made
  BY Typed DEF IInv, TypeOK, MarkerHasArchive, StatusType

\* The manifest and the archive are read back.
LEMMA ReadOK ==
    ASSUME IInv, NEW w \in Jobs, ReadManifest(w) \/ Readback(w)
    PROVE  IInv'
  <1>0. job[w].pc \in {"manifest", "readback"}
    BY DEF ReadManifest, Readback, At
  <1>1. CASE Fail(w)
    BY <1>0, <1>1, FailOK
  <1>2. CASE ~Fail(w)
    <2>1. PICK point \in {"send", "mark"} :
             Go(w, point) /\ (point = "mark" => job[w].id \in stored)
             /\ UNCHANGED <<scratch, remote, owner, status, made, aged, faults>>
      BY <1>2 DEF ReadManifest, Readback
    <2>2. point \in Points BY DEF Points
    <2>3. JobOK(w)'
      BY <1>0, <2>1, <2>2, GoOK DEF IInv, JobOK, Locks, Uploads, Prunes, Reports, Busy, scratch, remote
    <2>4. Current' BY <2>1 DEF IInv, Current, Newest, remote
    <2> QED BY <1>0, <2>1, <2>2, <2>3, <2>4, GoOK, MoveOK, Kinds DEF StatusType
  <1> QED BY <1>1, <1>2

\* The command takes the backup it has published as the latest one for its status.
LEMMA PublishedOK ==
    ASSUME IInv, NEW w \in Jobs, Published(w)
    PROVE  IInv'
  <1>1. job[w].pc = "published" /\ job[w] \in JobType(made) /\ made \in Nat
    BY Typed DEF Published, At, IInv
  <1>2. Max({job[w].latest, job[w].id}) \in 0..made
    <2>1. {job[w].latest, job[w].id} \subseteq 0..made /\ {job[w].latest, job[w].id} # {}
      BY <1>1 DEF JobType
    <2>2. Max({job[w].latest, job[w].id}) \in {job[w].latest, job[w].id}
      BY <1>1, <2>1, GreatestElement
    <2> QED BY <2>1, <2>2
  <1>3. /\ job' \in [Jobs -> JobType(made)] /\ \A v \in Jobs \ {w} : job'[v] = job[v]
        /\ job'[w].pc = "remove" /\ job'[w].id = job[w].id
    BY <1>1, <1>2, Typed DEF JobType, Points, Published, IInv
  <1>4. UNCHANGED <<scratch, remote, owner, status, made, aged, faults>>
    BY DEF Published
  <1>5. JobOK(w)'
    BY <1>1, <1>3, <1>4 DEF IInv, JobOK, Locks, Uploads, Prunes, Reports, Busy, scratch, remote
  <1>6. Current' BY <1>4 DEF IInv, Current, Newest, remote
  <1> QED BY <1>1, <1>3, <1>4, <1>5, <1>6, MoveOK, Kinds DEF StatusType

\* The status is read again, written, and the lock given back.
LEMMA FinishOK ==
    ASSUME IInv, NEW w \in Jobs, Refresh(w) \/ Finish(w) \/ Release(w)
    PROVE  IInv'
  <1>0. job[w] \in JobType(made) BY Typed DEF IInv
  <1>1. CASE Refresh(w) /\ Fail(w)
    BY <1>1, FailOK DEF Refresh, At
  <1>2. CASE Refresh(w) /\ ~Fail(w)
    <2>1. /\ job[w].pc = "refresh"
          /\ job' = [job EXCEPT ![w].latest = Newest, ![w].pc = "finish"]
          /\ UNCHANGED <<scratch, remote, owner, status, made, aged, faults>>
      BY <1>2 DEF Refresh, At
    <2>2. Newest \in 0..made BY NewestOK DEF IInv
    <2>3. /\ job' \in [Jobs -> JobType(made)] /\ \A v \in Jobs \ {w} : job'[v] = job[v]
          /\ job'[w].pc = "finish" /\ job'[w].latest = Newest
      BY <1>0, <2>1, <2>2, Typed DEF JobType, Points, IInv
    <2>4. Newest' = Newest BY <2>1 DEF Newest, remote
    <2>5. JobOK(w)'
      BY <2>1, <2>3, <2>4 DEF IInv, JobOK, Locks, Uploads, Prunes, Reports, Busy
    <2>6. Current' BY <2>1, <2>4 DEF IInv, Current
    <2> QED BY <2>1, <2>3, <2>5, <2>6, MoveOK, Kinds DEF StatusType
  <1>3. CASE Finish(w)
    <2>1. /\ job[w].pc = "finish" /\ Go(w, "release")
          /\ status' = [latest |-> job[w].latest,
                        attempt |-> IF job[w].act = "drill" THEN status.attempt ELSE "succeeded"]
          /\ UNCHANGED <<scratch, remote, owner, made, aged, faults>>
      BY <1>3 DEF Finish, At
    <2>2. Newest' = Newest /\ job[w].latest = Newest
      BY <2>1 DEF Newest, remote, IInv, JobOK, Reports
    <2>3. Current' /\ status' \in StatusType
      BY <1>0, <2>1, <2>2, Kinds DEF Current, StatusType, JobType
    <2>4. "release" \in Points BY DEF Points
    <2>5. JobOK(w)'
      BY <2>1, <2>4, GoOK DEF IInv, JobOK, Locks, Uploads, Prunes, Reports, Busy
    <2> QED BY <2>1, <2>3, <2>4, <2>5, GoOK, MoveOK, Kinds DEF StatusType
  <1>4. CASE Release(w)
    <2>1. job[w].pc = "release" /\ End(w)
          /\ UNCHANGED <<scratch, remote, status, made, aged, faults>>
      BY <1>4 DEF Release, At
    <2>2. JobOK(w)' BY <2>1, EndOK, IdleOK DEF IInv
    <2>3. Current' BY <2>1 DEF IInv, Current, Newest, remote
    <2> QED BY <2>1, <2>2, <2>3, EndOK, MoveOK, Kinds DEF StatusType, IInv
  <1> QED BY <1>1, <1>2, <1>3, <1>4

\* The capture begins: the scratch volume is empty, so nothing describes it.
LEMMA ScratchOK ==
    ASSUME IInv, NEW w \in Jobs, ScratchReady(w) \/ ScratchRefused(w)
    PROVE  IInv'
  <1>0. job[w].pc = "ready" BY DEF ScratchReady, ScratchRefused, At
  <1>1. CASE ScratchRefused(w) BY <1>0, <1>1, FailOK DEF ScratchRefused
  <1>2. CASE ScratchReady(w)
    <2>1. /\ made' = made + 1 /\ made + 1 \in Backups /\ made \in Nat /\ made' \in 0..MaxBackups
          /\ meta = {} /\ enc' = [enc EXCEPT ![made + 1] = "partial"]
          /\ UNCHANGED <<meta, remote, owner, status, aged, faults>>
      BY <1>2, Kinds, BackupAssumption DEF ScratchReady, ScratchEmpty, Backups, IInv, TypeOK
    <2>2. /\ job' \in [Jobs -> JobType(made')] /\ \A v \in Jobs \ {w} : job'[v] = job[v]
          /\ job'[w].pc = "pack" /\ job'[w].id = made'
      <3>1. job \in [Jobs -> JobType(made)] BY Typed DEF IInv
      <3>2. 0..made \subseteq 0..made' /\ made' \in 0..made' BY <2>1
      <3>3. ASSUME NEW v \in Jobs PROVE job[v] \in JobType(made')
        BY <3>1, <3>2 DEF JobType
      <3>4. job' = [job EXCEPT ![w].id = made', ![w].pc = "pack"]
        BY <1>2, <2>1 DEF ScratchReady
      <3>5. "pack" \in Points BY DEF Points
      <3>6. job \in [Jobs -> JobType(made')] BY <3>1, <3>3
      <3> QED BY <3>2, <3>4, <3>5, <3>6 DEF JobType
    <2>3. TypeOK' /\ MarkerHasArchive'
      <3>1. 0..made \subseteq 0..made' /\ 1..made \subseteq 1..made' BY <2>1
      <3> QED BY <2>1, <2>2, <3>1 DEF IInv, TypeOK, MarkerHasArchive, JobType, remote
    <2>4. Current' BY <2>1 DEF IInv, Current, Newest, remote
    <2>5. JobOK(w)'
      BY <1>0, <2>1, <2>2 DEF IInv, JobOK, Locks, Uploads, Prunes, Reports, Busy
    <2> QED BY <1>0, <2>2, <2>3, <2>4, <2>5, StepOK
  <1> QED BY <1>1, <1>2

\* The archive, its metadata and their removal: only scratch files change.
LEMMA FilesOK ==
    ASSUME IInv, NEW w \in Jobs,
           Pack(w) \/ SaveManifest(w) \/ RemoveArchive(w) \/ RemoveManifest(w)
    PROVE  IInv'
  <1>1. job[w].pc \in {"pack", "savemeta", "remove", "unmeta"} /\ job[w].id \in 1..made
        /\ UNCHANGED <<remote, owner, status, made, aged, faults>>
    BY DEF Pack, SaveManifest, RemoveArchive, RemoveManifest, At, IInv, JobOK, Uploads
  <1>2. enc' \in [Backups -> {"none", "partial", "whole"}] /\ meta' \subseteq 1..made
    BY <1>1, Kinds DEF Pack, SaveManifest, RemoveArchive, RemoveManifest
  <1>3. PICK point \in {"savemeta", "send", "unmeta", "look", "refresh"} :
          /\ Go(w, point)
          /\ point = "savemeta" => job[w].pc = "pack" /\ meta' = meta
          /\ point = "unmeta" => job[w].pc = "remove"
    BY DEF Pack, SaveManifest, RemoveArchive, RemoveManifest, At
  <1>4. point \in Points BY DEF Points
  <1>5. JobOK(w)'
    BY <1>1, <1>3, <1>4, GoOK DEF IInv, JobOK, Locks, Uploads, Prunes, Reports, Busy, remote
  <1>6. Current' BY <1>1 DEF IInv, Current, Newest, remote
  <1> QED BY <1>1, <1>2, <1>3, <1>4, <1>5, <1>6, GoOK, ChangeOK, Kinds DEF remote

\* Whether or not an upload's request arrives, a marker arrives only after its archive.
LEMMA SendOK ==
    ASSUME IInv, NEW w \in Jobs, Send(w)
    PROVE  IInv'
  <1>0. job[w].pc = "send" /\ job[w].id \in 1..made
    BY DEF Send, At, IInv, JobOK, Uploads
  <1>1. CASE Fail(w) BY <1>0, <1>1, FailOK
  <1>2. CASE ~Fail(w)
    <2>1. /\ stored' \in {stored, stored \cup {job[w].id}} /\ faults' \in 0..MaxFaults
          /\ Go(w, "readback")
          /\ UNCHANGED <<scratch, marked, pin, holds, owner, status, made, aged>>
      BY <1>2, Kinds, BackupAssumption DEF Send
    <2>2. "readback" \in Points BY DEF Points
    <2>3. JobOK(w)'
      BY <1>0, <2>1, <2>2, GoOK DEF IInv, JobOK, Locks, Uploads, Prunes, Reports, Busy
    <2>4. Current' BY <2>1 DEF IInv, Current, Newest
    <2> QED BY <1>0, <2>1, <2>2, <2>3, <2>4, GoOK, ChangeOK, Kinds DEF scratch
  <1> QED BY <1>1, <1>2

\* The marker follows an archive that was read back; the status says running.
LEMMA MarkOK ==
    ASSUME IInv, NEW w \in Jobs, Mark(w)
    PROVE  IInv'
  <1>1. /\ job[w].pc = "mark" /\ job[w].id \in 1..made /\ job[w].id \in stored
        /\ status.attempt = "running"
        /\ marked' = marked \cup {job[w].id} /\ Go(w, "published")
        /\ UNCHANGED <<scratch, stored, pin, holds, owner, status, made, aged, faults>>
    BY DEF Mark, At, IInv, JobOK, Uploads, Reports, Busy
  <1>2. "published" \in Points BY DEF Points
  <1>3. JobOK(w)'
    BY <1>1, <1>2, GoOK DEF IInv, JobOK, Locks, Uploads, Prunes, Reports, Busy
  <1>4. Current' BY <1>1 DEF Current
  <1> QED BY <1>1, <1>2, <1>3, <1>4, GoOK, ChangeOK, Kinds DEF scratch

\* Recording a restore drill pins a marked backup and changes none.
LEMMA DrillOK ==
    ASSUME IInv, NEW w \in Jobs, RecordDrill(w)
    PROVE  IInv'
  <1>1. /\ job[w].pc = "record" /\ job[w].id \in 1..made
        /\ pin' \in {pin, job[w].id} /\ Go(w, "refresh")
        /\ UNCHANGED <<scratch, stored, marked, holds, owner, status, made, aged, faults>>
    BY DEF RecordDrill, At, IInv, JobOK, Uploads
  <1>2. "refresh" \in Points BY DEF Points
  <1>3. JobOK(w)'
    BY <1>1, <1>2, GoOK DEF IInv, JobOK, Locks, Uploads, Prunes, Reports, Busy
  <1>4. Current' BY <1>1 DEF IInv, Current, Newest
  <1>5. pin' \in 0..made BY <1>1, Kinds
  <1> QED BY <1>1, <1>2, <1>3, <1>4, <1>5, GoOK, ChangeOK, Kinds DEF scratch

-----------------------------------------------------------------------------
(* Retention                                                                *)

\* What prune reads under the lock stays true until it deletes.
LEMMA LookOK ==
    ASSUME IInv, NEW w \in Jobs, Look(w)
    PROVE  IInv'
  <1>0. job[w].pc = "look" BY DEF Look, At
  <1>1. CASE Fail(w) BY <1>0, <1>1, FailOK
  <1>2. CASE ~Fail(w)
    <2> DEFINE point == IF marked \ Kept(aged) = {} THEN "refresh" ELSE "again"
    <2>1. /\ job' = [job EXCEPT ![w].plan = marked \ Kept(aged), ![w].kept = Kept(aged),
                                ![w].cut = aged, ![w].held = holds, ![w].pc = point]
          /\ UNCHANGED <<scratch, remote, owner, status, made, aged, faults>>
      BY <1>2 DEF Look
    <2>2. marked \ Kept(aged) \in SUBSET Backups /\ Kept(aged) \in SUBSET Backups
          /\ holds \in SUBSET Backups /\ aged \in 0..made /\ point \in Points
      BY Kinds DEF Kept, IInv, TypeOK, Points
    <2>3. /\ job' \in [Jobs -> JobType(made)] /\ \A v \in Jobs \ {w} : job'[v] = job[v]
          /\ job'[w].pc \in {"refresh", "again"} /\ job'[w].cut = aged
      <3>1. job \in [Jobs -> JobType(made)] BY Typed DEF IInv
      <3> HIDE DEF point
      <3> DEFINE r == [job[w] EXCEPT !.plan = marked \ Kept(aged), !.kept = Kept(aged),
                                     !.cut = aged, !.held = holds, !.pc = point]
      <3>0. job[w] \in JobType(made) BY <3>1
      <3>5. r \in JobType(made) /\ r.pc = point /\ r.cut = aged
        BY <2>2, <3>0 DEF JobType
      <3>6. job' = [job EXCEPT ![w] = r]
        BY <2>1, <3>1, Zenon
      <3> HIDE DEF r
      <3>2. job' \in [Jobs -> JobType(made)] /\ job'[w] = r
            /\ \A v \in Jobs \ {w} : job'[v] = job[v]
        BY <3>1, <3>5, <3>6
      <3>4. point \in {"refresh", "again"} BY DEF point
      <3> QED BY <3>2, <3>4, <3>5
    <2>4. JobOK(w)'
      BY <1>0, <2>1, <2>3, Kinds DEF IInv, JobOK, Locks, Uploads, Prunes, Reports, Busy
    <2>5. Current' BY <2>1 DEF IInv, Current, Newest, remote
    <2> QED BY <1>0, <2>1, <2>3, <2>4, <2>5, MoveOK, Kinds DEF StatusType
  <1> QED BY <1>1, <1>2

\* The second look: what is not kept is expendable now.
LEMMA AgainOK ==
    ASSUME IInv, NEW w \in Jobs, Again(w)
    PROVE  IInv'
  <1>0. job[w].pc = "again" /\ job[w].cut <= aged /\ job[w].cut \in Nat
    BY Typed DEF Again, At, IInv, JobOK, Prunes, JobType
  <1>1. CASE Fail(w) BY <1>0, <1>1, FailOK
  <1>2. CASE ~Fail(w)
    <2>1. /\ job' = [job EXCEPT ![w].pc = "delete", ![w].held = holds]
          /\ Kept(job[w].cut) = job[w].kept /\ marked \ job[w].kept = job[w].plan
          /\ UNCHANGED <<scratch, remote, owner, status, made, aged, faults>>
      BY <1>2 DEF Again
    <2>2. holds \in SUBSET Backups /\ "delete" \in Points
      BY Kinds DEF IInv, TypeOK, Points
    <2>3. /\ job' \in [Jobs -> JobType(made)] /\ \A v \in Jobs \ {w} : job'[v] = job[v]
          /\ job'[w].pc = "delete" /\ job'[w].held = holds /\ job'[w].plan = job[w].plan
      BY <2>1, <2>2, Typed DEF JobType, IInv
    <2>4. ASSUME NEW n \in job[w].plan PROVE Expendable(w, n)'
      <3>1. n \in marked /\ n \notin Kept(job[w].cut) /\ n \in Nat /\ aged \in Nat
        BY <2>1, Typed, Kinds DEF IInv
      <3>2. pin \in marked /\ ~(Cardinality({m \in marked : m > n}) < Minimum)
            /\ ~(n > job[w].cut) /\ n # pin /\ n \notin holds
        BY <3>1 DEF Kept
      <3>3. n <= aged BY <1>0, <3>1, <3>2
      <3>4. Cardinality({m \in marked : m > n}) >= Minimum
        <4>1. {m \in marked : m > n} \subseteq 1..made /\ made \in Nat BY Kinds
        <4> DEFINE S == {m \in marked : m > n}
        <4>3. IsFiniteSet(1..made) BY <4>1, FS_Interval
        <4>4. S \subseteq 1..made BY <4>1
        <4> HIDE DEF S
        <4>5. IsFiniteSet(S) BY <4>3, <4>4, FS_Subset
        <4>2. Cardinality(S) \in Nat BY <4>5, FS_CardinalityType
        <4> USE DEF S
        <4> QED BY <3>2, <4>2, BackupAssumption
      <3> QED BY <2>1, <2>3, <3>2, <3>3, <3>4 DEF Expendable, remote
    <2>5. JobOK(w)'
      BY <1>0, <2>1, <2>3, <2>4 DEF IInv, JobOK, Locks, Uploads, Prunes, Reports, Busy
    <2>6. Current' BY <2>1 DEF IInv, Current, Newest, remote
    <2> QED BY <1>0, <2>1, <2>3, <2>5, <2>6, MoveOK, Kinds DEF StatusType
  <1> QED BY <1>1, <1>2

\* Which backup is deleted next, and that the others stay expendable: those
\* that are newer than one of them are not touched.
LEMMA NextDeleted ==
    ASSUME IInv, NEW w \in Jobs, job[w].pc \in {"delete", "orphan"}, job[w].plan # {}
    PROVE  /\ Min(job[w].plan) \in job[w].plan /\ Expendable(w, Min(job[w].plan))
           /\ \A k \in job[w].plan :
                 /\ pin \in marked \ {Min(job[w].plan)}
                 /\ {m \in marked \ {Min(job[w].plan)} : m > k} = {m \in marked : m > k}
  <1>1. job[w].plan \subseteq Nat BY Typed, BackupAssumption DEF IInv, JobType, Backups
  <1>2. Min(job[w].plan) \in job[w].plan /\ \A k \in job[w].plan : Min(job[w].plan) <= k
    BY <1>1, LeastElement
  <1>3. \A k \in job[w].plan : Expendable(w, k) BY DEF IInv, JobOK, Prunes
  <1>4. marked \subseteq Nat BY Typed DEF IInv
  <1>5. ASSUME NEW k \in job[w].plan
        PROVE  {m \in marked \ {Min(job[w].plan)} : m > k} = {m \in marked : m > k}
    BY <1>1, <1>2, <1>4
  <1> QED BY <1>2, <1>3, <1>5 DEF Expendable

\* A marker is deleted first, so that it never outlives its archive.
LEMMA DeleteMarkerOK ==
    ASSUME IInv, NEW w \in Jobs, DeleteMarker(w)
    PROVE  IInv'
  <1>0. job[w].pc = "delete" /\ status.attempt = "running"
    BY DEF DeleteMarker, At, IInv, JobOK, Reports, Busy
  <1>1. CASE Fail(w) BY <1>0, <1>1, FailOK
  <1>2. CASE job[w].plan = {}
    <2>1. Go(w, "refresh") /\ UNCHANGED <<scratch, remote, owner, status, made, aged, faults>>
      BY <1>2 DEF DeleteMarker
    <2>2. "refresh" \in Points BY DEF Points
    <2>3. JobOK(w)'
      BY <1>0, <2>1, <2>2, GoOK DEF IInv, JobOK, Locks, Uploads, Prunes, Reports, Busy
    <2>4. Current' BY <2>1 DEF IInv, Current, Newest, remote
    <2> QED BY <1>0, <2>1, <2>2, <2>3, <2>4, GoOK, MoveOK, Kinds DEF StatusType
  <1>3. CASE ~Fail(w) /\ job[w].plan # {}
    <2>1. /\ marked' = marked \ {Min(job[w].plan)} /\ Go(w, "orphan")
          /\ UNCHANGED <<scratch, stored, pin, holds, owner, status, made, aged, faults>>
      BY <1>3 DEF DeleteMarker
    <2>2. "orphan" \in Points BY DEF Points
    <2>3. \A k \in job[w].plan : Expendable(w, k)'
      <3>1. \A k \in job[w].plan : Expendable(w, k) BY <1>0 DEF IInv, JobOK, Prunes
      <3>2. job'[w].held = job[w].held BY <2>1, <2>2, GoOK
      <3> QED BY <1>0, <1>3, <2>1, <3>1, <3>2, NextDeleted DEF Expendable
    <2>4. JobOK(w)'
      BY <1>0, <1>3, <2>1, <2>2, <2>3, GoOK DEF IInv, JobOK, Locks, Uploads, Prunes, Reports, Busy
    <2>5. Current' BY <1>0, <2>1 DEF Current
    <2> QED BY <1>0, <2>1, <2>2, <2>4, <2>5, GoOK, ChangeOK, Kinds DEF scratch
  <1> QED BY <1>1, <1>2, <1>3

\* The archive follows its marker.
LEMMA DeleteArchiveOK ==
    ASSUME IInv, NEW w \in Jobs, DeleteArchive(w)
    PROVE  IInv'
  <1> DEFINE n == Min(job[w].plan)
  <1>1. /\ job[w].pc = "orphan" /\ n \notin marked /\ status.attempt = "running"
        /\ stored' = stored \ {n}
        /\ job' = [job EXCEPT ![w].plan = @ \ {n}, ![w].pc = "delete"]
        /\ UNCHANGED <<scratch, marked, pin, holds, owner, status, made, aged, faults>>
    BY DEF DeleteArchive, At, IInv, JobOK, Prunes, Reports, Busy
  <1> HIDE DEF n
  <1>2. "delete" \in Points BY DEF Points
  <1>3. /\ job' \in [Jobs -> JobType(made)] /\ \A v \in Jobs \ {w} : job'[v] = job[v]
        /\ job'[w].pc = "delete" /\ job'[w].held = job[w].held
        /\ job'[w].plan = job[w].plan \ {n}
    BY <1>1, <1>2, Typed DEF JobType, IInv
  <1>4. \A k \in job[w].plan : Expendable(w, k)' <=> Expendable(w, k)
    BY <1>1, <1>3 DEF Expendable
  <1>5. JobOK(w)'
    BY <1>1, <1>3, <1>4 DEF IInv, JobOK, Locks, Uploads, Prunes, Reports, Busy
  <1>6. Current' BY <1>1 DEF Current
  <1> QED BY <1>1, <1>3, <1>5, <1>6, ChangeOK, Kinds DEF scratch

-----------------------------------------------------------------------------
(* Faults and the operator                                                  *)

\* What a request under way may still have done.
LEMMA AppliedOK ==
    ASSUME IInv, NEW w \in Jobs, job[w].pc # "idle", Applied(w)
    PROVE  /\ stored' \subseteq 1..made /\ marked' \subseteq stored' /\ pin' \in 0..made
           /\ status.attempt = "running" \/ marked' = marked
  <1>1. CASE UNCHANGED <<stored, marked, pin>>
    BY <1>1, Kinds
  <1>2. CASE At(w, "send") /\ stored' = stored \cup {job[w].id} /\ UNCHANGED <<marked, pin>>
    BY <1>2, Kinds DEF At, IInv, JobOK, Uploads
  <1>3. CASE At(w, "mark") /\ marked' = marked \cup {job[w].id} /\ UNCHANGED <<stored, pin>>
    BY <1>3, Kinds DEF At, IInv, JobOK, Uploads, Reports, Busy
  <1>4. CASE At(w, "delete") /\ marked' = marked \ {Min(job[w].plan)} /\ UNCHANGED <<stored, pin>>
    BY <1>4, Kinds DEF At, IInv, JobOK, Reports, Busy
  <1>5. CASE At(w, "orphan") /\ stored' = stored \ {Min(job[w].plan)} /\ UNCHANGED <<marked, pin>>
    BY <1>5, Kinds DEF At, IInv, JobOK, Prunes
  <1>6. CASE At(w, "record") /\ pin' = job[w].id /\ UNCHANGED <<stored, marked>>
    <2>1. job[w].id \in 1..made BY <1>6 DEF At, IInv, JobOK, Uploads
    <2> QED BY <1>6, <2>1, Kinds
  <1> QED BY <1>1, <1>2, <1>3, <1>4, <1>5, <1>6 DEF Applied

\* A failing step leaves repository and scratch volume consistent.
LEMMA FaultOK ==
    ASSUME IInv, NEW w \in Jobs, Fault(w)
    PROVE  IInv'
  <1>1. /\ job[w].pc # "idle" /\ faults' \in 0..MaxFaults /\ Applied(w) /\ End(w)
        /\ enc' = CleanedUp(w) /\ UNCHANGED <<meta, holds, made, aged>>
    BY Kinds, BackupAssumption DEF Fault
  <1>2. enc' \in [Backups -> {"none", "partial", "whole"}]
    <2>1. At(w, "pack") \/ At(w, "savemeta") => job[w].id \in Backups
      BY Kinds DEF At, IInv, JobOK, Uploads
    <2> QED BY <1>1, <2>1, Kinds DEF CleanedUp
  <1>3. /\ job' \in [Jobs -> JobType(made)] /\ owner' \in Jobs \cup {None}
        /\ job'[w] = Idle /\ \A v \in Jobs \ {w} : job'[v] = job[v]
    BY <1>1, EndOK DEF IInv
  <1>4. JobOK(w)' BY <1>3, IdleOK
  <1>5. /\ status' \in StatusType
        /\ status'.attempt \in {status.attempt, "failed"}
        /\ status'.attempt = "succeeded" => status'.latest \in {status.latest, Newest}
    <2>1. Newest \in 0..made /\ job[w].latest \in 0..made
      BY NewestOK, Typed DEF IInv, JobType
    <2> QED BY <2>1, Kinds DEF Fault, StatusType
  <1>6. Current'
    <2>1. CASE status.attempt = "running" BY <1>5, <2>1 DEF Current
    <2>2. CASE marked' = marked
      <3>1. Newest' = Newest BY <2>2 DEF Newest
      <3> QED BY <1>5, <3>1 DEF Current, IInv
    <2> QED BY <1>1, <2>1, <2>2, AppliedOK
  <1> QED BY <1>1, <1>2, <1>3, <1>4, <1>5, <1>6, AppliedOK, ChangeOK, Kinds

\* So does a kill, at every point.
LEMMA CrashOK ==
    ASSUME IInv, NEW w \in Jobs, Crash(w)
    PROVE  IInv'
  <1>1. /\ job[w].pc # "idle" /\ faults' \in 0..MaxFaults /\ Applied(w) /\ Go(w, "dead")
        /\ UNCHANGED <<scratch, holds, owner, status, made, aged>>
    BY Kinds, BackupAssumption DEF Crash
  <1>2. "dead" \in Points BY DEF Points
  <1>3. JobOK(w)'
    <2>1. job'[w].pc = "dead" /\ owner' = owner BY <1>1, <1>2, GoOK
    <2>2. owner = w BY <1>1 DEF IInv, JobOK, Locks
    <2> QED BY <2>1, <2>2 DEF JobOK, Locks, Uploads, Prunes, Reports, Busy
  <1>4. Current'
    <2>1. CASE status.attempt = "running" BY <1>1, <2>1 DEF Current
    <2>2. CASE marked' = marked BY <1>1, <2>2 DEF Current, IInv, Newest
    <2> QED BY <1>1, <2>1, <2>2, AppliedOK
  <1> QED BY <1>1, <1>2, <1>3, <1>4, GoOK, AppliedOK, ChangeOK, Kinds DEF scratch

\* Clearing a dead command's lock lets only the next command in.
LEMMA OperatorClearsOK ==
    ASSUME IInv, NEW w \in Jobs, OperatorClears(w)
    PROVE  IInv'
  <1>1. job[w].pc = "dead" /\ End(w)
        /\ UNCHANGED <<scratch, remote, status, made, aged, faults>>
    BY DEF OperatorClears, At
  <1>2. JobOK(w)' BY <1>1, EndOK, IdleOK DEF IInv
  <1>3. Current' BY <1>1 DEF IInv, Current, Newest, remote
  <1> QED BY <1>1, <1>2, <1>3, EndOK, MoveOK, Kinds DEF StatusType, IInv

\* The operator's review finds no command running; holds and time are looked
\* at by prune only.
LEMMA OutsideOK ==
    ASSUME IInv, OperatorReviews \/ Age \/ \E n \in Backups : Hold(n)
    PROVE  IInv'
  <1>1. CASE OperatorReviews
    <2>1. /\ enc' \in [Backups -> {"none", "partial", "whole"}] /\ meta' \subseteq 1..made
          /\ owner = None /\ UNCHANGED <<remote, owner, status, job, made, aged, faults>>
      BY <1>1, Kinds DEF OperatorReviews
    <2>2. \A w \in Jobs : job[w] = Idle
      BY <2>1, BackupAssumption DEF IInv, JobOK, Locks
    <2>3. \A w \in Jobs : JobOK(w)' BY <2>1, <2>2, IdleOK
    <2>4. TypeOK' /\ MarkerHasArchive' /\ Current'
      BY <2>1 DEF IInv, TypeOK, MarkerHasArchive, Current, Newest, remote
    <2> QED BY <2>3, <2>4 DEF IInv
  <1>2. CASE Age
    <2>1. /\ aged' = aged + 1 /\ aged' \in 0..made /\ aged \in Nat
          /\ UNCHANGED <<scratch, remote, owner, status, job, made, faults>>
      BY <1>2, Kinds DEF Age
    <2>2. TypeOK' /\ MarkerHasArchive' /\ Current'
      BY <2>1 DEF IInv, TypeOK, MarkerHasArchive, Current, Newest, remote, scratch
    <2>3. ASSUME NEW w \in Jobs PROVE JobOK(w)'
      <3>1. job[w].cut \in Nat /\ job[w].plan \subseteq Nat
        BY Typed, BackupAssumption DEF IInv, JobType, Backups
      <3>2. \A n \in job[w].plan : Expendable(w, n) => Expendable(w, n)'
        BY <2>1, <3>1 DEF Expendable, remote
      <3>3. Prunes(w)'
        BY <2>1, <3>1, <3>2 DEF IInv, JobOK, Prunes, remote
      <3>4. Locks(w)' /\ Uploads(w)' /\ Reports(w)'
        BY <2>1 DEF IInv, JobOK, Locks, Uploads, Reports, Newest, remote, scratch
      <3> QED BY <3>3, <3>4 DEF JobOK
    <2> QED BY <2>2, <2>3 DEF IInv
  <1>3. ASSUME NEW n \in Backups, Hold(n) PROVE IInv'
    <2>1. /\ holds' = holds \cup {n} /\ n \in marked
          /\ UNCHANGED <<scratch, stored, marked, pin, owner, status, job, made, aged, faults>>
      BY <1>3 DEF Hold
    <2>2. TypeOK' /\ MarkerHasArchive' /\ Current'
      BY <2>1 DEF IInv, TypeOK, MarkerHasArchive, Current, Newest, scratch
    <2>3. \A w \in Jobs : JobOK(w)'
      BY <2>1 DEF IInv, JobOK, Locks, Uploads, Prunes, Expendable, Reports, Newest, scratch
    <2> QED BY <2>2, <2>3 DEF IInv
  <1> QED BY <1>1, <1>2, <1>3

-----------------------------------------------------------------------------
(* The theorems                                                             *)

\* Before the first command the invariant holds.
LEMMA InitOK == Init => IInv
  <1> SUFFICES ASSUME Init PROVE IInv OBVIOUS
  <1>1. Newest = 0
    <2>1. marked \cup {0} = {0} BY DEF Init
    <2>2. Max({0}) \in {0} BY GreatestElement
    <2> QED BY <2>1, <2>2 DEF Newest
  <1>2. Idle \in JobType(0)
    BY BackupAssumption DEF Idle, JobType, Points, Actions
  <1>3. TypeOK /\ MarkerHasArchive
    BY <1>2, BackupAssumption DEF Init, TypeOK, MarkerHasArchive, JobType
  <1>4. \A w \in Jobs : JobOK(w)
    BY DEF Init, JobOK, Locks, Uploads, Prunes, Reports, Busy, Idle
  <1>5. Current BY <1>1 DEF Init, Current
  <1> QED BY <1>3, <1>4, <1>5 DEF IInv

\* Every step of the system preserves it.
LEMMA NextOK == IInv /\ [Next]_vars => IInv'
  <1> SUFFICES ASSUME IInv, [Next]_vars PROVE IInv' OBVIOUS
  <1>1. CASE UNCHANGED vars
    <2>1. \A w \in Jobs : JobOK(w)'
      BY <1>1 DEF vars, scratch, remote, IInv, JobOK, Locks, Uploads, Prunes, Expendable,
                  Reports, Newest
    <2>2. TypeOK' /\ MarkerHasArchive' /\ Current'
      BY <1>1 DEF vars, scratch, remote, IInv, TypeOK, MarkerHasArchive, Current, Newest
    <2> QED BY <2>1, <2>2 DEF IInv
  <1>2. ASSUME NEW w \in Jobs, Command(w) \/ Retry(w) PROVE IInv'
    BY <1>2, StartOK
  <1>3. ASSUME NEW w \in Jobs, Step(w) PROVE IInv'
    BY <1>3, BeginOK, ScratchOK, FilesOK, ReadOK, SendOK, MarkOK, PublishedOK, LookOK,
       AgainOK, DeleteMarkerOK, DeleteArchiveOK, DrillOK, FinishOK DEF Step
  <1>4. ASSUME NEW w \in Jobs, Fault(w) \/ Crash(w) \/ OperatorClears(w) PROVE IInv'
    BY <1>4, FaultOK, CrashOK, OperatorClearsOK
  <1>5. CASE OperatorReviews \/ Age \/ \E n \in Backups : Hold(n)
    BY <1>5, OutsideOK
  <1> QED BY <1>1, <1>2, <1>3, <1>4, <1>5 DEF Next

\* The inductive invariant of commands, repository and status.
THEOREM Invariance == Spec => []IInv
  BY InitOK, NextOK, PTL DEF Spec

\* The state of commands, scratch volume, repository and status is well typed.
THEOREM TypeCorrect == Spec => []TypeOK
  <1>1. IInv => TypeOK BY DEF IInv
  <1> QED BY <1>1, Invariance, PTL

\* However uploads, retention and faults interleave, a completion marker
\* (remote.go, putImmutableJSON) never advertises an archive that is not there.
THEOREM MarkersAreTrue == Spec => []MarkerHasArchive
  <1>1. IInv => MarkerHasArchive BY DEF IInv
  <1> QED BY <1>1, Invariance, PTL

\* The status that monitoring reads (postgresBackupPublishedStatus, GetStatus)
\* never reports success with an outdated backup.
THEOREM StatusIsCurrent == Spec => []SuccessIsCurrent
  <1>1. IInv => SuccessIsCurrent BY DEF IInv, Current, SuccessIsCurrent
  <1> QED BY <1>1, Invariance, PTL

-----------------------------------------------------------------------------
(* What a step may never do                                                 *)

\* A marker disappears only where prune deletes the oldest backup it planned to.
LEMMA OnlyPruneUnmarks ==
    ASSUME IInv, Next, NEW n \in marked \ marked'
    PROVE  \E w \in Jobs : /\ job[w].pc = "delete" /\ job[w].plan # {}
                           /\ n = Min(job[w].plan)
  <1>1. ASSUME NEW w \in Jobs, DeleteMarker(w)
        PROVE  job[w].pc = "delete" /\ job[w].plan # {} /\ n = Min(job[w].plan)
    BY <1>1 DEF DeleteMarker, At, Fail, remote
  <1>2. ASSUME NEW w \in Jobs, Applied(w)
        PROVE  job[w].pc = "delete" /\ job[w].plan # {} /\ n = Min(job[w].plan)
    BY <1>2 DEF Applied, At
  <1>3. ASSUME NEW w \in Jobs, Command(w) \/ Retry(w) \/ OperatorClears(w) PROVE FALSE
    BY <1>3 DEF Command, Retry, OperatorClears, Start, remote
  <1>4. ASSUME NEW w \in Jobs, Step(w), ~DeleteMarker(w) PROVE FALSE
    BY <1>4 DEF Step, Begin, ScratchReady, ScratchRefused, Pack, SaveManifest, ReadManifest,
       Send, Readback, Mark, Published, RemoveArchive, RemoveManifest, Look, Again,
       DeleteArchive, RecordDrill, Refresh, Finish, Release, Fail, remote
  <1>5. CASE OperatorReviews \/ Age \/ \E k \in Backups : Hold(k)
    BY <1>5 DEF OperatorReviews, Age, Hold, remote
  <1> QED BY <1>1, <1>2, <1>3, <1>4, <1>5 DEF Next, Fault, Crash

\* Retention (retention.go, prune): whatever the other commands do, however
\* often prune is interrupted and whenever holds are placed, it deletes only
\* what the documented policy lets go.
THEOREM RetentionIsSafe == Spec => RetentionKeeps
  <1>1. ASSUME IInv, [Next]_vars
        PROVE  [\A n \in marked \ marked' :
                  /\ pin \in marked /\ n # pin /\ n <= aged
                  /\ \A w \in Jobs : n \notin job[w].held
                  /\ Cardinality({m \in marked : m > n}) >= Minimum]_vars
    <2>1. SUFFICES ASSUME Next, NEW n \in marked \ marked'
                   PROVE  /\ pin \in marked /\ n # pin /\ n <= aged
                          /\ \A w \in Jobs : n \notin job[w].held
                          /\ Cardinality({m \in marked : m > n}) >= Minimum
      BY <1>1
    <2>2. PICK w \in Jobs : job[w].pc = "delete" /\ job[w].plan # {} /\ n = Min(job[w].plan)
      BY <1>1, <2>1, OnlyPruneUnmarks
    <2>3. Expendable(w, n) BY <1>1, <2>2, NextDeleted
    <2>4. \A v \in Jobs \ {w} : job[v].held = {}
      BY <1>1, <2>2, Alone DEF Idle
    <2> QED BY <2>3, <2>4 DEF Expendable
  <1>2. IInv /\ [Next]_vars =>
          [\A n \in marked \ marked' :
             /\ pin \in marked /\ n # pin /\ n <= aged
             /\ \A w \in Jobs : n \notin job[w].held
             /\ Cardinality({m \in marked : m > n}) >= Minimum]_vars
    BY <1>1
  <1> QED BY <1>2, Invariance, PTL DEF Spec, RetentionKeeps

\* Scratch files (postgresBackupRemovePublished, Capture's cleanup): a complete
\* capture is removed only after its marker was published.
THEOREM CapturesAreKept == Spec => CaptureKept
  <1>1. ASSUME IInv, [Next]_vars
        PROVE  [\A n \in meta : enc[n] = "whole" /\ enc'[n] # "whole" => n \in marked]_vars
    <2>1. SUFFICES ASSUME Next, NEW n \in meta, enc[n] = "whole", enc'[n] # "whole"
                   PROVE  n \in marked
      BY <1>1
    <2>2. enc \in [Backups -> {"none", "partial", "whole"}] /\ n \in Backups
      BY <1>1, Kinds
    <2>3. ASSUME NEW w \in Jobs, RemoveArchive(w) PROVE n \in marked
      BY <1>1, <2>1, <2>2, <2>3 DEF RemoveArchive, At, IInv, JobOK, Uploads
    <2>4. ASSUME NEW w \in Jobs, Fault(w) PROVE FALSE
      <3>1. At(w, "pack") \/ At(w, "savemeta") => n # job[w].id
        BY <1>1 DEF At, IInv, JobOK, Uploads
      <3> QED BY <2>1, <2>2, <2>4, <3>1 DEF Fault, CleanedUp
    <2>5. ASSUME NEW w \in Jobs, Crash(w) \/ Command(w) \/ Retry(w) \/ OperatorClears(w)
          PROVE  FALSE
      BY <2>1, <2>5 DEF Crash, Command, Retry, OperatorClears, Start, scratch
    <2>6. ASSUME NEW w \in Jobs, Step(w), ~RemoveArchive(w) PROVE FALSE
      <3>1. CASE ScratchReady(w) BY <3>1 DEF ScratchReady, ScratchEmpty
      <3>2. CASE Pack(w) BY <2>1, <2>2, <3>2 DEF Pack
      <3> QED BY <2>1, <2>6, <3>1, <3>2 DEF Step, Begin, ScratchRefused, SaveManifest,
           ReadManifest, Send, Readback, Mark, Published, RemoveManifest, Look, Again,
           DeleteMarker, DeleteArchive, RecordDrill, Refresh, Finish, Release, Fail, scratch
    <2>7. CASE OperatorReviews \/ Age \/ \E k \in Backups : Hold(k)
      BY <2>1, <2>2, <2>7 DEF OperatorReviews, Age, Hold, scratch
    <2> QED BY <2>1, <2>3, <2>4, <2>5, <2>6, <2>7 DEF Next
  <1>2. IInv /\ [Next]_vars =>
          [\A n \in meta : enc[n] = "whole" /\ enc'[n] # "whole" => n \in marked]_vars
    BY <1>1
  <1> QED BY <1>2, Invariance, PTL DEF Spec, CaptureKept
=============================================================================
