------------------------ MODULE CoreRecoveryProofs ------------------------
(***************************************************************************)
(* The safety properties of maintenance for any number of hosts, workloads *)
(* and components, and any number of operations, faults and stray          *)
(* commands.                                                               *)
(***************************************************************************)
EXTENDS CoreRecovery, TLAPS

Outside == {"idle", "dead", "lock"}
Capturing == {"assert", "capture", "checkagain", "pack"}
Starting == {"startup", "startapps", "health"}
Holding == {"file", "stop", "stopoffline", "reassert", "overwrite", "recheck"}
           \cup Capturing \cup Starting
Points == Outside \cup Holding \cup {"begin", "load", "publish", "unjournal", "end"}

Entries == [n : Operations, op : {"backup", "restore"}, phase : Phases,
            backup : 0..MaxOps \cup {None}, safety : Operations \cup {None},
            saved : SUBSET Workloads]
Archives == [content : [Parts -> Values], during : Watches, published : BOOLEAN]

\* The types of the variables that TypeOK leaves open.
MoreTypes ==
    /\ pc \in [Hosts -> Points] /\ watch \in [Hosts -> Watches]
    /\ archives \in [Operations -> Archives \cup {Unmade}]
    /\ DOMAIN copy = Hosts

\* An archive number that can be restored.
Made(n) == n = 0 \/ (n \in Operations /\ archives[n] # Unmade)

\* One command at a time, and none beside the online worker.
Locking ==
    /\ \A h \in Hosts : pc[h] \notin Outside => cmdLock = h
    /\ online # "idle" => cmdLock = Worker
    /\ online = "working" => maint = NoJournal

\* What the journal in the cluster says of the data and of the archives.
JournalOK ==
    maint # NoJournal =>
      /\ maint.op = "backup" => data = before
      /\ maint.phase \in {"quiescing", "paused", "captured"} =>
            data = before /\ maint.safety = None
      /\ maint.op = "restore" => maint.phase # "captured"
      /\ maint.phase \in {"restoring", "restored"} => maint.op = "restore"
      /\ maint.op = "restore" /\ maint.phase \notin {"quiescing", "paused"} =>
            maint.safety # None /\ maint.backup # None /\ Made(maint.backup)
      /\ maint.safety # None =>
            /\ archives[maint.safety] # Unmade /\ archives[maint.safety].published
            /\ archives[maint.safety].content = before
      /\ maint.op = "restore" /\ maint.phase \in {"restored", "verifying", "verified"} =>
            data = Content(maint.backup)
      /\ maint.phase = "verified" => maint.saved \subseteq up

\* Data of two moments exist only in a restore, and then nothing runs.
Quiesced ==
    foreign = 0 => \/ OneMoment
                   \/ maint # NoJournal /\ maint.phase = "restoring" /\ up = {} /\ pods = {}

\* Where a command is, which one it is, and the phase it has saved.
Control(h) ==
    /\ Made(file[h])
    /\ pc[h] = "lock" => cmd[h] \in Commands
    /\ pc[h] \in Holding => mem[h] = maint /\ maint # NoJournal
    /\ pc[h] = "begin" => cmd[h] \in {"create", "apply"}
    /\ pc[h] = "load" => cmd[h] \in {"retry", "verify", "resume", "abort"}
    /\ pc[h] = "file" =>
          /\ maint.phase \in {"quiescing", "paused"} => cmd[h] \in {"create", "apply"}
          /\ maint.phase = "captured" => cmd[h] \in {"create", "abort"}
          /\ maint.phase = "captured" /\ cmd[h] = "create" => archives[maint.n] # Unmade
          /\ maint.phase = "restoring" => cmd[h] \in {"apply", "retry"}
    /\ pc[h] \in {"stop", "stopoffline"} =>
          \/ maint.phase = "quiescing" /\ cmd[h] \in {"create", "apply"}
          \/ maint.phase = "restoring" /\ cmd[h] = "retry"
    /\ pc[h] \in Capturing => maint.phase = "paused" /\ cmd[h] \in {"create", "apply"}
    /\ pc[h] \in {"file", "stop", "stopoffline"} \cup Capturing
          /\ maint.phase \in {"quiescing", "paused"} =>
          /\ cmd[h] = "create" => maint.op = "backup"
          /\ cmd[h] = "apply" => maint.op = "restore"
    /\ pc[h] \in {"reassert", "overwrite"} => maint.phase = "restoring"
    /\ pc[h] \in Starting => maint.phase = "verifying"
    /\ pc[h] = "recheck" => maint.phase = "verified"

\* Between packing and recording an archive.
Publishing(h) ==
    pc[h] = "publish" =>
      /\ maint # NoJournal /\ mem[h].n = maint.n /\ archives[maint.n] # Unmade
      /\ cmd[h] # "create" =>
            /\ cmd[h] = "apply" /\ maint.phase = "paused" /\ maint.op = "restore"
            /\ mem[h] = [maint EXCEPT !.backup = file[h], !.safety = maint.n]
            /\ archives[maint.n].content = before

\* How far capture, restore and startup have come.
Progress(h) ==
    /\ pc[h] \in {"capture", "checkagain", "pack"} => copy[h] = data
    /\ pc[h] \in {"capture", "checkagain"} => watch[h].ran \subseteq watch[h].stopped \cup up
    /\ pc[h] = "pack" => watch[h].ran \subseteq watch[h].stopped
    /\ pc[h] = "overwrite" =>
          /\ \A c \in Parts : c < part[h] => data[c] = Content(maint.backup)[c]
          /\ foreign = 0 => up = {} /\ pods = {}
    /\ pc[h] = "startup" => (maint.saved \cap Offline) \ todo[h] \subseteq up
    /\ pc[h] = "startapps" => maint.saved \cap Offline \subseteq up
                              /\ (maint.saved \cap Applications) \ todo[h] \subseteq up
    /\ pc[h] = "health" => maint.saved \subseteq up

HostOK(h) == Control(h) /\ Publishing(h) /\ Progress(h)

IInv ==
    /\ TypeOK /\ MoreTypes
    /\ Locking /\ JournalOK /\ Quiesced /\ ArchivesConsistent
    /\ \A h \in Hosts : HostOK(h)

-----------------------------------------------------------------------------
(* Facts about the state                                                    *)

\* A journal is none, or an entry with an operation number above 0.
LEMMA JournalTypes ==
    /\ Journals = {NoJournal} \cup Entries
    /\ NoJournal \notin Entries
  BY RecoveryAssumption DEF Journals, Entries, NoJournal, Operations

\* While a command holds the lock, the others are outside and the online
\* worker is idle.
LEMMA Alone ==
    ASSUME IInv, NEW h \in Hosts, pc[h] \notin Outside
    PROVE  /\ cmdLock = h /\ online = "idle"
           /\ \A g \in Hosts \ {h} : pc[g] \in Outside
  BY RecoveryAssumption DEF IInv, Locking

\* A command outside is in order if its archive exists.
LEMMA OutsideOK ==
    ASSUME NEW g \in Hosts, pc'[g] \in Outside, Made(file[g])',
           pc'[g] = "lock" => cmd'[g] \in Commands
    PROVE  HostOK(g)'
  <1>1. /\ pc'[g] \notin Holding /\ pc'[g] \notin Capturing /\ pc'[g] \notin Starting
        /\ pc'[g] \notin {"begin", "load", "file", "stop", "stopoffline", "reassert",
                          "overwrite", "recheck", "publish", "capture", "checkagain",
                          "pack", "startup", "startapps", "health"}
    BY DEF Outside, Holding, Capturing, Starting
  <1>2. Control(g)' BY <1>1 DEF Control
  <1>3. Publishing(g)' BY <1>1 DEF Publishing
  <1>4. Progress(g)' BY <1>1 DEF Progress
  <1> QED BY <1>2, <1>3, <1>4 DEF HostOK

\* A step of the command that holds the lock leaves the others in order.
LEMMA OthersOutside ==
    ASSUME IInv, NEW h \in Hosts, pc[h] \notin Outside, NEW q, Go(h, q),
           \A g \in Hosts \ {h} : file'[g] = file[g] /\ cmd'[g] = cmd[g],
           \A n \in Operations : archives[n] # Unmade => archives'[n] # Unmade
    PROVE  \A g \in Hosts \ {h} : HostOK(g)'
  <1> SUFFICES ASSUME NEW g \in Hosts \ {h} PROVE HostOK(g)'
    OBVIOUS
  <1>1. pc'[g] \in Outside /\ pc'[g] = pc[g] BY Alone DEF Go, IInv, MoreTypes
  <1>2. Made(file[g])' /\ (pc[g] = "lock" => cmd[g] \in Commands)
    BY DEF IInv, HostOK, Control, Made
  <1> QED BY <1>1, <1>2, OutsideOK

\* A command whose variables do not change, in a cluster that does not change.
LEMMA SameOK ==
    ASSUME NEW g \in Hosts, HostOK(g),
           pc'[g] = pc[g], cmd'[g] = cmd[g], file'[g] = file[g], mem'[g] = mem[g],
           todo'[g] = todo[g], part'[g] = part[g], copy'[g] = copy[g], watch'[g] = watch[g],
           UNCHANGED <<maint, data, up, pods, archives, before, foreign>>
    PROVE  HostOK(g)'
  <1>1. Control(g)' BY DEF HostOK, Control, Made
  <1>2. Publishing(g)' BY DEF HostOK, Publishing
  <1>3. Progress(g)' BY DEF HostOK, Progress, Content
  <1> QED BY <1>1, <1>2, <1>3 DEF HostOK

\* What is said of the cluster, where nothing in it changes.
LEMMA ClusterSame ==
    ASSUME IInv, UNCHANGED <<maint, data, up, pods, archives, before, foreign>>
    PROVE  JournalOK' /\ Quiesced' /\ ArchivesConsistent'
  <1>1. JournalOK' BY DEF IInv, JournalOK, Made, Content
  <1>2. Quiesced' BY DEF IInv, Quiesced, OneMoment, Content
  <1>3. ArchivesConsistent' BY DEF IInv, ArchivesConsistent
  <1> QED BY <1>1, <1>2, <1>3

\* A returning command is typed and has released its locks.
LEMMA EndTypes ==
    ASSUME TypeOK, MoreTypes, NEW h \in Hosts, End(h)
    PROVE  /\ pc' \in [Hosts -> Points] /\ cmd' \in [Hosts -> Commands \cup {None}]
           /\ file' \in [Hosts -> 0..MaxOps] /\ mem' \in [Hosts -> Journals]
           /\ todo' \in [Hosts -> SUBSET Workloads] /\ part' \in [Hosts -> 1..(Components + 1)]
           /\ watch' \in [Hosts -> Watches] /\ DOMAIN copy' = Hosts
           /\ cmdLock' \in Hosts \cup {Worker, None} /\ fileLock' \in SUBSET Hosts
           /\ pc'[h] = "idle" /\ file'[h] = 0
  <1>1. NoJournal \in Journals /\ 0 \in 0..MaxOps /\ 1 \in 1..(Components + 1)
    BY RecoveryAssumption DEF Journals
  <1>2. "idle" \in Points BY DEF Points, Outside
  <1>3. Unwatched \in Watches BY DEF Unwatched, Watches
  <1> QED BY <1>1, <1>2, <1>3 DEF End, Go, TypeOK, MoreTypes

\* A command that returns leaves the invariant, if what it did to the data and
\* to the workloads does.
LEMMA EndOK ==
    ASSUME IInv, NEW h \in Hosts, End(h),
           UNCHANGED <<maint, pods, local, archives, ops, foreign, stray, before, online>>,
           faults' \in 0..MaxFaults, up' \in SUBSET Workloads, data' \in [Parts -> Values],
           pc[h] \in Outside => UNCHANGED <<up, data>>,
           JournalOK', Quiesced'
    PROVE  IInv'
  <1>1. TypeOK' /\ MoreTypes'
    BY EndTypes DEF IInv, TypeOK, MoreTypes
  <1>2. Locking'
    <2>1. cmdLock' = IF cmdLock = h THEN None ELSE cmdLock BY DEF End
    <2>2. \A g \in Hosts \ {h} : pc'[g] = pc[g] BY DEF End, Go, IInv, MoreTypes
    <2>3. pc'[h] \in Outside BY EndTypes DEF IInv, Outside
    <2> QED BY <2>1, <2>2, <2>3, RecoveryAssumption DEF IInv, Locking
  <1>3. ArchivesConsistent' BY DEF IInv, ArchivesConsistent
  <1>4. HostOK(h)'
    <2>1. pc'[h] \in Outside /\ Made(file[h])' BY EndTypes DEF IInv, Outside, Made
    <2> QED BY <2>1, EndTypes, OutsideOK DEF IInv
  <1>5. ASSUME NEW g \in Hosts \ {h} PROVE HostOK(g)'
    <2>1. /\ pc'[g] = pc[g] /\ cmd'[g] = cmd[g] /\ file'[g] = file[g] /\ mem'[g] = mem[g]
          /\ todo'[g] = todo[g] /\ part'[g] = part[g] /\ copy'[g] = copy[g]
          /\ watch'[g] = watch[g]
      BY DEF End, Go, IInv, TypeOK, MoreTypes
    <2>2. CASE pc[h] \in Outside BY <2>1, <2>2, SameOK DEF IInv
    <2>3. CASE pc[h] \notin Outside
      <3>1. pc'[g] \in Outside BY <2>1, <2>3, Alone
      <3>2. Made(file[g])' /\ (pc[g] = "lock" => cmd[g] \in Commands)
        BY <2>1 DEF IInv, HostOK, Control, Made
      <3> QED BY <2>1, <3>1, <3>2, OutsideOK
    <2> QED BY <2>2, <2>3
  <1> QED BY <1>1, <1>2, <1>3, <1>4, <1>5 DEF IInv

\* A refused command ends and changes nothing but itself.
LEMMA RefuseOK ==
    ASSUME IInv, NEW h \in Hosts, Refuse(h)
    PROVE  IInv'
  <1>1. /\ End(h)
        /\ UNCHANGED <<maint, up, pods, data, local, archives, ops, faults, foreign,
                       stray, before, online>>
    BY DEF Refuse, budget
  <1>2. JournalOK' /\ Quiesced' BY <1>1, ClusterSame
  <1> QED BY <1>1, <1>2, EndOK DEF IInv, TypeOK

\* The steps that refuse, return or clear a dead command preserve the invariant.
LEMMA RefusalsOK ==
    ASSUME IInv, NEW h \in Hosts,
           \/ LockRefused(h) \/ BeginRefused(h) \/ LoadRefused(h) \/ StopFails(h)
           \/ AssertFails(h) \/ Return(h) \/ OperatorClears(h)
    PROVE  IInv'
  <1>1. Refuse(h)
    BY DEF LockRefused, BeginRefused, LoadRefused, StopFails, AssertFails, Return,
           OperatorClears, Refuse
  <1> QED BY <1>1, RefuseOK

\* Applications are paused again: the data are those of one moment by then.
LEMMA UnhealthyOK ==
    ASSUME IInv, NEW h \in Hosts, Unhealthy(h)
    PROVE  IInv'
  <1>1. /\ End(h) /\ pc[h] = "health" /\ faults' \in 0..MaxFaults
        /\ UNCHANGED <<maint, pods, data, local, archives, ops, foreign, stray, before, online>>
    BY RecoveryAssumption DEF Unhealthy, IInv, TypeOK
  <1>2. up' \in SUBSET Workloads BY DEF Unhealthy, IInv, TypeOK
  <1>3. maint.phase = "verifying" /\ pc[h] \notin Outside
    BY <1>1 DEF IInv, HostOK, Control, Starting, Outside
  <1>4. JournalOK' BY <1>1, <1>3 DEF IInv, JournalOK, Made, Content
  <1>5. Quiesced' BY <1>1, <1>3 DEF IInv, Quiesced, OneMoment, Content
  <1> QED BY <1>1, <1>2, <1>3, <1>4, <1>5, EndOK DEF IInv, TypeOK

\* Data are torn only while they are being overwritten.
LEMMA TearOK ==
    ASSUME IInv, NEW h \in Hosts, Tear(h),
           UNCHANGED <<maint, up, pods, archives, before, foreign>>
    PROVE  /\ data' \in [Parts -> Values] /\ JournalOK' /\ Quiesced'
           /\ pc[h] \in Outside => UNCHANGED data
  <1>1. CASE UNCHANGED data
    BY <1>1, ClusterSame DEF IInv, TypeOK
  <1>2. CASE pc[h] = "overwrite" /\ data' = [data EXCEPT ![part[h]] = "torn"]
    <2>1. /\ maint # NoJournal /\ maint.phase = "restoring" /\ pc[h] \notin Outside
          /\ foreign = 0 => up = {} /\ pods = {}
      BY <1>2 DEF IInv, HostOK, Control, Progress, Holding, Outside
    <2>2. data' \in [Parts -> Values] BY <1>2 DEF IInv, TypeOK, Values
    <2>3. maint.op = "restore" BY <2>1 DEF IInv, JournalOK
    <2>4. JournalOK' BY <2>1, <2>3 DEF IInv, JournalOK, Made
    <2>5. Quiesced' BY <2>1 DEF Quiesced
    <2> QED BY <2>1, <2>2, <2>4, <2>5
  <1> QED BY <1>1, <1>2 DEF Tear

\* A failing step ends its command; what it had done is covered by the journal.
LEMMA FaultOK ==
    ASSUME IInv, NEW h \in Hosts, Fault(h)
    PROVE  IInv'
  <1>1. /\ End(h) /\ Tear(h) /\ faults' \in 0..MaxFaults
        /\ UNCHANGED <<maint, up, pods, local, archives, ops, foreign, stray, before, online>>
    BY RecoveryAssumption DEF Fault, IInv, TypeOK
  <1>2. /\ data' \in [Parts -> Values] /\ JournalOK' /\ Quiesced'
        /\ pc[h] \in Outside => UNCHANGED data
    BY <1>1, TearOK
  <1> QED BY <1>1, <1>2, EndOK DEF IInv, TypeOK

\* A command may be killed anywhere under the same cover.
LEMMA CrashOK ==
    ASSUME IInv, NEW h \in Hosts, Crash(h)
    PROVE  IInv'
  <1>1. /\ Go(h, "dead") /\ Tear(h) /\ faults' \in 0..MaxFaults
        /\ UNCHANGED <<maint, cmdLock, up, pods, local, fileLock, archives, cmd, file, mem,
                       todo, part, copy, watch, ops, foreign, stray, before, online>>
    BY RecoveryAssumption DEF Crash, IInv, TypeOK, disks
  <1>2. /\ data' \in [Parts -> Values] /\ JournalOK' /\ Quiesced'
        /\ pc[h] \in Outside => UNCHANGED data
    BY <1>1, TearOK
  <1>3. pc' \in [Hosts -> Points] /\ pc'[h] = "dead" /\ pc'[h] \in Outside
        /\ \A g \in Hosts \ {h} : pc'[g] = pc[g]
    BY <1>1 DEF Go, IInv, MoreTypes, Points, Outside
  <1>4. TypeOK' /\ MoreTypes'
    BY <1>1, <1>2, <1>3 DEF IInv, TypeOK, MoreTypes
  <1>5. Locking' BY <1>1, <1>3 DEF IInv, Locking
  <1>6. ArchivesConsistent' BY <1>1 DEF IInv, ArchivesConsistent
  <1>7. HostOK(h)'
    <2>1. Made(file[h])' BY <1>1 DEF IInv, HostOK, Control, Made
    <2> QED BY <2>1, <1>3, OutsideOK
  <1>8. ASSUME NEW g \in Hosts \ {h} PROVE HostOK(g)'
    <2>1. CASE pc[h] \in Outside BY <1>1, <1>2, <1>3, <2>1, SameOK DEF IInv
    <2>2. CASE pc[h] \notin Outside BY <1>1, <2>2, OthersOutside
    <2> QED BY <2>1, <2>2
  <1> QED BY <1>2, <1>4, <1>5, <1>6, <1>7, <1>8 DEF IInv

\* A new command, the documented next one or a stray one, has done nothing yet.
LEMMA IssueOK ==
    ASSUME IInv, NEW h \in Hosts, NextCommand(h) \/ StrayCommand(h)
    PROVE  IInv'
  <1>1. PICK c \in Commands, f \in Restorable : Issue(h, c, f)
    <2>1. CASE NextCommand(h)
      <3>1. Documented(maint.phase) \in Commands BY DEF Documented, Commands
      <3> QED BY <2>1, <3>1 DEF NextCommand
    <2>2. CASE StrayCommand(h) BY <2>2 DEF StrayCommand
    <2> QED BY <2>1, <2>2
  <1>2. stray' \in 0..MaxStray
    BY RecoveryAssumption DEF IInv, TypeOK, NextCommand, StrayCommand
  <1>3. f \in 0..MaxOps /\ Made(f)
    BY RecoveryAssumption DEF Restorable, Made, Operations
  <1>4. /\ pc[h] = "idle" /\ Go(h, "lock")
        /\ cmd' = [cmd EXCEPT ![h] = c] /\ file' = [file EXCEPT ![h] = f]
        /\ fileLock' = fileLock \cup {h}
        /\ UNCHANGED <<maint, cmdLock, up, pods, data, local, archives, mem, todo, part,
                       copy, watch, ops, faults, foreign, before, online>>
    BY <1>1 DEF Issue, cluster
  <1>5. pc' \in [Hosts -> Points] /\ pc'[h] \in Outside
        /\ \A g \in Hosts \ {h} : pc'[g] = pc[g]
    BY <1>4 DEF Go, IInv, MoreTypes, Points, Outside
  <1>6. TypeOK' /\ MoreTypes'
    BY <1>2, <1>3, <1>4, <1>5 DEF IInv, TypeOK, MoreTypes
  <1>7. Locking' BY <1>4, <1>5 DEF IInv, Locking
  <1>8. JournalOK' /\ Quiesced' /\ ArchivesConsistent' BY <1>4, ClusterSame
  <1>9. HostOK(h)'
    <2>1. Made(file[h])' /\ cmd'[h] \in Commands
      BY <1>3, <1>4 DEF IInv, TypeOK, Made
    <2> QED BY <2>1, <1>5, OutsideOK
  <1>10. ASSUME NEW g \in Hosts \ {h} PROVE HostOK(g)'
    BY <1>4, <1>5, SameOK DEF IInv, TypeOK
  <1> QED BY <1>6, <1>7, <1>8, <1>9, <1>10 DEF IInv

\* Whoever takes the cluster lock finds nobody else past it.
LEMMA LockClusterOK ==
    ASSUME IInv, NEW h \in Hosts, LockCluster(h)
    PROVE  IInv'
  <1> DEFINE q == IF cmd[h] \in {"create", "apply"} THEN "begin" ELSE "load"
  <1>1. /\ pc[h] = "lock" /\ cmdLock = None /\ cmdLock' = h /\ Go(h, q)
        /\ UNCHANGED <<maint, up, pods, data, local, fileLock, archives, cmd, file, mem, todo,
                       part, copy, watch, ops, faults, foreign, stray, before, online>>
    BY DEF LockCluster, disks, budget
  <1>2. /\ pc' \in [Hosts -> Points] /\ pc'[h] = q
        /\ \A g \in Hosts \ {h} : pc'[g] = pc[g]
    BY <1>1 DEF Go, IInv, MoreTypes, Points
  <1>3. TypeOK' /\ MoreTypes' BY <1>1, <1>2 DEF IInv, TypeOK, MoreTypes
  <1>4. Locking' BY <1>1, <1>2, RecoveryAssumption DEF IInv, Locking
  <1>5. JournalOK' /\ Quiesced' /\ ArchivesConsistent' BY <1>1, ClusterSame
  <1>6. HostOK(h)'
    <2>1. q \in {"begin", "load"} OBVIOUS
    <2>2. cmd[h] \in Commands BY <1>1 DEF IInv, HostOK, Control
    <2>3. Control(h)'
      BY <1>1, <1>2, <2>1, <2>2
      DEF IInv, HostOK, Control, Made, Holding, Capturing, Starting, Commands
    <2>4. Publishing(h)' /\ Progress(h)' BY <1>2, <2>1 DEF Publishing, Progress
    <2> QED BY <2>3, <2>4 DEF HostOK
  <1>7. ASSUME NEW g \in Hosts \ {h} PROVE HostOK(g)'
    BY <1>1, <1>2, SameOK DEF IInv
  <1> QED BY <1>3, <1>4, <1>5, <1>6, <1>7 DEF IInv

\* The online worker changes only the lock: no command is inside when it takes
\* it, and there is no journal when it starts to work.
LEMMA OnlineOK ==
    ASSUME IInv,
           \/ OnlineLock \/ OnlineChecked \/ OnlineRefused \/ OnlineDone
           \/ OnlineCrash \/ OperatorClearsOnline
    PROVE  IInv'
  <1>1. /\ UNCHANGED <<maint, up, pods, data, local, fileLock, archives, pc, cmd, file, mem,
                       todo, part, copy, watch, ops, foreign, before>>
        /\ faults' \in 0..MaxFaults /\ stray' \in 0..MaxStray
    BY RecoveryAssumption
    DEF OnlineLock, OnlineChecked, OnlineRefused, OnlineDone, OnlineCrash,
        OperatorClearsOnline, OnlineKeeps, disks, process, IInv, TypeOK
  <1>2. /\ cmdLock' \in Hosts \cup {Worker, None}
        /\ online' \in {"idle", "locked", "working", "dead"}
    BY DEF OnlineLock, OnlineChecked, OnlineRefused, OnlineDone, OnlineCrash,
           OperatorClearsOnline, IInv, TypeOK
  <1>3. TypeOK' /\ MoreTypes' BY <1>1, <1>2 DEF IInv, TypeOK, MoreTypes
  <1>4. Locking'
    BY <1>1, RecoveryAssumption
    DEF OnlineLock, OnlineChecked, OnlineRefused, OnlineDone, OnlineCrash,
        OperatorClearsOnline, IInv, Locking
  <1>5. JournalOK' /\ Quiesced' /\ ArchivesConsistent' BY <1>1, ClusterSame
  <1>6. \A h \in Hosts : HostOK(h)' BY <1>1, SameOK DEF IInv
  <1> QED BY <1>3, <1>4, <1>5, <1>6 DEF IInv

\* Publishing an archive changes neither what it holds nor what exists.
LEMMA Published ==
    ASSUME MoreTypes, NEW n \in Operations, archives[n] # Unmade,
           archives' = [archives EXCEPT ![n].published = TRUE]
    PROVE  /\ archives' \in [Operations -> Archives \cup {Unmade}]
           /\ archives'[n] # Unmade /\ archives'[n].published
           /\ \A m \in Operations :
                 /\ archives'[m].content = archives[m].content
                 /\ archives'[m].during = archives[m].during
                 /\ archives[m] # Unmade <=> archives'[m] # Unmade
                 /\ archives[m].published => archives'[m].published
           /\ \A m \in 0..MaxOps : Content(m)' = Content(m)
  <1>1. archives[n] \in Archives BY DEF MoreTypes
  <1>2. archives' = [archives EXCEPT ![n] = [archives[n] EXCEPT !.published = TRUE]]
    BY DEF MoreTypes
  <1>3. /\ [archives[n] EXCEPT !.published = TRUE] \in Archives
        /\ [archives[n] EXCEPT !.published = TRUE].content = archives[n].content
        /\ [archives[n] EXCEPT !.published = TRUE].during = archives[n].during
        /\ [archives[n] EXCEPT !.published = TRUE].published
        /\ [archives[n] EXCEPT !.published = TRUE] # Unmade
    BY <1>1 DEF Archives, Unmade
  <1>4. /\ archives' \in [Operations -> Archives \cup {Unmade}]
        /\ archives'[n] # Unmade /\ archives'[n].published
    BY <1>2, <1>3 DEF MoreTypes
  <1>5. \A m \in Operations :
           /\ archives'[m].content = archives[m].content
           /\ archives'[m].during = archives[m].during
           /\ archives[m] # Unmade <=> archives'[m] # Unmade
           /\ archives[m].published => archives'[m].published
    BY <1>2, <1>3 DEF MoreTypes
  <1>6. \A m \in 0..MaxOps : Content(m)' = Content(m)
    BY <1>5, RecoveryAssumption DEF Content, Operations
  <1> QED BY <1>4, <1>5, <1>6

\* ... nor what is said of the cluster.
LEMMA PublishedCluster ==
    ASSUME IInv, NEW n \in Operations, archives[n] # Unmade,
           archives' = [archives EXCEPT ![n].published = TRUE],
           UNCHANGED <<maint, data, up, pods, before, foreign>>
    PROVE  JournalOK' /\ Quiesced' /\ ArchivesConsistent'
  <1>1. /\ \A m \in Operations :
             /\ archives'[m].content = archives[m].content
             /\ archives'[m].during = archives[m].during
             /\ archives[m] # Unmade <=> archives'[m] # Unmade
             /\ archives[m].published => archives'[m].published
        /\ \A m \in 0..MaxOps : Content(m)' = Content(m)
    BY Published DEF IInv
  <1>2. maint # NoJournal => maint.safety \in Operations \cup {None}
                             /\ maint.backup \in 0..MaxOps \cup {None}
    BY DEF IInv, TypeOK, Journals
  <1>3. JournalOK' BY <1>1, <1>2, RecoveryAssumption DEF IInv, JournalOK, Made
  <1>4. Quiesced'
    <2>1. {archives'[m].content : m \in Operations} = {archives[m].content : m \in Operations}
      BY <1>1
    <2>2. OneMoment => OneMoment'
      <3>1. Content(0)' = Content(0) BY DEF Content
      <3> QED BY <2>1, <3>1 DEF OneMoment
    <2> QED BY <2>2 DEF IInv, Quiesced
  <1>5. ArchivesConsistent' BY <1>1 DEF IInv, ArchivesConsistent
  <1> QED BY <1>3, <1>4, <1>5

\* Publishing an archive makes a recorded backup durable.
LEMMA UploadOK ==
    ASSUME IInv, NEW n \in Operations, Upload(n)
    PROVE  IInv'
  <1>1. /\ archives[n] # Unmade /\ archives' = [archives EXCEPT ![n].published = TRUE]
        /\ UNCHANGED <<maint, cmdLock, up, pods, data, local, fileLock, pc, cmd, file, mem,
                       todo, part, copy, watch, ops, faults, foreign, stray, before, online>>
    BY DEF Upload, cluster, process, budget
  <1>2. /\ archives' \in [Operations -> Archives \cup {Unmade}]
        /\ \A m \in Operations :
             /\ archives'[m].content = archives[m].content
             /\ archives[m] # Unmade <=> archives'[m] # Unmade
        /\ \A m \in 0..MaxOps : Content(m)' = Content(m)
    BY <1>1, Published DEF IInv
  <1>3. MoreTypes' BY <1>1, <1>2 DEF IInv, MoreTypes
  <1>4. TypeOK' BY <1>1, <1>2 DEF IInv, TypeOK, Archives
  <1>5. Locking' BY <1>1 DEF IInv, Locking
  <1>6. JournalOK' /\ Quiesced' /\ ArchivesConsistent' BY <1>1, PublishedCluster
  <1>7. ASSUME NEW h \in Hosts PROVE HostOK(h)'
    <2>1. /\ maint # NoJournal => maint.n \in Operations
          /\ maint # NoJournal => maint.backup \in 0..MaxOps \cup {None}
          /\ file[h] \in 0..MaxOps
      BY DEF IInv, TypeOK, Journals
    <2>2. Control(h)'
      BY <1>1, <1>2, <2>1 DEF IInv, HostOK, Control, Made, Holding
    <2>3. Publishing(h)' BY <1>1, <1>2, <2>1 DEF IInv, HostOK, Publishing
    <2>4. Progress(h)'
      <3>1. pc[h] = "overwrite" => maint.backup \in 0..MaxOps
        BY <2>1 DEF IInv, HostOK, Control, JournalOK, Holding
      <3> QED BY <1>1, <1>2, <3>1 DEF IInv, HostOK, Progress
    <2> QED BY <2>2, <2>3, <2>4 DEF HostOK
  <1> QED BY <1>3, <1>4, <1>5, <1>6, <1>7 DEF IInv

\* A workload that gets Pods during a capture is up.
LEMMA PodsFollowOK ==
    ASSUME IInv, NEW w \in Workloads, PodsFollow(w)
    PROVE  IInv'
  <1>1. /\ pods' = IF w \in up THEN pods \cup {w} ELSE pods \ {w}
        /\ watch' = [h \in Hosts |->
                       IF pc[h] = "capture" /\ w \in up
                       THEN [watch[h] EXCEPT !.ran = @ \cup {w}] ELSE watch[h]]
        /\ UNCHANGED <<maint, cmdLock, up, data, local, fileLock, archives, pc, cmd, file, mem,
                       todo, part, copy, ops, faults, foreign, stray, before, online>>
    BY DEF PodsFollow, disks, budget
  <1>2. watch' \in [Hosts -> Watches] /\ pods' \in SUBSET Workloads
    BY <1>1 DEF IInv, TypeOK, MoreTypes, Watches
  <1>3. TypeOK' /\ MoreTypes' BY <1>1, <1>2 DEF IInv, TypeOK, MoreTypes
  <1>4. Locking' BY <1>1 DEF IInv, Locking
  <1>5. JournalOK' BY <1>1 DEF IInv, JournalOK, Made, Content
  <1>6. up = {} /\ pods = {} => pods' = {} BY <1>1
  <1>7. Quiesced' BY <1>1, <1>6 DEF IInv, Quiesced, OneMoment, Content
  <1>8. ArchivesConsistent' BY <1>1 DEF IInv, ArchivesConsistent
  <1>9. ASSUME NEW h \in Hosts PROVE HostOK(h)'
    <2>1. Control(h)' BY <1>1 DEF IInv, HostOK, Control, Made
    <2>2. Publishing(h)' BY <1>1 DEF IInv, HostOK, Publishing
    <2>3. /\ watch'[h].stopped = watch[h].stopped
          /\ watch'[h].ran = IF pc[h] = "capture" /\ w \in up
                             THEN watch[h].ran \cup {w} ELSE watch[h].ran
      BY <1>1 DEF IInv, MoreTypes, Watches
    <2>4. Progress(h)'
      BY <1>1, <1>6, <2>3 DEF IInv, HostOK, Progress, Content
    <2> QED BY <2>1, <2>2, <2>4 DEF HostOK
  <1> QED BY <1>3, <1>4, <1>5, <1>7, <1>8, <1>9 DEF IInv

\* What a foreign start could break is claimed only where there was none.
LEMMA ForeignStartOK ==
    ASSUME IInv, NEW w \in Workloads, ForeignStart(w)
    PROVE  IInv'
  <1>1. /\ up' = up \cup {w}
        /\ UNCHANGED <<maint, cmdLock, pods, data, local, fileLock, archives, pc, cmd, file, mem,
                       todo, part, copy, watch, ops, faults, stray, before, online>>
    BY DEF ForeignStart, disks, process
  <1>2. foreign' \in 0..MaxForeign /\ foreign' # 0
    BY RecoveryAssumption DEF ForeignStart, IInv, TypeOK
  <1>3. TypeOK' /\ MoreTypes' BY <1>1, <1>2 DEF IInv, TypeOK, MoreTypes
  <1>4. Locking' BY <1>1 DEF IInv, Locking
  <1>5. JournalOK' BY <1>1 DEF IInv, JournalOK, Made, Content
  <1>6. Quiesced' BY <1>2 DEF Quiesced
  <1>7. ArchivesConsistent' BY <1>1 DEF IInv, ArchivesConsistent
  <1>8. ASSUME NEW h \in Hosts PROVE HostOK(h)'
    <2>1. Control(h)' BY <1>1 DEF IInv, HostOK, Control, Made
    <2>2. Publishing(h)' BY <1>1 DEF IInv, HostOK, Publishing
    <2>3. Progress(h)' BY <1>1, <1>2 DEF IInv, HostOK, Progress, Content
    <2> QED BY <2>1, <2>2, <2>3 DEF HostOK
  <1> QED BY <1>3, <1>4, <1>5, <1>6, <1>7, <1>8 DEF IInv

\* A foreign stop leaves a trace where the stopped workload had run in a capture.
LEMMA ForeignStopOK ==
    ASSUME IInv, NEW w \in Workloads, ForeignStop(w)
    PROVE  IInv'
  <1>1. /\ up' = up \ {w} /\ maint # NoJournal /\ maint.phase \notin {"verifying", "verified"}
        /\ watch' = [h \in Hosts |->
                       IF pc[h] \in {"capture", "checkagain"} /\ w \in watch[h].ran
                       THEN [watch[h] EXCEPT !.stopped = @ \cup {w}] ELSE watch[h]]
        /\ UNCHANGED <<maint, cmdLock, pods, data, local, fileLock, archives, pc, cmd, file, mem,
                       todo, part, copy, ops, faults, stray, before, online>>
    BY DEF ForeignStop, disks
  <1>2. foreign' \in 0..MaxForeign /\ foreign' # 0
    BY RecoveryAssumption DEF ForeignStop, IInv, TypeOK
  <1>3. watch' \in [Hosts -> Watches] BY <1>1 DEF IInv, MoreTypes, Watches
  <1>4. TypeOK' /\ MoreTypes' BY <1>1, <1>2, <1>3 DEF IInv, TypeOK, MoreTypes
  <1>5. Locking' BY <1>1 DEF IInv, Locking
  <1>6. JournalOK' BY <1>1 DEF IInv, JournalOK, Made, Content
  <1>7. Quiesced' BY <1>2 DEF Quiesced
  <1>8. ArchivesConsistent' BY <1>1 DEF IInv, ArchivesConsistent
  <1>9. ASSUME NEW h \in Hosts PROVE HostOK(h)'
    <2>1. Control(h)' BY <1>1 DEF IInv, HostOK, Control, Made
    <2>2. Publishing(h)' BY <1>1 DEF IInv, HostOK, Publishing
    <2>3. /\ watch'[h].ran = watch[h].ran
          /\ watch'[h].stopped = IF pc[h] \in {"capture", "checkagain"} /\ w \in watch[h].ran
                                 THEN watch[h].stopped \cup {w} ELSE watch[h].stopped
      BY <1>1 DEF IInv, MoreTypes, Watches
    <2>4. pc[h] \notin Starting BY <1>1 DEF IInv, HostOK, Control
    <2>5. Progress(h)'
      BY <1>1, <1>2, <2>3, <2>4 DEF IInv, HostOK, Progress, Content, Starting
    <2> QED BY <2>1, <2>2, <2>5 DEF HostOK
  <1> QED BY <1>4, <1>5, <1>6, <1>7, <1>8, <1>9 DEF IInv

-----------------------------------------------------------------------------
(* Steps of the command that holds the lock                                *)

\* What has to be shown of such a step.
LEMMA InsideOK ==
    ASSUME IInv, NEW h \in Hosts, pc[h] \notin Outside, NEW q, Go(h, q),
           UNCHANGED <<cmdLock, online, cmd, file>>,
           \A n \in Operations : archives[n] # Unmade => archives'[n] # Unmade,
           TypeOK', MoreTypes', JournalOK', Quiesced', ArchivesConsistent', HostOK(h)'
    PROVE  IInv'
  <1>1. \A g \in Hosts \ {h} : HostOK(g)' BY OthersOutside
  <1>2. cmdLock' = h /\ online' = "idle"
        /\ \A g \in Hosts \ {h} : pc'[g] \in Outside
    BY Alone DEF Go, IInv, MoreTypes
  <1>3. Locking' BY <1>2 DEF Locking
  <1> QED BY <1>1, <1>3 DEF IInv

\* Where only variables of the command itself change.
LEMMA MoveOK ==
    ASSUME IInv, NEW h \in Hosts, pc[h] \notin Outside, NEW q \in Points, Go(h, q),
           UNCHANGED <<maint, cmdLock, up, pods, data, fileLock, archives, ops, faults,
                       foreign, stray, before, online, cmd, file>>,
           local' \in SUBSET Hosts, mem' \in [Hosts -> Journals],
           todo' \in [Hosts -> SUBSET Workloads], part' \in [Hosts -> 1..(Components + 1)],
           DOMAIN copy' = Hosts, watch' \in [Hosts -> Watches], HostOK(h)'
    PROVE  IInv'
  <1>1. pc' \in [Hosts -> Points] BY DEF Go, IInv, MoreTypes
  <1>2. TypeOK' /\ MoreTypes' BY <1>1 DEF IInv, TypeOK, MoreTypes
  <1>3. JournalOK' /\ Quiesced' /\ ArchivesConsistent' BY ClusterSame
  <1> QED BY <1>2, <1>3, InsideOK

\* A saved entry, with what the command that saved it must be.
LEMMA SaveOK ==
    ASSUME IInv, NEW h \in Hosts, pc[h] \notin Outside, NEW j \in Entries, Save(h, j),
           UNCHANGED <<cmdLock, up, pods, data, local, fileLock, cmd, file, todo, part,
                       copy, watch, faults, foreign, stray, online>>,
           ops' \in 0..MaxOps, before' \in [Parts -> Values],
           archives' \in [Operations -> Archives \cup {Unmade}],
           \A n \in Operations : archives[n] # Unmade => archives'[n] # Unmade,
           j.phase \in {"quiescing", "paused"} => cmd[h] \in {"create", "apply"},
           j.phase = "captured" => cmd[h] \in {"create", "abort"},
           j.phase = "captured" /\ cmd[h] = "create" => archives'[j.n] # Unmade,
           j.phase = "restoring" => cmd[h] \in {"apply", "retry"},
           j.phase \in {"quiescing", "paused"} /\ cmd[h] = "create" => j.op = "backup",
           j.phase \in {"quiescing", "paused"} /\ cmd[h] = "apply" => j.op = "restore",
           JournalOK', Quiesced', ArchivesConsistent'
    PROVE  IInv'
  <1>1. Go(h, "file") /\ maint' = j /\ mem' = [mem EXCEPT ![h] = j] BY DEF Save
  <1>2. /\ pc' \in [Hosts -> Points] /\ pc'[h] = "file"
        /\ mem' \in [Hosts -> Journals] /\ mem'[h] = maint' /\ maint' # NoJournal
        /\ maint' \in Journals
    BY <1>1, JournalTypes DEF Go, IInv, TypeOK, MoreTypes, Points, Holding
  <1>3. TypeOK' BY <1>2 DEF IInv, TypeOK, Archives
  <1>4. MoreTypes' BY <1>2 DEF IInv, MoreTypes
  <1>5. Made(file[h])' BY DEF IInv, HostOK, Control, Made
  <1>6. Control(h)'
    BY <1>1, <1>2, <1>5 DEF Control, Capturing, Starting
  <1>7. Publishing(h)' /\ Progress(h)' BY <1>2 DEF Publishing, Progress
  <1> QED BY <1>1, <1>3, <1>4, <1>6, <1>7, InsideOK DEF HostOK

\* The journal of a command that holds it, and its fields.
LEMMA Held ==
    ASSUME IInv, NEW h \in Hosts, pc[h] \in Holding
    PROVE  /\ mem[h] = maint /\ maint # NoJournal /\ maint \in Entries
           /\ pc[h] \notin Outside
  BY JournalTypes DEF IInv, HostOK, Control, TypeOK, Holding, Capturing, Starting, Outside

\* A maintenance starts with data untouched and everything recorded as it ran.
LEMMA BeginOK ==
    ASSUME IInv, NEW h \in Hosts, Begin(h)
    PROVE  IInv'
  <1> DEFINE j == [n |-> ops + 1, op |-> IF cmd[h] = "create" THEN "backup" ELSE "restore",
                   phase |-> "quiescing", backup |-> None, safety |-> None, saved |-> up]
  <1>1. /\ pc[h] = "begin" /\ ops < MaxOps /\ ops' = ops + 1 /\ Save(h, j) /\ before' = data
        /\ UNCHANGED <<cmdLock, up, pods, data, local, fileLock, archives, cmd, file, todo,
                       part, copy, watch, faults, foreign, stray, online>>
    BY DEF Begin, disks
  <1>2. ops' \in 0..MaxOps /\ ops + 1 \in Operations
    BY <1>1, RecoveryAssumption DEF IInv, TypeOK, Operations
  <1>3. j \in Entries BY <1>2 DEF Entries, Phases, IInv, TypeOK
  <1>4. pc[h] \notin Outside /\ cmd[h] \in {"create", "apply"}
    BY <1>1 DEF IInv, HostOK, Control, Outside
  <1>5. /\ maint' = j /\ j.phase = "quiescing" /\ j.safety = None
        /\ cmd[h] = "create" => j.op = "backup"
        /\ cmd[h] = "apply" => j.op = "restore"
    BY <1>1 DEF Save
  <1>6. JournalOK'
    <2> HIDE DEF j
    <2> QED BY <1>1, <1>5 DEF JournalOK
  <1>7. Quiesced' BY <1>1 DEF Quiesced, OneMoment
  <1>8. ArchivesConsistent' BY <1>1 DEF IInv, ArchivesConsistent
  <1>9. before' \in [Parts -> Values] /\ archives' \in [Operations -> Archives \cup {Unmade}]
    BY <1>1 DEF IInv, TypeOK, MoreTypes
  <1> HIDE DEF j
  <1> QED BY <1>1, <1>2, <1>3, <1>4, <1>5, <1>6, <1>7, <1>8, <1>9, SaveOK

\* Saving an entry and nothing else.
LEMMA SaveOnlyOK ==
    ASSUME IInv, NEW h \in Hosts, pc[h] \notin Outside, NEW j \in Entries, Save(h, j),
           UNCHANGED <<cmdLock, up, pods, data, local, fileLock, archives, cmd, file, todo,
                       part, copy, watch, ops, faults, foreign, stray, before, online>>,
           j.phase \in {"quiescing", "paused"} => cmd[h] \in {"create", "apply"},
           j.phase = "captured" => cmd[h] \in {"abort"},
           j.phase = "restoring" => cmd[h] \in {"apply", "retry"},
           j.phase \in {"quiescing", "paused"} /\ cmd[h] = "create" => j.op = "backup",
           j.phase \in {"quiescing", "paused"} /\ cmd[h] = "apply" => j.op = "restore",
           JournalOK', Quiesced'
    PROVE  IInv'
  <1>1. ops' \in 0..MaxOps /\ before' \in [Parts -> Values]
        /\ archives' \in [Operations -> Archives \cup {Unmade}]
    BY DEF IInv, TypeOK, MoreTypes
  <1>2. ArchivesConsistent' BY DEF IInv, ArchivesConsistent
  <1> QED BY <1>1, <1>2, SaveOK

\* A command that finds a journal takes over exactly what it says.
LEMMA LoadOK ==
    ASSUME IInv, NEW h \in Hosts, Load(h)
    PROVE  IInv'
  <1>1. /\ pc[h] = "load" /\ maint # NoJournal /\ Allowed(Entering(h), maint, file[h])
        /\ UNCHANGED <<cmdLock, up, pods, data, local, fileLock, archives, cmd, file, todo,
                       part, copy, watch, ops, faults, foreign, stray, before, online>>
    BY DEF Load, disks, budget
  <1>2. /\ cmd[h] \in {"retry", "verify", "resume", "abort"} /\ pc[h] \notin Outside
        /\ maint \in Entries /\ file[h] \in 0..MaxOps /\ Made(file[h])
    BY <1>1, JournalTypes DEF IInv, HostOK, Control, Outside, TypeOK
  <1>3. Entering(h) \in {"retry", "verify", "resume", "abort"}
        /\ (Entering(h) \in {"retry", "abort", "resume"} => cmd[h] = Entering(h))
    BY <1>2 DEF Entering
  <1>4. CASE Entering(h) = "retry"
    <2> DEFINE j == [maint EXCEPT !.phase = "restoring", !.backup = file[h]]
    <2>1. Save(h, j) BY <1>4 DEF Load, Retrying
    <2>2. /\ maint.op = "restore" /\ maint.safety # None
          /\ maint.phase \in {"restoring", "restored", "verifying", "verified"}
      BY <1>1, <1>4 DEF Allowed
    <2>3. j \in Entries /\ j.phase = "restoring" /\ j.op = "restore" /\ j.backup = file[h]
          /\ j.safety = maint.safety
      <3>1. j \in Entries BY <1>2 DEF Entries, Phases
      <3> QED BY <1>2, <2>2, <3>1 DEF Entries
    <2>4. maint' = j BY <2>1 DEF Save
    <2> HIDE DEF j
    <2>5. file[h] # None BY <1>2, RecoveryAssumption
    <2>6. JournalOK' BY <1>1, <1>2, <2>2, <2>3, <2>4, <2>5 DEF IInv, JournalOK, Made
    <2>7. Quiesced'
      <3>1. j # NoJournal BY <2>3, JournalTypes
      <3> QED BY <1>1, <2>3, <2>4, <3>1 DEF IInv, Quiesced, OneMoment, Content
    <2> QED BY <1>1, <1>2, <1>3, <1>4, <2>1, <2>3, <2>6, <2>7, SaveOnlyOK
  <1>5. CASE Entering(h) = "verify"
    <2> DEFINE j == [maint EXCEPT !.phase = "verifying"]
    <2>1. Save(h, j) BY <1>5 DEF Load
    <2>2. maint.phase \in {"captured", "restored", "verifying", "verified"}
      BY <1>1, <1>5 DEF Allowed
    <2>3. j \in Entries /\ j.phase = "verifying" /\ j.op = maint.op /\ j.backup = maint.backup
          /\ j.safety = maint.safety /\ j.saved = maint.saved
      <3>1. j \in Entries BY <1>2 DEF Entries, Phases
      <3> QED BY <1>2, <3>1 DEF Entries
    <2>4. maint' = j BY <2>1 DEF Save
    <2> HIDE DEF j
    <2>6. JournalOK' BY <1>1, <1>2, <2>2, <2>3, <2>4 DEF IInv, JournalOK, Made, Content
    <2>7. Quiesced' BY <1>1, <2>2 DEF IInv, Quiesced, OneMoment, Content
    <2> QED BY <1>1, <1>2, <2>1, <2>3, <2>6, <2>7, SaveOnlyOK
  <1>6. CASE Entering(h) = "abort"
    <2> DEFINE j == [maint EXCEPT !.op = "backup", !.phase = "captured"]
    <2>1. Save(h, j) BY <1>6 DEF Load
    <2>2. maint.phase \in {"quiescing", "paused", "captured"}
      BY <1>1, <1>6 DEF Allowed
    <2>3. j \in Entries /\ j.phase = "captured" /\ j.op = "backup" /\ j.backup = maint.backup
          /\ j.safety = maint.safety
      <3>1. j \in Entries BY <1>2 DEF Entries, Phases
      <3> QED BY <1>2, <3>1 DEF Entries
    <2>4. maint' = j BY <2>1 DEF Save
    <2> HIDE DEF j
    <2>6. JournalOK' BY <1>1, <1>2, <2>2, <2>3, <2>4 DEF IInv, JournalOK
    <2>7. Quiesced' BY <1>1, <2>2 DEF IInv, Quiesced, OneMoment, Content
    <2> QED BY <1>1, <1>2, <1>3, <1>6, <2>1, <2>3, <2>6, <2>7, SaveOnlyOK
  <1>7. CASE Entering(h) = "resume"
    <2>1. mem' = [mem EXCEPT ![h] = maint] /\ Go(h, "recheck") /\ UNCHANGED maint
      BY <1>7 DEF Load
    <2>2. maint.phase = "verified" BY <1>1, <1>7 DEF Allowed
    <2>3. pc'[h] = "recheck" /\ mem'[h] = maint /\ "recheck" \in Points
          /\ mem' \in [Hosts -> Journals]
      BY <2>1 DEF Go, IInv, TypeOK, MoreTypes, Points, Holding
    <2>4. Control(h)'
      BY <1>1, <1>2, <2>1, <2>2, <2>3 DEF Control, Made, Capturing, Starting
    <2>5. Publishing(h)' /\ Progress(h)' BY <2>3 DEF Publishing, Progress
    <2> QED BY <1>1, <1>2, <2>1, <2>3, <2>4, <2>5, MoveOK DEF IInv, TypeOK, MoreTypes, HostOK
  <1> QED BY <1>3, <1>4, <1>5, <1>6, <1>7

\* The journal in the cluster is written before what it announces is done.
LEMMA WriteFileOK ==
    ASSUME IInv, NEW h \in Hosts, WriteFile(h)
    PROVE  IInv'
  <1> DEFINE q == AfterSave(h)
  <1>1. /\ pc[h] = "file" /\ local' = local \cup {h} /\ Go(h, q)
        /\ todo' = [todo EXCEPT ![h] =
                      CASE q = "stop" -> Applications
                        [] q = "startup" -> mem[h].saved \cap Offline
                        [] OTHER -> {}]
        /\ UNCHANGED <<maint, cmdLock, up, pods, data, fileLock, archives, cmd, file, mem, part,
                       copy, watch, ops, faults, foreign, stray, before, online>>
    BY DEF WriteFile, cluster, budget
  <1>2. mem[h] = maint /\ maint # NoJournal /\ maint \in Entries /\ pc[h] \notin Outside
    BY <1>1, Held DEF Holding
  <1>3. /\ maint.phase = "quiescing" => q = "stop"
        /\ maint.phase = "paused" => q = "assert"
        /\ maint.phase = "captured" => q = IF cmd[h] = "create" THEN "publish" ELSE "load"
        /\ maint.phase = "restoring" => q = IF cmd[h] = "apply" THEN "reassert" ELSE "stop"
        /\ maint.phase = "verifying" => q = "startup"
        /\ maint.phase \in {"restored", "verified"} => q = "end"
        /\ maint.phase \in Phases /\ maint.saved \in SUBSET Workloads
    BY <1>2 DEF AfterSave, Entries
  <1> HIDE DEF q
  <1>4. q \in {"stop", "assert", "publish", "load", "reassert", "startup", "end"}
    BY <1>3 DEF Phases
  <1>5. q \in Points /\ pc'[h] = q
    BY <1>1, <1>4 DEF Go, IInv, MoreTypes, Points, Holding, Capturing, Starting
  <1>6. /\ maint.phase \in {"quiescing", "paused"} => cmd[h] \in {"create", "apply"}
        /\ maint.phase = "captured" => cmd[h] \in {"create", "abort"}
        /\ maint.phase = "captured" /\ cmd[h] = "create" => archives[maint.n] # Unmade
        /\ maint.phase = "restoring" => cmd[h] \in {"apply", "retry"}
        /\ maint.phase \in {"quiescing", "paused"} =>
              /\ cmd[h] = "create" => maint.op = "backup"
              /\ cmd[h] = "apply" => maint.op = "restore"
        /\ Made(file[h])
    BY <1>1 DEF IInv, HostOK, Control
  <1>7. todo' \in [Hosts -> SUBSET Workloads]
        /\ (q = "startup" => todo'[h] = maint.saved \cap Offline)
    BY <1>1, <1>2, <1>3 DEF IInv, TypeOK, Workloads
  <1>8. Control(h)'
    <2>1. mem'[h] = maint' /\ maint' # NoJournal BY <1>1, <1>2
    <2>2. Made(file[h])' BY <1>1, <1>6 DEF Made
    <2>3. q = "load" => cmd[h] \in {"retry", "verify", "resume", "abort"}
      BY <1>3, <1>6 DEF Phases
    <2>4. q = "stop" => \/ maint.phase = "quiescing" /\ cmd[h] \in {"create", "apply"}
                        \/ maint.phase = "restoring" /\ cmd[h] = "retry"
      BY <1>3, <1>6 DEF Phases
    <2>5. /\ q \in Capturing => q = "assert" /\ maint.phase = "paused"
          /\ q = "reassert" => maint.phase = "restoring"
          /\ q \in Starting => maint.phase = "verifying"
      BY <1>3, <1>4 DEF Phases, Capturing, Starting
    <2> QED BY <1>1, <1>4, <1>5, <1>6, <2>1, <2>2, <2>3, <2>4, <2>5 DEF Control
  <1>9. Publishing(h)'
    <2>1. q = "publish" => maint.phase = "captured" /\ cmd[h] = "create"
      BY <1>3 DEF Phases
    <2> QED BY <1>1, <1>2, <1>5, <1>6, <2>1 DEF Publishing
  <1>10. Progress(h)' BY <1>1, <1>4, <1>5, <1>7 DEF Progress
  <1> QED BY <1>1, <1>2, <1>5, <1>7, <1>8, <1>9, <1>10, MoveOK
          DEF IInv, TypeOK, MoreTypes, HostOK

\* Stopping a workload: nothing is claimed to be up by then.
LEMMA ScaleOK ==
    ASSUME IInv, NEW h \in Hosts, ScaleDown(h) \/ ScaleOffline(h)
    PROVE  IInv'
  <1>1. PICK w \in todo[h] : todo' = [todo EXCEPT ![h] = @ \ {w}] /\ up' = up \ {w}
    BY DEF ScaleDown, ScaleOffline
  <1>2. /\ pc[h] \in {"stop", "stopoffline"}
        /\ UNCHANGED <<maint, cmdLock, pods, data, local, fileLock, archives, pc, cmd, file,
                       mem, part, copy, watch, ops, faults, foreign, stray, before, online>>
    BY DEF ScaleDown, ScaleOffline, disks, budget
  <1>3. Go(h, pc[h]) BY <1>2 DEF Go, IInv, MoreTypes
  <1>4. pc[h] \notin Outside /\ maint.phase \in {"quiescing", "restoring"}
    BY <1>2 DEF IInv, HostOK, Control, Outside
  <1>5. todo' \in [Hosts -> SUBSET Workloads] /\ up' \in SUBSET Workloads
    BY <1>1 DEF IInv, TypeOK
  <1>6. TypeOK' /\ MoreTypes' BY <1>2, <1>5 DEF IInv, TypeOK, MoreTypes
  <1>7. JournalOK' BY <1>2, <1>4 DEF IInv, JournalOK, Made, Content
  <1>8. Quiesced' BY <1>1, <1>2 DEF IInv, Quiesced, OneMoment, Content
  <1>9. ArchivesConsistent' BY <1>2 DEF IInv, ArchivesConsistent
  <1>10. HostOK(h)'
    <2>1. Control(h)' BY <1>2 DEF IInv, HostOK, Control, Made
    <2>2. Publishing(h)' /\ Progress(h)' BY <1>2 DEF Publishing, Progress
    <2> QED BY <2>1, <2>2 DEF HostOK
  <1> QED BY <1>2, <1>3, <1>4, <1>6, <1>7, <1>8, <1>9, <1>10, InsideOK

\* A stopped workload stays stopped for the capture.
LEMMA StoppedOK ==
    ASSUME IInv, NEW h \in Hosts, Stopped(h)
    PROVE  IInv'
  <1>1. /\ pc[h] = "stop" /\ Go(h, "stopoffline") /\ todo' = [todo EXCEPT ![h] = Offline]
        /\ UNCHANGED <<maint, cmdLock, up, pods, data, local, fileLock, archives, cmd, file,
                       mem, part, copy, watch, ops, faults, foreign, stray, before, online>>
    BY DEF Stopped, cluster, disks, budget
  <1>2. /\ pc'[h] = "stopoffline" /\ "stopoffline" \in Points /\ pc[h] \notin Outside
        /\ todo' \in [Hosts -> SUBSET Workloads]
    BY <1>1 DEF Go, IInv, TypeOK, MoreTypes, Points, Holding, Outside, Workloads
  <1>3. Control(h)'
    BY <1>1, <1>2 DEF IInv, HostOK, Control, Made, Holding, Capturing, Starting
  <1>4. Publishing(h)' /\ Progress(h)' BY <1>2 DEF Publishing, Progress
  <1> QED BY <1>1, <1>2, <1>3, <1>4, MoveOK DEF IInv, TypeOK, MoreTypes, HostOK

\* With every writer paused the data belong to one moment.
LEMMA PausedOK ==
    ASSUME IInv, NEW h \in Hosts, Paused(h)
    PROVE  IInv'
  <1>1. /\ pc[h] = "stopoffline"
        /\ UNCHANGED <<cmdLock, up, pods, data, local, fileLock, archives, cmd, file, todo,
                       part, copy, watch, ops, faults, foreign, stray, before, online>>
    BY DEF Paused, disks, budget
  <1>2. /\ mem[h] = maint /\ maint # NoJournal /\ maint \in Entries /\ pc[h] \notin Outside
    BY <1>1, Held DEF Holding
  <1>3. \/ maint.phase = "quiescing" /\ cmd[h] \in {"create", "apply"}
        \/ maint.phase = "restoring" /\ cmd[h] = "retry"
    BY <1>1 DEF IInv, HostOK, Control
  <1>4. CASE cmd[h] = "retry"
    <2>1. Go(h, "reassert") /\ UNCHANGED <<maint, mem>> BY <1>4 DEF Paused
    <2>2. pc'[h] = "reassert" /\ "reassert" \in Points
      BY <2>1 DEF Go, IInv, MoreTypes, Points, Holding
    <2>3. Made(file[h])' BY <1>1 DEF IInv, HostOK, Control, Made
    <2>4. Control(h)'
      BY <1>1, <1>2, <1>3, <1>4, <2>1, <2>2, <2>3 DEF Control, Capturing, Starting
    <2>5. Publishing(h)' /\ Progress(h)' BY <2>2 DEF Publishing, Progress
    <2> QED BY <1>1, <1>2, <2>1, <2>2, <2>4, <2>5, MoveOK DEF IInv, TypeOK, MoreTypes, HostOK
  <1>5. CASE cmd[h] # "retry"
    <2> DEFINE j == [maint EXCEPT !.phase = "paused"]
    <2>1. Save(h, j) BY <1>2, <1>5 DEF Paused
    <2>2. maint.phase = "quiescing" /\ cmd[h] \in {"create", "apply"} BY <1>3, <1>5
    <2>3. j \in Entries /\ j.phase = "paused" /\ j.op = maint.op /\ j.safety = maint.safety
      <3>1. j \in Entries BY <1>2 DEF Entries, Phases
      <3> QED BY <1>2, <3>1 DEF Entries
    <2>4. maint' = j BY <2>1 DEF Save
    <2> HIDE DEF j
    <2>5. JournalOK' BY <1>1, <1>2, <2>2, <2>3, <2>4 DEF IInv, JournalOK
    <2>6. Quiesced' BY <1>1, <2>2 DEF IInv, Quiesced, OneMoment, Content
    <2>7. /\ cmd[h] = "create" => maint.op = "backup"
          /\ cmd[h] = "apply" => maint.op = "restore"
      BY <1>1, <2>2 DEF IInv, HostOK, Control
    <2> QED BY <1>1, <1>2, <2>1, <2>2, <2>3, <2>5, <2>6, <2>7, SaveOnlyOK
  <1> QED BY <1>4, <1>5

\* Everything is down: a capture begins, ends, or the overwrite begins.
LEMMA AssertOK ==
    ASSUME IInv, NEW h \in Hosts, Assert(h)
    PROVE  IInv'
  <1> DEFINE q == CASE pc[h] = "assert" -> "capture"
                    [] pc[h] = "checkagain" -> "pack"
                    [] pc[h] = "reassert" -> "overwrite"
  <1>1. /\ pc[h] \in {"assert", "checkagain", "reassert"} /\ up = {} /\ pods = {} /\ Go(h, q)
        /\ part' = [part EXCEPT ![h] = 1]
        /\ copy' = IF pc[h] = "assert" THEN [copy EXCEPT ![h] = data] ELSE copy
        /\ watch' = IF pc[h] = "assert" THEN [watch EXCEPT ![h] = Unwatched] ELSE watch
        /\ UNCHANGED <<maint, cmdLock, up, pods, data, local, fileLock, archives, cmd, file,
                       mem, todo, ops, faults, foreign, stray, before, online>>
    BY DEF Assert, AllPaused, cluster, disks, budget
  <1>2. /\ pc[h] = "assert" => q = "capture"
        /\ pc[h] = "checkagain" => q = "pack"
        /\ pc[h] = "reassert" => q = "overwrite"
    BY <1>1
  <1> HIDE DEF q
  <1>3. /\ pc'[h] = q /\ q \in Points
        /\ part' \in [Hosts -> 1..(Components + 1)] /\ part'[h] = 1
        /\ DOMAIN copy' = Hosts /\ watch' \in [Hosts -> Watches]
        /\ pc[h] = "assert" => copy'[h] = data /\ watch'[h].ran = {}
    BY <1>1, <1>2, RecoveryAssumption
    DEF Go, IInv, TypeOK, MoreTypes, Points, Holding, Capturing, Unwatched, Watches
  <1>4. mem[h] = maint /\ maint # NoJournal /\ pc[h] \notin Outside
    BY <1>1, Held DEF Holding, Capturing
  <1>5. /\ pc[h] \in Capturing => maint.phase = "paused" /\ cmd[h] \in {"create", "apply"}
        /\ pc[h] \in Capturing => /\ cmd[h] = "create" => maint.op = "backup"
                                  /\ cmd[h] = "apply" => maint.op = "restore"
        /\ pc[h] = "reassert" => maint.phase = "restoring"
        /\ Made(file[h])
    BY DEF IInv, HostOK, Control
  <1>6. Control(h)'
    <2>1. q \in Capturing => pc[h] \in Capturing BY <1>1, <1>2 DEF Capturing
    <2>2. q \in {"capture", "pack", "overwrite"} /\ q \notin Starting
      BY <1>1, <1>2 DEF Starting
    <2>3. Made(file[h])' BY <1>1, <1>5 DEF Made
    <2>4. q = "overwrite" => maint.phase = "restoring" BY <1>1, <1>2, <1>5
    <2> QED BY <1>1, <1>3, <1>4, <1>5, <2>1, <2>2, <2>3, <2>4 DEF Control
  <1>7. Publishing(h)' BY <1>1, <1>2, <1>3 DEF Publishing
  <1>8. Progress(h)'
    <2>1. CASE pc[h] = "assert" BY <1>1, <1>2, <1>3, <2>1 DEF Progress
    <2>2. CASE pc[h] = "checkagain"
      BY <1>1, <1>2, <1>3, <2>2 DEF IInv, HostOK, Progress
    <2>3. CASE pc[h] = "reassert" BY <1>1, <1>2, <1>3, <2>3 DEF Progress, Parts
    <2> QED BY <1>1, <2>1, <2>2, <2>3
  <1> QED BY <1>1, <1>3, <1>4, <1>6, <1>7, <1>8, MoveOK DEF IInv, TypeOK, MoreTypes, HostOK

\* A captured component is that of the moment the writers stopped.
LEMMA CaptureOK ==
    ASSUME IInv, NEW h \in Hosts, Capture(h)
    PROVE  IInv'
  <1>1. /\ pc[h] = "capture"
        /\ UNCHANGED <<maint, cmdLock, up, pods, data, local, fileLock, archives, cmd, file,
                       mem, todo, watch, ops, faults, foreign, stray, before, online>>
    BY DEF Capture, cluster, disks, budget
  <1>2. mem[h] = maint /\ maint # NoJournal /\ pc[h] \notin Outside
    BY <1>1, Held DEF Holding, Capturing
  <1>3. copy[h] = data /\ data \in [Parts -> Values] /\ watch[h].ran \subseteq watch[h].stopped \cup up
    BY <1>1 DEF IInv, HostOK, Progress, TypeOK
  <1>4. PICK q \in {"capture", "checkagain"} : Go(h, q)
    BY <1>1 DEF Capture, AfterCapture, Go, IInv, MoreTypes
  <1>5. pc'[h] = q /\ q \in Points
    BY <1>4 DEF Go, IInv, MoreTypes, Points, Holding, Capturing
  <1>6. part' \in [Hosts -> 1..(Components + 1)]
    <2>1. part[h] \in 1..(Components + 1) BY DEF IInv, TypeOK
    <2>2. part[h] \in Nat /\ Components \in Nat BY <2>1, RecoveryAssumption
    <2>3. CASE part[h] > Components BY <2>3 DEF Capture, IInv, TypeOK
    <2>4. CASE ~(part[h] > Components)
      <3>1. part' = [part EXCEPT ![h] = @ + 1] BY <2>4 DEF Capture
      <3>2. part[h] + 1 \in 1..(Components + 1) BY <2>1, <2>2, <2>4
      <3> QED BY <3>1, <3>2 DEF IInv, TypeOK
    <2> QED BY <2>3, <2>4
  <1>7. DOMAIN copy' = Hosts /\ copy'[h] = data
    <2>1. CASE part[h] > Components BY <1>3, <2>1 DEF Capture, IInv, MoreTypes
    <2>2. CASE ~(part[h] > Components)
      <3>1. copy' = [copy EXCEPT ![h] = [copy[h] EXCEPT ![part[h]] = data[part[h]]]]
        BY <2>2 DEF Capture
      <3>2. [data EXCEPT ![part[h]] = data[part[h]]] = data BY <1>3
      <3> QED BY <1>3, <3>1, <3>2 DEF IInv, MoreTypes
    <2> QED BY <2>1, <2>2
  <1>8. Control(h)'
    <2>1. maint.phase = "paused" /\ cmd[h] \in {"create", "apply"}
          /\ (cmd[h] = "create" => maint.op = "backup")
          /\ (cmd[h] = "apply" => maint.op = "restore")
          /\ Made(file[h])'
      BY <1>1 DEF IInv, HostOK, Control, Capturing, Made
    <2>2. q \notin Starting BY DEF Starting
    <2> QED BY <1>1, <1>2, <1>5, <2>1, <2>2 DEF Control
  <1>9. Publishing(h)' BY <1>5 DEF Publishing
  <1>10. Progress(h)' BY <1>1, <1>3, <1>5, <1>7 DEF Progress
  <1> QED BY <1>1, <1>2, <1>4, <1>5, <1>6, <1>7, <1>8, <1>9, <1>10, MoveOK
          DEF IInv, TypeOK, MoreTypes, HostOK

\* The archive holds what the operation found, and every workload that ran
\* meanwhile was stopped by another controller.
LEMMA PackOK ==
    ASSUME IInv, NEW h \in Hosts, Pack(h)
    PROVE  IInv'
  <1> DEFINE r == [content |-> copy[h], during |-> watch[h], published |-> FALSE]
  <1>1. /\ pc[h] = "pack" /\ archives' = [archives EXCEPT ![mem[h].n] = r]
        /\ UNCHANGED <<cmdLock, up, pods, data, local, fileLock, cmd, file, todo, part, copy,
                       watch, ops, faults, foreign, stray, before, online>>
    BY DEF Pack, budget
  <1>2. mem[h] = maint /\ maint # NoJournal /\ maint \in Entries /\ pc[h] \notin Outside
    BY <1>1, Held DEF Holding, Capturing
  <1>3. /\ maint.phase = "paused" /\ cmd[h] \in {"create", "apply"}
        /\ cmd[h] = "create" => maint.op = "backup"
        /\ cmd[h] = "apply" => maint.op = "restore"
        /\ Made(file[h]) /\ file[h] \in 0..MaxOps
    BY <1>1 DEF IInv, HostOK, Control, Capturing, TypeOK
  <1>4. copy[h] = data /\ data \in [Parts -> Values] /\ data = before
        /\ watch[h] \in Watches /\ watch[h].ran \subseteq watch[h].stopped
        /\ maint.safety = None
    BY <1>1, <1>2, <1>3 DEF IInv, HostOK, Progress, TypeOK, MoreTypes, JournalOK
  <1>5. r \in Archives /\ r # Unmade /\ r.content = before /\ r.during.ran \subseteq r.during.stopped
    BY <1>4, RecoveryAssumption DEF Archives, Unmade
  <1> HIDE DEF r
  <1>6. maint.n \in Operations /\ maint.n \in 0..MaxOps
    <2>1. maint.n \in Operations BY <1>2 DEF Entries
    <2> QED BY <2>1, RecoveryAssumption DEF Operations
  <1>7. /\ archives' \in [Operations -> Archives \cup {Unmade}] /\ archives'[maint.n] = r
        /\ \A n \in Operations : archives[n] # Unmade => archives'[n] # Unmade
    BY <1>1, <1>2, <1>5, <1>6 DEF IInv, MoreTypes
  <1>8. ArchivesConsistent'
    BY <1>1, <1>2, <1>5, <1>6 DEF IInv, ArchivesConsistent, MoreTypes
  <1>9. Quiesced' BY <1>1, <1>4 DEF Quiesced, OneMoment
  <1>10. CASE cmd[h] = "create"
    <2> DEFINE j == [maint EXCEPT !.phase = "captured", !.backup = maint.n]
    <2>1. Save(h, j) BY <1>2, <1>10 DEF Pack
    <2>2. j \in Entries /\ j.phase = "captured" /\ j.op = "backup" /\ j.safety = None
          /\ j.n = maint.n
      <3>1. j \in Entries BY <1>2, <1>6 DEF Entries, Phases
      <3> QED BY <1>2, <1>3, <1>4, <1>10, <3>1 DEF Entries
    <2>3. maint' = j BY <2>1 DEF Save
    <2> HIDE DEF j
    <2>4. JournalOK' BY <1>1, <1>4, <2>2, <2>3 DEF JournalOK
    <2>5. archives'[j.n] # Unmade BY <1>5, <1>7, <2>2
    <2>6. ops' \in 0..MaxOps /\ before' \in [Parts -> Values] BY <1>1 DEF IInv, TypeOK
    <2> QED BY <1>1, <1>2, <1>7, <1>8, <1>9, <1>10, <2>1, <2>2, <2>4, <2>5, <2>6, SaveOK
  <1>11. CASE cmd[h] # "create"
    <2> DEFINE j == [maint EXCEPT !.backup = file[h], !.safety = maint.n]
    <2>1. Go(h, "publish") /\ UNCHANGED maint /\ mem' = [mem EXCEPT ![h] = j]
      <3>1. mem' = [mem EXCEPT ![h].backup = file[h], ![h].safety = mem[h].n]
        BY <1>11 DEF Pack
      <3>2. mem' = [mem EXCEPT ![h] = [mem[h] EXCEPT !.backup = file[h], !.safety = mem[h].n]]
        BY <3>1 DEF IInv, TypeOK
      <3> QED BY <1>2, <1>11, <3>2 DEF Pack
    <2>2. j \in Entries BY <1>2, <1>3, <1>6 DEF Entries
    <2>3. j.n = maint.n BY <1>2 DEF Entries
    <2>4. /\ pc' \in [Hosts -> Points] /\ pc'[h] = "publish"
          /\ mem' \in [Hosts -> Journals] /\ mem'[h] = j
      BY <2>1, <2>2, JournalTypes DEF Go, IInv, TypeOK, MoreTypes, Points
    <2>5. TypeOK' BY <1>1, <1>7, <2>1, <2>4 DEF IInv, TypeOK, Archives
    <2>6. MoreTypes' BY <1>1, <1>7, <2>4 DEF IInv, MoreTypes
    <2>7. JournalOK' BY <1>1, <1>2, <1>3, <1>4, <2>1 DEF JournalOK
    <2>8. Publishing(h)'
      BY <1>1, <1>2, <1>3, <1>5, <1>7, <1>11, <2>1, <2>3, <2>4 DEF Publishing
    <2>9. Made(file[h])' BY <1>1, <1>3, <1>7 DEF Made
    <2>10. Control(h)' BY <2>4, <2>9 DEF Control, Holding, Capturing, Starting
    <2>11. Progress(h)' BY <2>4 DEF Progress
    <2> QED BY <1>1, <1>2, <1>7, <1>8, <1>9, <2>1, <2>5, <2>6, <2>7, <2>8, <2>10, <2>11,
               InsideOK DEF HostOK
  <1> QED BY <1>10, <1>11

\* The overwrite is announced once the safety backup is published.
LEMMA PublishOK ==
    ASSUME IInv, NEW h \in Hosts, Publish(h)
    PROVE  IInv'
  <1>1. /\ pc[h] = "publish" /\ archives' = [archives EXCEPT ![mem[h].n].published = TRUE]
        /\ UNCHANGED <<cmdLock, up, pods, data, local, fileLock, cmd, file, todo, part, copy,
                       watch, ops, faults, foreign, stray, before, online>>
    BY DEF Publish, budget
  <1>2. /\ maint # NoJournal /\ maint \in Entries /\ mem[h].n = maint.n
        /\ archives[maint.n] # Unmade /\ pc[h] \notin Outside
        /\ Made(file[h]) /\ file[h] \in 0..MaxOps
    BY <1>1, JournalTypes DEF IInv, HostOK, Publishing, Control, TypeOK, Outside
  <1>3. maint.n \in Operations BY <1>2 DEF Entries
  <1>4. /\ archives' \in [Operations -> Archives \cup {Unmade}]
        /\ archives'[maint.n] # Unmade /\ archives'[maint.n].published
        /\ \A m \in Operations :
             /\ archives'[m].content = archives[m].content
             /\ archives'[m].during = archives[m].during
             /\ archives[m] # Unmade <=> archives'[m] # Unmade
    BY <1>1, <1>2, <1>3, Published DEF IInv
  <1>5. Made(file[h])' BY <1>1, <1>2, <1>4 DEF Made
  <1>6. CASE cmd[h] = "create"
    <2>1. Go(h, "end") /\ UNCHANGED <<maint, mem>> BY <1>6 DEF Publish
    <2>2. pc' \in [Hosts -> Points] /\ pc'[h] = "end"
      BY <2>1 DEF Go, IInv, MoreTypes, Points
    <2>3. TypeOK' BY <1>1, <1>4, <2>1 DEF IInv, TypeOK, Archives
    <2>4. MoreTypes' BY <1>1, <1>4, <2>2 DEF IInv, MoreTypes
    <2>5. JournalOK' /\ Quiesced' /\ ArchivesConsistent'
      BY <1>1, <1>2, <1>3, <2>1, PublishedCluster
    <2>6. Control(h)' BY <1>5, <2>2 DEF Control, Holding, Capturing, Starting
    <2>7. Publishing(h)' /\ Progress(h)' BY <2>2 DEF Publishing, Progress
    <2> QED BY <1>1, <1>2, <1>4, <2>1, <2>3, <2>4, <2>5, <2>6, <2>7, InsideOK DEF HostOK
  <1>7. CASE cmd[h] # "create"
    <2> DEFINE k == [maint EXCEPT !.backup = file[h], !.safety = maint.n]
               j == [k EXCEPT !.phase = "restoring"]
    <2>1. /\ cmd[h] = "apply" /\ maint.phase = "paused" /\ maint.op = "restore"
          /\ mem[h] = k /\ archives[maint.n].content = before
      BY <1>1, <1>7 DEF IInv, HostOK, Publishing
    <2>2. Save(h, j) BY <1>7, <2>1 DEF Publish
    <2>3. k \in Entries /\ k.op = "restore" /\ k.backup = file[h] /\ k.safety = maint.n
      <3>1. k \in Entries BY <1>2, <1>3 DEF Entries
      <3> QED BY <1>2, <2>1, <3>1 DEF Entries
    <2> HIDE DEF k
    <2>4. j \in Entries /\ j.phase = "restoring" /\ j.op = "restore" /\ j.backup = file[h]
          /\ j.safety = maint.n
      <3>1. j \in Entries BY <2>3 DEF Entries, Phases
      <3> QED BY <2>3, <3>1 DEF Entries
    <2>5. maint' = j BY <2>2 DEF Save
    <2> HIDE DEF j
    <2>6. file[h] # None BY <1>2, RecoveryAssumption
    <2>7. JournalOK'
      <3>1. /\ archives'[j.safety] # Unmade /\ archives'[j.safety].published
            /\ archives'[j.safety].content = before' /\ j.safety # None
        BY <1>1, <1>3, <1>4, <2>1, <2>4, RecoveryAssumption DEF Operations
      <3>2. Made(maint.backup)' /\ j.backup # None
        BY <1>1, <1>5, <2>4, <2>5, <2>6 DEF Made
      <3> QED BY <2>4, <2>5, <3>1, <3>2 DEF JournalOK, Made
    <2>8. Quiesced'
      <3>1. data = before BY <1>2, <2>1 DEF IInv, JournalOK
      <3> QED BY <1>1, <3>1 DEF Quiesced, OneMoment
    <2>9. ArchivesConsistent' BY <1>4 DEF IInv, ArchivesConsistent
    <2>10. ops' \in 0..MaxOps /\ before' \in [Parts -> Values] BY <1>1 DEF IInv, TypeOK
    <2> QED BY <1>1, <1>2, <1>4, <2>1, <2>2, <2>4, <2>7, <2>8, <2>9, <2>10, SaveOK
  <1> QED BY <1>6, <1>7

\* An archive that exists holds a value for each component, and data equal to
\* it are those of one moment.
LEMMA MadeContent ==
    ASSUME IInv, NEW b \in 0..MaxOps, Made(b)
    PROVE  /\ Content(b) \in [Parts -> Values]
           /\ Content(b) \in {before, Content(0)} \cup {archives[n].content : n \in Operations}
  <1>1. CASE b = 0 BY <1>1 DEF Content, Values
  <1>2. CASE b # 0
    <2>1. b \in Operations /\ archives[b] \in Archives BY <1>2 DEF Made, IInv, MoreTypes
    <2> QED BY <1>2, <2>1 DEF Content, Archives
  <1> QED BY <1>1, <1>2

\* Data are overwritten only in the phase that announced it.
LEMMA ApplyOK ==
    ASSUME IInv, NEW h \in Hosts, Apply(h)
    PROVE  IInv'
  <1>1. /\ pc[h] = "overwrite" /\ part[h] <= Components
        /\ data' = [data EXCEPT ![part[h]] = Content(mem[h].backup)[part[h]]]
        /\ part' = [part EXCEPT ![h] = @ + 1]
        /\ UNCHANGED <<maint, cmdLock, up, pods, local, fileLock, archives, pc, cmd, file, mem,
                       todo, copy, watch, ops, faults, foreign, stray, before, online>>
    BY DEF Apply, disks, budget
  <1>2. /\ mem[h] = maint /\ maint # NoJournal /\ maint \in Entries /\ pc[h] \notin Outside
    BY <1>1, Held DEF Holding
  <1>3. /\ maint.phase = "restoring" /\ maint.op = "restore"
        /\ maint.backup \in 0..MaxOps /\ Made(maint.backup)
    <2>1. maint.phase = "restoring" BY <1>1 DEF IInv, HostOK, Control
    <2>2. maint.op = "restore" /\ maint.backup # None /\ Made(maint.backup)
      BY <1>2, <2>1 DEF IInv, JournalOK
    <2>3. maint.backup \in 0..MaxOps \cup {None} BY <1>2 DEF Entries
    <2> QED BY <2>1, <2>2, <2>3
  <1> DEFINE b == Content(maint.backup)
  <1>4. b \in [Parts -> Values] BY <1>3, MadeContent
  <1>5. part[h] \in Nat /\ part[h] \in Parts /\ part[h] + 1 \in 1..(Components + 1)
    BY <1>1, RecoveryAssumption DEF IInv, TypeOK, Parts
  <1>6. /\ \A c \in Parts : c < part[h] => data[c] = b[c]
        /\ foreign = 0 => up = {} /\ pods = {}
        /\ data \in [Parts -> Values] /\ part \in [Hosts -> 1..(Components + 1)]
    BY <1>1 DEF IInv, HostOK, Progress, TypeOK
  <1>7. b' = b BY <1>1 DEF Content
  <1> HIDE DEF b
  <1>8. /\ data' \in [Parts -> Values] /\ part' \in [Hosts -> 1..(Components + 1)]
        /\ part'[h] = part[h] + 1 /\ data' = [data EXCEPT ![part[h]] = b[part[h]]]
    BY <1>1, <1>2, <1>4, <1>5, <1>6 DEF b
  <1>9. \A c \in Parts : c < part'[h] => data'[c] = b[c]
    BY <1>5, <1>6, <1>8 DEF Parts
  <1>10. TypeOK' /\ MoreTypes' BY <1>1, <1>8 DEF IInv, TypeOK, MoreTypes
  <1>11. JournalOK' BY <1>1, <1>2, <1>3 DEF IInv, JournalOK, Made
  <1>12. Quiesced' BY <1>1, <1>2, <1>3, <1>6 DEF Quiesced
  <1>13. ArchivesConsistent' BY <1>1 DEF IInv, ArchivesConsistent
  <1>14. Control(h)' BY <1>1 DEF IInv, HostOK, Control, Made
  <1>15. Publishing(h)' BY <1>1 DEF Publishing
  <1>16. Progress(h)' BY <1>1, <1>6, <1>7, <1>9 DEF Progress, b
  <1>17. Go(h, pc[h]) BY <1>1 DEF Go, IInv, MoreTypes
  <1> QED BY <1>1, <1>2, <1>10, <1>11, <1>12, <1>13, <1>14, <1>15, <1>16, <1>17, InsideOK
          DEF HostOK

\* When all are overwritten the data are those of the named archive.
LEMMA AppliedOK ==
    ASSUME IInv, NEW h \in Hosts, Applied(h)
    PROVE  IInv'
  <1> DEFINE j == [maint EXCEPT !.phase = "restored"]
  <1>1. /\ pc[h] = "overwrite" /\ part[h] > Components
        /\ UNCHANGED <<cmdLock, up, pods, data, local, fileLock, archives, cmd, file, todo,
                       part, copy, watch, ops, faults, foreign, stray, before, online>>
    BY DEF Applied, disks, budget
  <1>2. /\ mem[h] = maint /\ maint # NoJournal /\ maint \in Entries /\ pc[h] \notin Outside
    BY <1>1, Held DEF Holding
  <1>3. Save(h, j) BY <1>2 DEF Applied
  <1>4. /\ maint.phase = "restoring" /\ maint.op = "restore" /\ maint.safety # None
        /\ maint.backup \in 0..MaxOps /\ Made(maint.backup)
    <2>1. maint.phase = "restoring" BY <1>1 DEF IInv, HostOK, Control
    <2>2. maint.op = "restore" /\ maint.backup # None /\ Made(maint.backup)
          /\ maint.safety # None
      BY <1>2, <2>1 DEF IInv, JournalOK
    <2>3. maint.backup \in 0..MaxOps \cup {None} BY <1>2 DEF Entries
    <2> QED BY <2>1, <2>2, <2>3
  <1>5. data = Content(maint.backup)
    <2>1. Content(maint.backup) \in [Parts -> Values] BY <1>4, MadeContent
    <2>2. \A c \in Parts : c < part[h] BY <1>1, RecoveryAssumption DEF Parts, IInv, TypeOK
    <2>3. \A c \in Parts : data[c] = Content(maint.backup)[c]
      BY <1>1, <2>2 DEF IInv, HostOK, Progress
    <2>4. data \in [Parts -> Values] BY DEF IInv, TypeOK
    <2> QED BY <2>1, <2>3, <2>4
  <1>6. /\ j \in Entries /\ j.phase = "restored" /\ j.op = "restore"
        /\ j.backup = maint.backup /\ j.safety = maint.safety
    <2>1. j \in Entries BY <1>2 DEF Entries, Phases
    <2> QED BY <1>2, <1>4, <2>1 DEF Entries
  <1>7. maint' = j BY <1>3 DEF Save
  <1> HIDE DEF j
  <1>8. JournalOK'
    BY <1>1, <1>2, <1>4, <1>5, <1>6, <1>7 DEF IInv, JournalOK, Made, Content
  <1>9. Quiesced'
    <2>1. OneMoment BY <1>4, <1>5, MadeContent DEF OneMoment
    <2>2. OneMoment' BY <1>1, <2>1 DEF OneMoment, Content
    <2> QED BY <2>2 DEF Quiesced
  <1> QED BY <1>1, <1>2, <1>3, <1>6, <1>8, <1>9, SaveOnlyOK

\* Starting a workload that the journal records.
LEMMA StartWorkloadOK ==
    ASSUME IInv, NEW h \in Hosts, StartWorkload(h)
    PROVE  IInv'
  <1>1. PICK w \in todo[h] : todo' = [todo EXCEPT ![h] = @ \ {w}] /\ up' = up \cup {w}
    BY DEF StartWorkload
  <1>2. /\ pc[h] \in {"startup", "startapps"}
        /\ UNCHANGED <<maint, cmdLock, pods, data, local, fileLock, archives, pc, cmd, file,
                       mem, part, copy, watch, ops, faults, foreign, stray, before, online>>
    BY DEF StartWorkload, disks, budget
  <1>3. Go(h, pc[h]) BY <1>2 DEF Go, IInv, MoreTypes
  <1>4. pc[h] \notin Outside /\ maint.phase = "verifying"
    BY <1>2 DEF IInv, HostOK, Control, Outside, Starting
  <1>5. /\ todo' \in [Hosts -> SUBSET Workloads] /\ up' \in SUBSET Workloads
        /\ todo'[h] = todo[h] \ {w}
    BY <1>1 DEF IInv, TypeOK
  <1>6. TypeOK' /\ MoreTypes' BY <1>2, <1>5 DEF IInv, TypeOK, MoreTypes
  <1>7. JournalOK' BY <1>2, <1>4 DEF IInv, JournalOK, Made, Content
  <1>8. Quiesced' BY <1>2, <1>4 DEF IInv, Quiesced, OneMoment, Content
  <1>9. ArchivesConsistent' BY <1>2 DEF IInv, ArchivesConsistent
  <1>10. Control(h)' BY <1>2 DEF IInv, HostOK, Control, Made
  <1>11. Publishing(h)' BY <1>2 DEF Publishing
  <1>12. Progress(h)' BY <1>1, <1>2, <1>5 DEF IInv, HostOK, Progress
  <1> QED BY <1>2, <1>3, <1>4, <1>6, <1>7, <1>8, <1>9, <1>10, <1>11, <1>12, InsideOK DEF HostOK

\* Workloads start only on whole data.
LEMMA RoleStartedOK ==
    ASSUME IInv, NEW h \in Hosts, RoleStarted(h)
    PROVE  IInv'
  <1> DEFINE q == IF pc[h] = "startup" THEN "startapps" ELSE "health"
  <1>1. /\ pc[h] \in {"startup", "startapps"} /\ todo[h] = {} /\ Go(h, q)
        /\ pc[h] = "startup" => todo' = [todo EXCEPT ![h] = mem[h].saved \cap Applications]
        /\ pc[h] # "startup" => todo' = todo
        /\ UNCHANGED <<maint, cmdLock, up, pods, data, local, fileLock, archives, cmd, file,
                       mem, part, copy, watch, ops, faults, foreign, stray, before, online>>
    BY DEF RoleStarted, cluster, disks, budget
  <1>2. mem[h] = maint /\ maint # NoJournal /\ maint \in Entries /\ pc[h] \notin Outside
    BY <1>1, Held DEF Holding, Starting
  <1>3. /\ pc'[h] = q /\ q \in Points /\ todo' \in [Hosts -> SUBSET Workloads]
        /\ pc[h] = "startup" => todo'[h] = maint.saved \cap Applications
    BY <1>1, <1>2 DEF Go, IInv, TypeOK, MoreTypes, Points, Holding, Starting, Workloads
  <1>4. maint.phase = "verifying" /\ Made(file[h])'
    BY <1>1 DEF IInv, HostOK, Control, Starting, Made
  <1>5. Control(h)'
    BY <1>1, <1>2, <1>3, <1>4 DEF Control, Capturing
  <1>6. Publishing(h)' BY <1>3 DEF Publishing
  <1>7. maint.saved \subseteq Applications \cup Offline BY <1>2 DEF Entries, Workloads
  <1>8. Progress(h)'
    <2>1. CASE pc[h] = "startup"
      BY <1>1, <1>3, <2>1 DEF IInv, HostOK, Progress
    <2>2. CASE pc[h] = "startapps"
      <3>1. maint.saved \cap Offline \subseteq up /\ maint.saved \cap Applications \subseteq up
        BY <1>1, <2>2 DEF IInv, HostOK, Progress
      <3> QED BY <1>1, <1>3, <1>7, <2>2, <3>1 DEF Progress
    <2> QED BY <1>1, <2>1, <2>2
  <1> QED BY <1>1, <1>2, <1>3, <1>5, <1>6, <1>8, MoveOK DEF IInv, TypeOK, MoreTypes, HostOK

\* Verification needs every recorded workload up.
LEMMA VerifiedOK ==
    ASSUME IInv, NEW h \in Hosts, Verified(h)
    PROVE  IInv'
  <1> DEFINE j == [maint EXCEPT !.phase = "verified"]
  <1>1. /\ pc[h] = "health"
        /\ UNCHANGED <<cmdLock, up, pods, data, local, fileLock, archives, cmd, file, todo,
                       part, copy, watch, ops, faults, foreign, stray, before, online>>
    BY DEF Verified, disks, budget
  <1>2. /\ mem[h] = maint /\ maint # NoJournal /\ maint \in Entries /\ pc[h] \notin Outside
    BY <1>1, Held DEF Holding, Starting
  <1>3. Save(h, j) BY <1>2 DEF Verified
  <1>4. maint.phase = "verifying" /\ maint.saved \subseteq up
    BY <1>1 DEF IInv, HostOK, Control, Progress, Starting
  <1>6. /\ j \in Entries /\ j.phase = "verified" /\ j.op = maint.op
        /\ j.backup = maint.backup /\ j.safety = maint.safety /\ j.saved = maint.saved
    <2>1. j \in Entries BY <1>2 DEF Entries, Phases
    <2> QED BY <1>2, <2>1 DEF Entries
  <1>7. maint' = j BY <1>3 DEF Save
  <1> HIDE DEF j
  <1>8. JournalOK' BY <1>1, <1>2, <1>4, <1>6, <1>7 DEF IInv, JournalOK, Made, Content
  <1>9. Quiesced' BY <1>1, <1>4 DEF IInv, Quiesced, OneMoment, Content
  <1> QED BY <1>1, <1>2, <1>3, <1>6, <1>8, <1>9, SaveOnlyOK

\* The journal goes only when everything is one moment's and up.
LEMMA ResumeOK ==
    ASSUME IInv, NEW h \in Hosts, Resume(h)
    PROVE  IInv'
  <1>1. /\ pc[h] = "recheck" /\ maint' = NoJournal /\ Go(h, "unjournal")
        /\ UNCHANGED <<cmdLock, up, pods, data, local, fileLock, archives, cmd, file, mem, todo,
                       part, copy, watch, ops, faults, foreign, stray, before, online>>
    BY DEF Resume, disks, budget
  <1>2. maint.phase = "verified" /\ pc[h] \notin Outside
    BY <1>1 DEF IInv, HostOK, Control, Outside
  <1>3. pc' \in [Hosts -> Points] /\ pc'[h] = "unjournal"
    BY <1>1 DEF Go, IInv, MoreTypes, Points
  <1>4. NoJournal \in Journals BY DEF Journals
  <1>5. TypeOK' /\ MoreTypes' BY <1>1, <1>3, <1>4 DEF IInv, TypeOK, MoreTypes
  <1>6. JournalOK' BY <1>1 DEF JournalOK
  <1>7. Quiesced' BY <1>1, <1>2 DEF IInv, Quiesced, OneMoment, Content
  <1>8. ArchivesConsistent' BY <1>1 DEF IInv, ArchivesConsistent
  <1>9. Made(file[h])' BY <1>1 DEF IInv, HostOK, Control, Made
  <1>10. Control(h)' BY <1>3, <1>9 DEF Control, Holding, Capturing, Starting
  <1>11. Publishing(h)' /\ Progress(h)' BY <1>3 DEF Publishing, Progress
  <1> QED BY <1>1, <1>2, <1>5, <1>6, <1>7, <1>8, <1>10, <1>11, InsideOK DEF HostOK

\* The journal goes away only after verification.
LEMMA RemoveFileOK ==
    ASSUME IInv, NEW h \in Hosts, RemoveFile(h)
    PROVE  IInv'
  <1>1. /\ pc[h] = "unjournal" /\ local' = local \ {h} /\ Go(h, "end")
        /\ UNCHANGED <<maint, cmdLock, up, pods, data, fileLock, archives, cmd, file, mem, todo,
                       part, copy, watch, ops, faults, foreign, stray, before, online>>
    BY DEF RemoveFile, cluster, budget
  <1>2. pc'[h] = "end" /\ "end" \in Points /\ pc[h] \notin Outside
    BY <1>1 DEF Go, IInv, MoreTypes, Points, Outside
  <1>3. Made(file[h])' BY <1>1 DEF IInv, HostOK, Control, Made
  <1>4. Control(h)' BY <1>2, <1>3 DEF Control, Holding, Capturing, Starting
  <1>5. Publishing(h)' /\ Progress(h)' BY <1>2 DEF Publishing, Progress
  <1> QED BY <1>1, <1>2, <1>4, <1>5, MoveOK DEF IInv, TypeOK, MoreTypes, HostOK

-----------------------------------------------------------------------------
(* The invariant and what follows from it                                  *)

\* Without maintenance the invariant holds.
LEMMA InitOK == Init => IInv
  <1> SUFFICES ASSUME Init PROVE IInv
    OBVIOUS
  <1>1. NoJournal \in Journals /\ 0 \in 0..MaxOps /\ 1 \in 1..(Components + 1)
        /\ 0 \in 0..MaxFaults /\ 0 \in 0..MaxForeign /\ 0 \in 0..MaxStray
    BY RecoveryAssumption DEF Journals
  <1>2. TypeOK BY <1>1 DEF Init, TypeOK, Workloads, Values
  <1>3. MoreTypes BY DEF Init, MoreTypes, Points, Outside, Unwatched, Watches
  <1>4. Locking BY DEF Init, Locking, Outside
  <1>5. JournalOK BY DEF Init, JournalOK
  <1>6. Quiesced BY DEF Init, Quiesced, OneMoment
  <1>7. ArchivesConsistent BY DEF Init, ArchivesConsistent
  <1>8. ASSUME NEW h \in Hosts PROVE HostOK(h)
    <2>1. pc[h] = "idle" /\ file[h] = 0 BY DEF Init
    <2>2. Control(h) BY <2>1 DEF Control, Made, Holding, Capturing, Starting
    <2>3. Publishing(h) /\ Progress(h) BY <2>1 DEF Publishing, Progress
    <2> QED BY <2>2, <2>3 DEF HostOK
  <1> QED BY <1>2, <1>3, <1>4, <1>5, <1>6, <1>7, <1>8 DEF IInv

\* Every step of a command preserves it.
LEMMA StepOK ==
    ASSUME IInv, NEW h \in Hosts, Step(h)
    PROVE  IInv'
  <1>1. CASE LockRefused(h) \/ BeginRefused(h) \/ LoadRefused(h) \/ StopFails(h)
             \/ AssertFails(h) \/ Return(h)
    BY <1>1, RefusalsOK
  <1>2. CASE LockCluster(h) BY <1>2, LockClusterOK
  <1>3. CASE WriteFile(h) BY <1>3, WriteFileOK
  <1>4. CASE Begin(h) BY <1>4, BeginOK
  <1>5. CASE Load(h) BY <1>5, LoadOK
  <1>6. CASE ScaleDown(h) \/ ScaleOffline(h) BY <1>6, ScaleOK
  <1>7. CASE Stopped(h) BY <1>7, StoppedOK
  <1>8. CASE Paused(h) BY <1>8, PausedOK
  <1>9. CASE Assert(h) BY <1>9, AssertOK
  <1>10. CASE Capture(h) BY <1>10, CaptureOK
  <1>11. CASE Pack(h) BY <1>11, PackOK
  <1>12. CASE Publish(h) BY <1>12, PublishOK
  <1>13. CASE Apply(h) BY <1>13, ApplyOK
  <1>14. CASE Applied(h) BY <1>14, AppliedOK
  <1>15. CASE StartWorkload(h) BY <1>15, StartWorkloadOK
  <1>16. CASE RoleStarted(h) BY <1>16, RoleStartedOK
  <1>17. CASE Verified(h) BY <1>17, VerifiedOK
  <1>18. CASE Resume(h) BY <1>18, ResumeOK
  <1>19. CASE RemoveFile(h) BY <1>19, RemoveFileOK
  <1> QED BY <1>1, <1>2, <1>3, <1>4, <1>5, <1>6, <1>7, <1>8, <1>9, <1>10, <1>11, <1>12,
             <1>13, <1>14, <1>15, <1>16, <1>17, <1>18, <1>19 DEF Step

\* Every step of the system preserves it.
LEMMA NextOK == IInv /\ [Next]_vars => IInv'
  <1> SUFFICES ASSUME IInv, [Next]_vars PROVE IInv'
    OBVIOUS
  <1>1. CASE UNCHANGED vars
    <2>1. UNCHANGED <<maint, cmdLock, up, pods, data, local, fileLock, archives, pc, cmd, file,
                      mem, todo, part, copy, watch, ops, faults, foreign, stray, before, online>>
      BY <1>1 DEF vars, cluster, disks, process, budget
    <2>2. TypeOK' /\ MoreTypes' BY <2>1 DEF IInv, TypeOK, MoreTypes
    <2>3. Locking' BY <2>1 DEF IInv, Locking
    <2>4. JournalOK' /\ Quiesced' /\ ArchivesConsistent' BY <2>1, ClusterSame
    <2>5. \A h \in Hosts : HostOK(h)' BY <2>1, SameOK DEF IInv
    <2> QED BY <2>2, <2>3, <2>4, <2>5 DEF IInv
  <1>2. ASSUME NEW h \in Hosts,
               \/ NextCommand(h) \/ StrayCommand(h) \/ Step(h) \/ Unhealthy(h)
               \/ Fault(h) \/ Crash(h) \/ OperatorClears(h)
        PROVE IInv'
    BY <1>2, IssueOK, StepOK, UnhealthyOK, FaultOK, CrashOK, RefusalsOK
  <1>3. CASE OnlineLock \/ OnlineChecked \/ OnlineRefused \/ OnlineDone \/ OnlineCrash
             \/ OperatorClearsOnline
    BY <1>3, OnlineOK
  <1>4. ASSUME NEW n \in Operations, Upload(n) PROVE IInv' BY <1>4, UploadOK
  <1>5. ASSUME NEW w \in Workloads, PodsFollow(w) \/ ForeignStart(w) \/ ForeignStop(w)
        PROVE IInv'
    BY <1>5, PodsFollowOK, ForeignStartOK, ForeignStopOK
  <1> QED BY <1>1, <1>2, <1>3, <1>4, <1>5 DEF Next

\* The invariant holds in every reachable state.
THEOREM Invariance == Spec => []IInv
  BY InitOK, NextOK, PTL DEF Spec

\* The journals, locks, archives and data stay well typed.
THEOREM TypeCorrect == Spec => []TypeOK
  <1>1. IInv => TypeOK BY DEF IInv
  <1> QED BY <1>1, Invariance, PTL

\* AcquireClusterLock with rejectMaintenance: while the online worker works,
\* there is no maintenance journal and no command past its lock.
THEOREM OnlineIsExcluded == Spec => []OnlineExcluded
  <1>1. IInv => OnlineExcluded
    BY RecoveryAssumption DEF IInv, Locking, OnlineExcluded, Outside
  <1> QED BY <1>1, Invariance, PTL

\* Apply: data that differ from what the operation found are covered by a
\* published safety backup that retry accepts.
THEOREM SafetyComesFirst == Spec => []SafetyBeforeOverwrite
  <1>1. IInv => SafetyBeforeOverwrite
    <2> SUFFICES ASSUME IInv, maint # NoJournal, data # before
                 PROVE  /\ maint.safety # None /\ Retriable(maint, maint.safety)
                        /\ archives[maint.safety].published
                        /\ archives[maint.safety].content = before
      BY DEF SafetyBeforeOverwrite
    <2>1. maint.op \in {"backup", "restore"}
      BY JournalTypes DEF IInv, TypeOK, Entries
    <2> QED BY <2>1 DEF IInv, JournalOK, Retriable
  <1> QED BY <1>1, Invariance, PTL

\* Capture: a workload that ran during the capture of an archive was stopped
\* again by another controller before the second check.
THEOREM ArchivesAreConsistent == Spec => []ArchivesConsistent
  <1>1. IInv => ArchivesConsistent BY DEF IInv
  <1> QED BY <1>1, Invariance, PTL

\* Apply and Verify: without other controllers, no Pod runs on data of two
\* moments.
THEOREM NothingRunsOnPartialData == Spec => []NoneRunsOnPartialData
  <1>1. IInv => NoneRunsOnPartialData BY DEF IInv, Quiesced, NoneRunsOnPartialData
  <1> QED BY <1>1, Invariance, PTL

\* Only Resume removes a journal: other steps keep it or save an entry.
LEMMA WhoRemoves ==
    ASSUME IInv, IInv', Next, maint # NoJournal, maint' = NoJournal
    PROVE  \E h \in Hosts : Resume(h)
  <1>1. ASSUME NEW h \in Hosts, NEW j, Save(h, j) PROVE FALSE
    <2>1. pc'[h] = "file" BY <1>1 DEF Save, Go, IInv, MoreTypes
    <2> QED BY <2>1 DEF IInv, HostOK, Control, Holding
  <1>2. ASSUME NEW h \in Hosts,
               \/ NextCommand(h) \/ StrayCommand(h) \/ Unhealthy(h)
               \/ Fault(h) \/ Crash(h) \/ OperatorClears(h)
        PROVE FALSE
    BY <1>2 DEF NextCommand, StrayCommand, Issue, Unhealthy, Fault, Crash, OperatorClears, cluster
  <1>3. ASSUME NEW h \in Hosts, Step(h), ~Resume(h) PROVE FALSE
    <2>1. CASE \/ LockRefused(h) \/ BeginRefused(h) \/ LoadRefused(h) \/ StopFails(h)
               \/ AssertFails(h) \/ Return(h)
      BY <2>1 DEF LockRefused, BeginRefused, LoadRefused, StopFails, AssertFails, Return, Refuse
    <2>2. CASE \/ LockCluster(h) \/ WriteFile(h) \/ ScaleDown(h) \/ ScaleOffline(h) \/ Stopped(h)
               \/ Assert(h) \/ Capture(h) \/ Apply(h) \/ StartWorkload(h) \/ RoleStarted(h)
               \/ RemoveFile(h)
      BY <2>2 DEF LockCluster, WriteFile, ScaleDown, ScaleOffline, Stopped, Assert, Capture,
                  Apply, StartWorkload, RoleStarted, RemoveFile, cluster
    <2>3. CASE Begin(h) BY <1>1, <2>3 DEF Begin
    <2>4. CASE Load(h)
      <3>1. pc[h] = "load" => cmd[h] \in {"retry", "verify", "resume", "abort"}
        BY DEF IInv, HostOK, Control
      <3>2. Entering(h) \in {"retry", "verify", "resume", "abort"}
        BY <2>4, <3>1 DEF Load, Entering
      <3> QED BY <1>1, <2>4, <3>2 DEF Load
    <2>5. CASE Paused(h) BY <1>1, <2>5 DEF Paused
    <2>6. CASE Pack(h) BY <1>1, <2>6 DEF Pack
    <2>7. CASE Publish(h) BY <1>1, <2>7 DEF Publish
    <2>8. CASE Applied(h) BY <1>1, <2>8 DEF Applied
    <2>9. CASE Verified(h) BY <1>1, <2>9 DEF Verified
    <2> QED BY <1>3, <2>1, <2>2, <2>3, <2>4, <2>5, <2>6, <2>7, <2>8, <2>9 DEF Step
  <1>4. CASE OnlineLock \/ OnlineChecked \/ OnlineRefused \/ OnlineDone \/ OnlineCrash
             \/ OperatorClearsOnline
    BY <1>4 DEF OnlineLock, OnlineChecked, OnlineRefused, OnlineDone, OnlineCrash,
                OperatorClearsOnline, OnlineKeeps
  <1>5. ASSUME NEW n \in Operations, Upload(n) PROVE FALSE BY <1>5 DEF Upload, cluster
  <1>6. ASSUME NEW w \in Workloads, PodsFollow(w) \/ ForeignStart(w) \/ ForeignStop(w)
        PROVE FALSE
    BY <1>6 DEF PodsFollow, ForeignStart, ForeignStop
  <1> QED BY <1>2, <1>3, <1>4, <1>5, <1>6 DEF Next

\* Resume: maintenance ends only with the data that the journal names, and
\* with every recorded workload up.
THEOREM ReleaseIsWhole == Spec => ReleasedWhole
  <1> DEFINE Whole == maint # NoJournal /\ maint' = NoJournal =>
                        AsRecorded /\ maint.saved \subseteq up
  <1>1. IInv /\ IInv' /\ [Next]_vars => [Whole]_vars
    <2> SUFFICES ASSUME IInv, IInv', Next, maint # NoJournal, maint' = NoJournal
                 PROVE  AsRecorded /\ maint.saved \subseteq up
      OBVIOUS
    <2>1. PICK h \in Hosts : Resume(h) BY WhoRemoves
    <2>2. maint.phase = "verified" BY <2>1 DEF Resume, IInv, HostOK, Control
    <2>3. maint.op \in {"backup", "restore"} BY JournalTypes DEF IInv, TypeOK, Entries
    <2> QED BY <2>2, <2>3 DEF IInv, JournalOK, AsRecorded
  <1> QED BY <1>1, Invariance, PTL DEF Spec, ReleasedWhole
=============================================================================
