------------------------- MODULE PlanJournalProofs -------------------------
(***************************************************************************)
(* What the journal of a plan's execution guarantees, for every plan, any  *)
(* number of processes, faults and writes of other clients: it is accurate *)
(* at every moment at which a process may die, and the execution implements *)
(* ReviewedExecution.                                                      *)
(***************************************************************************)
EXTENDS PlanJournal, TLAPS

\* Points at which a process does not hold the lease, if it is not dead.
Outside == {"idle", "dead", "recorded", "admit", "acquire", "podacquire", "outcome"}

\* Points at which the process holds a journal to which it may add.
Ending == {"start", "accept", "reverify", "owners", "accepted"}
Loop == {"fence", "deps", "read", "inflight", "wait", "complete"}
Settled == {"next", "block", "verify"} \cup Loop \cup Ending
Working == Settled \cup {"send", "sent"}
PodChecked == {"podaccept", "podreverify", "podaccepted"}
Pod == {"podverify"} \cup PodChecked
Writers == {"first", "saveowner", "recorded2", "cleanup"} \cup Working \cup Pod

Entries ==
    [done : 0..Size, owners : [Resources -> {"old", "new", None}],
     inflight : 0..Size, failed : BOOLEAN, started : BOOLEAN, accepted : BOOLEAN]

-----------------------------------------------------------------------------
(* The inductive invariant                                                  *)

\* The lease is held by the process that works.
Locking == \A c \in Procs : pc[c] \notin Outside => lease = c

\* A journal records an in-order prefix and at most one uncertain write, the
\* one after the prefix.
DiskOK ==
    disk # NoJournal =>
      /\ planFile
      /\ KnownPrefix(disk)
      /\ disk.inflight # 0 =>
            /\ disk.inflight = disk.done + 1 /\ disk.owners[disk.inflight] = None
            /\ Action[disk.inflight] # "retain"

\* The version that a request carries is that of the reviewed object.
VersionFence(q) ==
    /\ q.ver <= ver[q.res]
    /\ q.ver = ver[q.res] => BodyOK(q.res)

\* At most one request is on its way, for a write that has no effect yet.
WireOK ==
    /\ \A q \in wire : applied[q.res] = 0 /\ VersionFence(q)
    /\ \A q, r \in wire : q = r

AppliedOK ==
    \A i \in Resources : applied[i] \in {0, 1} /\ (applied[i] = 1 => Action[i] # "retain")

\* What was waited for on its own has been seen ready, and everything has been
\* once acceptance has started.
WaitedOK ==
    /\ \A i \in Resources :
          i <= disk.done /\ Kind[i] # "claim" /\ ~Deferred(i) => i \in waited
    /\ disk.started => waited = Resources

\* Once an outcome is being reconciled, nobody writes any more.
OutcomeOK ==
    (\E c \in Procs : pc[c] = "outcome") \/ "no-resource-writes" \in outcomes =>
        /\ ~Resumable /\ planFile
        /\ \A c \in Procs : pc[c] \notin Writers
        /\ \A c \in Procs : pc[c] = "outcome" =>
              mem[c] = disk /\ disk # NoJournal /\ Decided(disk)

\* The journal a process has read before the lease.
Prior(c) ==
    /\ pc[c] = "recorded" => Resumable /\ prior[c] # NoJournal
    /\ pc[c] \in {"recorded", "admit", "acquire", "open"} =>
          (Resumable /\ prior[c] # NoJournal => ResumableEvidence(prior[c]))
    /\ pc[c] \in {"podacquire"} \cup Pod => AppliedPodEvidence(prior[c])

\* The journal a process works with, against the one on disk.
Memory(c) ==
    /\ pc[c] = "first" => disk = NoJournal /\ planFile
    /\ pc[c] = "recorded2" =>
          mem[c] = disk /\ disk # NoJournal /\ disk.inflight = 0 /\ Resumable
    /\ pc[c] \in Pod => mem[c] = prior[c]
    /\ pc[c] \in PodChecked \/ (pc[c] = "podverify" /\ at[c] > 1) => mem[c] = disk
    /\ pc[c] \in Working => mem[c] = disk /\ disk # NoJournal /\ ~disk.accepted
    /\ pc[c] \in Settled => disk.inflight = 0
    /\ pc[c] \in Loop => disk.done < Size
    /\ pc[c] \in {"verify"} \cup Ending => disk.done = Size
    /\ pc[c] \in {"accept", "reverify", "owners", "accepted"} => disk.started
    /\ pc[c] \in {"send", "sent", "saveowner"} =>
          disk # NoJournal /\ ~disk.accepted /\ disk.inflight = disk.done + 1
    /\ pc[c] = "saveowner" =>
          mem[c] = [disk EXCEPT !.owners[disk.done + 1] =
                                   IF Action[disk.done + 1] = "create" THEN "new" ELSE "old",
                                !.inflight = 0]
    /\ pc[c] \in {"wait", "complete"} =>
          Action[disk.done + 1] = "retain" \/ disk.owners[disk.done + 1] # None

\* The request a process has prepared and sent.
Requesting(c) ==
    /\ pc[c] \in {"inflight", "send", "sent"} =>
          request[c] \in Requests /\ request[c].res = disk.done + 1
    /\ pc[c] = "inflight" =>
          disk.owners[disk.done + 1] = None /\ Action[disk.done + 1] # "retain"
    /\ pc[c] \in {"inflight", "send"} =>
          VersionFence(request[c]) /\ wire = {} /\ applied[disk.done + 1] = 0
    /\ (pc[c] = "sent" /\ answer[c] = "ok") \/ pc[c] = "saveowner" =>
          applied[disk.done + 1] = 1 /\ wire = {}

\* What has been seen ready when the process is at a point.
Barriers(c) ==
    /\ pc[c] \in (Working \ {"block"}) \cup {"saveowner"} =>
          \A i \in Resources : Deferred(i) /\ BlockDone(i, disk) => i \in waited
    /\ pc[c] = "block" =>
          \A i \in Resources :
             Deferred(i) /\ BlockDone(i, disk) /\ (i \in Block(disk.done) => i < at[c])
                => i \in waited
    /\ pc[c] = "recorded2" =>
          \A i \in Resources : i < at[c] /\ Deferred(i) /\ BlockDone(i, disk) => i \in waited
    /\ pc[c] = "deps" =>
          \A i \in Deps[disk.done + 1] : i < at[c] /\ Deferred(i) => i \in waited
    /\ pc[c] \in {"read", "inflight", "send"} =>
          \A i \in Deps[disk.done + 1] : Deferred(i) => i \in waited
    /\ pc[c] = "complete" =>
          \/ disk.done + 1 \in waited
          \/ Kind[disk.done + 1] = "claim" \/ Deferred(disk.done + 1)
    /\ pc[c] = "verify" =>
          \A i \in Resources : i < at[c] /\ Kind[i] = "claim" => i \in waited
    /\ pc[c] \in Ending => waited = Resources

ProcOK(c) == Prior(c) /\ Memory(c) /\ Requesting(c) /\ Barriers(c)

IInv ==
    /\ TypeOK /\ Locking
    /\ DiskOK /\ JournalAccurate /\ WireOK /\ AppliedOK /\ WaitedOK
    /\ OutcomeOK /\ AcceptedIsComplete /\ ReconcileSound
    /\ \A c \in Procs : ProcOK(c)

-----------------------------------------------------------------------------
(* Facts about plans and journals                                           *)

\* What a well-formed plan says: sizes, kinds and actions, contiguous phases and
\* dependencies on earlier resources only.
LEMMA PlanFacts ==
    ASSUME plan \in Plans
    PROVE  /\ Size \in Nat \ {0} /\ Resources = 1..Size
           /\ Action \in [Resources -> {"create", "update", "retain", "retire"}]
           /\ Kind \in [Resources -> {"claim", "workload", "pod", "job", "config"}]
           /\ DOMAIN Phase = Resources
           /\ \A i, j, k \in Resources :
                 i < j /\ j < k /\ Phase[i] = Phase[k] => Phase[j] = Phase[i]
           /\ Deps \in [Resources -> SUBSET Resources]
           /\ \A i \in Resources : \A j \in Deps[i] : j < i
           /\ Resumable \in BOOLEAN
  <1>1. WellFormed(plan) BY PlanAssumption
  <1>2. /\ plan.action \in Seq({"create", "update", "retain", "retire"})
        /\ plan.action # <<>>
    BY <1>1 DEF WellFormed
  <1>3. /\ Len(plan.action) \in Nat \ {0}
        /\ DOMAIN plan.action = 1..Len(plan.action)
        /\ plan.action \in [1..Len(plan.action) -> {"create", "update", "retain", "retire"}]
    BY <1>2
  <1>4. /\ plan.kind \in [DOMAIN plan.action -> {"claim", "workload", "pod", "job", "config"}]
        /\ DOMAIN plan.phase = DOMAIN plan.action
        /\ \A i, j, k \in DOMAIN plan.action :
              i < j /\ j < k /\ plan.phase[i] = plan.phase[k] => plan.phase[j] = plan.phase[i]
        /\ plan.deps \in [DOMAIN plan.action -> SUBSET DOMAIN plan.action]
        /\ \A i \in DOMAIN plan.action : \A j \in plan.deps[i] : j < i
        /\ plan.resumable \in BOOLEAN
    BY <1>1 DEF WellFormed
  <1> QED BY <1>3, <1>4 DEF Size, Resources, Action, Kind, Phase, Deps, Resumable

\* A plan does not change, and neither does what it says.
LEMMA PlanSame ==
    ASSUME plan' = plan
    PROVE  /\ Size' = Size /\ Resources' = Resources /\ Action' = Action /\ Kind' = Kind
           /\ Phase' = Phase /\ Deps' = Deps /\ Resumable' = Resumable
           /\ Journals' = Journals /\ Requests' = Requests /\ Entries' = Entries
           /\ \A i : Uid(i)' = Uid(i) /\ Deferred(i)' = Deferred(i) /\ Block(i)' = Block(i)
           /\ \A i, j : BlockDone(i, j)' = BlockDone(i, j)
           /\ \A j : /\ KnownPrefix(j)' = KnownPrefix(j)
                     /\ ResumableEvidence(j)' = ResumableEvidence(j)
                     /\ AppliedPodEvidence(j)' = AppliedPodEvidence(j)
                     /\ Decided(j)' = Decided(j)
  <1>1. /\ Size' = Size /\ Resources' = Resources /\ Action' = Action /\ Kind' = Kind
        /\ Phase' = Phase /\ Deps' = Deps /\ Resumable' = Resumable
    BY DEF Size, Resources, Action, Kind, Phase, Deps, Resumable
  <1>2. Journals' = Journals /\ Requests' = Requests /\ Entries' = Entries
    BY <1>1 DEF Journals, Requests, Entries
  <1>3. \A i : Uid(i)' = Uid(i) /\ Deferred(i)' = Deferred(i) /\ Block(i)' = Block(i)
    BY <1>1 DEF Uid, Deferred, Block
  <1>4. \A i, j : BlockDone(i, j)' = BlockDone(i, j) BY <1>3 DEF BlockDone
  <1>5. \A j : KnownPrefix(j)' = KnownPrefix(j) BY <1>1, <1>3 DEF KnownPrefix
  <1>6. \A j : ResumableEvidence(j)' = ResumableEvidence(j) BY <1>5 DEF ResumableEvidence
  <1>7. \A j : AppliedPodEvidence(j)' = AppliedPodEvidence(j) BY <1>1 DEF AppliedPodEvidence
  <1>8. \A j : Decided(j)' = Decided(j) BY <1>1 DEF Decided, Conclusive
  <1> QED BY <1>1, <1>2, <1>3, <1>4, <1>5, <1>6, <1>7, <1>8

\* A journal on disk is an entry or absent, never both.
LEMMA JournalTypes ==
    ASSUME plan \in Plans
    PROVE  /\ Journals = {NoJournal} \cup Entries
           /\ NoJournal \notin Entries
  <1>1. Journals = {NoJournal} \cup Entries BY DEF Journals, Entries
  <1>2. NoJournal.owners = <<>> BY DEF NoJournal
  <1>3. \A j \in Entries : DOMAIN j.owners = 1..Size /\ Size \in Nat \ {0}
    BY PlanFacts DEF Entries
  <1>4. DOMAIN <<>> = {} OBVIOUS
  <1>5. 1 \in 1..Size BY PlanFacts
  <1> QED BY <1>1, <1>2, <1>3, <1>4, <1>5

-----------------------------------------------------------------------------
(* What a step may leave alone                                              *)

\* Two processes never work at the same time.
LEMMA Alone ==
    ASSUME IInv, NEW c \in Procs, pc[c] \notin Outside
    PROVE  lease = c /\ \A d \in Procs \ {c} : pc[d] \in Outside
  BY DEF IInv, Locking

\* A process that goes to a point starts there at the first resource; the
\* others stay where they are.
LEMMA Moved ==
    ASSUME TypeOK, NEW c \in Procs, NEW q \in Points, Go(c, q)
    PROVE  /\ pc' \in [Procs -> Points] /\ at' \in [Procs -> 1..(Size + 1)]
           /\ pc'[c] = q /\ at'[c] = 1
           /\ \A d \in Procs \ {c} : pc'[d] = pc[d] /\ at'[d] = at[d]
  <1>1. Size \in Nat BY PlanFacts DEF TypeOK
  <1> QED BY <1>1 DEF Go, TypeOK

\* TypeOK follows from the types of the parts and the plan being the same.
LEMMA Types ==
    ASSUME TypeOK, plan' = plan,
           obj' \in [Resources -> Objects \cup {Absent}],
           ver' \in [Resources -> Nat], ready' \in SUBSET Resources,
           wire' \in SUBSET Requests,
           answer' \in [Procs -> {None, "pending", "ok", "conflict"}],
           planFile' \in BOOLEAN, disk' \in Journals, lease' \in Procs \cup {None},
           pc' \in [Procs -> Points], at' \in [Procs -> 1..(Size + 1)],
           prior' \in [Procs -> Journals], mem' \in [Procs -> Journals],
           request' \in [Procs -> Requests \cup {None}],
           phase' \in [Procs -> {Phase[i] : i \in Resources} \cup {None}],
           faults' \in 0..MaxFaults, foreign' \in 0..MaxForeign,
           applied' \in [Resources -> Nat], waited' \in SUBSET Resources,
           outcomes' \in SUBSET {"accepted-target", "no-resource-writes"}
    PROVE  TypeOK'
  <1>1. /\ Size' = Size /\ Resources' = Resources /\ Journals' = Journals
        /\ Requests' = Requests /\ Phase' = Phase
    BY PlanSame
  <1>2. {Phase[i] : i \in Resources}' = {Phase[i] : i \in Resources} BY <1>1
  <1> QED BY <1>1, <1>2 DEF TypeOK

\* A step that does not enter the protected points keeps the lease in order.
LEMMA LockMove ==
    ASSUME Locking, NEW c \in Procs, pc \in [Procs -> Points], NEW q,
           pc' = [pc EXCEPT ![c] = q], lease' = lease,
           pc[c] \notin Outside \/ q \in Outside
    PROVE  Locking'
  BY DEF Locking

\* Nobody starts to write while an outcome is being established, or after that.
LEMMA OutcomeMove ==
    ASSUME OutcomeOK, NEW c \in Procs, pc \in [Procs -> Points], NEW q,
           pc' = [pc EXCEPT ![c] = q], q # "outcome",
           plan' = plan, outcomes' = outcomes, planFile => planFile',
           q \in Writers => pc[c] \in Writers \/ Resumable \/ ~planFile,
           pc[c] \in Writers \/ disk' = disk,
           \A d \in Procs \ {c} : mem'[d] = mem[d]
    PROVE  OutcomeOK'
  <1> SUFFICES ASSUME (\E d \in Procs : pc'[d] = "outcome") \/ "no-resource-writes" \in outcomes
               PROVE  /\ ~Resumable' /\ planFile'
                      /\ \A d \in Procs : pc'[d] \notin Writers
                      /\ \A d \in Procs : pc'[d] = "outcome" =>
                           mem'[d] = disk' /\ disk' # NoJournal /\ Decided(disk)'
    BY DEF OutcomeOK
  <1>1. /\ ~Resumable /\ planFile
        /\ \A d \in Procs : pc[d] \notin Writers
        /\ \A d \in Procs : pc[d] = "outcome" =>
             mem[d] = disk /\ disk # NoJournal /\ Decided(disk)
    BY DEF OutcomeOK
  <1>2. disk' = disk /\ q \notin Writers BY <1>1
  <1>3. Resumable' = Resumable /\ Decided(disk)' = Decided(disk)
    BY <1>2, PlanSame DEF Decided, Conclusive
  <1> QED BY <1>1, <1>2, <1>3

\* What a process read before the lease stays true for it: it is its own copy.
LEMMA PriorSame ==
    ASSUME NEW c \in Procs, Prior(c), plan' = plan, pc'[c] = pc[c], prior'[c] = prior[c]
    PROVE  Prior(c)'
  BY PlanSame DEF Prior, ResumableEvidence, KnownPrefix, AppliedPodEvidence

\* Without the lease, only the journal read before matters.
LEMMA OutsideOK ==
    ASSUME NEW c \in Procs, pc'[c] \in Outside, Prior(c)'
    PROVE  ProcOK(c)'
  <1>1. Memory(c)'
    BY DEF Memory, Outside, Pod, PodChecked, Working, Settled, Loop, Ending
  <1>2. Requesting(c)' BY DEF Requesting, Outside
  <1>3. Barriers(c)' BY DEF Barriers, Outside, Working, Settled, Loop, Ending
  <1> QED BY <1>1, <1>2, <1>3 DEF ProcOK

\* While one process works inside, all others are outside and rely only on
\* what they read.
LEMMA Others ==
    ASSUME IInv, NEW c \in Procs, pc[c] \notin Outside, plan' = plan,
           NEW d \in Procs \ {c}, pc'[d] = pc[d], prior'[d] = prior[d]
    PROVE  ProcOK(d)'
  <1>1. pc'[d] \in Outside BY Alone
  <1>2. Prior(d)' BY PriorSame DEF IInv, ProcOK
  <1> QED BY <1>1, <1>2, OutsideOK

\* More may be seen ready at any time.
LEMMA SameOK ==
    ASSUME IInv, NEW c \in Procs,
           UNCHANGED <<plan, obj, ver, wire, applied, disk, planFile>>,
           waited \subseteq waited', waited' \subseteq Resources,
           pc'[c] = pc[c], at'[c] = at[c], prior'[c] = prior[c], mem'[c] = mem[c],
           request'[c] = request[c], answer'[c] = answer[c]
    PROVE  ProcOK(c)'
  <1>0. ProcOK(c) BY DEF IInv
  <1>1. Prior(c)' BY <1>0, PriorSame DEF ProcOK
  <1>2. Size' = Size /\ Resources' = Resources /\ Action' = Action /\ Kind' = Kind
        /\ Deps' = Deps /\ Resumable' = Resumable /\ Requests' = Requests
        /\ \A i : Deferred(i)' = Deferred(i) /\ Block(i)' = Block(i)
    BY PlanSame
  <1>3. Memory(c)' BY <1>0, <1>2 DEF ProcOK, Memory
  <1>4. Requesting(c)' BY <1>0, <1>2 DEF ProcOK, Requesting, VersionFence, BodyOK
  <1>5. \A i : BlockDone(i, disk)' = BlockDone(i, disk) BY <1>2 DEF BlockDone
  <1>6. \A n : Block(disk.done)' = Block(disk.done) BY PlanSame DEF Block
  <1>7. Barriers(c)'
    BY <1>0, <1>2, <1>5, <1>6 DEF ProcOK, Barriers
  <1> QED BY <1>1, <1>3, <1>4, <1>7 DEF ProcOK

\* What is not about a process follows from the cluster and the journal alone.
LEMMA ClusterSame ==
    ASSUME IInv, UNCHANGED <<plan, obj, ver, wire, applied, outcomes>>
    PROVE  WireOK' /\ AppliedOK' /\ ReconcileSound'
  <1>1. Resources' = Resources /\ Action' = Action BY PlanSame
  <1>2. WireOK' BY <1>1 DEF IInv, WireOK, VersionFence, BodyOK
  <1>3. AppliedOK' BY <1>1 DEF IInv, AppliedOK
  <1>4. ReconcileSound' BY <1>1 DEF IInv, ReconcileSound
  <1> QED BY <1>2, <1>3, <1>4

\* Steps that touch neither requests, effects nor journal keep what they say.
LEMMA StoreSame ==
    ASSUME IInv, UNCHANGED <<plan, wire, applied, disk>>, planFile => planFile',
           waited \subseteq waited', waited' \subseteq Resources
    PROVE  DiskOK' /\ JournalAccurate' /\ WaitedOK' /\ AcceptedIsComplete'
  <1>1. /\ Resources' = Resources /\ Action' = Action /\ Kind' = Kind /\ Size' = Size
        /\ \A i : Deferred(i)' = Deferred(i)
    BY PlanSame
  <1>2. DiskOK'
    <2>1. KnownPrefix(disk)' = KnownPrefix(disk) BY PlanSame DEF KnownPrefix
    <2> QED BY <1>1, <2>1 DEF IInv, DiskOK
  <1>3. JournalAccurate'
    BY <1>1 DEF IInv, JournalAccurate, UncertainIsRecorded, RecordedPrefix, Owner
  <1>4. WaitedOK' BY <1>1 DEF IInv, WaitedOK
  <1>5. AcceptedIsComplete' BY <1>1 DEF IInv, AcceptedIsComplete
  <1> QED BY <1>2, <1>3, <1>4, <1>5

\* A step of one process that neither saves nor reaches the cluster.
LEMMA LocalOK ==
    ASSUME IInv, NEW c \in Procs, plan' = plan,
           UNCHANGED <<obj, ver, ready, wire, applied, disk, outcomes, foreign>>,
           planFile => planFile', planFile' \in BOOLEAN, faults' \in 0..MaxFaults,
           planFile' = planFile \/ pc[c] \notin Outside,
           waited \subseteq waited', waited' \subseteq Resources,
           lease' \in Procs \cup {None},
           pc' \in [Procs -> Points], at' \in [Procs -> 1..(Size + 1)],
           prior' \in [Procs -> Journals], mem' \in [Procs -> Journals],
           request' \in [Procs -> Requests \cup {None}],
           phase' \in [Procs -> {Phase[i] : i \in Resources} \cup {None}],
           answer' \in [Procs -> {None, "pending", "ok", "conflict"}],
           \A d \in Procs \ {c} :
              /\ pc'[d] = pc[d] /\ at'[d] = at[d] /\ prior'[d] = prior[d] /\ mem'[d] = mem[d]
              /\ request'[d] = request[d] /\ answer'[d] = answer[d],
           Locking', OutcomeOK', ProcOK(c)'
    PROVE  IInv'
  <1>1. TypeOK' BY Types DEF IInv, TypeOK
  <1>2. WireOK' /\ AppliedOK' /\ ReconcileSound' BY ClusterSame
  <1>3. DiskOK' /\ JournalAccurate' /\ WaitedOK' /\ AcceptedIsComplete' BY StoreSame
  <1>4. ASSUME NEW d \in Procs \ {c} PROVE ProcOK(d)'
    <2>1. CASE pc[c] \notin Outside BY <2>1, Others
    <2>2. CASE planFile' = planFile BY <2>2, SameOK
    <2> QED BY <2>1, <2>2
  <1> QED BY <1>1, <1>2, <1>3, <1>4 DEF IInv

\* A step of the process that holds the lease, which saves a journal.
LEMMA SavedOK ==
    ASSUME IInv, NEW c \in Procs, plan' = plan, pc[c] \notin Outside, pc[c] \in Writers,
           NEW q \in Points, Go(c, q), q # "outcome", q \notin Outside,
           UNCHANGED <<cluster, planFile, lease, prior, phase, request, answer, budget,
                       outcomes>>,
           disk' \in Journals, mem' = [mem EXCEPT ![c] = disk'],
           DiskOK', JournalAccurate', WaitedOK', AcceptedIsComplete', ProcOK(c)'
    PROVE  IInv'
  <1>1. /\ pc' \in [Procs -> Points] /\ at' \in [Procs -> 1..(Size + 1)]
        /\ \A d \in Procs \ {c} : pc'[d] = pc[d] /\ at'[d] = at[d]
    BY Moved DEF IInv
  <1>2. mem' \in [Procs -> Journals] /\ \A d \in Procs \ {c} : mem'[d] = mem[d]
    BY DEF IInv, TypeOK
  <1>3. TypeOK' BY <1>1, <1>2, Types DEF IInv, TypeOK, cluster, budget
  <1>4. WireOK' /\ AppliedOK' /\ ReconcileSound' BY ClusterSame DEF cluster
  <1>5. Locking' BY LockMove DEF IInv, TypeOK, Go
  <1>6. OutcomeOK' BY <1>2, OutcomeMove DEF IInv, TypeOK, Go
  <1>7. \A d \in Procs \ {c} : ProcOK(d)' BY <1>1, Others
  <1> QED BY <1>3, <1>4, <1>5, <1>6, <1>7 DEF IInv

\* A process returns and releases the lease, if it has it.
LEMMA EndOK ==
    ASSUME IInv, NEW c \in Procs, End(c),
           UNCHANGED <<cluster, planFile, outcomes, foreign, plan>>, faults' \in 0..MaxFaults,
           disk' \in Journals, DiskOK', JournalAccurate', WaitedOK', AcceptedIsComplete',
           disk' = disk \/ pc[c] \in Writers \ Outside
    PROVE  IInv'
  <1>1. /\ pc' \in [Procs -> Points] /\ at' \in [Procs -> 1..(Size + 1)] /\ pc'[c] = "idle"
        /\ \A d \in Procs \ {c} : pc'[d] = pc[d] /\ at'[d] = at[d]
    BY Moved DEF IInv, End, Points
  <1>2. /\ prior' \in [Procs -> Journals] /\ mem' \in [Procs -> Journals]
        /\ request' \in [Procs -> Requests \cup {None}]
        /\ phase' \in [Procs -> {Phase[i] : i \in Resources} \cup {None}]
        /\ answer' \in [Procs -> {None, "pending", "ok", "conflict"}]
        /\ lease' \in Procs \cup {None}
        /\ \A d \in Procs \ {c} :
              /\ prior'[d] = prior[d] /\ mem'[d] = mem[d]
              /\ request'[d] = request[d] /\ answer'[d] = answer[d]
    <2>1. NoJournal \in Journals BY DEF Journals
    <2> QED BY <2>1 DEF End, IInv, TypeOK
  <1>3. TypeOK' BY <1>1, <1>2, Types DEF IInv, TypeOK, cluster
  <1>4. WireOK' /\ AppliedOK' /\ ReconcileSound' BY ClusterSame DEF cluster
  <1>5. Locking' BY <1>1 DEF IInv, Locking, Outside, End
  <1>6. OutcomeOK' BY <1>2, OutcomeMove DEF IInv, TypeOK, End, Go, Writers, Working, Settled,
                      Loop, Ending, Pod, PodChecked
  <1>7. ProcOK(c)'
    <2>1. Prior(c)' BY <1>1 DEF Prior, Pod, PodChecked
    <2> QED BY <1>1, <2>1, OutsideOK DEF Outside
  <1>8. ASSUME NEW d \in Procs \ {c} PROVE ProcOK(d)'
    <2>1. CASE disk' = disk
      BY <1>1, <1>2, <2>1, SameOK DEF cluster, IInv, TypeOK
    <2>2. CASE pc[c] \notin Outside BY <1>1, <1>2, <2>2, Others
    <2> QED BY <2>1, <2>2
  <1> QED BY <1>3, <1>4, <1>5, <1>6, <1>7, <1>8 DEF IInv

\* Recording a failure changes nothing else that is on disk.
LEMMA FailedOK ==
    ASSUME IInv, NEW c \in Procs, SaveFailed(c),
           UNCHANGED <<cluster, planFile, outcomes, plan>>
    PROVE  /\ disk' \in Journals
           /\ DiskOK' /\ JournalAccurate' /\ WaitedOK' /\ AcceptedIsComplete'
           /\ disk' = disk \/ pc[c] \in Writers \ Outside
           /\ disk' = disk \/ /\ disk # NoJournal /\ ~disk.accepted
                              /\ disk' = [disk EXCEPT !.failed = TRUE]
  <1>1. CASE disk' = disk
    BY <1>1, StoreSame DEF cluster, IInv, TypeOK
  <1>2. CASE pc[c] \in Recording /\ disk' = [mem[c] EXCEPT !.failed = TRUE]
    <2>1. pc[c] \in Working /\ pc[c] \in Writers \ Outside
      BY <1>2 DEF Recording, Working, Settled, Loop, Ending, Writers, Outside
    <2>2. mem[c] = disk /\ disk # NoJournal /\ ~disk.accepted
      BY <2>1 DEF IInv, ProcOK, Memory
    <2>3. disk \in Entries BY <2>2, JournalTypes DEF IInv, TypeOK
    <2>4. /\ disk' \in Entries /\ disk' = [disk EXCEPT !.failed = TRUE]
          /\ disk'.done = disk.done /\ disk'.owners = disk.owners
          /\ disk'.inflight = disk.inflight /\ disk'.started = disk.started
          /\ disk'.accepted = disk.accepted /\ ~disk'.accepted
      BY <1>2, <2>2, <2>3 DEF Entries
    <2>5. disk' \in Journals /\ disk' # NoJournal BY <2>4, JournalTypes DEF IInv, TypeOK
    <2>6. /\ Resources' = Resources /\ Action' = Action /\ Kind' = Kind /\ Size' = Size
          /\ \A i : Deferred(i)' = Deferred(i) /\ Uid(i)' = Uid(i)
      BY PlanSame
    <2>7. DiskOK'
      <3>1. KnownPrefix(disk) BY <2>2 DEF IInv, DiskOK
      <3>2. KnownPrefix(disk)' BY <3>1, <2>4, <2>5, <2>6 DEF KnownPrefix
      <3> QED BY <2>2, <2>4, <2>6, <3>2 DEF IInv, DiskOK
    <2>8. JournalAccurate'
      BY <2>2, <2>4, <2>5, <2>6
      DEF IInv, JournalAccurate, UncertainIsRecorded, RecordedPrefix, Owner, cluster
    <2>9. WaitedOK' BY <2>4, <2>6 DEF IInv, WaitedOK, cluster
    <2>10. AcceptedIsComplete' BY <2>4 DEF AcceptedIsComplete
    <2> QED BY <2>1, <2>2, <2>4, <2>5, <2>7, <2>8, <2>9, <2>10
  <1> QED BY <1>1, <1>2 DEF SaveFailed

\* A failure leaves journal and cluster as they are and only ends the attempt.
LEMMA FailsOK ==
    ASSUME IInv, NEW c \in Procs, Fails(c), faults' \in 0..MaxFaults
    PROVE  IInv'
  BY FailedOK, EndOK DEF Fails

-----------------------------------------------------------------------------
(* Failures, ends and crashes                                               *)

\* The failing steps, from an occupied lease to a readiness timeout, preserve
\* the invariant.
LEMMA FailingOK ==
    ASSUME IInv, NEW c \in Procs,
           \/ ScanFails(c) \/ Occupied(c) \/ Refuse(c) \/ ReadFails(c) \/ Refused(c)
           \/ WaitFails(c) \/ Fault(c)
    PROVE  IInv'
  <1>1. Fails(c) /\ faults' \in 0..MaxFaults
    BY PlanAssumption
    DEF ScanFails, Occupied, Refuse, ReadFails, Refused, WaitFails, Fault, IInv, TypeOK
  <1> QED BY <1>1, FailsOK

\* Revalidation, cleanup, a new process and the operator's clearing of a dead
\* one preserve it.
LEMMA EndingOK ==
    ASSUME IInv, NEW c \in Procs,
           Revalidated(c) \/ Cleanup(c) \/ Recover(c) \/ OperatorClears(c)
    PROVE  IInv'
  <1>1. /\ End(c) /\ UNCHANGED <<cluster, planFile, outcomes, foreign, plan, disk>>
        /\ faults' \in 0..MaxFaults
    BY DEF Revalidated, Cleanup, Recover, OperatorClears, store, budget, IInv, TypeOK
  <1>2. DiskOK' /\ JournalAccurate' /\ WaitedOK' /\ AcceptedIsComplete' /\ disk' \in Journals
    BY <1>1, StoreSame DEF cluster, IInv, TypeOK
  <1> QED BY <1>1, <1>2, EndOK

\* A process may be killed anywhere: what it leaves on disk and on the wire is
\* covered by the invariant.
LEMMA CrashOK ==
    ASSUME IInv, NEW c \in Procs, Crash(c)
    PROVE  IInv'
  <1>1. /\ SaveFailed(c) /\ Go(c, "dead") /\ faults' \in 0..MaxFaults
        /\ UNCHANGED <<cluster, planFile, lease, prior, mem, phase, request, answer, foreign,
                       outcomes, plan>>
    BY PlanAssumption DEF Crash, IInv, TypeOK
  <1>2. /\ disk' \in Journals
        /\ DiskOK' /\ JournalAccurate' /\ WaitedOK' /\ AcceptedIsComplete'
        /\ disk' = disk \/ pc[c] \in Writers \ Outside
    BY <1>1, FailedOK
  <1>3. /\ pc' \in [Procs -> Points] /\ at' \in [Procs -> 1..(Size + 1)] /\ pc'[c] = "dead"
        /\ \A d \in Procs \ {c} : pc'[d] = pc[d] /\ at'[d] = at[d]
    BY <1>1, Moved DEF IInv, Points
  <1>4. TypeOK' BY <1>1, <1>2, <1>3, Types DEF IInv, TypeOK, cluster
  <1>5. WireOK' /\ AppliedOK' /\ ReconcileSound' BY <1>1, ClusterSame DEF cluster
  <1>6. Locking' BY <1>1, LockMove DEF IInv, TypeOK, Go, Outside
  <1>7. OutcomeOK'
    <2>1. "dead" \notin Writers
      BY DEF Writers, Working, Settled, Loop, Ending, Pod, PodChecked
    <2> QED BY <1>1, <1>2, <2>1, OutcomeMove DEF IInv, TypeOK, Go
  <1>8. ProcOK(c)'
    <2>1. Prior(c)' BY <1>3 DEF Prior, Pod, PodChecked
    <2> QED BY <1>3, <2>1, OutsideOK DEF Outside
  <1>9. ASSUME NEW d \in Procs \ {c} PROVE ProcOK(d)'
    <2>1. CASE disk' = disk BY <1>1, <1>3, <2>1, SameOK DEF cluster, IInv, TypeOK
    <2>2. CASE pc[c] \notin Outside BY <1>1, <1>3, <2>2, Others
    <2> QED BY <1>2, <2>1, <2>2
  <1> QED BY <1>2, <1>4, <1>5, <1>6, <1>7, <1>8, <1>9 DEF IInv

-----------------------------------------------------------------------------
(* Before the lease                                                         *)

\* A new attempt, or a recovery of an applied Pod, has only read the journal.
LEMMA StartOK ==
    ASSUME IInv, NEW c \in Procs, Start(c) \/ ResumeAcceptance(c)
    PROVE  IInv'
  <1>1. PICK q \in {"admit", "recorded", "podacquire"} :
           /\ pc[c] = "idle" /\ Go(c, q)
           /\ prior' = [prior EXCEPT ![c] = prior'[c]] /\ prior'[c] \in Journals
           /\ q = "recorded" => Resumable /\ prior'[c] # NoJournal
           /\ q \in {"recorded", "admit"} =>
                (Resumable /\ prior'[c] # NoJournal => ResumableEvidence(prior'[c]))
           /\ q = "podacquire" => AppliedPodEvidence(prior'[c])
           /\ UNCHANGED <<cluster, store, lease, mem, phase, request, answer, budget,
                          outcomes, plan>>
    <2>1. CASE Start(c) /\ Resumable
      BY <2>1 DEF Start, IInv, TypeOK
    <2>2. CASE Start(c) /\ ~Resumable
      BY <2>2 DEF Start, IInv, TypeOK
    <2>3. CASE ResumeAcceptance(c)
      BY <2>3 DEF ResumeAcceptance, IInv, TypeOK
    <2> QED BY <2>1, <2>2, <2>3
  <1>2. /\ pc' \in [Procs -> Points] /\ at' \in [Procs -> 1..(Size + 1)] /\ pc'[c] = q
        /\ \A d \in Procs \ {c} : pc'[d] = pc[d] /\ at'[d] = at[d]
    BY <1>1, Moved DEF IInv, Points, ScanPoints
  <1>3. /\ prior' \in [Procs -> Journals]
        /\ \A d \in Procs \ {c} : prior'[d] = prior[d]
    BY <1>1 DEF IInv, TypeOK
  <1>4. Locking' BY <1>1, LockMove DEF IInv, TypeOK, Go, Outside
  <1>5. OutcomeOK'
    BY <1>1, OutcomeMove
    DEF IInv, TypeOK, Go, Writers, Working, Settled, Loop, Ending, Pod, PodChecked, store
  <1>6. ProcOK(c)'
    <2>1. /\ Resumable' = Resumable
          /\ ResumableEvidence(prior[c])' <=> ResumableEvidence(prior'[c])
          /\ AppliedPodEvidence(prior[c])' <=> AppliedPodEvidence(prior'[c])
      BY <1>1, PlanSame DEF ResumableEvidence, KnownPrefix, AppliedPodEvidence
    <2>2. Prior(c)' BY <1>1, <1>2, <2>1 DEF Prior, Pod, PodChecked
    <2> QED BY <1>2, <2>2, OutsideOK DEF Outside
  <1> QED BY <1>1, <1>2, <1>3, <1>4, <1>5, <1>6, LocalOK
      DEF IInv, TypeOK, cluster, store, budget

-----------------------------------------------------------------------------
(* Passes over the plan                                                     *)

\* A readiness wait in a pass is recorded for the resource it is at.
LEMMA ScanSees ==
    ASSUME IInv, NEW c \in Procs, Scan(c), pc[c] \notin Outside
    PROVE  /\ pc[c] = "block" =>
                (at[c] \in Block(disk.done) /\ Deferred(at[c]) => at[c] \in waited')
           /\ pc[c] = "recorded2" =>
                (Deferred(at[c]) /\ BlockDone(at[c], disk) => at[c] \in waited')
           /\ pc[c] = "deps" =>
                (at[c] \in Deps[disk.done + 1] /\ Deferred(at[c]) => at[c] \in waited')
           /\ pc[c] = "verify" => (Kind[at[c]] = "claim" => at[c] \in waited')
           /\ pc[c] = "podverify" => mem[c] = disk
  <1> DEFINE i == at[c]
  <1>1. /\ Pass(c, i) /\ waited' = IF Waits(c, i) /\ Ready(i) THEN waited \cup {i} ELSE waited
        /\ at[c] <= Size
    BY DEF Scan
  <1>2. i \in Resources BY <1>1, PlanFacts DEF IInv, TypeOK
  <1>3. pc[c] \in {"block", "deps", "verify", "recorded2"} => mem[c] = disk /\ disk # NoJournal
    BY DEF IInv, ProcOK, Memory, Working, Settled, Loop
  <1>4. CASE pc[c] = "block"
    BY <1>1, <1>3, <1>4 DEF Pass, Waits, ReadyOwner
  <1>5. CASE pc[c] = "recorded2"
    <2>1. SUFFICES ASSUME Deferred(i), BlockDone(i, disk) PROVE i \in waited'
      BY <1>5
    <2>2. i \in Block(i) BY <1>2 DEF Block
    <2>3. i <= disk.done BY <2>1, <2>2 DEF BlockDone
    <2>4. disk.owners[i] # None BY <1>2, <1>3, <1>5, <2>3 DEF IInv, DiskOK, KnownPrefix
    <2>5. Action[i] # "retire" BY <2>1 DEF Deferred
    <2>6. Recorded(i, disk) BY <1>1, <1>3, <1>5 DEF Pass
    <2>7. Ready(i) BY <2>1, <2>4, <2>5, <2>6 DEF Recorded, ReadyOwner
    <2>8. Waits(c, i) BY <1>3, <1>5, <2>1, <2>4 DEF Waits
    <2> QED BY <1>1, <2>7, <2>8
  <1>6. CASE pc[c] = "deps"
    BY <1>1, <1>3, <1>6 DEF Pass, Waits, ReadyOwner
  <1>7. CASE pc[c] = "verify"
    <2>1. Verified(i) BY <1>1, <1>7 DEF Pass
    <2>2. Kind[i] = "claim" => Ready(i) BY <2>1 DEF Verified, VerifiedTarget, Ready
    <2>3. Waits(c, i) <=> Kind[i] = "claim" BY <1>7 DEF Waits
    <2> QED BY <1>1, <1>7, <2>2, <2>3
  <1>8. CASE pc[c] = "podverify"
    <2>1. PodTarget(i, mem[c]) BY <1>1, <1>8 DEF Pass
    <2> QED BY <1>8, <2>1 DEF PodTarget
  <1> QED BY <1>4, <1>5, <1>6, <1>7, <1>8

\* Scanning a resource (readiness, dependencies, verification) adds it to what
\* was seen ready and preserves the invariant.
LEMMA ScanOK ==
    ASSUME IInv, NEW c \in Procs, Scan(c)
    PROVE  IInv'
  <1>1. /\ at' = [at EXCEPT ![c] = @ + 1] /\ at[c] <= Size
        /\ UNCHANGED <<obj, ver, ready, wire, applied, store, lease, pc, prior, mem,
                       phase, request, answer, budget, outcomes, plan>>
    BY DEF Scan
  <1>2. at[c] \in Resources /\ Size \in Nat /\ at[c] \in Nat BY <1>1, PlanFacts DEF IInv, TypeOK
  <1>3. waited \subseteq waited' /\ waited' \subseteq Resources
    BY <1>2 DEF Scan, IInv, TypeOK
  <1>4. /\ at' \in [Procs -> 1..(Size + 1)] /\ at'[c] = at[c] + 1
        /\ \A d \in Procs \ {c} : at'[d] = at[d]
    BY <1>1, <1>2 DEF IInv, TypeOK
  <1>5. Locking' BY <1>1 DEF IInv, Locking
  <1>6. OutcomeOK'
    BY <1>1, PlanSame DEF IInv, OutcomeOK, store, Decided, Conclusive
  <1>7. ProcOK(c)'
    <2>0. ProcOK(c) BY DEF IInv
    <2>1. Prior(c)' BY <1>1, <2>0, PriorSame DEF ProcOK
    <2>2. CASE pc[c] \in Outside BY <1>1, <2>1, <2>2, OutsideOK
    <2>3. CASE pc[c] \notin Outside
      <3>1. Size' = Size /\ Resources' = Resources /\ Action' = Action /\ Kind' = Kind
            /\ Deps' = Deps /\ Resumable' = Resumable /\ Requests' = Requests
            /\ \A i : Deferred(i)' = Deferred(i) /\ Block(i)' = Block(i)
        BY <1>1, PlanSame
      <3>2. Memory(c)'
        BY <1>1, <2>0, <2>3, <3>1, ScanSees DEF ProcOK, Memory, store
      <3>3. Requesting(c)'
        BY <1>1, <2>0, <3>1 DEF ProcOK, Requesting, VersionFence, BodyOK, store
      <3>4. \A i : BlockDone(i, disk)' = BlockDone(i, disk)
        BY <1>1, <3>1 DEF BlockDone, store
      <3>5. Block(disk.done)' = Block(disk.done) BY <1>1, PlanSame DEF Block, store
      <3>6. /\ disk' = disk /\ pc' = pc /\ at'[c] = at[c] + 1
            /\ \A i \in Resources : i < at[c] + 1 => i < at[c] \/ i = at[c]
        BY <1>1, <1>2, <1>4, PlanFacts DEF store, IInv, TypeOK
      <3>7. pc[c] = "deps" => Deps[disk.done + 1] \subseteq Resources
        <4>1. SUFFICES ASSUME pc[c] = "deps" PROVE disk.done + 1 \in Resources
          BY PlanFacts DEF IInv, TypeOK
        <4>2. disk.done < Size /\ disk # NoJournal
          BY <2>0, <4>1 DEF ProcOK, Memory, Working, Settled, Loop
        <4>3. disk.done \in 0..Size BY <4>2, JournalTypes DEF IInv, TypeOK, Entries
        <4> QED BY <4>2, <4>3, PlanFacts DEF IInv, TypeOK
      <3>8. Barriers(c)'
        BY <1>3, <2>0, <2>3, <3>1, <3>4, <3>5, <3>6, <3>7, ScanSees DEF ProcOK, Barriers
      <3> QED BY <2>1, <3>2, <3>3, <3>8 DEF ProcOK
    <2> QED BY <2>2, <2>3
  <1> QED BY <1>1, <1>3, <1>4, <1>5, <1>6, <1>7, LocalOK DEF IInv, TypeOK, store, budget

\* A step of the process that holds the lease, which changes only what the
\* process knows, and perhaps what has been seen ready.
LEMMA InsideOK ==
    ASSUME IInv, NEW c \in Procs, pc[c] \notin Outside, NEW q \in Points \ Outside, Go(c, q),
           UNCHANGED <<plan, obj, ver, ready, wire, applied, disk, outcomes, budget, lease,
                       prior, answer>>,
           planFile => planFile', planFile' \in BOOLEAN,
           waited \subseteq waited', waited' \subseteq Resources,
           q \in Writers => pc[c] \in Writers \/ Resumable \/ ~planFile,
           mem' = [mem EXCEPT ![c] = mem'[c]], mem'[c] \in Journals,
           request' = [request EXCEPT ![c] = request'[c]], request'[c] \in Requests \cup {None},
           phase' \in [Procs -> {Phase[i] : i \in Resources} \cup {None}],
           Prior(c)', Memory(c)', Requesting(c)', Barriers(c)'
    PROVE  IInv'
  <1>1. /\ pc' \in [Procs -> Points] /\ at' \in [Procs -> 1..(Size + 1)]
        /\ \A d \in Procs \ {c} : pc'[d] = pc[d] /\ at'[d] = at[d]
    BY Moved DEF IInv
  <1>2. /\ mem' \in [Procs -> Journals] /\ request' \in [Procs -> Requests \cup {None}]
        /\ \A d \in Procs \ {c} : mem'[d] = mem[d] /\ request'[d] = request[d]
    BY DEF IInv, TypeOK
  <1>3. Locking' BY LockMove DEF IInv, TypeOK, Go
  <1>4. OutcomeOK' BY <1>2, OutcomeMove DEF IInv, TypeOK, Go, Outside
  <1>5. ProcOK(c)' BY DEF ProcOK
  <1> QED BY <1>1, <1>2, <1>3, <1>4, <1>5, LocalOK DEF IInv, TypeOK, budget

\* Points at which the process only reads once more, or writes a receipt.
Passive == {"recorded3", "retained", "retained2", "reaccept", "cleanup"}

\* A process at a passive point relies on nothing.
LEMMA PassiveOK ==
    ASSUME NEW c \in Procs, pc'[c] \in Passive
    PROVE  Prior(c)' /\ Memory(c)' /\ Requesting(c)' /\ Barriers(c)'
  BY DEF Passive, Prior, Memory, Requesting, Barriers, Pod, PodChecked, Working, Settled,
         Loop, Ending

\* After the last check everything has been seen ready: claims by Verify,
\* deferred workloads at the end of their block, the others by their own wait.
LEMMA AllReady ==
    ASSUME IInv, NEW c \in Procs, pc[c] = "verify", at[c] > Size
    PROVE  waited = Resources
  <1>1. /\ disk # NoJournal /\ disk.done = Size
        /\ \A i \in Resources : i < at[c] /\ Kind[i] = "claim" => i \in waited
        /\ \A i \in Resources : Deferred(i) /\ BlockDone(i, disk) => i \in waited
    BY DEF IInv, ProcOK, Memory, Barriers, Working, Settled
  <1>2. \A i \in Resources : i <= Size /\ i < at[c] BY PlanFacts DEF IInv, TypeOK
  <1>3. \A i \in Resources : BlockDone(i, disk) BY <1>1, <1>2 DEF BlockDone, Block
  <1> QED BY <1>1, <1>2, <1>3 DEF IInv, WaitedOK, TypeOK

\* At the end of a scan everything it had to cover has been seen.
LEMMA ScanEndsOK ==
    ASSUME IInv, NEW c \in Procs, ScanEnds(c)
    PROVE  IInv'
  <1> DEFINE q == After(c)
  <1>1. /\ pc[c] \in ScanPoints \ {"recorded3", "retained2", "outcome"} /\ at[c] > Size
        /\ Go(c, q)
        /\ UNCHANGED <<cluster, store, lease, prior, mem, request, answer, budget, outcomes,
                       plan>>
    BY DEF ScanEnds
  <1>2. /\ pc[c] = "recorded" => q = "admit"
        /\ pc[c] = "admit" => q = "acquire"
        /\ pc[c] = "recorded2" => q = IF mem[c].accepted THEN "reaccept" ELSE "next"
        /\ pc[c] = "fence" => q = "deps"
        /\ pc[c] = "deps" => q = "read"
        /\ pc[c] = "block" => q = "next"
        /\ pc[c] = "verify" => q = "start"
        /\ pc[c] = "reverify" => q = "owners"
        /\ pc[c] = "owners" => q = "accepted"
        /\ pc[c] = "retained" => q = "reaccept"
        /\ pc[c] = "podverify" => q = "podaccept"
        /\ pc[c] = "podreverify" => q = "podaccepted"
    BY DEF After
  <1>3. q \in Points BY <1>1, <1>2 DEF ScanPoints, Points
  <1> HIDE DEF q
  <1>4. /\ pc' \in [Procs -> Points] /\ at' \in [Procs -> 1..(Size + 1)]
        /\ pc'[c] = q /\ at'[c] = 1
        /\ \A d \in Procs \ {c} : pc'[d] = pc[d] /\ at'[d] = at[d]
    BY <1>1, <1>3, Moved DEF IInv
  <1>5. Size \in Nat \ {0} /\ at[c] > 1 /\ \A i \in Resources : i < at[c] /\ ~(i < 1)
    BY <1>1, PlanFacts DEF IInv, TypeOK
  <1>6. pc[c] = "fence" => disk.done + 1 \in Resources /\ mem[c] = disk
    <2>1. SUFFICES ASSUME pc[c] = "fence" PROVE disk.done + 1 \in Resources /\ mem[c] = disk
      OBVIOUS
    <2>2. disk.done < Size /\ disk # NoJournal /\ mem[c] = disk
      BY <2>1 DEF IInv, ProcOK, Memory, Working, Settled, Loop
    <2>3. disk.done \in 0..Size BY <2>2, JournalTypes DEF IInv, TypeOK, Entries
    <2> QED BY <2>2, <2>3, PlanFacts DEF IInv, TypeOK
  <1>7. phase' \in [Procs -> {Phase[i] : i \in Resources} \cup {None}]
    BY <1>6 DEF ScanEnds, IInv, TypeOK
  <1>8. ProcOK(c) BY DEF IInv
  <1>9. /\ Size' = Size /\ Resources' = Resources /\ Action' = Action /\ Kind' = Kind
        /\ Deps' = Deps /\ Resumable' = Resumable
        /\ \A i : Deferred(i)' = Deferred(i) /\ Block(i)' = Block(i)
        /\ \A i, j : BlockDone(i, j)' = BlockDone(i, j)
        /\ \A j : /\ ResumableEvidence(j)' = ResumableEvidence(j)
                  /\ AppliedPodEvidence(j)' = AppliedPodEvidence(j)
    BY <1>1, PlanSame
  <1>10. Prior(c)'
    <2>1. /\ ResumableEvidence(prior[c])' <=> ResumableEvidence(prior[c])
          /\ AppliedPodEvidence(prior[c])' <=> AppliedPodEvidence(prior[c])
      BY <1>1, PlanSame DEF ResumableEvidence, KnownPrefix, AppliedPodEvidence
    <2> QED BY <1>1, <1>2, <1>4, <1>8, <1>9, <2>1 DEF ProcOK, Prior, Pod, PodChecked, ScanPoints
  <1>11. CASE pc[c] \in Outside
    <2>1. q \in Outside \ {"outcome"} BY <1>1, <1>2, <1>11 DEF Outside, ScanPoints
    <2>2. ProcOK(c)' BY <1>4, <1>10, <2>1, OutsideOK
    <2>3. Locking' BY <1>1, <2>1, LockMove DEF IInv, TypeOK, Go
    <2>4. q \notin Writers
      BY <2>1 DEF Outside, Writers, Working, Settled, Loop, Ending, Pod, PodChecked
    <2>5. OutcomeOK' BY <1>1, <2>1, <2>4, OutcomeMove DEF IInv, TypeOK, Go, store
    <2> QED BY <1>1, <1>4, <1>7, <2>2, <2>3, <2>5, LocalOK DEF IInv, TypeOK, cluster, store,
            budget
  <1>12. CASE pc[c] \notin Outside
    <2>1. q \in Points \ Outside BY <1>1, <1>2, <1>3, <1>12 DEF Outside, ScanPoints
    <2>2. q \in Writers => pc[c] \in Writers
      BY <1>1, <1>2, <1>12
      DEF Outside, ScanPoints, Writers, Working, Settled, Loop, Ending, Pod, PodChecked
    <2>3. Memory(c)'
      BY <1>1, <1>2, <1>4, <1>5, <1>8, <1>9, <1>12
      DEF ProcOK, Memory, Outside, ScanPoints, Working, Settled, Loop, Ending, Pod, PodChecked,
          store
    <2>4. Requesting(c)'
      BY <1>1, <1>2, <1>4, <1>12 DEF Requesting, Outside, ScanPoints
    <2>5. \A i : BlockDone(i, disk)' = BlockDone(i, disk)
      BY <1>1, <1>9 DEF BlockDone, store
    <2>6. pc[c] = "verify" => waited = Resources BY <1>1, AllReady
    <2>7. Deps[disk.done + 1]' = Deps[disk.done + 1] BY <1>1, <1>9 DEF store
    <2>8. pc[c] \in {"fence", "deps"} => Deps[disk.done + 1] \subseteq Resources
      <3>1. SUFFICES ASSUME pc[c] \in {"fence", "deps"} PROVE disk.done + 1 \in Resources
        BY PlanFacts DEF IInv, TypeOK
      <3>2. disk.done < Size /\ disk # NoJournal
        BY <3>1, <1>8 DEF ProcOK, Memory, Working, Settled, Loop
      <3>3. disk.done \in 0..Size BY <3>2, JournalTypes DEF IInv, TypeOK, Entries
      <3> QED BY <3>2, <3>3, PlanFacts DEF IInv, TypeOK
    <2>9. Barriers(c)'
      BY <1>1, <1>2, <1>4, <1>5, <1>8, <1>9, <1>12, <2>5, <2>6, <2>7, <2>8
      DEF ProcOK, Barriers, Outside, ScanPoints, Working, Settled, Loop, Ending, store, cluster
    <2> QED BY <1>1, <1>7, <1>10, <1>12, <2>1, <2>2, <2>3, <2>4, <2>9, InsideOK
            DEF IInv, TypeOK, cluster, store
  <1> QED BY <1>11, <1>12

-----------------------------------------------------------------------------
(* The lease and the journal to continue                                    *)

\* Whoever acquires the free lease finds nobody else inside.
LEMMA AcquireOK ==
    ASSUME IInv, NEW c \in Procs, Acquire(c)
    PROVE  IInv'
  <1> DEFINE q == IF pc[c] = "acquire" THEN "open" ELSE "podverify"
  <1>1. /\ pc[c] \in {"acquire", "podacquire"} /\ lease = None /\ lease' = c /\ Go(c, q)
        /\ mem' = IF pc[c] = "acquire" THEN mem ELSE [mem EXCEPT ![c] = prior[c]]
        /\ UNCHANGED <<cluster, store, prior, phase, request, answer, budget, outcomes, plan>>
    BY DEF Acquire
  <1>2. q \in Points \ Outside BY DEF Points, ScanPoints, Outside
  <1>3. /\ pc' \in [Procs -> Points] /\ at' \in [Procs -> 1..(Size + 1)]
        /\ pc'[c] = q /\ at'[c] = 1
        /\ \A d \in Procs \ {c} : pc'[d] = pc[d] /\ at'[d] = at[d]
    BY <1>1, <1>2, Moved DEF IInv
  <1>4. mem' \in [Procs -> Journals] /\ \A d \in Procs \ {c} : mem'[d] = mem[d]
    BY <1>1 DEF IInv, TypeOK
  <1>5. Locking' BY <1>1, <1>3, PlanAssumption DEF IInv, Locking
  <1>6. Prior(c)'
    <2>1. /\ ResumableEvidence(prior[c])' <=> ResumableEvidence(prior[c])
          /\ AppliedPodEvidence(prior[c])' <=> AppliedPodEvidence(prior[c])
          /\ Resumable' = Resumable
      BY <1>1, PlanSame DEF ResumableEvidence, KnownPrefix, AppliedPodEvidence
    <2> QED BY <1>1, <1>3, <2>1 DEF IInv, ProcOK, Prior, Pod, PodChecked
  <1>7. OutcomeOK'
    <2>1. pc[c] = "podacquire" => Resumable
      BY DEF IInv, ProcOK, Prior, AppliedPodEvidence
    <2>2. "open" \notin Writers
      BY DEF Writers, Working, Settled, Loop, Ending, Pod, PodChecked
    <2> QED BY <1>1, <1>4, <2>1, <2>2, OutcomeMove DEF IInv, TypeOK, Go, store
  <1>8. ProcOK(c)'
    <2>1. Memory(c)'
      BY <1>1, <1>3, <1>4 DEF Memory, Pod, PodChecked, Working, Settled, Loop, Ending,
         IInv, TypeOK
    <2>2. Requesting(c)' /\ Barriers(c)'
      BY <1>3 DEF Requesting, Barriers, Working, Settled, Loop, Ending
    <2> QED BY <1>6, <2>1, <2>2 DEF ProcOK
  <1> QED BY <1>1, <1>3, <1>4, <1>5, <1>7, <1>8, LocalOK
      DEF IInv, TypeOK, cluster, store, budget

\* The evidence read under the lease is what was verified before it.
LEMMA ContinueOK ==
    ASSUME IInv, NEW c \in Procs, Continue(c)
    PROVE  IInv'
  <1>1. /\ pc[c] = "open" /\ Resumable /\ prior[c] # NoJournal /\ disk = prior[c]
        /\ mem' = [mem EXCEPT ![c] = disk] /\ Go(c, "recorded2")
        /\ UNCHANGED <<cluster, store, lease, prior, phase, request, answer, budget,
                       outcomes, plan>>
    BY DEF Continue, Evidence
  <1>2. "recorded2" \in Points \ Outside /\ "open" \notin Outside
    BY DEF Points, ScanPoints, Outside
  <1>3. pc'[c] = "recorded2" /\ at'[c] = 1 BY <1>1, <1>2, Moved DEF IInv
  <1>4. disk.inflight = 0 BY <1>1 DEF IInv, ProcOK, Prior, ResumableEvidence
  <1>5. mem'[c] = disk /\ disk \in Journals BY <1>1 DEF IInv, TypeOK
  <1>6. Prior(c)' /\ Requesting(c)' BY <1>3 DEF Prior, Pod, PodChecked, Requesting
  <1>7. Memory(c)'
    BY <1>1, <1>3, <1>4, <1>5, PlanSame
    DEF Memory, Pod, PodChecked, Working, Settled, Loop, Ending, store
  <1>8. Barriers(c)'
    <2>1. \A i \in Resources' : ~(i < 1) BY <1>1, PlanSame, PlanFacts DEF IInv, TypeOK
    <2> QED BY <1>3, <2>1 DEF Barriers, Working, Settled, Loop, Ending
  <1> QED BY <1>1, <1>2, <1>5, <1>6, <1>7, <1>8, InsideOK DEF IInv, TypeOK, cluster, store

\* The first look at the evidence under the lease preserves the invariant.
LEMMA OpenOK ==
    ASSUME IInv, NEW c \in Procs, OpenNew(c) \/ Revalidate(c)
    PROVE  IInv'
  <1>1. CASE OpenNew(c)
    <2>1. /\ pc[c] = "open" /\ ~planFile /\ disk = NoJournal /\ planFile' = TRUE
          /\ Go(c, "first")
          /\ UNCHANGED <<cluster, disk, lease, prior, mem, phase, request, answer, budget,
                         outcomes, plan>>
      BY <1>1 DEF OpenNew
    <2>2. "first" \in Points \ Outside /\ "open" \notin Outside
      BY DEF Points, Outside
    <2>3. pc'[c] = "first" BY <2>1, <2>2, Moved DEF IInv
    <2>4. Prior(c)' /\ Requesting(c)' /\ Barriers(c)'
      BY <2>3 DEF Prior, Pod, PodChecked, Requesting, Barriers, Working, Settled, Loop, Ending
    <2>5. Memory(c)'
      BY <2>1, <2>3 DEF Memory, Pod, PodChecked, Working, Settled, Loop, Ending
    <2> QED BY <2>1, <2>2, <2>4, <2>5, InsideOK DEF IInv, TypeOK, cluster
  <1>2. CASE Revalidate(c)
    <2>1. /\ pc[c] = "open" /\ mem' = [mem EXCEPT ![c] = disk] /\ Go(c, "retained")
          /\ UNCHANGED <<cluster, store, lease, prior, phase, request, answer, budget,
                         outcomes, plan>>
      BY <1>2 DEF Revalidate
    <2>2. /\ "retained" \in Points \ Outside /\ "open" \notin Outside
          /\ "retained" \notin Writers /\ "retained" \in Passive
      BY DEF Points, ScanPoints, Outside, Passive, Writers, Working, Settled, Loop, Ending,
             Pod, PodChecked
    <2>3. pc'[c] = "retained" BY <2>1, <2>2, Moved DEF IInv
    <2>4. Prior(c)' /\ Memory(c)' /\ Requesting(c)' /\ Barriers(c)'
      BY <2>2, <2>3, PassiveOK
    <2>5. mem'[c] = disk BY <2>1 DEF IInv, TypeOK
    <2> QED BY <2>1, <2>2, <2>4, <2>5, InsideOK DEF IInv, TypeOK, cluster, store
  <1> QED BY <1>1, <1>2

\* The first, empty journal is accurate: nothing was written before it.
LEMMA SaveFirstOK ==
    ASSUME IInv, NEW c \in Procs, SaveFirst(c)
    PROVE  IInv'
  <1>1. /\ pc[c] = "first" /\ disk' = EmptyJournal /\ mem' = [mem EXCEPT ![c] = disk']
        /\ Go(c, "next")
        /\ UNCHANGED <<cluster, planFile, lease, prior, phase, request, answer, budget,
                       outcomes, plan>>
    BY DEF SaveFirst, Save
  <1>2. /\ "next" \in Points \ Outside /\ "first" \notin Outside /\ "first" \in Writers
    BY DEF Points, Outside, Writers
  <1>3. pc'[c] = "next" /\ at'[c] = 1 BY <1>1, <1>2, Moved DEF IInv
  <1>4. disk = NoJournal /\ planFile BY <1>1 DEF IInv, ProcOK, Memory
  <1>5. Size \in Nat \ {0} /\ Resources = 1..Size BY PlanFacts DEF IInv, TypeOK
  <1>6. /\ disk'.done = 0 /\ disk'.owners = [i \in Resources |-> None] /\ disk'.inflight = 0
        /\ ~disk'.failed /\ ~disk'.started /\ ~disk'.accepted
        /\ disk' \in Entries
    BY <1>1, <1>5 DEF EmptyJournal, Entries
  <1>7. disk' \in Journals /\ disk' # NoJournal BY <1>6, JournalTypes DEF IInv, TypeOK
  <1>8. Resources' = Resources /\ Size' = Size /\ Kind' = Kind /\ Action' = Action
        /\ \A i : Deferred(i)' = Deferred(i) /\ Uid(i)' = Uid(i)
    BY <1>1, PlanSame
  <1>9. DiskOK'
    <2>1. KnownPrefix(disk)' BY <1>5, <1>6, <1>7, <1>8 DEF KnownPrefix
    <2> QED BY <1>1, <1>4, <1>6, <2>1 DEF DiskOK
  <1>10. JournalAccurate'
    <2>1. disk.inflight = 0 BY <1>4 DEF NoJournal
    <2>2. \A i \in Resources : ~(\E q \in wire : q.res = i) /\ ~(applied[i] > 0)
      BY <1>4, <1>5, <2>1 DEF IInv, JournalAccurate, UncertainIsRecorded, Owner
    <2> QED BY <1>1, <1>6, <1>7, <1>8, <2>2
        DEF JournalAccurate, UncertainIsRecorded, RecordedPrefix, Owner, cluster
  <1>11. WaitedOK' BY <1>5, <1>6, <1>8 DEF WaitedOK
  <1>12. AcceptedIsComplete' BY <1>6 DEF AcceptedIsComplete
  <1>13. ProcOK(c)'
    <2>1. mem'[c] = disk' BY <1>1 DEF IInv, TypeOK
    <2>2. Prior(c)' /\ Requesting(c)' BY <1>3 DEF Prior, Pod, PodChecked, Requesting
    <2>3. Memory(c)'
      BY <1>3, <1>6, <1>7, <2>1 DEF Memory, Pod, PodChecked, Working, Settled, Loop, Ending
    <2>4. \A i \in Resources' : ~BlockDone(i, disk)'
      <3>1. SUFFICES ASSUME NEW i \in Resources, BlockDone(i, disk)' PROVE FALSE
        BY <1>8
      <3>2. i \in Block(i)' BY <1>8 DEF Block
      <3>3. i <= disk'.done BY <3>1, <3>2 DEF BlockDone
      <3> QED BY <1>5, <1>6, <3>3
    <2>5. Barriers(c)' BY <1>3, <2>4 DEF Barriers, Working, Settled, Loop, Ending
    <2> QED BY <2>2, <2>3, <2>5 DEF ProcOK
  <1> QED BY <1>1, <1>2, <1>7, <1>9, <1>10, <1>11, <1>12, <1>13, SavedOK DEF Outside

-----------------------------------------------------------------------------
(* One resource after the other                                             *)

\* What holds wherever the process works on the journal.
LEMMA AtWork ==
    ASSUME IInv, NEW c \in Procs, pc[c] \in Working \cup {"saveowner"}
    PROVE  /\ pc[c] \notin Outside /\ pc[c] \in Writers
           /\ disk \in Entries /\ disk # NoJournal /\ ~disk.accepted
           /\ planFile /\ KnownPrefix(disk)
           /\ disk.done \in 0..Size /\ Size \in Nat \ {0} /\ Resources = 1..Size
           /\ pc[c] \in Working => mem[c] = disk
           /\ pc[c] \in Loop \cup {"send", "sent", "saveowner"} =>
                disk.done + 1 \in Resources /\ disk.done < Size
           /\ "no-resource-writes" \notin outcomes
  <1>1. pc[c] \notin Outside /\ pc[c] \in Writers
    BY DEF Outside, Writers, Working, Settled, Loop, Ending
  <1>2. /\ disk # NoJournal /\ ~disk.accepted
        /\ pc[c] \in Working => mem[c] = disk
        /\ pc[c] \in Loop => disk.done < Size
        /\ pc[c] \in {"send", "sent", "saveowner"} => disk.inflight = disk.done + 1
    BY DEF IInv, ProcOK, Memory
  <1>3. disk \in Entries BY <1>2, JournalTypes DEF IInv, TypeOK
  <1>4. disk.done \in 0..Size /\ disk.inflight \in 0..Size BY <1>3 DEF Entries
  <1>5. Size \in Nat \ {0} /\ Resources = 1..Size BY PlanFacts DEF IInv, TypeOK
  <1>6. pc[c] \in Loop \cup {"send", "sent", "saveowner"} =>
           disk.done + 1 \in Resources /\ disk.done < Size
    BY <1>2, <1>4, <1>5
  <1>7. planFile /\ KnownPrefix(disk) BY <1>2 DEF IInv, DiskOK
  <1>8. "no-resource-writes" \notin outcomes BY <1>1 DEF IInv, OutcomeOK
  <1> QED BY <1>1, <1>2, <1>3, <1>4, <1>5, <1>6, <1>7, <1>8

\* Readiness is about completed resources: it stays while their number does.
LEMMA BlocksSame ==
    ASSUME plan' = plan, disk'.done = disk.done
    PROVE  \A i : BlockDone(i, disk)' <=> BlockDone(i, disk)
  <1>1. \A i : Block(i)' = Block(i) BY PlanSame
  <1> QED BY <1>1 DEF BlockDone

\* The loop goes to the next resource, or to verification after the last.
LEMMA NextResourceOK ==
    ASSUME IInv, NEW c \in Procs, NextResource(c)
    PROVE  IInv'
  <1> DEFINE q == IF mem[c].done = Size THEN "verify" ELSE Fencing(c)
  <1>1. /\ pc[c] = "next" /\ Go(c, q)
        /\ UNCHANGED <<cluster, store, lease, prior, mem, phase, request, answer, budget,
                       outcomes, plan>>
    BY DEF NextResource
  <1>2. /\ pc[c] \notin Outside /\ pc[c] \in Writers /\ disk # NoJournal /\ ~disk.accepted
        /\ mem[c] = disk /\ disk.done \in 0..Size /\ Size \in Nat /\ Resources = 1..Size
    BY <1>1, AtWork DEF Working, Settled
  <1>3. /\ q \in {"verify", "fence", "deps"}
        /\ q = "verify" => disk.done = Size
        /\ q # "verify" => disk.done < Size /\ disk.done + 1 \in Resources
    BY <1>2 DEF Fencing
  <1> HIDE DEF q
  <1>4. q \in Points \ Outside BY <1>3 DEF Points, ScanPoints, Outside
  <1>5. pc'[c] = q /\ at'[c] = 1 BY <1>1, <1>4, Moved DEF IInv
  <1>6. ProcOK(c) BY DEF IInv
  <1>7. /\ Resources' = Resources /\ Size' = Size /\ Kind' = Kind /\ Deps' = Deps
        /\ \A i : Deferred(i)' = Deferred(i)
        /\ \A i : BlockDone(i, disk)' <=> BlockDone(i, disk)
    BY <1>1, PlanSame, BlocksSame DEF store
  <1>8. Prior(c)' /\ Requesting(c)' BY <1>3, <1>5 DEF Prior, Pod, PodChecked, Requesting
  <1>9. Memory(c)'
    BY <1>1, <1>2, <1>3, <1>5, <1>6, <1>7
    DEF ProcOK, Memory, Pod, PodChecked, Working, Settled, Loop, Ending, store
  <1>10. Barriers(c)'
    <2>1. \A i \in Resources : ~(i < 1) BY <1>2
    <2>2. q # "verify" => Deps[disk.done + 1] \subseteq Resources
      BY <1>3, PlanFacts DEF IInv, TypeOK
    <2> QED BY <1>1, <1>3, <1>5, <1>6, <1>7, <2>1, <2>2
        DEF ProcOK, Barriers, Working, Settled, Loop, Ending, store, cluster
  <1> QED BY <1>1, <1>2, <1>4, <1>8, <1>9, <1>10, InsideOK DEF IInv, TypeOK, cluster, store

\* With nothing marked in flight, no request is on its way and the selected
\* resource, which has no owner yet, was not written.
LEMMA NothingUncertain ==
    ASSUME IInv, disk.inflight = 0, disk # NoJournal
    PROVE  /\ wire = {}
           /\ \A i \in Resources : disk.owners[i] = None => applied[i] = 0
  <1>1. 0 \notin Resources BY PlanFacts DEF IInv, TypeOK
  <1>2. \A q \in wire : q.res \in Resources BY DEF IInv, TypeOK, Requests
  <1>3. \A i \in Resources : ~(\E q \in wire : q.res = i)
    BY <1>1 DEF IInv, JournalAccurate, UncertainIsRecorded
  <1>4. wire = {} BY <1>2, <1>3
  <1>5. ASSUME NEW i \in Resources, disk.owners[i] = None PROVE applied[i] = 0
    <2>1. ~(applied[i] > 0)
      BY <1>1, <1>5 DEF IInv, JournalAccurate, UncertainIsRecorded, Owner
    <2> QED BY <2>1 DEF IInv, TypeOK
  <1> QED BY <1>4, <1>5

\* The read before a write prepares a request for exactly the reviewed object.
LEMMA ReadOK ==
    ASSUME IInv, NEW c \in Procs, Read(c)
    PROVE  IInv'
  <1> DEFINE n == disk.done + 1
  <1>1. /\ pc[c] = "read"
        /\ UNCHANGED <<cluster, store, lease, prior, mem, phase, answer, budget, outcomes,
                       plan>>
    BY DEF Read
  <1>2. /\ pc[c] \notin Outside /\ pc[c] \in Writers /\ disk # NoJournal /\ ~disk.accepted
        /\ mem[c] = disk /\ disk.done \in 0..Size /\ Size \in Nat /\ Resources = 1..Size
        /\ n \in Resources /\ disk.done < Size /\ disk.inflight = 0
    BY <1>1, AtWork DEF Working, Settled, Loop, IInv, ProcOK, Memory
  <1>3. ProcOK(c) BY DEF IInv
  <1>4. PICK q \in {"wait", "inflight"} :
           /\ Go(c, q)
           /\ q = "wait" => /\ Action[n] = "retain" \/ disk.owners[n] # None
                            /\ request' = request
           /\ q = "inflight" => /\ disk.owners[n] = None /\ BodyOK(n) /\ Action[n] # "retain"
                                /\ request' = [request EXCEPT ![c] = [res |-> n, ver |-> ver[n]]]
    BY <1>2 DEF Read
  <1>5. q \in Points \ Outside /\ q \in Working BY DEF Points, Outside, Working, Settled, Loop
  <1>6. pc'[c] = q BY <1>1, <1>4, <1>5, Moved DEF IInv
  <1>7. /\ Resources' = Resources /\ Size' = Size /\ Kind' = Kind /\ Deps' = Deps
        /\ Action' = Action /\ \A i : Deferred(i)' = Deferred(i)
        /\ \A i : BlockDone(i, disk)' <=> BlockDone(i, disk)
    BY <1>1, PlanSame, BlocksSame DEF store
  <1>8. /\ request' = [request EXCEPT ![c] = request'[c]]
        /\ request'[c] \in Requests \cup {None}
        /\ q = "inflight" => /\ request'[c] = [res |-> n, ver |-> ver[n]]
                             /\ request'[c] \in Requests
    <2>1. [res |-> n, ver |-> ver[n]] \in Requests BY <1>2 DEF IInv, TypeOK, Requests
    <2>2. request \in [Procs -> Requests \cup {None}] BY DEF IInv, TypeOK
    <2> QED BY <1>4, <2>1, <2>2
  <1>9. Prior(c)' BY <1>6 DEF Prior, Pod, PodChecked
  <1>10. Memory(c)'
    BY <1>1, <1>2, <1>4, <1>6, <1>7
    DEF Memory, Pod, PodChecked, Working, Settled, Loop, Ending, store
  <1>11. Requesting(c)'
    <2>1. CASE q = "wait" BY <1>6, <2>1 DEF Requesting
    <2>2. CASE q = "inflight"
      <3>1. /\ request'[c] \in Requests' /\ request'[c].res = n /\ request'[c].ver = ver[n]
        BY <1>1, <1>8, <2>2, PlanSame
      <3>2. wire = {} /\ applied[n] = 0 BY <1>2, <1>4, <2>2, NothingUncertain
      <3>3. BodyOK(n) /\ ver[n] \in Nat BY <1>2, <1>4, <2>2 DEF IInv, TypeOK
      <3>4. VersionFence(request[c])'
        BY <1>1, <1>7, <3>1, <3>3 DEF VersionFence, BodyOK, cluster
      <3> QED BY <1>1, <1>4, <1>6, <1>7, <2>2, <3>1, <3>2, <3>4 DEF Requesting, cluster, store
    <2> QED BY <2>1, <2>2
  <1>12. Barriers(c)'
    BY <1>1, <1>3, <1>6, <1>7 DEF ProcOK, Barriers, Working, Settled, Loop, Ending, store, cluster
  <1> QED BY <1>1, <1>2, <1>4, <1>5, <1>8, <1>9, <1>10, <1>11, <1>12, InsideOK
      DEF IInv, TypeOK, cluster, store

\* The mark is on disk before the request is sent.
LEMMA SaveInFlightOK ==
    ASSUME IInv, NEW c \in Procs, SaveInFlight(c)
    PROVE  IInv'
  <1>1. /\ pc[c] = "inflight" /\ disk' = Marked(c) /\ mem' = [mem EXCEPT ![c] = disk']
        /\ Go(c, "send")
        /\ UNCHANGED <<cluster, planFile, lease, prior, phase, request, answer, budget,
                       outcomes, plan>>
    BY DEF SaveInFlight, Save
  <1>2. /\ pc[c] \notin Outside /\ pc[c] \in Writers /\ disk # NoJournal /\ ~disk.accepted
        /\ mem[c] = disk /\ disk.done \in 0..Size /\ Size \in Nat /\ Resources = 1..Size
        /\ disk.done + 1 \in Resources /\ disk.done < Size /\ disk.inflight = 0
        /\ disk \in Entries /\ planFile /\ KnownPrefix(disk)
    BY <1>1, AtWork DEF Working, Settled, Loop, IInv, ProcOK, Memory
  <1>3. /\ request[c] \in Requests /\ request[c].res = disk.done + 1
        /\ disk.owners[disk.done + 1] = None /\ Action[disk.done + 1] # "retain"
        /\ VersionFence(request[c]) /\ wire = {} /\ applied[disk.done + 1] = 0
    BY <1>1 DEF IInv, ProcOK, Requesting
  <1>4. /\ disk' \in Entries
        /\ disk'.done = disk.done /\ disk'.owners = disk.owners
        /\ disk'.inflight = disk.done + 1 /\ disk'.started = disk.started
        /\ disk'.failed = disk.failed /\ ~disk'.accepted
    BY <1>1, <1>2, <1>3 DEF Marked, Entries
  <1>5. disk' \in Journals /\ disk' # NoJournal BY <1>4, JournalTypes DEF IInv, TypeOK
  <1>6. "send" \in Points \ Outside BY DEF Points, Outside
  <1>7. pc'[c] = "send" /\ mem'[c] = disk' BY <1>1, <1>6, Moved DEF IInv, TypeOK
  <1>8. /\ Resources' = Resources /\ Size' = Size /\ Kind' = Kind /\ Deps' = Deps
        /\ Action' = Action /\ Requests' = Requests
        /\ \A i : Deferred(i)' = Deferred(i) /\ Uid(i)' = Uid(i)
        /\ \A i : BlockDone(i, disk)' <=> BlockDone(i, disk)
    BY <1>1, <1>4, PlanSame, BlocksSame
  <1>9. DiskOK'
    <2>1. KnownPrefix(disk)' BY <1>2, <1>4, <1>5, <1>8 DEF KnownPrefix
    <2> QED BY <1>1, <1>2, <1>3, <1>4, <1>8, <2>1 DEF DiskOK
  <1>10. JournalAccurate'
    <2>1. \A i \in Resources : disk.owners[i] = None => applied[i] = 0
      BY <1>2, NothingUncertain
    <2>2. \A i \in Resources : Owner(disk, i)' = disk.owners[i] /\ Owner(disk, i) = disk.owners[i]
      BY <1>2, <1>4, <1>5 DEF Owner
    <2>3. UncertainIsRecorded'
      BY <1>1, <1>3, <1>8, <2>1, <2>2 DEF UncertainIsRecorded, cluster
    <2>4. RecordedPrefix'
      BY <1>1, <1>4, <1>8, <2>2 DEF IInv, JournalAccurate, RecordedPrefix, cluster
    <2> QED BY <2>3, <2>4 DEF JournalAccurate
  <1>11. WaitedOK' BY <1>1, <1>4, <1>8 DEF IInv, WaitedOK, cluster
  <1>12. AcceptedIsComplete' BY <1>4 DEF AcceptedIsComplete
  <1>13. ProcOK(c)'
    <2>1. Prior(c)' BY <1>7 DEF Prior, Pod, PodChecked
    <2>2. Memory(c)'
      BY <1>4, <1>5, <1>7 DEF Memory, Pod, PodChecked, Working, Settled, Loop, Ending
    <2>3. VersionFence(request[c])' BY <1>1, <1>3, <1>8 DEF VersionFence, BodyOK, cluster
    <2>4. Requesting(c)'
      BY <1>1, <1>3, <1>4, <1>7, <1>8, <2>3 DEF Requesting, cluster
    <2>5. Barriers(c)'
      BY <1>1, <1>4, <1>7, <1>8 DEF IInv, ProcOK, Barriers, Working, Settled, Loop, Ending, cluster
    <2> QED BY <2>1, <2>2, <2>4, <2>5 DEF ProcOK
  <1> QED BY <1>1, <1>2, <1>5, <1>6, <1>9, <1>10, <1>11, <1>12, <1>13, SavedOK DEF Outside

\* The only request on its way is the one that the journal marks.
LEMMA SendOK ==
    ASSUME IInv, NEW c \in Procs, Send(c)
    PROVE  IInv'
  <1> DEFINE n == disk.done + 1
  <1>1. /\ pc[c] = "send" /\ wire' = wire \cup {request[c]}
        /\ answer' = [answer EXCEPT ![c] = "pending"] /\ Go(c, "sent")
        /\ UNCHANGED <<obj, ver, ready, applied, waited, store, lease, prior, mem, phase,
                       request, budget, outcomes, plan>>
    BY DEF Send
  <1>2. /\ pc[c] \notin Outside /\ pc[c] \in Writers /\ disk # NoJournal /\ ~disk.accepted
        /\ mem[c] = disk /\ disk.done \in 0..Size /\ Size \in Nat /\ Resources = 1..Size
        /\ n \in Resources /\ "no-resource-writes" \notin outcomes /\ disk.inflight = n
    BY <1>1, AtWork DEF Working, IInv, ProcOK, Memory
  <1>3. /\ request[c] \in Requests /\ request[c].res = n
        /\ VersionFence(request[c]) /\ wire = {} /\ applied[n] = 0
    BY <1>1 DEF IInv, ProcOK, Requesting
  <1>4. "sent" \in Points \ Outside BY DEF Points, Outside
  <1>5. /\ pc' \in [Procs -> Points] /\ at' \in [Procs -> 1..(Size + 1)] /\ pc'[c] = "sent"
        /\ \A d \in Procs \ {c} : pc'[d] = pc[d] /\ at'[d] = at[d]
    BY <1>1, <1>4, Moved DEF IInv
  <1>6. /\ answer' \in [Procs -> {None, "pending", "ok", "conflict"}] /\ answer'[c] = "pending"
        /\ wire' = {request[c]}
    BY <1>1, <1>3 DEF IInv, TypeOK
  <1>7. /\ Resources' = Resources /\ Size' = Size /\ Kind' = Kind /\ Deps' = Deps
        /\ Action' = Action /\ Requests' = Requests
        /\ \A i : Deferred(i)' = Deferred(i) /\ Uid(i)' = Uid(i)
        /\ \A i : BlockDone(i, disk)' <=> BlockDone(i, disk)
    BY <1>1, PlanSame, BlocksSame DEF store
  <1>8. TypeOK'
    <2>1. wire' \in SUBSET Requests BY <1>3, <1>6
    <2> QED BY <1>1, <1>5, <1>6, <2>1, Types DEF IInv, TypeOK, store, budget
  <1>9. Locking' BY <1>1, <1>2, LockMove DEF IInv, TypeOK, Go
  <1>10. OutcomeOK' BY <1>1, <1>2, OutcomeMove DEF IInv, TypeOK, Go, store
  <1>11. DiskOK'
    <2>1. KnownPrefix(disk)' = KnownPrefix(disk) BY <1>1, PlanSame DEF KnownPrefix, store
    <2> QED BY <1>1, <1>7, <2>1 DEF IInv, DiskOK, store
  <1>12. JournalAccurate'
    <2>1. \A i \in Resources : Owner(disk, i)' = Owner(disk, i) BY <1>1 DEF Owner, store
    <2>2. UncertainIsRecorded'
      BY <1>1, <1>2, <1>3, <1>6, <1>7, <2>1
      DEF IInv, JournalAccurate, UncertainIsRecorded, store
    <2>3. RecordedPrefix'
      BY <1>1, <1>2, <1>3, <1>6, <1>7, <2>1 DEF IInv, JournalAccurate, RecordedPrefix, store
    <2> QED BY <2>2, <2>3 DEF JournalAccurate
  <1>13. WireOK'
    <2>1. VersionFence(request[c])' BY <1>1, <1>3, <1>7 DEF VersionFence, BodyOK
    <2>2. \A q \in wire' : q = request[c] BY <1>6
    <2>3. applied'[request'[c].res] = 0 BY <1>1, <1>3
    <2>4. request' = request BY <1>1
    <2> QED BY <2>1, <2>2, <2>3, <2>4 DEF WireOK, VersionFence, BodyOK
  <1>14. AppliedOK' BY <1>1, <1>7 DEF IInv, AppliedOK
  <1>15. WaitedOK' BY <1>1, <1>7 DEF IInv, WaitedOK, store
  <1>16. AcceptedIsComplete' BY <1>1, <1>2 DEF AcceptedIsComplete, store
  <1>17. ReconcileSound' BY <1>1, <1>2 DEF ReconcileSound
  <1>18. ProcOK(c)'
    <2>1. Prior(c)' BY <1>5 DEF Prior, Pod, PodChecked
    <2>2. Memory(c)'
      BY <1>1, <1>2, <1>5, <1>7
      DEF IInv, Memory, Pod, PodChecked, Working, Settled, Loop, Ending, store
    <2>3. Requesting(c)' BY <1>1, <1>3, <1>5, <1>6, <1>7, PlanAssumption DEF Requesting, store
    <2>4. Barriers(c)'
      BY <1>1, <1>5, <1>7 DEF IInv, ProcOK, Barriers, Working, Settled, Loop, Ending, store
    <2> QED BY <2>1, <2>2, <2>3, <2>4 DEF ProcOK
  <1>19. \A d \in Procs \ {c} : ProcOK(d)' BY <1>1, <1>2, <1>5, Others
  <1> QED BY <1>8, <1>9, <1>10, <1>11, <1>12, <1>13, <1>14, <1>15, <1>16, <1>17, <1>18, <1>19
      DEF IInv

\* A journal in which one entry is replaced.
LEMMA Replaced ==
    ASSUME NEW j \in Entries
    PROVE  /\ \A o \in [Resources -> {"old", "new", None}] :
                LET e == [j EXCEPT !.owners = o] IN
                /\ e \in Entries /\ e.owners = o /\ e.done = j.done /\ e.inflight = j.inflight
                /\ e.failed = j.failed /\ e.started = j.started /\ e.accepted = j.accepted
           /\ \A n \in 0..Size :
                LET e == [j EXCEPT !.inflight = n] IN
                /\ e \in Entries /\ e.inflight = n /\ e.done = j.done /\ e.owners = j.owners
                /\ e.failed = j.failed /\ e.started = j.started /\ e.accepted = j.accepted
           /\ \A n \in 0..Size :
                LET e == [j EXCEPT !.done = n] IN
                /\ e \in Entries /\ e.done = n /\ e.owners = j.owners /\ e.inflight = j.inflight
                /\ e.failed = j.failed /\ e.started = j.started /\ e.accepted = j.accepted
  BY DEF Entries

\* The journal after an answer: the owner of the resource, and no mark.
LEMMA Owned ==
    ASSUME IInv, NEW c \in Procs, pc[c] \in {"sent", "saveowner"}, NEW j,
           j = [disk EXCEPT !.owners[disk.done + 1] =
                               IF Action[disk.done + 1] = "create" THEN "new" ELSE "old",
                            !.inflight = 0]
    PROVE  /\ j \in Entries /\ j.done = disk.done /\ j.inflight = 0 /\ j.failed = disk.failed
           /\ j.started = disk.started /\ j.accepted = disk.accepted
           /\ j.owners[disk.done + 1] = IF Action[disk.done + 1] = "create" THEN "new" ELSE "old"
           /\ \A i \in Resources : i # disk.done + 1 => j.owners[i] = disk.owners[i]
  <1> DEFINE n == disk.done + 1
             u == IF Action[n] = "create" THEN "new" ELSE "old"
             o == [disk.owners EXCEPT ![n] = u]
  <1>1. disk \in Entries /\ n \in Resources /\ Size \in Nat BY AtWork DEF Working
  <1>2. disk.owners \in [Resources -> {"old", "new", None}] BY <1>1 DEF Entries
  <1>3. /\ o \in [Resources -> {"old", "new", None}] /\ o[n] = u
        /\ \A i \in Resources : i # n => o[i] = disk.owners[i]
    BY <1>1, <1>2
  <1>4. j = [disk EXCEPT !.owners = o, !.inflight = 0] BY <1>1 DEF Entries
  <1> HIDE DEF o, u
  <1>5. /\ j \in Entries /\ j.done = disk.done /\ j.inflight = 0 /\ j.failed = disk.failed
        /\ j.started = disk.started /\ j.accepted = disk.accepted /\ j.owners = o
    <2> DEFINE e == [disk EXCEPT !.owners = o]
    <2>1. /\ e \in Entries /\ e.done = disk.done /\ e.failed = disk.failed
          /\ e.started = disk.started /\ e.accepted = disk.accepted /\ e.owners = o
      BY <1>1, <1>3, Replaced
    <2>2. j = [e EXCEPT !.inflight = 0] BY <1>4
    <2> HIDE DEF e
    <2>3. 0 \in 0..Size BY <1>1
    <2> DEFINE f == [e EXCEPT !.inflight = 0]
    <2>4. /\ f \in Entries /\ f.inflight = 0 /\ f.done = e.done /\ f.owners = e.owners
          /\ f.failed = e.failed /\ f.started = e.started /\ f.accepted = e.accepted
      BY <2>1, <2>3, Replaced
    <2> HIDE DEF f
    <2>5. j = f BY <2>2 DEF f
    <2> QED BY <2>1, <2>4, <2>5
  <1> QED BY <1>3, <1>5 DEF u

\* A positive answer means that the write took effect.
LEMMA AnsweredOK ==
    ASSUME IInv, NEW c \in Procs, Answered(c)
    PROVE  IInv'
  <1>1. /\ pc[c] = "sent" /\ answer[c] = "ok" /\ Go(c, "saveowner")
        /\ UNCHANGED <<cluster, store, lease, prior, phase, request, answer, budget, outcomes,
                       plan>>
    BY DEF Answered
  <1>2. /\ pc[c] \notin Outside /\ pc[c] \in Writers /\ disk # NoJournal /\ ~disk.accepted
        /\ mem[c] = disk /\ disk.inflight = disk.done + 1 /\ disk \in Entries
    BY <1>1, AtWork DEF Working, IInv, ProcOK, Memory
  <1>3. /\ mem'[c] = [disk EXCEPT !.owners[disk.done + 1] =
                               IF Action[disk.done + 1] = "create" THEN "new" ELSE "old",
                            !.inflight = 0]
        /\ mem' = [mem EXCEPT ![c] = mem'[c]]
    BY <1>2 DEF Answered, IInv, TypeOK
  <1>4. mem'[c] \in Journals BY <1>1, <1>3, Owned, JournalTypes DEF IInv, TypeOK
  <1>5. "saveowner" \in Points \ Outside BY DEF Points, Outside
  <1>6. pc'[c] = "saveowner" BY <1>1, <1>5, Moved DEF IInv
  <1>7. /\ Resources' = Resources /\ Action' = Action
        /\ \A i : Deferred(i)' = Deferred(i)
        /\ \A i : BlockDone(i, disk)' <=> BlockDone(i, disk)
    BY <1>1, PlanSame, BlocksSame DEF store
  <1>8. Prior(c)' BY <1>6 DEF Prior, Pod, PodChecked
  <1>9. Memory(c)'
    BY <1>1, <1>2, <1>3, <1>6, <1>7
    DEF Memory, Pod, PodChecked, Working, Settled, Loop, Ending, store
  <1>10. Requesting(c)'
    BY <1>1, <1>6 DEF IInv, ProcOK, Requesting, store, cluster
  <1>11. Barriers(c)'
    BY <1>1, <1>6, <1>7 DEF IInv, ProcOK, Barriers, Working, Settled, Loop, Ending, store, cluster
  <1> QED BY <1>1, <1>2, <1>3, <1>4, <1>5, <1>8, <1>9, <1>10, <1>11, InsideOK
      DEF IInv, TypeOK, cluster, store

\* Recording the owner closes the in-flight mark of a write that happened.
LEMMA SaveOwnerOK ==
    ASSUME IInv, NEW c \in Procs, SaveOwner(c)
    PROVE  IInv'
  <1> DEFINE n == disk.done + 1
  <1>1. /\ pc[c] = "saveowner" /\ disk' = mem[c] /\ mem' = [mem EXCEPT ![c] = disk']
        /\ Go(c, "wait")
        /\ UNCHANGED <<cluster, planFile, lease, prior, phase, request, answer, budget,
                       outcomes, plan>>
    BY DEF SaveOwner, Save
  <1>2. /\ pc[c] \notin Outside /\ pc[c] \in Writers /\ disk # NoJournal /\ ~disk.accepted
        /\ disk.done \in 0..Size /\ Size \in Nat /\ Resources = 1..Size
        /\ n \in Resources /\ disk.done < Size /\ disk.inflight = n
        /\ planFile /\ KnownPrefix(disk)
        /\ disk.owners[n] = None /\ Action[n] # "retain"
    BY <1>1, AtWork DEF IInv, ProcOK, Memory, DiskOK
  <1>3. applied[n] = 1 /\ wire = {} BY <1>1 DEF IInv, ProcOK, Requesting
  <1>4. /\ disk' \in Entries /\ disk'.done = disk.done /\ disk'.inflight = 0
        /\ disk'.failed = disk.failed /\ disk'.started = disk.started /\ ~disk'.accepted
        /\ disk'.owners[n] = IF Action[n] = "create" THEN "new" ELSE "old"
        /\ \A i \in Resources : i # n => disk'.owners[i] = disk.owners[i]
    BY <1>1, <1>2, Owned DEF IInv, ProcOK, Memory
  <1>5. disk' \in Journals /\ disk' # NoJournal BY <1>4, JournalTypes DEF IInv, TypeOK
  <1>6. "wait" \in Points \ Outside BY DEF Points, Outside
  <1>7. pc'[c] = "wait" /\ mem'[c] = disk' BY <1>1, <1>6, Moved DEF IInv, TypeOK
  <1>8. /\ Resources' = Resources /\ Size' = Size /\ Kind' = Kind /\ Deps' = Deps
        /\ Action' = Action
        /\ \A i : Deferred(i)' = Deferred(i) /\ Uid(i)' = Uid(i)
        /\ \A i : BlockDone(i, disk)' <=> BlockDone(i, disk)
    BY <1>1, <1>4, PlanSame, BlocksSame
  <1>9. DiskOK'
    <2>1. disk'.owners[n] # None BY <1>4, PlanAssumption
    <2>2. Uid(n) # None => disk'.owners[n] = Uid(n) BY <1>4 DEF Uid
    <2>3. ~disk.started BY <1>2 DEF KnownPrefix
    <2>4. KnownPrefix(disk)'
      BY <1>2, <1>4, <1>5, <1>8, <2>1, <2>2, <2>3 DEF KnownPrefix
    <2> QED BY <1>1, <1>2, <1>4, <2>4 DEF DiskOK
  <1>10. JournalAccurate'
    <2>1. \A i \in Resources : /\ Owner(disk, i)' = disk'.owners[i]
                               /\ Owner(disk, i) = disk.owners[i]
      BY <1>2, <1>5 DEF Owner
    <2>2. disk'.owners[n] # None BY <1>4, PlanAssumption
    <2>3. UncertainIsRecorded'
      BY <1>1, <1>2, <1>3, <1>4, <1>8, <2>1, <2>2
      DEF IInv, JournalAccurate, UncertainIsRecorded, cluster
    <2>4. RecordedPrefix'
      BY <1>1, <1>2, <1>3, <1>4, <1>8, <2>1 DEF IInv, JournalAccurate, RecordedPrefix, cluster
    <2> QED BY <2>3, <2>4 DEF JournalAccurate
  <1>11. WaitedOK' BY <1>1, <1>4, <1>8 DEF IInv, WaitedOK, cluster
  <1>12. AcceptedIsComplete' BY <1>4 DEF AcceptedIsComplete
  <1>13. ProcOK(c)'
    <2>1. Prior(c)' /\ Requesting(c)' BY <1>7 DEF Prior, Pod, PodChecked, Requesting
    <2>2. disk'.owners[disk'.done + 1] # None BY <1>4, PlanAssumption
    <2>3. Memory(c)'
      BY <1>2, <1>4, <1>5, <1>7, <1>8, <2>2
      DEF Memory, Pod, PodChecked, Working, Settled, Loop, Ending
    <2>4. Barriers(c)'
      BY <1>1, <1>7, <1>8 DEF IInv, ProcOK, Barriers, Working, Settled, Loop, Ending, cluster
    <2> QED BY <2>1, <2>3, <2>4 DEF ProcOK
  <1> QED BY <1>1, <1>2, <1>5, <1>6, <1>9, <1>10, <1>11, <1>12, <1>13, SavedOK DEF Outside

\* Seeing the resource ready after its write completes its own wait.
LEMMA WaitOK ==
    ASSUME IInv, NEW c \in Procs, Wait(c)
    PROVE  IInv'
  <1> DEFINE n == disk.done + 1
  <1>1. /\ pc[c] = "wait" /\ Go(c, "complete")
        /\ UNCHANGED <<obj, ver, ready, wire, applied, store, lease, prior, mem, phase,
                       request, answer, budget, outcomes, plan>>
    BY DEF Wait
  <1>2. /\ pc[c] \notin Outside /\ pc[c] \in Writers /\ mem[c] = disk /\ n \in Resources
    BY <1>1, AtWork DEF Working, Settled, Loop
  <1>3. /\ waited \subseteq waited' /\ waited' \subseteq Resources
        /\ n \in waited' \/ Kind[n] = "claim" \/ Deferred(n)
    BY <1>2 DEF Wait, IInv, TypeOK
  <1>4. "complete" \in Points \ Outside BY DEF Points, Outside
  <1>5. pc'[c] = "complete" BY <1>1, <1>4, Moved DEF IInv
  <1>6. /\ Resources' = Resources /\ Action' = Action /\ Kind' = Kind /\ Size' = Size
        /\ \A i : Deferred(i)' = Deferred(i)
        /\ \A i : BlockDone(i, disk)' <=> BlockDone(i, disk)
    BY <1>1, PlanSame, BlocksSame DEF store
  <1>7. Prior(c)' /\ Requesting(c)' BY <1>5 DEF Prior, Pod, PodChecked, Requesting
  <1>8. Memory(c)'
    BY <1>1, <1>5, <1>6
    DEF IInv, ProcOK, Memory, Pod, PodChecked, Working, Settled, Loop, Ending, store
  <1>9. Deferred(disk.done + 1)' = Deferred(disk.done + 1)
    BY <1>1, PlanSame DEF Deferred, store
  <1>10. Barriers(c)'
    BY <1>1, <1>3, <1>5, <1>6, <1>9
    DEF IInv, ProcOK, Barriers, Working, Settled, Loop, Ending, store
  <1> QED BY <1>1, <1>2, <1>3, <1>4, <1>7, <1>8, <1>10, InsideOK DEF IInv, TypeOK, store

\* The journal after a completed resource.
LEMMA Advanced ==
    ASSUME IInv, NEW c \in Procs, pc[c] = "complete",
           disk' = [disk EXCEPT !.done = disk.done + 1,
                                !.owners[disk.done + 1] =
                                   IF @ = None THEN Uid(disk.done + 1) ELSE @]
    PROVE  /\ disk' \in Entries /\ disk'.done = disk.done + 1
           /\ disk'.inflight = disk.inflight /\ disk'.failed = disk.failed
           /\ disk'.started = disk.started /\ disk'.accepted = disk.accepted
           /\ disk'.owners[disk.done + 1] =
                IF disk.owners[disk.done + 1] = None THEN Uid(disk.done + 1)
                ELSE disk.owners[disk.done + 1]
           /\ \A i \in Resources : i # disk.done + 1 => disk'.owners[i] = disk.owners[i]
  <1> DEFINE n == disk.done + 1
             u == IF disk.owners[n] = None THEN Uid(n) ELSE disk.owners[n]
             o == [disk.owners EXCEPT ![n] = u]
             e == [disk EXCEPT !.done = n]
             f == [e EXCEPT !.owners = o]
  <1>1. disk \in Entries /\ n \in Resources /\ Resources = 1..Size /\ Size \in Nat
    BY AtWork DEF Working, Settled, Loop
  <1>2. disk.owners \in [Resources -> {"old", "new", None}] BY <1>1 DEF Entries
  <1>3. u \in {"old", "new", None} BY <1>1, <1>2 DEF Uid
  <1>4. /\ o \in [Resources -> {"old", "new", None}] /\ o[n] = u
        /\ \A i \in Resources : i # n => o[i] = disk.owners[i]
    BY <1>1, <1>2, <1>3
  <1>5. n \in 0..Size BY <1>1
  <1>6. /\ e \in Entries /\ e.done = n /\ e.owners = disk.owners /\ e.inflight = disk.inflight
        /\ e.failed = disk.failed /\ e.started = disk.started /\ e.accepted = disk.accepted
    BY <1>1, <1>5, Replaced
  <1>7. disk' = [[disk EXCEPT !.done = n] EXCEPT !.owners = o] BY <1>1 DEF Entries
  <1> HIDE DEF e, o, u
  <1>8. /\ f \in Entries /\ f.owners = o /\ f.done = e.done /\ f.inflight = e.inflight
        /\ f.failed = e.failed /\ f.started = e.started /\ f.accepted = e.accepted
    BY <1>4, <1>6, Replaced
  <1>9. disk' = f BY <1>7 DEF e
  <1> HIDE DEF f
  <1> QED BY <1>4, <1>6, <1>8, <1>9 DEF u

\* A block is complete only once its last resource is: its barrier comes next.
LEMMA CompleteOK ==
    ASSUME IInv, NEW c \in Procs, Complete(c)
    PROVE  IInv'
  <1> DEFINE n == disk.done + 1
             q == IF Phase[n] = "workload" /\ (n = Size \/ Phase[n + 1] # Phase[n])
                  THEN "block" ELSE "next"
  <1>1. /\ pc[c] = "complete"
        /\ UNCHANGED <<cluster, planFile, lease, prior, phase, request, answer, budget,
                       outcomes, plan>>
    BY DEF Complete
  <1>2. /\ pc[c] \notin Outside /\ pc[c] \in Writers /\ disk # NoJournal /\ ~disk.accepted
        /\ mem[c] = disk /\ disk \in Entries
        /\ disk.done \in 0..Size /\ Size \in Nat /\ Resources = 1..Size
        /\ n \in Resources /\ disk.done < Size /\ disk.inflight = 0
        /\ planFile /\ KnownPrefix(disk)
        /\ Action[n] = "retain" \/ disk.owners[n] # None
        /\ n \in waited \/ Kind[n] = "claim" \/ Deferred(n)
    BY <1>1, AtWork DEF Working, Settled, Loop, IInv, ProcOK, Memory, Barriers
  <1>3. Go(c, q) BY <1>2 DEF Complete
  <1>4. disk' = [disk EXCEPT !.done = disk.done + 1,
                             !.owners[disk.done + 1] =
                                IF @ = None THEN Uid(disk.done + 1) ELSE @]
        /\ mem' = [mem EXCEPT ![c] = disk']
    BY <1>2 DEF Complete, Save
  <1>5. /\ disk' \in Entries /\ disk'.done = n /\ disk'.inflight = 0
        /\ disk'.failed = disk.failed /\ disk'.started = disk.started /\ ~disk'.accepted
        /\ disk'.owners[n] = IF disk.owners[n] = None THEN Uid(n) ELSE disk.owners[n]
        /\ \A i \in Resources : i # n => disk'.owners[i] = disk.owners[i]
    BY <1>1, <1>2, <1>4, Advanced
  <1>6. disk' \in Journals /\ disk' # NoJournal BY <1>5, JournalTypes DEF IInv, TypeOK
  <1>7. q \in Points \ Outside /\ q \in {"block", "next"} BY DEF Points, ScanPoints, Outside
  <1>8. pc'[c] = q /\ at'[c] = 1 /\ mem'[c] = disk'
    BY <1>3, <1>4, <1>7, Moved DEF IInv, TypeOK
  <1>9. /\ Resources' = Resources /\ Size' = Size /\ Kind' = Kind /\ Phase' = Phase
        /\ Action' = Action
        /\ \A i : Deferred(i)' = Deferred(i) /\ Uid(i)' = Uid(i) /\ Block(i)' = Block(i)
    BY <1>1, PlanSame
  <1>10. disk'.owners[n] # None /\ (disk.owners[n] = None => Action[n] = "retain")
    BY <1>2, <1>5, PlanAssumption DEF Uid
  <1>11. DiskOK'
    <2>1. ~disk.started BY <1>2 DEF KnownPrefix
    <2>2. Uid(n) # None => disk'.owners[n] = Uid(n) BY <1>2, <1>5 DEF KnownPrefix
    <2>3. KnownPrefix(disk)'
      BY <1>2, <1>5, <1>6, <1>9, <1>10, <2>1, <2>2 DEF KnownPrefix
    <2> QED BY <1>1, <1>2, <1>5, <2>3 DEF DiskOK
  <1>12. JournalAccurate'
    <2>1. \A i \in Resources : /\ Owner(disk, i)' = disk'.owners[i]
                               /\ Owner(disk, i) = disk.owners[i]
      BY <1>2, <1>6 DEF Owner
    <2>2. /\ wire = {}
          /\ \A i \in Resources : disk.owners[i] = None => applied[i] = 0
      BY <1>2, NothingUncertain
    <2>3. UncertainIsRecorded'
      BY <1>1, <1>5, <1>9, <1>10, <2>1, <2>2 DEF UncertainIsRecorded, cluster
    <2>4. RecordedPrefix'
      BY <1>1, <1>2, <1>5, <1>9, <1>10, <2>1 DEF IInv, JournalAccurate, RecordedPrefix, cluster
    <2> QED BY <2>3, <2>4 DEF JournalAccurate
  <1>13. WaitedOK'
    <2>1. \A i \in Resources : i <= n => i <= disk.done \/ i = n BY <1>2
    <2> QED BY <1>1, <1>2, <1>5, <1>9, <2>1 DEF IInv, WaitedOK, cluster
  <1>14. AcceptedIsComplete' BY <1>5 DEF AcceptedIsComplete
  <1>15. Barriers(c)'
    <2>1. \A i \in Resources : Deferred(i) /\ BlockDone(i, disk) => i \in waited
      BY <1>1 DEF IInv, ProcOK, Barriers, Working, Settled, Loop
    <2>2. ASSUME NEW i \in Resources, Deferred(i), BlockDone(i, disk)', n \notin Block(i)
          PROVE  i \in waited'
      <3>1. \A k \in Block(i) : k \in Resources /\ k <= n BY <1>5, <1>9, <2>2 DEF BlockDone, Block
      <3>2. \A k \in Block(i) : k <= disk.done BY <1>2, <2>2, <3>1
      <3>3. BlockDone(i, disk) BY <3>2 DEF BlockDone
      <3> QED BY <1>1, <2>1, <2>2, <3>3 DEF cluster
    <2>3. CASE q = "next"
      <3>1. SUFFICES ASSUME NEW i \in Resources, Deferred(i), BlockDone(i, disk)'
                     PROVE  i \in waited'
        BY <1>8, <1>9, <2>3 DEF Barriers, Working, Settled, Loop, Ending
      <3>2. SUFFICES ASSUME n \in Block(i) PROVE FALSE BY <2>2, <3>1
      <3>3. Phase[n] = Phase[i] /\ Phase[i] = "workload" BY <3>1, <3>2 DEF Block, Deferred
      <3>4. n # Size /\ Phase[n + 1] = Phase[n] BY <2>3, <3>3
      <3>5. n + 1 \in Block(i) BY <1>2, <3>3, <3>4 DEF Block
      <3>6. n + 1 <= n BY <1>5, <1>9, <3>1, <3>5 DEF BlockDone
      <3> QED BY <1>2, <3>6
    <2>4. CASE q = "block"
      <3>1. SUFFICES ASSUME NEW i \in Resources, Deferred(i), BlockDone(i, disk)',
                            i \in Block(disk.done)' => i < 1
                     PROVE  i \in waited'
        BY <1>5, <1>8, <1>9, <2>4 DEF Barriers, Working, Settled, Loop, Ending, Block
      <3>2. i \notin Block(disk.done)' BY <1>2, <3>1
      <3>3. n \notin Block(i) BY <1>5, <1>9, <3>2 DEF Block
      <3> QED BY <2>2, <3>1, <3>3
    <2> QED BY <1>7, <2>3, <2>4
  <1>16. ProcOK(c)'
    <2>1. Prior(c)' /\ Requesting(c)' BY <1>7, <1>8 DEF Prior, Pod, PodChecked, Requesting
    <2>2. Memory(c)'
      BY <1>5, <1>6, <1>7, <1>8 DEF Memory, Pod, PodChecked, Working, Settled, Loop, Ending
    <2> QED BY <2>1, <2>2, <1>15 DEF ProcOK
  <1> QED BY <1>1, <1>2, <1>3, <1>4, <1>6, <1>7, <1>11, <1>12, <1>13, <1>14, <1>16, SavedOK
      DEF Outside

-----------------------------------------------------------------------------
(* Acceptance and reconciliation                                            *)

\* Acceptance starts only with everything completed and seen ready.
LEMMA StartAcceptanceOK ==
    ASSUME IInv, NEW c \in Procs, StartAcceptance(c)
    PROVE  IInv'
  <1>1. /\ pc[c] = "start" /\ disk' = [mem[c] EXCEPT !.started = TRUE]
        /\ mem' = [mem EXCEPT ![c] = disk'] /\ Go(c, "accept")
        /\ UNCHANGED <<cluster, planFile, lease, prior, phase, request, answer, budget,
                       outcomes, plan>>
    BY DEF StartAcceptance, Save
  <1>2. /\ pc[c] \notin Outside /\ pc[c] \in Writers /\ disk # NoJournal /\ ~disk.accepted
        /\ mem[c] = disk /\ disk \in Entries /\ disk.inflight = 0 /\ disk.done = Size
        /\ planFile /\ KnownPrefix(disk) /\ waited = Resources
    BY <1>1, AtWork DEF Working, Settled, Ending, IInv, ProcOK, Memory, Barriers
  <1>3. /\ disk' \in Entries /\ disk'.done = disk.done /\ disk'.owners = disk.owners
        /\ disk'.inflight = 0 /\ disk'.started /\ ~disk'.accepted
    BY <1>1, <1>2 DEF Entries
  <1>4. disk' \in Journals /\ disk' # NoJournal BY <1>3, JournalTypes DEF IInv, TypeOK
  <1>5. "accept" \in Points \ Outside BY DEF Points, Outside
  <1>6. pc'[c] = "accept" /\ mem'[c] = disk' BY <1>1, <1>5, Moved DEF IInv, TypeOK
  <1>7. /\ Resources' = Resources /\ Size' = Size /\ Kind' = Kind /\ Action' = Action
        /\ \A i : Deferred(i)' = Deferred(i) /\ Uid(i)' = Uid(i)
    BY <1>1, PlanSame
  <1>8. DiskOK'
    <2>1. KnownPrefix(disk)' BY <1>2, <1>3, <1>4, <1>7 DEF KnownPrefix
    <2> QED BY <1>1, <1>2, <1>3, <2>1 DEF DiskOK
  <1>9. JournalAccurate'
    BY <1>1, <1>2, <1>3, <1>4, <1>7
    DEF IInv, JournalAccurate, UncertainIsRecorded, RecordedPrefix, Owner, cluster
  <1>10. WaitedOK' BY <1>1, <1>2, <1>3, <1>7 DEF IInv, WaitedOK, cluster
  <1>11. AcceptedIsComplete' BY <1>3 DEF AcceptedIsComplete
  <1>12. ProcOK(c)'
    <2>1. Prior(c)' /\ Requesting(c)' BY <1>6 DEF Prior, Pod, PodChecked, Requesting
    <2>2. Memory(c)'
      BY <1>2, <1>3, <1>4, <1>6, <1>7 DEF Memory, Pod, PodChecked, Working, Settled, Loop, Ending
    <2>3. Barriers(c)'
      BY <1>1, <1>2, <1>6, <1>7 DEF Barriers, Working, Settled, Loop, Ending, cluster
    <2> QED BY <2>1, <2>2, <2>3 DEF ProcOK
  <1> QED BY <1>1, <1>2, <1>4, <1>5, <1>8, <1>9, <1>10, <1>11, <1>12, SavedOK DEF Outside

\* A passed acceptance test changes nothing on disk.
LEMMA AcceptOK ==
    ASSUME IInv, NEW c \in Procs, Accept(c)
    PROVE  IInv'
  <1>1. PICK q : /\ Go(c, q)
                 /\ \/ pc[c] = "accept" /\ q = "reverify"
                    \/ pc[c] = "podaccept" /\ q = "podreverify"
                    \/ pc[c] = "reaccept" /\ q \in {"recorded3", "retained2"}
                 /\ UNCHANGED <<cluster, store, lease, prior, mem, phase, request, answer,
                                budget, outcomes, plan>>
    BY DEF Accept
  <1>2. /\ pc[c] \notin Outside /\ q \in Points \ Outside
        /\ q \in Writers => pc[c] \in Writers
    BY <1>1 DEF Outside, Points, ScanPoints, Writers, Working, Settled, Loop, Ending, Pod,
                PodChecked
  <1>3. pc'[c] = q /\ at'[c] = 1 BY <1>1, <1>2, Moved DEF IInv
  <1>4. /\ Resources' = Resources /\ Size' = Size /\ Resumable' = Resumable
        /\ AppliedPodEvidence(prior[c])' <=> AppliedPodEvidence(prior[c])
    BY <1>1, PlanSame DEF AppliedPodEvidence
  <1>5. Prior(c)' BY <1>1, <1>3, <1>4 DEF IInv, ProcOK, Prior, Pod, PodChecked
  <1>6. Memory(c)'
    BY <1>1, <1>3, <1>4
    DEF IInv, ProcOK, Memory, Pod, PodChecked, Working, Settled, Loop, Ending, store
  <1>7. Requesting(c)' BY <1>1, <1>3 DEF Requesting
  <1>8. \A i : Deferred(i)' = Deferred(i) BY <1>1, PlanSame
  <1>9. \A i : BlockDone(i, disk)' <=> BlockDone(i, disk) BY <1>1, BlocksSame DEF store
  <1>10. Barriers(c)'
    BY <1>1, <1>3, <1>4, <1>8, <1>9
    DEF IInv, ProcOK, Barriers, Working, Settled, Loop, Ending, cluster
  <1> QED BY <1>1, <1>2, <1>5, <1>6, <1>7, <1>10, InsideOK DEF IInv, TypeOK, cluster, store

\* Whoever saves the acceptance, everything is done, recorded and seen ready.
LEMMA AcceptedFacts ==
    ASSUME IInv, NEW c \in Procs, pc[c] \in {"accepted", "podaccepted"}
    PROVE  /\ pc[c] \notin Outside /\ pc[c] \in Writers
           /\ mem[c] = disk /\ disk \in Entries /\ disk # NoJournal /\ ~disk.accepted
           /\ planFile /\ KnownPrefix(disk)
           /\ disk.inflight = 0 /\ disk.done = Size /\ disk.started
           /\ waited = Resources /\ wire = {}
           /\ \A i \in Resources : Action[i] # "retain" => applied[i] = 1
  <1>1. /\ pc[c] \notin Outside /\ pc[c] \in Writers /\ mem[c] = disk /\ disk # NoJournal
        /\ ~disk.accepted /\ disk.inflight = 0 /\ disk.done = Size /\ disk.started
        /\ waited = Resources
    <2>1. CASE pc[c] = "accepted"
      BY <2>1, AtWork DEF Working, Settled, Ending, IInv, ProcOK, Memory, Barriers
    <2>2. CASE pc[c] = "podaccepted"
      <3>1. pc[c] \notin Outside /\ pc[c] \in Writers
        BY <2>2 DEF Outside, Writers, Pod, PodChecked
      <3>2. mem[c] = disk /\ mem[c] = prior[c] /\ AppliedPodEvidence(disk)
        BY <2>2 DEF IInv, ProcOK, Memory, Prior, Pod, PodChecked
      <3>3. /\ Size = 1 /\ Kind[1] = "pod" /\ disk.started /\ ~disk.accepted
            /\ disk.inflight = 0 /\ disk.done = 1
        BY <3>2 DEF AppliedPodEvidence
      <3>4. disk # NoJournal BY <3>3 DEF NoJournal
      <3>5. Resources = {1} BY <3>3 DEF Resources
      <3>6. 1 \in waited BY <3>3, <3>5 DEF IInv, WaitedOK
      <3>7. waited = Resources BY <3>5, <3>6 DEF IInv, TypeOK
      <3> QED BY <3>1, <3>2, <3>3, <3>4, <3>7
    <2> QED BY <2>1, <2>2
  <1>2. disk \in Entries BY <1>1, JournalTypes DEF IInv, TypeOK
  <1>3. planFile /\ KnownPrefix(disk) BY <1>1 DEF IInv, DiskOK
  <1>4. wire = {} BY <1>1, NothingUncertain
  <1>5. ASSUME NEW i \in Resources, Action[i] # "retain" PROVE applied[i] = 1
    <2>1. i <= disk.done BY <1>1, PlanFacts DEF IInv, TypeOK
    <2>2. Owner(disk, i) # None BY <1>1, <1>3, <2>1 DEF KnownPrefix, Owner
    <2>3. applied[i] > 0 BY <1>5, <2>2 DEF IInv, JournalAccurate, RecordedPrefix
    <2> QED BY <2>3 DEF IInv, AppliedOK
  <1> QED BY <1>1, <1>2, <1>3, <1>4, <1>5

\* The last save records acceptance of a complete execution.
LEMMA SaveAcceptedOK ==
    ASSUME IInv, NEW c \in Procs, SaveAccepted(c)
    PROVE  IInv'
  <1>1. /\ pc[c] \in {"accepted", "podaccepted"}
        /\ disk' = [mem[c] EXCEPT !.accepted = TRUE, !.failed = FALSE]
        /\ mem' = [mem EXCEPT ![c] = disk'] /\ Go(c, "cleanup")
        /\ UNCHANGED <<cluster, planFile, lease, prior, phase, request, answer, budget,
                       outcomes, plan>>
    BY DEF SaveAccepted, Save
  <1>2. /\ pc[c] \notin Outside /\ pc[c] \in Writers
        /\ mem[c] = disk /\ disk \in Entries /\ disk # NoJournal
        /\ planFile /\ KnownPrefix(disk)
        /\ disk.inflight = 0 /\ disk.done = Size /\ disk.started
        /\ waited = Resources /\ wire = {}
        /\ \A i \in Resources : Action[i] # "retain" => applied[i] = 1
    BY <1>1, AcceptedFacts
  <1>3. /\ disk' \in Entries /\ disk'.done = disk.done /\ disk'.owners = disk.owners
        /\ disk'.inflight = 0 /\ disk'.started /\ disk'.accepted /\ ~disk'.failed
    <2> DEFINE e == [disk EXCEPT !.accepted = TRUE]
    <2>1. /\ e \in Entries /\ e.done = disk.done /\ e.owners = disk.owners
          /\ e.inflight = disk.inflight /\ e.started = disk.started /\ e.accepted
      BY <1>2 DEF Entries
    <2>2. disk' = [e EXCEPT !.failed = FALSE] BY <1>1, <1>2
    <2> HIDE DEF e
    <2> QED BY <1>2, <2>1, <2>2 DEF Entries
  <1>4. disk' \in Journals /\ disk' # NoJournal BY <1>3, JournalTypes DEF IInv, TypeOK
  <1>5. "cleanup" \in Points \ Outside /\ "cleanup" \in Passive BY DEF Points, Outside, Passive
  <1>6. pc'[c] = "cleanup" BY <1>1, <1>5, Moved DEF IInv
  <1>7. /\ Resources' = Resources /\ Size' = Size /\ Kind' = Kind /\ Action' = Action
        /\ \A i : Deferred(i)' = Deferred(i) /\ Uid(i)' = Uid(i)
    BY <1>1, PlanSame
  <1>8. DiskOK'
    <2>1. KnownPrefix(disk)' BY <1>2, <1>3, <1>4, <1>7 DEF KnownPrefix
    <2> QED BY <1>1, <1>2, <1>3, <2>1 DEF DiskOK
  <1>9. JournalAccurate'
    BY <1>1, <1>2, <1>3, <1>4, <1>7
    DEF IInv, JournalAccurate, UncertainIsRecorded, RecordedPrefix, Owner, cluster
  <1>10. WaitedOK' BY <1>1, <1>2, <1>3, <1>7 DEF IInv, WaitedOK, cluster
  <1>11. AcceptedIsComplete' BY <1>1, <1>2, <1>3, <1>7 DEF AcceptedIsComplete, cluster
  <1>12. ProcOK(c)' BY <1>5, <1>6, PassiveOK DEF ProcOK
  <1> QED BY <1>1, <1>2, <1>4, <1>5, <1>8, <1>9, <1>10, <1>11, <1>12, SavedOK DEF Outside

\* Whoever may write holds the lease.
LEMMA WritersInside == Writers \cap Outside = {}
  BY DEF Writers, Outside, Working, Settled, Loop, Ending, Pod, PodChecked

\* The lease of a dead process keeps everybody else from writing.
LEMMA ReconcileOK ==
    ASSUME IInv, NEW c \in Procs, NEW d \in Procs, Reconcile(c, d)
    PROVE  IInv'
  <1>1. /\ ~Resumable /\ pc[c] = "idle" /\ pc[d] = "dead" /\ lease = d /\ planFile
        /\ disk # NoJournal /\ Decided(disk)
        /\ mem' = [mem EXCEPT ![c] = disk] /\ Go(c, "outcome")
        /\ UNCHANGED <<cluster, store, lease, prior, phase, request, answer, budget, outcomes,
                       plan>>
    BY DEF Reconcile
  <1>2. "outcome" \in Points /\ "outcome" \in Outside BY DEF Points, ScanPoints, Outside
  <1>3. /\ pc' \in [Procs -> Points] /\ at' \in [Procs -> 1..(Size + 1)] /\ pc'[c] = "outcome"
        /\ \A e \in Procs \ {c} : pc'[e] = pc[e] /\ at'[e] = at[e]
    BY <1>1, <1>2, Moved DEF IInv
  <1>4. /\ mem' \in [Procs -> Journals] /\ mem'[c] = disk
        /\ \A e \in Procs \ {c} : mem'[e] = mem[e]
    BY <1>1 DEF IInv, TypeOK
  <1>5. Locking' BY <1>1, <1>2, LockMove DEF IInv, TypeOK, Go
  <1>6. \A e \in Procs : pc'[e] \notin Writers
    <2>1. "outcome" \notin Writers /\ "dead" \notin Writers BY WritersInside DEF Outside
    <2>2. \A e \in Procs : pc[e] \in Writers => lease = e BY WritersInside DEF IInv, Locking
    <2> QED BY <1>1, <1>3, <2>1, <2>2
  <1>7. OutcomeOK'
    <2>1. Resumable' = Resumable /\ Decided(disk)' = Decided(disk) /\ disk' = disk
          /\ planFile' = planFile
      BY <1>1, PlanSame DEF Decided, Conclusive, store
    <2>2. \A e \in Procs : pc'[e] = "outcome" => mem'[e] = disk
      BY <1>3, <1>4 DEF IInv, OutcomeOK
    <2> QED BY <1>1, <1>6, <2>1, <2>2 DEF OutcomeOK
  <1>8. ProcOK(c)'
    <2>1. Prior(c)' BY <1>3 DEF Prior, Pod, PodChecked
    <2> QED BY <1>2, <1>3, <2>1, OutsideOK
  <1> QED BY <1>1, <1>3, <1>4, <1>5, <1>7, <1>8, LocalOK
      DEF IInv, TypeOK, cluster, store, budget

\* A journal that is decided and not accepted records no write, and marks none.
LEMMA Undone ==
    ASSUME IInv, disk # NoJournal, Decided(disk), ~disk.accepted
    PROVE  wire = {} /\ \A i \in Resources : applied[i] = 0
  <1>1. /\ disk.inflight = 0
        /\ \A i \in Resources : disk.owners[i] # None => Action[i] = "retain"
    BY DEF Decided, Conclusive
  <1>2. wire = {} /\ \A i \in Resources : disk.owners[i] = None => applied[i] = 0
    BY <1>1, NothingUncertain
  <1> QED BY <1>1, <1>2 DEF IInv, AppliedOK

\* An outcome is reported only for a journal that decides it.
LEMMA ReconciledOK ==
    ASSUME IInv, NEW c \in Procs, NEW d \in Procs, Reconciled(c, d)
    PROVE  IInv'
  <1>1. /\ pc[c] = "outcome" /\ pc[d] = "dead" /\ lease = d /\ lease' = None /\ c # d
        /\ outcomes' = outcomes \cup
             {IF mem[c].accepted THEN "accepted-target" ELSE "no-resource-writes"}
        /\ UNCHANGED <<cluster, store, budget, plan>>
    BY DEF Reconciled
  <1>2. /\ pc' \in [Procs -> Points] /\ at' \in [Procs -> 1..(Size + 1)]
        /\ mem' \in [Procs -> Journals] /\ prior' \in [Procs -> Journals]
        /\ phase' \in [Procs -> {Phase[i] : i \in Resources} \cup {None}]
        /\ request' \in [Procs -> Requests \cup {None}]
        /\ answer' \in [Procs -> {None, "pending", "ok", "conflict"}]
        /\ pc'[c] = "idle" /\ pc'[d] = "idle"
        /\ \A e \in Procs \ {c, d} :
             /\ pc'[e] = pc[e] /\ at'[e] = at[e] /\ mem'[e] = mem[e] /\ prior'[e] = prior[e]
             /\ request'[e] = request[e] /\ answer'[e] = answer[e]
    <2>1. NoJournal \in Journals BY DEF Journals
    <2>2. "idle" \in Points /\ 1 \in 1..(Size + 1) BY PlanFacts DEF Points, IInv, TypeOK
    <2> QED BY <1>1, <2>1, <2>2 DEF Reconciled, IInv, TypeOK
  <1>3. TypeOK' BY <1>1, <1>2, Types DEF IInv, TypeOK, cluster, store, budget
  <1>4. Locking' BY <1>1, <1>2 DEF IInv, Locking, Outside
  <1>5. /\ mem[c] = disk /\ disk # NoJournal /\ Decided(disk) /\ ~Resumable /\ planFile
        /\ \A e \in Procs : pc[e] \notin Writers
        /\ \A e \in Procs : pc[e] = "outcome" => mem[e] = disk
    BY <1>1 DEF IInv, OutcomeOK
  <1>6. OutcomeOK'
    <2>1. Resumable' = Resumable /\ Decided(disk)' = Decided(disk) /\ disk' = disk
          /\ planFile' = planFile
      BY <1>1, PlanSame DEF Decided, Conclusive, store
    <2>2. "idle" \notin Writers BY WritersInside DEF Outside
    <2>3. \A e \in Procs : pc'[e] \notin Writers BY <1>2, <1>5, <2>2
    <2>4. \A e \in Procs : pc'[e] = "outcome" => mem'[e] = disk BY <1>2, <1>5
    <2> QED BY <1>5, <2>1, <2>3, <2>4 DEF OutcomeOK
  <1>7. ReconcileSound'
    <2>1. Resources' = Resources BY <1>1, PlanSame
    <2> QED BY <1>1, <1>5, <2>1, Undone DEF IInv, ReconcileSound, cluster
  <1>8. DiskOK' /\ JournalAccurate' /\ WaitedOK' /\ AcceptedIsComplete'
    BY <1>1, StoreSame DEF cluster, store, IInv, TypeOK
  <1>9. WireOK' /\ AppliedOK'
    <2>1. Resources' = Resources /\ Action' = Action BY <1>1, PlanSame
    <2> QED BY <1>1, <2>1 DEF IInv, WireOK, AppliedOK, VersionFence, BodyOK, cluster
  <1>10. ProcOK(c)' /\ ProcOK(d)'
    <2>1. Prior(c)' /\ Prior(d)' BY <1>2 DEF Prior, Pod, PodChecked
    <2> QED BY <1>2, <2>1, OutsideOK DEF Outside
  <1>11. \A e \in Procs \ {c, d} : ProcOK(e)'
    BY <1>1, <1>2, SameOK DEF cluster, store, IInv, TypeOK
  <1> QED BY <1>3, <1>4, <1>6, <1>7, <1>8, <1>9, <1>10, <1>11 DEF IInv

-----------------------------------------------------------------------------
(* The cluster                                                              *)

\* The cluster makes an object ready; nobody relies on it being unready.
LEMMA BecomeReadyOK ==
    ASSUME IInv, NEW i \in Resources, BecomeReady(i)
    PROVE  IInv'
  <1>1. /\ ready' = ready \cup {i}
        /\ UNCHANGED <<obj, ver, wire, applied, waited, store, lease, local, budget, outcomes,
                       plan>>
    BY DEF BecomeReady
  <1>2. TypeOK' BY <1>1, Types DEF IInv, TypeOK, store, local, budget
  <1>3. Locking' BY <1>1 DEF IInv, Locking, local
  <1>4. OutcomeOK'
    BY <1>1, PlanSame DEF IInv, OutcomeOK, store, local, Decided, Conclusive
  <1>5. WireOK' /\ AppliedOK' /\ ReconcileSound' BY <1>1, ClusterSame
  <1>6. DiskOK' /\ JournalAccurate' /\ WaitedOK' /\ AcceptedIsComplete'
    BY <1>1, StoreSame DEF store, IInv, TypeOK
  <1>7. \A c \in Procs : ProcOK(c)' BY <1>1, SameOK DEF store, local, IInv, TypeOK
  <1> QED BY <1>2, <1>3, <1>4, <1>5, <1>6, <1>7 DEF IInv

\* Every change of an object moves its version past every prepared request.
LEMMA PastVersion ==
    ASSUME TypeOK, plan' = plan, NEW i \in Resources, NEW o, Change(i, o),
           NEW q \in Requests, VersionFence(q)
    PROVE  VersionFence(q)'
  <1>1. q.res \in Resources /\ q.ver \in Nat BY DEF Requests
  <1>2. Action' = Action BY PlanSame
  <1>3. ver[i] \in Nat /\ ver'[i] = ver[i] + 1 BY DEF Change, TypeOK
  <1>4. q.res # i => ver'[q.res] = ver[q.res] /\ obj'[q.res] = obj[q.res]
    BY <1>1 DEF Change, TypeOK
  <1>5. CASE q.res = i BY <1>1, <1>3, <1>5 DEF VersionFence
  <1>6. CASE q.res # i BY <1>1, <1>2, <1>4, <1>6 DEF VersionFence, BodyOK
  <1> QED BY <1>5, <1>6

\* Deletions that finish and writes of other clients move the version on, so
\* that no prepared request can meet an object that was not reviewed.
LEMMA DriftOK ==
    ASSUME IInv, NEW i \in Resources, FinishDelete(i) \/ Foreign(i)
    PROVE  IInv'
  <1>1. PICK o \in Objects \cup {Absent} : Change(i, o)
    <2>1. obj[i] \in Objects \cup {Absent} BY DEF IInv, TypeOK
    <2>2. \A b \in Bodies : obj[i] # Absent => [obj[i] EXCEPT !.body = b] \in Objects
      BY <2>1 DEF Objects
    <2>3. \A b \in Bodies : [uid |-> "foreign", body |-> b, deleting |-> FALSE] \in Objects
      BY DEF Objects, Uids
    <2> QED BY <2>2, <2>3 DEF FinishDelete, Foreign
  <1>2. /\ UNCHANGED <<wire, applied, waited, store, lease, local, outcomes, plan, faults>>
        /\ foreign' \in 0..MaxForeign
    BY PlanAssumption DEF FinishDelete, Foreign, budget, IInv, TypeOK
  <1>3. TypeOK'
    <2>1. /\ obj' \in [Resources -> Objects \cup {Absent}] /\ ver' \in [Resources -> Nat]
          /\ ready' \in SUBSET Resources
      BY <1>1 DEF Change, IInv, TypeOK
    <2> QED BY <1>2, <2>1, Types DEF IInv, TypeOK, store, local
  <1>4. Locking' BY <1>2 DEF IInv, Locking, local
  <1>5. OutcomeOK'
    BY <1>2, PlanSame DEF IInv, OutcomeOK, store, local, Decided, Conclusive
  <1>6. /\ Resources' = Resources /\ Action' = Action /\ Size' = Size /\ Requests' = Requests
        /\ Resumable' = Resumable /\ Deps' = Deps /\ Kind' = Kind
        /\ \A k : Deferred(k)' = Deferred(k) /\ Block(k)' = Block(k)
        /\ \A k : BlockDone(k, disk)' <=> BlockDone(k, disk)
    BY <1>2, PlanSame, BlocksSame DEF store
  <1>7. WireOK'
    <2>1. \A q \in wire : q \in Requests /\ VersionFence(q)' /\ applied[q.res] = 0
      BY <1>1, <1>2, PastVersion DEF IInv, TypeOK, WireOK
    <2> QED BY <1>2, <2>1 DEF IInv, WireOK
  <1>8. AppliedOK' /\ ReconcileSound' BY <1>2, <1>6 DEF IInv, AppliedOK, ReconcileSound
  <1>9. DiskOK' /\ JournalAccurate' /\ WaitedOK' /\ AcceptedIsComplete'
    BY <1>2, StoreSame DEF store, IInv, TypeOK
  <1>10. ASSUME NEW c \in Procs PROVE ProcOK(c)'
    <2>1. Prior(c)' BY <1>2, PriorSame DEF IInv, ProcOK, local
    <2>2. Memory(c)' BY <1>2, <1>6 DEF IInv, ProcOK, Memory, store, local
    <2>3. pc[c] \in {"inflight", "send"} => VersionFence(request[c])'
      <3>1. SUFFICES ASSUME pc[c] \in {"inflight", "send"} PROVE VersionFence(request[c])'
        OBVIOUS
      <3>2. request[c] \in Requests /\ VersionFence(request[c])
        BY <3>1 DEF IInv, ProcOK, Requesting
      <3> DEFINE r == request[c]
      <3>3. \A q \in Requests : VersionFence(q) => VersionFence(q)'
        BY <1>1, <1>2, PastVersion DEF IInv
      <3>4. request'[c] = request[c] BY <1>2 DEF local
      <3> QED BY <3>2, <3>3, <3>4 DEF VersionFence, BodyOK
    <2>4. Requesting(c)' BY <1>2, <1>6, <2>3 DEF IInv, ProcOK, Requesting, store, local
    <2>5. Block(disk.done)' = Block(disk.done) BY <1>2, PlanSame DEF Block, store
    <2>6. Barriers(c)' BY <1>2, <1>6, <2>5 DEF IInv, ProcOK, Barriers, store, local
    <2> QED BY <2>1, <2>2, <2>4, <2>6 DEF ProcOK
  <1> QED BY <1>3, <1>4, <1>5, <1>7, <1>8, <1>9, <1>10 DEF IInv

\* What a request on its way says of the journal: it is the one write that is
\* marked, and nobody has gone past it.
LEMMA InTransit ==
    ASSUME IInv, NEW q \in wire
    PROVE  /\ q \in Requests /\ q.res \in Resources
           /\ disk # NoJournal /\ disk.inflight = q.res /\ q.res = disk.done + 1
           /\ disk.done \in 0..Size /\ Size \in Nat
           /\ ~disk.accepted /\ disk.owners[q.res] = None /\ Action[q.res] # "retain"
           /\ applied[q.res] = 0 /\ VersionFence(q) /\ wire = {q}
           /\ "no-resource-writes" \notin outcomes
           /\ \A c \in Procs : pc[c] \notin Settled \cup {"send", "saveowner", "recorded2"}
  <1>1. q \in Requests /\ q.res \in Resources BY DEF IInv, TypeOK, Requests
  <1>2. disk.inflight = q.res BY <1>1 DEF IInv, JournalAccurate, UncertainIsRecorded
  <1>3. q.res # 0 /\ Size \in Nat BY <1>1, PlanFacts DEF IInv, TypeOK
  <1>4. disk # NoJournal BY <1>2, <1>3 DEF NoJournal
  <1>5. q.res = disk.done + 1 /\ disk.owners[q.res] = None /\ Action[q.res] # "retain"
    BY <1>2, <1>3, <1>4 DEF IInv, DiskOK
  <1>6. disk.done \in 0..Size BY <1>4, JournalTypes DEF IInv, TypeOK, Entries
  <1>7. ~disk.accepted BY DEF IInv, AcceptedIsComplete
  <1>8. applied[q.res] = 0 /\ VersionFence(q) /\ wire = {q} BY DEF IInv, WireOK
  <1>9. "no-resource-writes" \notin outcomes BY DEF IInv, ReconcileSound
  <1>10. \A c \in Procs : pc[c] \notin Settled \cup {"send", "saveowner", "recorded2"}
    BY <1>2, <1>3 DEF IInv, ProcOK, Memory, Requesting
  <1> QED BY <1>1, <1>2, <1>3, <1>4, <1>5, <1>6, <1>7, <1>8, <1>9, <1>10

\* The answer reaches the process that still waits for it.
LEMMA ApplyOK ==
    ASSUME IInv, NEW q \in wire, Apply(q)
    PROVE  IInv'
  <1> DEFINE n == q.res
  <1>1. /\ wire' = wire \ {q}
        /\ UNCHANGED <<store, lease, pc, at, prior, mem, phase, request, budget, outcomes, plan>>
    BY DEF Apply
  <1>2. /\ q \in Requests /\ n \in Resources
        /\ disk # NoJournal /\ disk.inflight = n /\ n = disk.done + 1
        /\ disk.done \in 0..Size /\ Size \in Nat
        /\ ~disk.accepted /\ disk.owners[n] = None /\ Action[n] # "retain"
        /\ applied[n] = 0 /\ VersionFence(q) /\ wire = {q}
        /\ "no-resource-writes" \notin outcomes
        /\ \A c \in Procs : pc[c] \notin Settled \cup {"send", "saveowner", "recorded2"}
    BY InTransit
  <1>3. wire' = {} BY <1>1, <1>2
  <1>4. /\ \/ /\ Admissible(q) /\ Change(n, Written(n))
              /\ applied' = [applied EXCEPT ![n] = @ + 1] /\ waited' = waited \ {n}
           \/ /\ ~Admissible(q) /\ UNCHANGED <<obj, ver, ready, applied, waited>>
    BY DEF Apply
  <1>5. Admissible(q) => Written(n) \in Objects
    <2>1. SUFFICES ASSUME Admissible(q) PROVE Written(n) \in Objects OBVIOUS
    <2>2. Action[n] \in {"create", "update", "retire"}
      BY <1>2, PlanFacts DEF IInv, TypeOK
    <2>3. obj[n] \in Objects \cup {Absent} BY <1>2 DEF IInv, TypeOK
    <2>4. CASE Action[n] = "create" BY <2>4 DEF Written, Objects, Uids, Bodies
    <2>5. CASE Action[n] # "create"
      <3>1. obj[n] \in Objects BY <2>1, <2>3, <2>5 DEF Admissible
      <3>2. /\ [obj[n] EXCEPT !.body = "desired"] \in Objects
            /\ [obj[n] EXCEPT !.deleting = TRUE] \in Objects
        BY <3>1 DEF Objects, Bodies
      <3> QED BY <2>2, <2>5, <3>2 DEF Written
    <2> QED BY <2>4, <2>5
  <1>6. /\ obj' \in [Resources -> Objects \cup {Absent}] /\ ver' \in [Resources -> Nat]
        /\ ready' \in SUBSET Resources /\ waited' \in SUBSET Resources
        /\ applied' \in [Resources -> Nat] /\ wire' \in SUBSET Requests
        /\ applied'[n] \in {0, 1}
        /\ \A i \in Resources \ {n} : applied'[i] = applied[i]
        /\ \A i \in Resources \ {n} : i \in waited => i \in waited'
    BY <1>2, <1>3, <1>4, <1>5 DEF Change, IInv, TypeOK
  <1>7. /\ answer' \in [Procs -> {None, "pending", "ok", "conflict"}]
        /\ \A c \in Procs : answer'[c] = IF pc[c] = "sent" /\ request[c] = q
                                         THEN IF Admissible(q) THEN "ok" ELSE "conflict"
                                         ELSE answer[c]
    BY DEF Apply, IInv, TypeOK
  <1>8. TypeOK' BY <1>1, <1>6, <1>7, Types DEF IInv, TypeOK, store, budget
  <1>9. Locking' BY <1>1 DEF IInv, Locking
  <1>10. OutcomeOK' BY <1>1, PlanSame DEF IInv, OutcomeOK, store, Decided, Conclusive
  <1>11. /\ Resources' = Resources /\ Action' = Action /\ Size' = Size /\ Requests' = Requests
         /\ Resumable' = Resumable /\ Kind' = Kind
         /\ \A k : Deferred(k)' = Deferred(k) /\ Block(k)' = Block(k)
         /\ \A k : BlockDone(k, disk)' <=> BlockDone(k, disk)
    BY <1>1, PlanSame, BlocksSame DEF store
  <1>12. DiskOK'
    <2>1. KnownPrefix(disk)' = KnownPrefix(disk) BY <1>1, PlanSame DEF KnownPrefix, store
    <2> QED BY <1>1, <1>11, <2>1 DEF IInv, DiskOK, store
  <1>13. JournalAccurate'
    <2>1. \A i \in Resources : Owner(disk, i)' = disk.owners[i] /\ Owner(disk, i) = disk.owners[i]
      BY <1>1, <1>2 DEF Owner, store
    <2>2. UncertainIsRecorded'
      BY <1>1, <1>2, <1>3, <1>6, <1>11, <2>1
      DEF IInv, JournalAccurate, UncertainIsRecorded, store
    <2>3. RecordedPrefix'
      BY <1>1, <1>2, <1>3, <1>6, <1>11, <2>1 DEF IInv, JournalAccurate, RecordedPrefix, store
    <2> QED BY <2>2, <2>3 DEF JournalAccurate
  <1>14. WireOK' BY <1>3 DEF WireOK
  <1>15. AppliedOK' BY <1>2, <1>6, <1>11 DEF IInv, AppliedOK
  <1>16. WaitedOK'
    <2>1. KnownPrefix(disk) /\ disk.done # Size
      BY <1>2 DEF IInv, DiskOK, Resources
    <2>2. ~disk.started BY <2>1 DEF KnownPrefix
    <2> QED BY <1>1, <1>2, <1>6, <1>11, <2>2 DEF IInv, WaitedOK, store
  <1>17. AcceptedIsComplete' /\ ReconcileSound'
    BY <1>1, <1>2 DEF AcceptedIsComplete, ReconcileSound, store
  <1>18. ASSUME NEW c \in Procs PROVE ProcOK(c)'
    <2>1. Prior(c)' BY <1>1, PriorSame DEF IInv, ProcOK
    <2>2. Memory(c)' BY <1>1, <1>11 DEF IInv, ProcOK, Memory, store
    <2>3. Requesting(c)'
      <3>1. pc[c] = "sent" => request[c] \in Requests /\ request[c].res = n
        BY <1>2 DEF IInv, ProcOK, Requesting
      <3>2. pc[c] = "sent" /\ answer'[c] = "ok" => applied'[n] = 1
        BY <1>2, <1>4, <1>7 DEF IInv, ProcOK, Requesting, TypeOK
      <3> QED BY <1>1, <1>2, <1>3, <1>11, <3>1, <3>2
          DEF Requesting, Settled, Loop, store
    <2>4. Barriers(c)'
      <3>1. \A i \in Resources : BlockDone(i, disk) => i # n
        <4>1. \A i \in Resources : i \in Block(i) BY DEF Block
        <4> QED BY <1>2, <4>1 DEF BlockDone
      <3> QED BY <1>1, <1>2, <1>6, <1>11, <3>1
          DEF IInv, ProcOK, Barriers, Working, Settled, Loop, Ending, store
    <2> QED BY <2>1, <2>2, <2>3, <2>4 DEF ProcOK
  <1> QED BY <1>8, <1>9, <1>10, <1>12, <1>13, <1>14, <1>15, <1>16, <1>17, <1>18 DEF IInv

\* A request that is lost leaves its in-flight mark behind.
LEMMA LoseOK ==
    ASSUME IInv, NEW q \in wire, Lose(q)
    PROVE  IInv'
  <1>1. /\ wire' = wire \ {q} /\ faults' \in 0..MaxFaults
        /\ UNCHANGED <<obj, ver, ready, applied, waited, store, lease, pc, at, prior, mem,
                       phase, request, foreign, outcomes, plan>>
    BY PlanAssumption DEF Lose, IInv, TypeOK
  <1>2. /\ disk # NoJournal /\ ~disk.accepted /\ wire = {q}
        /\ "no-resource-writes" \notin outcomes
        /\ \A c \in Procs : pc[c] \notin Settled \cup {"send", "saveowner", "recorded2"}
    BY InTransit
  <1>3. wire' = {} BY <1>1, <1>2
  <1>4. /\ answer' \in [Procs -> {None, "pending", "ok", "conflict"}]
        /\ \A c \in Procs : answer'[c] = "ok" => answer[c] = "ok"
    BY DEF Lose, IInv, TypeOK
  <1>5. TypeOK' BY <1>1, <1>3, <1>4, Types DEF IInv, TypeOK, store
  <1>6. Locking' BY <1>1 DEF IInv, Locking
  <1>7. OutcomeOK' BY <1>1, PlanSame DEF IInv, OutcomeOK, store, Decided, Conclusive
  <1>8. /\ Resources' = Resources /\ Action' = Action /\ Size' = Size /\ Requests' = Requests
        /\ Resumable' = Resumable /\ Kind' = Kind /\ Deps' = Deps
        /\ \A k : Deferred(k)' = Deferred(k) /\ Block(k)' = Block(k)
        /\ \A k : BlockDone(k, disk)' <=> BlockDone(k, disk)
    BY <1>1, PlanSame, BlocksSame DEF store
  <1>9. DiskOK'
    <2>1. KnownPrefix(disk)' = KnownPrefix(disk) BY <1>1, PlanSame DEF KnownPrefix, store
    <2> QED BY <1>1, <1>8, <2>1 DEF IInv, DiskOK, store
  <1>10. JournalAccurate'
    <2>1. \A i \in Resources : Owner(disk, i)' = Owner(disk, i) BY <1>1 DEF Owner, store
    <2> QED BY <1>1, <1>3, <1>8, <2>1
        DEF IInv, JournalAccurate, UncertainIsRecorded, RecordedPrefix, store
  <1>11. WireOK' BY <1>3 DEF WireOK
  <1>12. AppliedOK' /\ WaitedOK' BY <1>1, <1>8 DEF IInv, AppliedOK, WaitedOK, store
  <1>13. AcceptedIsComplete' /\ ReconcileSound'
    BY <1>1, <1>2 DEF AcceptedIsComplete, ReconcileSound, store
  <1>14. ASSUME NEW c \in Procs PROVE ProcOK(c)'
    <2>1. Prior(c)' BY <1>1, PriorSame DEF IInv, ProcOK
    <2>2. Memory(c)' BY <1>1, <1>8 DEF IInv, ProcOK, Memory, store
    <2>3. Requesting(c)'
      <3>1. pc[c] \notin {"inflight", "send", "saveowner"} BY <1>2 DEF Settled, Loop
      <3> QED BY <1>1, <1>3, <1>4, <1>8, <3>1 DEF IInv, ProcOK, Requesting, store
    <2>4. Block(disk.done)' = Block(disk.done) BY <1>1, PlanSame DEF Block, store
    <2>5. Barriers(c)' BY <1>1, <1>8, <2>4 DEF IInv, ProcOK, Barriers, store
    <2> QED BY <2>1, <2>2, <2>3, <2>5 DEF ProcOK
  <1> QED BY <1>5, <1>6, <1>7, <1>9, <1>10, <1>11, <1>12, <1>13, <1>14 DEF IInv

-----------------------------------------------------------------------------
(* The invariant and its theorems                                           *)

\* Before the first attempt the invariant holds.
LEMMA InitOK == ASSUME Init PROVE IInv
  <1>1. /\ plan \in Plans /\ wire = {} /\ answer = [c \in Procs |-> None]
        /\ planFile = FALSE /\ disk = NoJournal /\ lease = None
        /\ pc = [c \in Procs |-> "idle"] /\ at = [c \in Procs |-> 1]
        /\ prior = [c \in Procs |-> NoJournal] /\ mem = [c \in Procs |-> NoJournal]
        /\ phase = [c \in Procs |-> None] /\ request = [c \in Procs |-> None]
        /\ faults = 0 /\ foreign = 0
        /\ applied = [i \in Resources |-> 0] /\ waited = {} /\ outcomes = {}
        /\ ver = [i \in Resources |-> 0] /\ ready \in SUBSET Resources
    BY DEF Init
  <1>2. obj \in [Resources -> Objects \cup {Absent}]
    <2>1. [uid |-> "old", body |-> "base", deleting |-> FALSE] \in Objects
      BY DEF Objects, Uids, Bodies
    <2> QED BY <2>1 DEF Init
  <1>3. Size \in Nat \ {0} BY <1>1, PlanFacts
  <1>4. NoJournal \in Journals /\ "idle" \in Points BY DEF Journals, Points
  <1>5. TypeOK
    <2>1. /\ pc \in [Procs -> Points] /\ at \in [Procs -> 1..(Size + 1)]
          /\ prior \in [Procs -> Journals] /\ mem \in [Procs -> Journals]
          /\ request \in [Procs -> Requests \cup {None}]
          /\ answer \in [Procs -> {None, "pending", "ok", "conflict"}]
      BY <1>1, <1>3, <1>4
    <2>2. phase \in [Procs -> {Phase[i] : i \in Resources} \cup {None}] BY <1>1
    <2>3. ver \in [Resources -> Nat] /\ applied \in [Resources -> Nat] BY <1>1
    <2>4. faults \in 0..MaxFaults /\ foreign \in 0..MaxForeign BY <1>1, PlanAssumption
    <2> QED BY <1>1, <1>2, <1>4, <2>1, <2>2, <2>3, <2>4 DEF TypeOK
  <1>6. \A c \in Procs : pc[c] = "idle" BY <1>1
  <1>7. Locking BY <1>6 DEF Locking, Outside
  <1>8. /\ DiskOK /\ WireOK /\ ReconcileSound
    BY <1>1 DEF DiskOK, WireOK, ReconcileSound
  <1>9. JournalAccurate
    BY <1>1 DEF JournalAccurate, UncertainIsRecorded, RecordedPrefix, Owner
  <1>10. AppliedOK BY <1>1 DEF AppliedOK
  <1>11. WaitedOK /\ AcceptedIsComplete
    <2>1. disk.done = 0 /\ ~disk.accepted /\ ~disk.started BY <1>1 DEF NoJournal
    <2>2. \A i \in Resources : ~(i <= 0) BY <1>3 DEF Resources
    <2> QED BY <2>1, <2>2 DEF WaitedOK, AcceptedIsComplete
  <1>12. OutcomeOK BY <1>1, <1>6 DEF OutcomeOK
  <1>13. ASSUME NEW c \in Procs PROVE ProcOK(c)
    <2>1. Prior(c) /\ Requesting(c) BY <1>6 DEF Prior, Requesting, Pod, PodChecked
    <2>2. Memory(c) BY <1>6 DEF Memory, Pod, PodChecked, Working, Settled, Loop, Ending
    <2>3. Barriers(c) BY <1>6 DEF Barriers, Working, Settled, Loop, Ending
    <2> QED BY <2>1, <2>2, <2>3 DEF ProcOK
  <1> QED BY <1>5, <1>7, <1>8, <1>9, <1>10, <1>11, <1>12, <1>13 DEF IInv

\* Stuttering preserves it.
LEMMA StutterOK == ASSUME IInv, UNCHANGED vars PROVE IInv'
  <1>1. /\ UNCHANGED <<plan, obj, ver, ready, wire, applied, waited, planFile, disk, lease, pc,
                       at, prior, mem, phase, request, answer, faults, foreign, outcomes>>
    BY DEF vars, cluster, store, local, budget
  <1>2. TypeOK' BY <1>1, Types DEF IInv, TypeOK
  <1>3. Locking' BY <1>1 DEF IInv, Locking
  <1>4. OutcomeOK' BY <1>1, PlanSame DEF IInv, OutcomeOK, Decided, Conclusive
  <1>5. WireOK' /\ AppliedOK' /\ ReconcileSound' BY <1>1, ClusterSame
  <1>6. DiskOK' /\ JournalAccurate' /\ WaitedOK' /\ AcceptedIsComplete'
    BY <1>1, StoreSame DEF IInv, TypeOK
  <1>7. \A c \in Procs : ProcOK(c)' BY <1>1, SameOK DEF IInv, TypeOK
  <1> QED BY <1>2, <1>3, <1>4, <1>5, <1>6, <1>7 DEF IInv

\* Every step of a process preserves it.
LEMMA StepOK ==
    ASSUME IInv, NEW c \in Procs, Step(c)
    PROVE  IInv'
  <1>1. CASE \/ ScanFails(c) \/ Occupied(c) \/ Refuse(c) \/ ReadFails(c) \/ Refused(c)
             \/ WaitFails(c)
    BY <1>1, FailingOK
  <1>2. CASE Revalidated(c) \/ Cleanup(c) BY <1>2, EndingOK
  <1>3. CASE Scan(c) BY <1>3, ScanOK
  <1>4. CASE ScanEnds(c) BY <1>4, ScanEndsOK
  <1>5. CASE Acquire(c) BY <1>5, AcquireOK
  <1>6. CASE Continue(c) BY <1>6, ContinueOK
  <1>7. CASE OpenNew(c) \/ Revalidate(c) BY <1>7, OpenOK
  <1>8. CASE SaveFirst(c) BY <1>8, SaveFirstOK
  <1>9. CASE NextResource(c) BY <1>9, NextResourceOK
  <1>10. CASE Read(c) BY <1>10, ReadOK
  <1>11. CASE SaveInFlight(c) BY <1>11, SaveInFlightOK
  <1>12. CASE Send(c) BY <1>12, SendOK
  <1>13. CASE Answered(c) BY <1>13, AnsweredOK
  <1>14. CASE SaveOwner(c) BY <1>14, SaveOwnerOK
  <1>15. CASE Wait(c) BY <1>15, WaitOK
  <1>16. CASE Complete(c) BY <1>16, CompleteOK
  <1>17. CASE StartAcceptance(c) BY <1>17, StartAcceptanceOK
  <1>18. CASE Accept(c) BY <1>18, AcceptOK
  <1>19. CASE SaveAccepted(c) BY <1>19, SaveAcceptedOK
  <1>20. CASE \E d \in Procs : Reconciled(c, d) BY <1>20, ReconciledOK
  <1> QED BY <1>1, <1>2, <1>3, <1>4, <1>5, <1>6, <1>7, <1>8, <1>9, <1>10, <1>11, <1>12, <1>13,
             <1>14, <1>15, <1>16, <1>17, <1>18, <1>19, <1>20 DEF Step

\* Every step of the system preserves it.
LEMMA NextOK == ASSUME IInv, [Next]_vars PROVE IInv'
  <1>1. CASE \E c \in Procs : Start(c) \/ ResumeAcceptance(c) BY <1>1, StartOK
  <1>2. CASE \E c \in Procs : Step(c) BY <1>2, StepOK
  <1>3. CASE \E c \in Procs : Fault(c) BY <1>3, FailingOK
  <1>4. CASE \E c \in Procs : Crash(c) BY <1>4, CrashOK
  <1>5. CASE \E c \in Procs : Recover(c) \/ OperatorClears(c) BY <1>5, EndingOK
  <1>6. CASE \E c, d \in Procs : Reconcile(c, d) BY <1>6, ReconcileOK
  <1>7. CASE \E q \in wire : Apply(q) BY <1>7, ApplyOK
  <1>8. CASE \E q \in wire : Lose(q) BY <1>8, LoseOK
  <1>9. CASE \E i \in Resources : BecomeReady(i) BY <1>9, BecomeReadyOK
  <1>10. CASE \E i \in Resources : FinishDelete(i) \/ Foreign(i) BY <1>10, DriftOK
  <1>11. CASE UNCHANGED vars BY <1>11, StutterOK
  <1> QED BY <1>1, <1>2, <1>3, <1>4, <1>5, <1>6, <1>7, <1>8, <1>9, <1>10, <1>11
      DEF Next, Environment

\* The inductive invariant holds of every execution of every plan.
THEOREM Invariance == Spec => []IInv
  BY InitOK, NextOK, PTL DEF Spec

\* The journal, the cluster and the processes are well typed: among others, at
\* most the desired bodies are written and owners are UIDs that the plan knows.
THEOREM TypeCorrect == Spec => []TypeOK
  <1>1. IInv => TypeOK BY DEF IInv
  <1> QED BY <1>1, Invariance, PTL

\* journal.json tells the truth whenever a process may die, for any number of
\* processes, crashes, lost requests and foreign writes.
THEOREM JournalIsAccurate == Spec => []JournalAccurate
  <1>1. IInv => JournalAccurate BY DEF IInv
  <1> QED BY <1>1, Invariance, PTL

\* An accepted journal stands for the whole plan, whichever path accepted it:
\* the end of execute or ResumeAppliedPodAcceptance.
THEOREM AcceptanceIsComplete == Spec => []AcceptedIsComplete
  <1>1. IInv => AcceptedIsComplete BY DEF IInv
  <1> QED BY <1>1, Invariance, PTL

\* When reconciliation reports no resource writes, none happened and none will.
THEOREM ReconciliationIsSound == Spec => []ReconcileSound
  <1>1. IInv => ReconcileSound BY DEF IInv
  <1> QED BY <1>1, Invariance, PTL

-----------------------------------------------------------------------------
(* What a step may do                                                       *)

Saves(c) ==
    /\ \/ SaveFailed(c) \/ SaveFirst(c) \/ SaveInFlight(c) \/ SaveOwner(c) \/ Complete(c)
       \/ StartAcceptance(c) \/ SaveAccepted(c)
    /\ UNCHANGED <<cluster, outcomes, plan>>

\* Every step is a save, a sent request, a write of the API server, a change
\* by somebody else, or leaves cluster and journal alone.
LEMMA Effects ==
    ASSUME Next
    PROVE  /\ plan' = plan
           /\ \/ \E c \in Procs : Saves(c)
              \/ \E c \in Procs : Send(c)
              \/ \E q \in wire : Apply(q)
              \/ \E i \in Resources : FinishDelete(i) \/ Foreign(i)
              \/ UNCHANGED <<obj, applied, disk>> /\ wire' \subseteq wire
  <1>1. ASSUME NEW c \in Procs, Fails(c) PROVE Saves(c)
    BY <1>1 DEF Fails, Saves
  <1>2. CASE \E c \in Procs :
               \/ ScanFails(c) \/ Occupied(c) \/ Refuse(c) \/ ReadFails(c) \/ Refused(c)
               \/ WaitFails(c) \/ Fault(c)
    BY <1>1, <1>2
    DEF ScanFails, Occupied, Refuse, ReadFails, Refused, WaitFails, Fault, Saves
  <1>3. CASE \E c \in Procs :
               \/ Crash(c) \/ SaveFirst(c) \/ SaveInFlight(c) \/ SaveOwner(c) \/ Complete(c)
               \/ StartAcceptance(c) \/ SaveAccepted(c)
    BY <1>3
    DEF Crash, SaveFirst, SaveInFlight, SaveOwner, Complete, StartAcceptance, SaveAccepted, Saves
  <1>4. CASE \E c \in Procs :
               \/ Start(c) \/ ResumeAcceptance(c) \/ Scan(c) \/ ScanEnds(c) \/ Revalidated(c)
               \/ Acquire(c) \/ Continue(c) \/ OpenNew(c) \/ Revalidate(c)
    BY <1>4
    DEF Start, ResumeAcceptance, Scan, ScanEnds, Revalidated, Acquire, Continue, OpenNew,
        Revalidate, cluster, store
  <1>5. CASE \E c \in Procs :
               \/ NextResource(c) \/ Read(c) \/ Answered(c) \/ Wait(c) \/ Accept(c)
               \/ Cleanup(c) \/ Recover(c) \/ OperatorClears(c)
    BY <1>5
    DEF NextResource, Read, Answered, Wait, Accept, Cleanup, Recover, OperatorClears, cluster,
        store
  <1>6. CASE \E c, d \in Procs : Reconcile(c, d) \/ Reconciled(c, d)
    BY <1>6 DEF Reconcile, Reconciled, cluster, store
  <1>7. CASE \E c \in Procs : Send(c) BY <1>7 DEF Send
  <1>8. CASE Environment
    BY <1>8 DEF Environment, Apply, Lose, BecomeReady, FinishDelete, Foreign, store
  <1> QED BY <1>2, <1>3, <1>4, <1>5, <1>6, <1>7, <1>8 DEF Next, Step

Kept ==
    /\ disk'.done >= disk.done
    /\ disk.started => disk'.started
    /\ disk.accepted => disk' = disk
    /\ \A i \in Resources : Owner(disk, i) # None => Owner(disk', i) = Owner(disk, i)
    /\ disk.inflight # 0 =>
         disk'.inflight = disk.inflight \/ Owner(disk', disk.inflight) # None

\* A step that does not save forgets nothing.
LEMMA KeptSame ==
    ASSUME IInv, disk' = disk
    PROVE  Kept
  <1>1. disk.done \in Int
    <2>1. CASE disk = NoJournal BY <2>1 DEF NoJournal
    <2>2. CASE disk # NoJournal
      <3>1. disk \in Entries BY <2>2, JournalTypes DEF IInv, TypeOK
      <3>2. disk.done \in 0..Size /\ Size \in Nat
        BY <3>1, PlanFacts DEF Entries, IInv, TypeOK
      <3> QED BY <3>2
    <2> QED BY <2>1, <2>2
  <1> QED BY <1>1 DEF Kept

\* Each save adds to what is on disk; only SaveAccepted records acceptance.
LEMMA SavesKeep ==
    ASSUME IInv, NEW c \in Procs, Saves(c)
    PROVE  Kept /\ (disk'.accepted = disk.accepted \/ SaveAccepted(c))
  <1>1. CASE SaveFailed(c)
    <2>1. disk' = disk \/ /\ disk # NoJournal /\ ~disk.accepted
                          /\ disk' = [disk EXCEPT !.failed = TRUE]
      <3>1. CASE disk' = disk BY <3>1
      <3>2. CASE pc[c] \in Recording /\ disk' = [mem[c] EXCEPT !.failed = TRUE]
        <4>1. pc[c] \in Working BY <3>2 DEF Recording, Working, Settled, Loop, Ending
        <4> QED BY <3>2, <4>1, AtWork
      <3> QED BY <1>1, <3>1, <3>2 DEF SaveFailed
    <2>2. CASE disk' = disk BY <2>2, KeptSame
    <2>3. CASE disk # NoJournal /\ ~disk.accepted /\ disk' = [disk EXCEPT !.failed = TRUE]
      <3>1. disk \in Entries /\ Size \in Nat BY <2>3, JournalTypes, PlanFacts DEF IInv, TypeOK
      <3>2. /\ disk' \in Entries
            /\ disk'.done = disk.done /\ disk'.owners = disk.owners
            /\ disk'.inflight = disk.inflight /\ disk'.started = disk.started
            /\ disk'.accepted = disk.accepted
        BY <2>3, <3>1 DEF Entries
      <3>3. disk' # NoJournal BY <3>2, JournalTypes DEF IInv, TypeOK
      <3>4. disk.done \in 0..Size BY <3>1 DEF Entries
      <3> QED BY <2>3, <3>1, <3>2, <3>3, <3>4 DEF Kept, Owner
    <2> QED BY <2>1, <2>2, <2>3
  <1>2. CASE SaveFirst(c)
    <2>1. disk = NoJournal BY <1>2 DEF SaveFirst, IInv, ProcOK, Memory
    <2>2. disk'.done = 0 /\ disk'.accepted = FALSE
      BY <1>2 DEF SaveFirst, Save, EmptyJournal
    <2>3. /\ disk.done = 0 /\ disk.accepted = FALSE /\ disk.inflight = 0
          /\ ~disk.started /\ ~disk.accepted
      BY <2>1 DEF NoJournal
    <2>4. \A i : Owner(disk, i) = None BY <2>1 DEF Owner
    <2>5. disk'.done >= disk.done BY <2>2, <2>3
    <2>6. Kept BY <2>3, <2>4, <2>5 DEF Kept
    <2> QED BY <2>2, <2>3, <2>6
  <1>3. CASE SaveInFlight(c)
    <2>1. /\ disk' = [mem[c] EXCEPT !.inflight = request[c].res] /\ pc[c] = "inflight"
      BY <1>3 DEF SaveInFlight, Save, Marked
    <2>2. /\ mem[c] = disk /\ disk \in Entries /\ disk # NoJournal /\ ~disk.accepted
          /\ disk.inflight = 0 /\ disk.done \in 0..Size /\ Size \in Nat
          /\ disk.done + 1 \in Resources /\ Resources = 1..Size
      BY <2>1, AtWork DEF Working, Settled, Loop, IInv, ProcOK, Memory
    <2>3. request[c].res \in 0..Size BY <2>1, <2>2 DEF IInv, ProcOK, Requesting
    <2>4. /\ disk' \in Entries /\ disk'.done = disk.done /\ disk'.owners = disk.owners
          /\ disk'.started = disk.started /\ disk'.accepted = disk.accepted
      BY <2>1, <2>2, <2>3, Replaced
    <2>5. disk' # NoJournal BY <2>4, JournalTypes DEF IInv, TypeOK
    <2> QED BY <2>2, <2>4, <2>5 DEF Kept, Owner
  <1>4. CASE SaveOwner(c)
    <2>1. pc[c] = "saveowner" /\ disk' = mem[c] BY <1>4 DEF SaveOwner, Save
    <2>2. /\ disk # NoJournal /\ ~disk.accepted /\ disk.done \in 0..Size /\ Size \in Nat
          /\ disk.done + 1 \in Resources /\ disk.inflight = disk.done + 1
          /\ disk.owners[disk.done + 1] = None
      BY <2>1, AtWork DEF IInv, ProcOK, Memory, DiskOK
    <2>3. /\ disk' \in Entries /\ disk'.done = disk.done
          /\ disk'.started = disk.started /\ disk'.accepted = disk.accepted
          /\ disk'.owners[disk.done + 1] \in {"old", "new"}
          /\ \A i \in Resources : i # disk.done + 1 => disk'.owners[i] = disk.owners[i]
      BY <2>1, Owned DEF IInv, ProcOK, Memory
    <2>4. disk' # NoJournal BY <2>3, JournalTypes DEF IInv, TypeOK
    <2> QED BY <2>2, <2>3, <2>4, PlanAssumption DEF Kept, Owner
  <1>5. CASE Complete(c)
    <2>1. pc[c] = "complete" BY <1>5 DEF Complete
    <2>2. /\ mem[c] = disk /\ disk # NoJournal /\ ~disk.accepted /\ disk.inflight = 0
          /\ disk.done \in 0..Size /\ Size \in Nat
      BY <2>1, AtWork DEF Working, Settled, Loop, IInv, ProcOK, Memory
    <2>3. disk' = [disk EXCEPT !.done = disk.done + 1,
                               !.owners[disk.done + 1] =
                                  IF @ = None THEN Uid(disk.done + 1) ELSE @]
      BY <1>5, <2>2 DEF Complete, Save
    <2>4. /\ disk' \in Entries /\ disk'.done = disk.done + 1
          /\ disk'.started = disk.started /\ disk'.accepted = disk.accepted
          /\ disk.owners[disk.done + 1] # None =>
                disk'.owners[disk.done + 1] = disk.owners[disk.done + 1]
          /\ \A i \in Resources : i # disk.done + 1 => disk'.owners[i] = disk.owners[i]
      BY <2>1, <2>3, Advanced
    <2>5. disk' # NoJournal BY <2>4, JournalTypes DEF IInv, TypeOK
    <2> QED BY <2>2, <2>4, <2>5 DEF Kept, Owner
  <1>6. CASE StartAcceptance(c)
    <2>1. pc[c] = "start" /\ disk' = [mem[c] EXCEPT !.started = TRUE]
      BY <1>6 DEF StartAcceptance, Save
    <2>2. /\ mem[c] = disk /\ disk \in Entries /\ disk # NoJournal /\ ~disk.accepted
          /\ disk.done \in 0..Size /\ Size \in Nat
      BY <2>1, AtWork DEF Working, Settled, Ending
    <2>3. /\ disk' \in Entries /\ disk'.done = disk.done /\ disk'.owners = disk.owners
          /\ disk'.started /\ disk'.accepted = disk.accepted /\ disk'.inflight = disk.inflight
      BY <2>1, <2>2 DEF Entries
    <2>4. disk' # NoJournal BY <2>3, JournalTypes DEF IInv, TypeOK
    <2> QED BY <2>2, <2>3, <2>4 DEF Kept, Owner
  <1>7. CASE SaveAccepted(c)
    <2>1. /\ pc[c] \in {"accepted", "podaccepted"}
          /\ disk' = [mem[c] EXCEPT !.accepted = TRUE, !.failed = FALSE]
      BY <1>7 DEF SaveAccepted, Save
    <2>2. /\ mem[c] = disk /\ disk \in Entries /\ disk # NoJournal /\ ~disk.accepted
          /\ disk.done = Size /\ Size \in Nat
      BY <2>1, AcceptedFacts, PlanFacts DEF IInv, TypeOK
    <2> DEFINE e == [disk EXCEPT !.accepted = TRUE]
    <2>3. /\ e \in Entries /\ e.done = disk.done /\ e.owners = disk.owners
          /\ e.inflight = disk.inflight /\ e.started = disk.started
      BY <2>2 DEF Entries
    <2>4. disk' = [e EXCEPT !.failed = FALSE] BY <2>1, <2>2
    <2> HIDE DEF e
    <2>5. /\ disk' \in Entries /\ disk'.done = disk.done /\ disk'.owners = disk.owners
          /\ disk'.inflight = disk.inflight /\ disk'.started = disk.started
      BY <2>3, <2>4 DEF Entries
    <2>6. disk' # NoJournal BY <2>5, JournalTypes DEF IInv, TypeOK
    <2> QED BY <1>7, <2>2, <2>5, <2>6 DEF Kept, Owner
  <1> QED BY <1>1, <1>2, <1>3, <1>4, <1>5, <1>6, <1>7 DEF Saves

\* The journal never forgets: no step of any process, and no failure, takes
\* back a completed resource, an owner, the start or the end of acceptance.
THEOREM NeverForgets == Spec => JournalNeverForgets
  <1>1. ASSUME IInv, [Next]_vars PROVE Kept
    <2>1. CASE disk' = disk BY <1>1, <2>1, KeptSame
    <2>2. CASE \E c \in Procs : Saves(c) BY <1>1, <2>2, SavesKeep
    <2>3. CASE \E c \in Procs : Send(c) BY <2>1, <2>3 DEF Send, store
    <2>4. CASE \E q \in wire : Apply(q) BY <2>1, <2>4 DEF Apply, store
    <2>5. CASE \E i \in Resources : FinishDelete(i) \/ Foreign(i)
      BY <2>1, <2>5 DEF FinishDelete, Foreign, store
    <2>6. CASE UNCHANGED vars BY <2>1, <2>6 DEF vars, store
    <2> QED BY <1>1, <2>1, <2>2, <2>3, <2>4, <2>5, <2>6, Effects
  <1>2. IInv /\ [Next]_vars => [Kept]_vars BY <1>1
  <1> QED BY <1>2, Invariance, PTL DEF Spec, JournalNeverForgets, Kept

Barred ==
    \A q \in wire' \ wire : \A j \in 1..(q.res - 1) :
        \/ Phase[j] # Phase[q.res] /\ Kind[j] # "claim"
        \/ j \in Deps[q.res] /\ Deferred(j)
        => j \in waited

\* A phase is contiguous in the plan: once a later phase writes, every block
\* of an earlier one is complete and was waited for.
LEMMA SendBarred ==
    ASSUME IInv, NEW c \in Procs, Send(c)
    PROVE  Barred
  <1> DEFINE n == disk.done + 1
  <1>1. /\ pc[c] = "send" /\ wire' = wire \cup {request[c]} BY DEF Send
  <1>2. /\ disk.done \in 0..Size /\ Size \in Nat /\ Resources = 1..Size /\ n \in Resources
    BY <1>1, AtWork DEF Working
  <1>3. request[c].res = n BY <1>1 DEF IInv, ProcOK, Requesting
  <1>4. SUFFICES ASSUME NEW j \in 1..(n - 1),
                        \/ Phase[j] # Phase[n] /\ Kind[j] # "claim"
                        \/ j \in Deps[n] /\ Deferred(j)
                 PROVE  j \in waited
    BY <1>1, <1>3 DEF Barred
  <1>5. j \in Resources /\ j <= disk.done /\ j < n BY <1>2
  <1>6. /\ \A i \in Resources : Deferred(i) /\ BlockDone(i, disk) => i \in waited
        /\ \A i \in Deps[n] : Deferred(i) => i \in waited
    BY <1>1 DEF IInv, ProcOK, Barriers, Working
  <1>7. CASE j \in Deps[n] /\ Deferred(j) BY <1>6, <1>7
  <1>8. CASE Phase[j] # Phase[n] /\ Kind[j] # "claim"
    <2>1. CASE ~Deferred(j) BY <1>5, <1>8, <2>1 DEF IInv, WaitedOK
    <2>2. CASE Deferred(j)
      <3>1. ASSUME NEW k \in Block(j) PROVE k <= disk.done
        <4>1. k \in Resources /\ Phase[k] = Phase[j] BY DEF Block
        <4>2. k # n BY <1>8, <4>1
        <4>3. \A a, b, e \in Resources :
                 a < b /\ b < e /\ Phase[a] = Phase[e] => Phase[b] = Phase[a]
          BY PlanFacts DEF IInv, TypeOK
        <4>4. ~(n < k) BY <1>2, <1>5, <1>8, <4>1, <4>3
        <4> QED BY <1>2, <4>1, <4>2, <4>4
      <3>2. BlockDone(j, disk) BY <3>1 DEF BlockDone
      <3> QED BY <1>5, <1>6, <2>2, <3>2
    <2> QED BY <2>1, <2>2
  <1> QED BY <1>4, <1>7, <1>8

\* No write is sent before everything in earlier phases except claims, and
\* every explicit workload dependency, was seen ready after its own write.
THEOREM PhasesAreBarred == Spec => PhaseBarrier
  <1>1. ASSUME IInv, [Next]_vars PROVE Barred
    <2>1. CASE wire' \subseteq wire BY <2>1 DEF Barred
    <2>2. CASE \E c \in Procs : Saves(c) BY <2>1, <2>2 DEF Saves, cluster
    <2>3. CASE \E c \in Procs : Send(c) BY <1>1, <2>3, SendBarred
    <2>4. CASE \E q \in wire : Apply(q) BY <2>1, <2>4 DEF Apply
    <2>5. CASE \E i \in Resources : FinishDelete(i) \/ Foreign(i)
      BY <2>1, <2>5 DEF FinishDelete, Foreign
    <2>6. CASE UNCHANGED vars BY <2>1, <2>6 DEF vars, cluster
    <2> QED BY <1>1, <2>1, <2>2, <2>3, <2>4, <2>5, <2>6, Effects
  <1>2. IInv /\ [Next]_vars => [Barred]_vars BY <1>1
  <1> QED BY <1>2, Invariance, PTL DEF Spec, PhaseBarrier, Barred

-----------------------------------------------------------------------------
(* The execution implements ReviewedExecution                               *)

Changes == [i \in Resources |-> Action[i] # "retain"]
Intact == {i \in Resources : BodyOK(i)}

\* The initial states map to those of ReviewedExecution.
LEMMA ReviewedInit == ASSUME Init PROVE Reviewed!Init
  <1>1. /\ plan \in Plans /\ disk = NoJournal /\ applied = [i \in Resources |-> 0]
        /\ obj = [i \in Resources |->
                    IF Action[i] = "create" THEN Absent
                    ELSE [uid |-> "old", body |-> "base", deleting |-> FALSE]]
    BY DEF Init
  <1>2. \A i \in Resources : BodyOK(i) BY <1>1 DEF BodyOK
  <1>3. DOMAIN Changes = Resources /\ Changes \in [Resources -> BOOLEAN] BY DEF Changes
  <1>4. Intact = Resources BY <1>2 DEF Intact
  <1>5. disk.accepted = FALSE BY <1>1 DEF NoJournal
  <1> QED BY <1>1, <1>3, <1>4, <1>5 DEF Reviewed!Init, Changes, Intact

\* A write that the API server applies is an Effect: it is the one that the
\* journal marks, everything before it is completed and so was written, and
\* the version that it carries, or the absence that it needs, is the reviewed.
LEMMA ApplyReviewed ==
    ASSUME IInv, NEW q \in wire, Apply(q)
    PROVE  Reviewed!Effect(q.res) \/ UNCHANGED <<obj, applied, disk>>
  <1> DEFINE n == q.res
  <1>1. CASE ~Admissible(q) BY <1>1 DEF Apply, store
  <1>2. CASE Admissible(q)
    <2>1. /\ q \in Requests /\ n \in Resources
          /\ disk # NoJournal /\ n = disk.done + 1 /\ disk.done \in 0..Size /\ Size \in Nat
          /\ ~disk.accepted /\ Action[n] # "retain" /\ applied[n] = 0 /\ VersionFence(q)
      BY InTransit
    <2>2. /\ plan' = plan /\ disk' = disk /\ Change(n, Written(n))
          /\ applied' = [applied EXCEPT ![n] = @ + 1]
      BY <1>2 DEF Apply, store
    <2>3. Resources' = Resources /\ Action' = Action /\ Resources = 1..Size
      BY <2>2, PlanSame, PlanFacts DEF IInv, TypeOK
    <2>4. applied' = [applied EXCEPT ![n] = 1] BY <2>1, <2>2 DEF IInv, TypeOK
    <2>5. BodyOK(n)
      <3>1. CASE Action[n] = "create" BY <1>2, <3>1 DEF Admissible, BodyOK
      <3>2. CASE Action[n] # "create" BY <1>2, <2>1, <3>2 DEF Admissible, VersionFence
      <3> QED BY <3>1, <3>2
    <2>6. /\ \A i \in Resources : i # n => obj'[i] = obj[i]
          /\ obj'[n] = Written(n)
      BY <2>1, <2>2 DEF Change, IInv, TypeOK
    <2>7. ~BodyOK(n)'
      <3>1. Action[n] \in {"create", "update", "retire"}
        BY <2>1, PlanFacts DEF IInv, TypeOK
      <3>2. CASE Action[n] = "create"
        <4>1. obj'[n].body = "desired" /\ Absent.body = None
          BY <2>6, <3>2 DEF Written, Absent
        <4>2. obj'[n].uid = "new" /\ Absent.uid = None BY <2>6, <3>2 DEF Written, Absent
        <4> QED BY <2>3, <3>2, <4>2, PlanAssumption DEF BodyOK
      <3>3. CASE Action[n] # "create"
        <4>1. obj[n] = [uid |-> "old", body |-> "base", deleting |-> FALSE]
          BY <2>5, <3>3 DEF BodyOK
        <4>2. obj'[n].body = "desired" \/ obj'[n].deleting = TRUE
          BY <2>6, <3>1, <3>3, <4>1 DEF Written
        <4>3. obj'[n] # [uid |-> "old", body |-> "base", deleting |-> FALSE] BY <4>2
        <4> QED BY <2>3, <3>3, <4>3 DEF BodyOK
      <3> QED BY <3>2, <3>3
    <2>8. Intact' = Intact \ {n}
      <3>1. \A i \in Resources : i # n => (BodyOK(i)' <=> BodyOK(i)) BY <2>3, <2>6 DEF BodyOK
      <3> QED BY <2>1, <2>3, <2>5, <2>7, <3>1 DEF Intact
    <2>9. \A j \in Resources : j < n /\ Action[j] # "retain" => applied[j] = 1
      <3>1. SUFFICES ASSUME NEW j \in Resources, j < n, Action[j] # "retain"
                     PROVE  applied[j] = 1
        OBVIOUS
      <3>2. j <= disk.done BY <2>1, <2>3, <3>1
      <3>3. Owner(disk, j) # None BY <2>1, <3>2 DEF IInv, DiskOK, KnownPrefix, Owner
      <3>4. applied[j] > 0 BY <3>1, <3>3 DEF IInv, JournalAccurate, RecordedPrefix
      <3> QED BY <3>4 DEF IInv, AppliedOK
    <2>10. /\ Changes' = Changes /\ DOMAIN Changes = Resources
           /\ \A i \in Resources : Changes[i] <=> Action[i] # "retain"
      BY <2>3 DEF Changes
    <2>11. n \in Intact BY <2>1, <2>5 DEF Intact
    <2> QED BY <2>1, <2>2, <2>4, <2>8, <2>9, <2>10, <2>11 DEF Reviewed!Effect, Changes, Intact
  <1> QED BY <1>1, <1>2

\* Every step of the execution is a step of ReviewedExecution or none.
LEMMA ReviewedNext ==
    ASSUME IInv, [Next]_vars
    PROVE  [Reviewed!Next]_<<Changes, applied, Intact, disk.accepted>>
  <1>1. plan' = plan BY Effects DEF vars
  <1>2. /\ Resources' = Resources /\ Action' = Action /\ Changes' = Changes
        /\ DOMAIN Changes = Resources /\ \A i \in Resources : Changes[i] <=> Action[i] # "retain"
    BY <1>1, PlanSame DEF Changes
  <1>3. obj' = obj => Intact' = Intact BY <1>2 DEF Intact, BodyOK
  <1>4. CASE UNCHANGED <<obj, applied, disk>> BY <1>2, <1>3, <1>4
  <1>5. ASSUME NEW c \in Procs, Saves(c) PROVE Reviewed!Accept \/ disk'.accepted = disk.accepted
    <2>1. CASE disk'.accepted = disk.accepted BY <2>1
    <2>2. CASE SaveAccepted(c)
      <3>1. /\ pc[c] \in {"accepted", "podaccepted"}
            /\ disk' = [mem[c] EXCEPT !.accepted = TRUE, !.failed = FALSE]
            /\ UNCHANGED <<obj, applied>>
        BY <2>2 DEF SaveAccepted, Save, cluster
      <3>2. /\ mem[c] = disk /\ disk \in Entries
            /\ \A i \in Resources : Action[i] # "retain" => applied[i] = 1
        BY <3>1, AcceptedFacts
      <3>3. disk'.accepted = TRUE BY <3>1, <3>2 DEF Entries
      <3> QED BY <1>2, <1>3, <3>1, <3>2, <3>3 DEF Reviewed!Accept, Changes, Intact
    <2> QED BY <1>5, <2>1, <2>2, SavesKeep
  <1>6. CASE \E c \in Procs : Saves(c)
    <2>1. UNCHANGED <<obj, applied>> BY <1>6 DEF Saves, cluster
    <2> QED BY <1>2, <1>3, <1>5, <1>6, <2>1 DEF Reviewed!Next
  <1>7. CASE \E c \in Procs : Send(c) BY <1>4, <1>7 DEF Send, store
  <1>8. CASE \E q \in wire : Apply(q)
    <2>1. PICK q \in wire : Apply(q) BY <1>8
    <2>2. q.res \in Resources BY InTransit
    <2>3. Reviewed!Effect(q.res) \/ UNCHANGED <<obj, applied, disk>> BY <2>1, ApplyReviewed
    <2> QED BY <1>2, <1>4, <2>2, <2>3 DEF Reviewed!Next, Changes
  <1>9. CASE \E i \in Resources : FinishDelete(i) \/ Foreign(i)
    <2>1. UNCHANGED <<applied, disk>> BY <1>9 DEF FinishDelete, Foreign, store
    <2>2. Intact' \subseteq Resources BY <1>2 DEF Intact
    <2>3. Reviewed!Drift BY <1>2, <2>1, <2>2 DEF Reviewed!Drift, Changes, Intact
    <2> QED BY <2>3 DEF Reviewed!Next
  <1>10. CASE UNCHANGED vars BY <1>4, <1>10 DEF vars, cluster, store
  <1> QED BY <1>4, <1>6, <1>7, <1>8, <1>9, <1>10, Effects

\* The engine implements ReviewedExecution: each write takes effect at most
\* once, in plan order, on exactly what was reviewed, and acceptance follows
\* all of them, whatever fails, crashes, is lost or is written by others.
THEOREM ImplementsReviewed == Spec => ExecutesReviewedPlan
  <1>1. Init => Reviewed!Init BY ReviewedInit
  <1>2. IInv /\ [Next]_vars => [Reviewed!Next]_<<Changes, applied, Intact, disk.accepted>>
    BY ReviewedNext
  <1> QED BY <1>1, <1>2, Invariance, PTL
      DEF Spec, ExecutesReviewedPlan, Reviewed!Spec, Changes, Intact
=============================================================================
