------------------------ MODULE QualifiedAdmission ------------------------
(***************************************************************************)
(* How a plan becomes executable: the preflight that qualifies it, the     *)
(* active GO pointer it publishes, and the admission of `deployment        *)
(* upgrade` and of a fresh `deployment create` that consume the pointer,   *)
(* all on the private store of one environment.                            *)
(*                                                                         *)
(* Sources: deployment_preflight_proof.go, deployment_unified_cli.go,      *)
(* deployment_unified_consumer.go, deployment_unified_proof_execution.go,  *)
(* deployment_create.go and deployment_create_state.go.                    *)
(*                                                                         *)
(* A plan is its operation and the inputs it was compiled from (the        *)
(* maintained configuration, the credentials, the release): equal inputs   *)
(* give equal digests.  Generations are random in the code and are         *)
(* numbered here.  ExecutionFence and PlanJournal show what happens inside *)
(* one upgrade; here it is a sequence of fenced phases.                    *)
(***************************************************************************)
EXTENDS Integers, FiniteSets

CONSTANTS
    Procs,          \* processes that run commands on the store
    Inputs,         \* maintained inputs
    Phases,         \* phases of an upgrade, provider resources of a create
    MaxPreflights,  \* bound: preflights started
    MaxFaults,      \* bound: cancellations and crashes
    None

Gens == 0..MaxPreflights
Kinds == {"create", "upgrade"}
Plans == [kind : Kinds, inputs : Inputs]

\* What .execution-active says: its plan, and its live owner if it has one.
Owners == [by : Procs \cup {None}, plan : Plans]

ASSUME AdmissionAssumption ==
    /\ Phases \in Nat \ {0} /\ MaxPreflights \in Nat /\ MaxFaults \in Nat
    /\ None \notin Procs \cup Plans \cup Owners

VARIABLES
    active,    \* deployment/preflight/active.json
    pointer,   \* deployment/create/preflight/active.json
    bindings,  \* deployment/identity-bindings.json
    saved,     \* plan of the immutable artifact of each generation
    valid,     \* generations whose evidence has not expired
    inputs,    \* what resolveDeploymentConfig reads now
    lock,      \* holder of the publication lock
    fence,     \* .execution-active: its plan and its live owner, or None
    entries,   \* journal of the create execution: state of each entry
    target,    \* provider resources that exist
    executed,  \* plans that have execution evidence
    proc,      \* the command of each process; late is history: phases written
               \* although the qualification was superseded
    gens,      \* generations so far
    rejected,  \* history: generations whose preflight answered NO-GO
    unrevoked, \* history: those of them whose revocation found the lock busy
    faults

qualification == <<active, pointer, bindings, saved, valid, gens, rejected, unrevoked>>
execution == <<fence, entries, target, executed>>
vars == <<qualification, execution, inputs, lock, proc, faults>>

NoGo(g) == [gen |-> g, go |-> FALSE, plan |-> None]
GO(g, plan) == [gen |-> g, go |-> TRUE, plan |-> plan]
Idle == [pc |-> "idle", plan |-> None, gen |-> 0, seen |-> NoGo(0),
         phase |-> 1, cancelled |-> FALSE, late |-> 0]

\* Nothing was qualified yet; the environment is to be created or exists.
Init ==
    /\ active = NoGo(0) /\ pointer = NoGo(0)
    /\ bindings = [go |-> FALSE, plan |-> None]
    /\ saved = [g \in Gens |-> None] /\ valid = {} /\ gens = 0
    /\ rejected = {} /\ unrevoked = {}
    /\ inputs \in Inputs /\ lock = None
    /\ fence = None /\ executed = {}
    /\ entries = [k \in 1..Phases |-> "none"]
    /\ target \in {{}, 1..Phases}
    /\ proc = [p \in Procs |-> Idle] /\ faults = 0

At(p, point) == proc[p].pc = point
Plan(p) == proc[p].plan
Creates(p) == Plan(p).kind = "create"
To(p, point) == proc' = [proc EXCEPT ![p].pc = point]
End(p) == proc' = [proc EXCEPT ![p] = Idle]

\* The locked parts of publishing and of starting a create.
Locked == {"mark", "activate", "recheck", "mkdir", "evidence"}
Unlock(p) == lock' = IF lock = p THEN None ELSE lock

\* The steps that take the lock, without waiting for it.
Contending == {"invalidate", "observe", "rebind", "publish", "revoke", "start"}

\* active.json is still the NO-GO of this preflight.
Own(p) == active = NoGo(proc[p].gen)

\* checkEnvironmentCreateAbsence: no owner and nothing of an environment.
Absent == fence = None /\ target = {}

-----------------------------------------------------------------------------
(* Preflight                                                                *)

\* With a checkpoint a create preflight goes to recovery instead.
StartPreflight(p, kind) ==
    /\ At(p, "idle") /\ gens < MaxPreflights
    /\ kind = "create" => fence = None
    /\ proc' = [proc EXCEPT ![p] = [Idle EXCEPT !.pc = "invalidate",
                   !.plan = [kind |-> kind, inputs |-> inputs]]]
    /\ UNCHANGED <<qualification, execution, inputs, lock, faults>>

\* A new generation replaces any GO before the first check.
Invalidate(p) ==
    /\ At(p, "invalidate") /\ lock = None /\ gens < MaxPreflights
    /\ gens' = gens + 1 /\ active' = NoGo(gens + 1)
    /\ proc' = [proc EXCEPT ![p].gen = gens + 1,
                   ![p].pc = IF Creates(p) THEN "absent" ELSE "observe"]
    /\ UNCHANGED <<pointer, bindings, saved, valid, rejected, unrevoked>>
    /\ UNCHANGED <<execution, inputs, lock, faults>>

\* Mutant of Observe: the generation on disk is not compared with the own one.
Observe_Any(p) ==
    /\ proc[p].pc \in {"observe", "rebind"} /\ lock = None
    /\ bindings' = [go |-> FALSE, plan |-> IF At(p, "rebind") THEN Plan(p) ELSE None]
    /\ To(p, IF At(p, "rebind") THEN "qualify" ELSE "available")
    /\ UNCHANGED <<active, pointer, saved, valid, gens, rejected, unrevoked>>
    /\ UNCHANGED <<execution, inputs, lock, faults>>

\* publishEnvironmentPreflightObservation, first empty and then of the plan.
Observe(p) ==
    /\ proc[p].pc \in {"observe", "rebind"} /\ lock = None /\ Own(p)
    /\ bindings' = [go |-> FALSE, plan |-> IF At(p, "rebind") THEN Plan(p) ELSE None]
    /\ To(p, IF At(p, "rebind") THEN "qualify" ELSE "available")
    /\ UNCHANGED <<active, pointer, saved, valid, gens, rejected, unrevoked>>
    /\ UNCHANGED <<execution, inputs, lock, faults>>

\* Occupancy, then compilation against the existing environment; a create
\* has to find the target absent.
Compile(p) ==
    /\ \/ At(p, "available") /\ fence = None /\ target # {} /\ To(p, "rebind")
       \/ At(p, "absent") /\ Absent /\ To(p, "qualify")
    /\ UNCHANGED <<qualification, execution, inputs, lock, faults>>

\* The gates: the inputs are read again, a create checks absence again.
Qualify(p) ==
    /\ At(p, "qualify") /\ inputs = Plan(p).inputs
    /\ Creates(p) => Absent
    /\ To(p, "save")
    /\ UNCHANGED <<qualification, execution, inputs, lock, faults>>

\* The immutable artifact, before the lock is taken.
SaveArtifact(p) ==
    /\ At(p, "save") /\ ~proc[p].cancelled
    /\ Creates(p) \/ bindings.plan = Plan(p)
    /\ saved' = [saved EXCEPT ![proc[p].gen] = Plan(p)]
    /\ valid' = valid \cup {proc[p].gen}
    /\ To(p, "publish")
    /\ UNCHANGED <<active, pointer, bindings, gens, rejected, unrevoked>>
    /\ UNCHANGED <<execution, inputs, lock, faults>>

\* Under the lock: is the generation still ours, and is it still fresh?
Publish(p) ==
    /\ At(p, "publish") /\ lock = None /\ Own(p)
    /\ ~proc[p].cancelled /\ proc[p].gen \in valid
    /\ Creates(p) \/ bindings.plan = Plan(p)
    /\ lock' = p /\ To(p, "mark")
    /\ UNCHANGED <<qualification, execution, inputs, faults>>

\* The secondary record becomes GO first: the bindings, or create's pointer.
Mark(p) ==
    /\ At(p, "mark") /\ To(p, "activate")
    /\ IF Creates(p)
       THEN pointer' = GO(proc[p].gen, Plan(p)) /\ UNCHANGED bindings
       ELSE bindings' = [go |-> TRUE, plan |-> Plan(p)] /\ UNCHANGED pointer
    /\ UNCHANGED <<active, saved, valid, gens, rejected, unrevoked>>
    /\ UNCHANGED <<execution, inputs, lock, faults>>

\* The last atomic write makes the plan executable.
Activate(p) ==
    /\ At(p, "activate")
    /\ Creates(p) \/ (~proc[p].cancelled /\ proc[p].gen \in valid)
    /\ active' = GO(proc[p].gen, Plan(p))
    /\ To(p, "recheck")
    /\ UNCHANGED <<pointer, bindings, saved, valid, gens, rejected, unrevoked>>
    /\ UNCHANGED <<execution, inputs, lock, faults>>

\* Mutant of Recheck: the publication lock is not given back.
Recheck_LeavesLocked(p) ==
    /\ At(p, "recheck") /\ UNCHANGED lock
    /\ LET late == proc[p].cancelled \/ (~Creates(p) /\ proc[p].gen \notin valid) IN
         /\ active' = IF late THEN NoGo(proc[p].gen) ELSE active
         /\ rejected' = IF late THEN rejected \cup {proc[p].gen} ELSE rejected
         /\ IF late THEN End(p) ELSE To(p, "published")
    /\ UNCHANGED <<pointer, bindings, saved, valid, gens, unrevoked, execution, inputs, faults>>

\* Cancelled or expired meanwhile: revoked, still under the lock.
Recheck(p) ==
    /\ At(p, "recheck") /\ Unlock(p)
    /\ LET late == proc[p].cancelled \/ (~Creates(p) /\ proc[p].gen \notin valid) IN
         /\ active' = IF late THEN NoGo(proc[p].gen) ELSE active
         /\ rejected' = IF late THEN rejected \cup {proc[p].gen} ELSE rejected
         /\ IF late THEN End(p) ELSE To(p, "published")
    /\ UNCHANGED <<pointer, bindings, saved, valid, gens, unrevoked, execution, inputs, faults>>

\* The answer is GO, unless the upgrade's command was cancelled: then
\* revokeEnvironmentPreflightProof has to get the lock again.
Report(p) ==
    /\ At(p, "published")
    /\ IF ~Creates(p) /\ proc[p].cancelled THEN To(p, "revoke") ELSE End(p)
    /\ UNCHANGED <<qualification, execution, inputs, lock, faults>>

Revoke(p) ==
    /\ At(p, "revoke") /\ lock = None
    /\ active' = IF active.gen = proc[p].gen THEN NoGo(proc[p].gen) ELSE active
    /\ rejected' = rejected \cup {proc[p].gen} /\ End(p)
    /\ UNCHANGED <<pointer, bindings, saved, valid, gens, unrevoked>>
    /\ UNCHANGED <<execution, inputs, lock, faults>>

\* The lock is busy, if only for the moment another command needs to find that
\* it may not publish: the error is dropped, the answer is NO-GO all the same
\* and the GO stays active.
RevokeRefused(p) ==
    /\ At(p, "revoke") /\ End(p)
    /\ \E q \in Procs \ {p} : lock = q \/ proc[q].pc \in Contending
    /\ rejected' = rejected \cup {proc[p].gen}
    /\ unrevoked' = unrevoked \cup {proc[p].gen}
    /\ UNCHANGED <<active, pointer, bindings, saved, valid, gens>>
    /\ UNCHANGED <<execution, inputs, lock, faults>>

Preflighting == {"invalidate", "observe", "available", "rebind", "absent",
                 "qualify", "save", "publish", "mark", "activate"}

\* A failed gate, a refused step, a busy lock or a cancellation: NO-GO.
Reject(p) ==
    /\ proc[p].pc \in Preflighting
    /\ rejected' = IF proc[p].gen = 0 THEN rejected ELSE rejected \cup {proc[p].gen}
    /\ Unlock(p) /\ End(p)
    /\ UNCHANGED <<active, pointer, bindings, saved, valid, gens, unrevoked>>
    /\ UNCHANGED <<execution, inputs, faults>>

-----------------------------------------------------------------------------
(* Consumption of the active qualification                                 *)

\* The operator names a plan a preflight reported; with other inputs than the
\* plan's, loading refuses it.
StartExecution(p, plan) ==
    /\ At(p, "idle") /\ \E g \in Gens : saved[g] = plan
    /\ plan.inputs = inputs
    /\ proc' = [proc EXCEPT ![p] = [Idle EXCEPT !.pc = "load", !.plan = plan]]
    /\ UNCHANGED <<qualification, execution, inputs, lock, faults>>

\* loadEnvironmentPreflightProof, loadEnvironmentCreateArtifact: the pointer,
\* what it names, and the pointer again.
Load(p) ==
    /\ At(p, "load") /\ active.go /\ active.plan = Plan(p)
    /\ proc' = [proc EXCEPT ![p].seen = active, ![p].pc = "payload"]
    /\ UNCHANGED <<qualification, execution, inputs, lock, faults>>

Payload(p) ==
    /\ At(p, "payload")
    /\ saved[proc[p].seen.gen] = Plan(p) /\ proc[p].seen.gen \in valid
    /\ IF Creates(p) THEN pointer = proc[p].seen
                     ELSE bindings = [go |-> TRUE, plan |-> Plan(p)]
    /\ To(p, "reread")
    /\ UNCHANGED <<qualification, execution, inputs, lock, faults>>

Reread(p) ==
    /\ At(p, "reread") /\ active = proc[p].seen
    /\ To(p, IF Creates(p) THEN "absence" ELSE "hydrate")
    /\ UNCHANGED <<qualification, execution, inputs, lock, faults>>

\* Mutant of Current: the qualification is not looked at again.
Current_InputsOnly(p) == ~proc[p].cancelled /\ inputs = Plan(p).inputs

\* FenceInventory with a proof: the inputs and the very same qualification.
Current(p) ==
    /\ ~proc[p].cancelled
    /\ inputs = Plan(p).inputs
    /\ active = proc[p].seen
    /\ bindings = [go |-> TRUE, plan |-> Plan(p)]

\* The fence of hydration still looks at the age, like the admission after
\* it; from then on the age is the one of the admission.
Hydrate(p) ==
    /\ At(p, "hydrate") /\ Current(p) /\ proc[p].seen.gen \in valid
    /\ To(p, "admit")
    /\ UNCHANGED <<qualification, execution, inputs, lock, faults>>

Admit(p) ==
    /\ At(p, "admit") /\ ~proc[p].cancelled /\ proc[p].seen.gen \in valid
    /\ To(p, "check")
    /\ UNCHANGED <<qualification, execution, inputs, lock, faults>>

\* The immediate execution checks.
LiveChecks(p) ==
    /\ At(p, "check") /\ Current(p) /\ To(p, "begin")
    /\ UNCHANGED <<qualification, execution, inputs, lock, faults>>

\* Lease, local fence and journal (module ExecutionFence).
Begin(p) ==
    /\ At(p, "begin") /\ fence = None /\ Plan(p) \notin executed
    /\ fence' = [by |-> p, plan |-> Plan(p)]
    /\ executed' = executed \cup {Plan(p)}
    /\ To(p, "phase")
    /\ UNCHANGED <<qualification, entries, target, inputs, lock, faults>>

\* Every phase is fenced before its first write.
Phase(p) ==
    /\ At(p, "phase") /\ Current(p) /\ To(p, "write")
    /\ UNCHANGED <<qualification, execution, inputs, lock, faults>>

Write(p) ==
    /\ At(p, "write")
    /\ proc' = [proc EXCEPT ![p].phase = @ + 1,
                   ![p].late = IF active = proc[p].seen THEN @ ELSE @ + 1,
                   ![p].pc = IF proc[p].phase = Phases THEN "accept" ELSE "phase"]
    /\ UNCHANGED <<qualification, execution, inputs, lock, faults>>

\* The fence after acceptance; the execution's own cleanup follows.
Accept(p) ==
    /\ At(p, "accept") /\ Current(p)
    /\ fence' = None /\ End(p)
    /\ UNCHANGED <<qualification, entries, target, executed, inputs, lock, faults>>

-----------------------------------------------------------------------------
(* Fresh create                                                            *)

Absence(p) ==
    /\ At(p, "absence") /\ Absent /\ To(p, "start")
    /\ UNCHANGED <<qualification, execution, inputs, lock, faults>>

\* The qualification is loaded again, the very same artifact.
Reloaded(p) ==
    /\ active = proc[p].seen /\ pointer = proc[p].seen
    /\ proc[p].seen.gen \in valid /\ ~proc[p].cancelled

\* Mutant of StartCreate: the publication lock is not taken.
StartCreate_NoLock(p) ==
    /\ At(p, "start") /\ lock = None /\ Reloaded(p)
    /\ UNCHANGED lock /\ To(p, "mkdir")
    /\ UNCHANGED <<qualification, execution, inputs, faults>>

\* startEnvironmentCreateExecution takes the publication lock, so that no
\* preflight can replace the qualification until the owner exists.
StartCreate(p) ==
    /\ At(p, "start") /\ lock = None /\ Reloaded(p)
    /\ lock' = p /\ To(p, "mkdir")
    /\ UNCHANGED <<qualification, execution, inputs, faults>>

Mkdir(p) ==
    /\ At(p, "mkdir") /\ fence = None /\ Plan(p) \notin executed
    /\ fence' = [by |-> p, plan |-> Plan(p)]
    /\ To(p, "evidence")
    /\ UNCHANGED <<qualification, entries, target, executed, inputs, lock, faults>>

\* The execution directory, owner.json and the first journal.
Evidence(p) ==
    /\ At(p, "evidence")
    /\ executed' = executed \cup {Plan(p)}
    /\ entries' = [k \in 1..Phases |-> "none"]
    /\ Unlock(p) /\ To(p, "intent")
    /\ UNCHANGED <<qualification, fence, target, inputs, faults>>

\* BeginEntry: the intent is durable before the provider is called.
BeginEntry(p) ==
    /\ At(p, "intent") /\ entries[proc[p].phase] = "none"
    /\ entries' = [entries EXCEPT ![proc[p].phase] = "pending"]
    /\ To(p, "allocate")
    /\ UNCHANGED <<qualification, fence, target, executed, inputs, lock, faults>>

\* The provider allocates the resource; its answer may be lost (Stop).
Allocate(p) ==
    /\ At(p, "allocate")
    /\ target' = target \cup {proc[p].phase}
    /\ To(p, "receipt")
    /\ UNCHANGED <<qualification, fence, entries, executed, inputs, lock, faults>>

RecordReceipt(p) ==
    /\ At(p, "receipt") /\ entries[proc[p].phase] = "pending"
    /\ entries' = [entries EXCEPT ![proc[p].phase] = "allocated"]
    /\ To(p, "complete")
    /\ UNCHANGED <<qualification, fence, target, executed, inputs, lock, faults>>

CompleteEntry(p) ==
    /\ At(p, "complete") /\ entries[proc[p].phase] = "allocated"
    /\ entries' = [entries EXCEPT ![proc[p].phase] = "completed"]
    /\ proc' = [proc EXCEPT ![p].phase = @ + 1,
                   ![p].pc = IF proc[p].phase = Phases THEN "release" ELSE "intent"]
    /\ UNCHANGED <<qualification, fence, target, executed, inputs, lock, faults>>

\* CompleteAndRelease: only with every outcome recorded.
Release(p) ==
    /\ At(p, "release") /\ ~proc[p].cancelled
    /\ \A k \in 1..Phases : entries[k] = "completed"
    /\ fence' = None /\ End(p)
    /\ UNCHANGED <<qualification, entries, target, executed, inputs, lock, faults>>

-----------------------------------------------------------------------------
(* Failure                                                                  *)

Executing == {"load", "payload", "reread", "hydrate", "admit", "check", "begin",
              "phase", "write", "accept", "absence", "start", "mkdir", "evidence",
              "intent", "allocate", "receipt", "complete", "release"}

Owns(p) == fence # None /\ fence.by = p

\* Mutant of Stop: a failed create removes its owner.
Stop_Releases(p) ==
    /\ proc[p].pc \in Executing
    /\ fence' = IF Owns(p) THEN None ELSE fence
    /\ Unlock(p) /\ End(p)
    /\ UNCHANGED <<qualification, entries, target, executed, inputs, faults>>

\* A refused or failed execution returns: an upgrade cleans up after itself,
\* a create that has its owner keeps it for recovery.
Stop(p) ==
    /\ proc[p].pc \in Executing
    /\ fence' = IF ~Owns(p) THEN fence
                ELSE IF Creates(p) THEN [fence EXCEPT !.by = None] ELSE None
    /\ Unlock(p) /\ End(p)
    /\ UNCHANGED <<qualification, entries, target, executed, inputs, faults>>

\* A signal or a deadline; the steps that look at the context notice.
Cancel(p) ==
    /\ ~At(p, "idle") /\ ~proc[p].cancelled /\ faults < MaxFaults
    /\ proc' = [proc EXCEPT ![p].cancelled = TRUE] /\ faults' = faults + 1
    /\ UNCHANGED <<qualification, execution, inputs, lock>>

\* The process is killed: the flock goes, everything on disk stays.
Crash(p) ==
    /\ ~At(p, "idle") /\ faults < MaxFaults
    /\ faults' = faults + 1 /\ End(p) /\ Unlock(p)
    /\ fence' = IF Owns(p) THEN [fence EXCEPT !.by = None] ELSE fence
    /\ UNCHANGED <<qualification, entries, target, executed, inputs>>

\* `deployment reconcile` clears the owner a killed upgrade left behind.
Reconcile ==
    /\ fence # None /\ fence.by = None /\ fence.plan.kind = "upgrade"
    /\ fence' = None
    /\ UNCHANGED <<qualification, entries, target, executed, inputs, lock, proc, faults>>

\* Evidence gets older than DEPLOYMENT_PREFLIGHT_VALIDITY_SECONDS.
Expire(g) ==
    /\ valid' = valid \ {g}
    /\ UNCHANGED <<active, pointer, bindings, saved, gens, rejected, unrevoked>>
    /\ UNCHANGED <<execution, inputs, lock, proc, faults>>

\* Somebody edits the maintained inputs.
ChangeInputs ==
    /\ inputs' \in Inputs \ {inputs}
    /\ UNCHANGED <<qualification, execution, lock, proc, faults>>

Preflight(p) ==
    \/ Invalidate(p) \/ Observe(p) \/ Compile(p) \/ Qualify(p) \/ SaveArtifact(p)
    \/ Publish(p) \/ Mark(p) \/ Activate(p) \/ Recheck(p) \/ Report(p)
    \/ Revoke(p) \/ RevokeRefused(p) \/ Reject(p)

Upgrade(p) ==
    \/ Load(p) \/ Payload(p) \/ Reread(p) \/ Hydrate(p) \/ Admit(p) \/ LiveChecks(p)
    \/ Begin(p) \/ Phase(p) \/ Write(p) \/ Accept(p)

Create(p) ==
    \/ Absence(p) \/ StartCreate(p) \/ Mkdir(p) \/ Evidence(p) \/ BeginEntry(p)
    \/ Allocate(p) \/ RecordReceipt(p) \/ CompleteEntry(p) \/ Release(p)

Next ==
    \/ \E p \in Procs :
         \/ \E kind \in Kinds : StartPreflight(p, kind)
         \/ \E plan \in Plans : StartExecution(p, plan)
         \/ Preflight(p) \/ Upgrade(p) \/ Create(p)
         \/ Stop(p) \/ Cancel(p) \/ Crash(p)
    \/ Reconcile
    \/ \E g \in valid : Expire(g)
    \/ ChangeInputs

Spec == Init /\ [][Next]_vars

-----------------------------------------------------------------------------
(* Properties                                                              *)

Points == {"idle", "recheck", "published", "revoke"} \cup Preflighting \cup Executing
Pointers == {NoGo(g) : g \in Gens} \cup {GO(g, plan) : g \in Gens, plan \in Plans}
Commands == [pc : Points, plan : Plans \cup {None}, gen : Gens, seen : Pointers,
             phase : 1..(Phases + 1), cancelled : BOOLEAN, late : Nat]

\* Type invariant: every file holds a value of its format, and the lock is
\* held only by a process inside a locked section.
TypeOK ==
    /\ active \in Pointers /\ pointer \in Pointers
    /\ bindings \in [go : BOOLEAN, plan : Plans \cup {None}]
    /\ saved \in [Gens -> Plans \cup {None}] /\ valid \subseteq Gens
    /\ gens \in Gens /\ rejected \subseteq Gens /\ unrevoked \subseteq rejected
    /\ inputs \in Inputs /\ faults \in 0..MaxFaults
    /\ fence \in {None} \cup Owners
    /\ entries \in [1..Phases -> {"none", "pending", "allocated", "completed"}]
    /\ target \subseteq 1..Phases /\ executed \subseteq Plans
    /\ proc \in [Procs -> Commands]
    /\ lock = None \/ (lock \in Procs /\ proc[lock].pc \in Locked)

\* The active pointer always belongs to the newest preflight.  If it says GO,
\* its artifact is complete, the secondary record (bindings or create's own
\* pointer) agrees, and the preflight did not answer NO-GO, unless its
\* revocation found the lock busy: whatever other preflights did meanwhile,
\* publishing is all or nothing for a reader.
ActiveIsQualified ==
    /\ active.gen = gens
    /\ active.go =>
         /\ active.gen \notin rejected \ unrevoked
         /\ saved[active.gen] = active.plan
         /\ IF active.plan.kind = "create"
            THEN pointer = active
            ELSE bindings = [go |-> TRUE, plan |-> active.plan]

\* "Cancellation/expiry/commit failure revokes only that invocation's
\* generation", so that a "canceled publication" leaves no "executable GO
\* evidence": a preflight that answered NO-GO has no active GO.
NoGoIsNotExecutable == active.go => active.gen \notin rejected

\* A create becomes the owner of the environment only while the qualification
\* it loaded is the active one, only once per plan, and only while nothing of
\* the environment exists: not even a create of another process that ran
\* between its absence check and its admission can make it start twice.
AdmittedFresh ==
    [][fence = None /\ fence' # None /\ fence'.plan.kind = "create" =>
         /\ active.go /\ active.plan = fence'.plan
         /\ fence'.plan \notin executed
         /\ target = {}]_vars

\* A preflight that invalidates the qualification of a running upgrade stops
\* it: at most the phase that was already fenced is still written.
SupersededStops == \A p \in Procs : proc[p].late <= 1

\* Every provider resource a create allocated has a durable intent, and until
\* its outcome is recorded as completed the environment keeps its owner: no
\* failure, cancellation or crash makes an allocation anonymous.
AllocationsOwned ==
    executed \cap [kind : {"create"}, inputs : Inputs] # {} =>
      \A k \in target :
         /\ entries[k] # "none"
         /\ entries[k] = "completed" \/ (fence # None /\ fence.plan.kind = "create")
=============================================================================
