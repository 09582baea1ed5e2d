--------------------- MODULE QualifiedAdmissionProofs ---------------------
(***************************************************************************)
(* For any number of processes, inputs and preflights: the active pointer  *)
(* is always that of the newest preflight and a GO is complete (IInv), and *)
(* who consumes a GO does so once, on a fresh target and until superseded  *)
(* (Consumption, over IInv).                                               *)
(***************************************************************************)
EXTENDS QualifiedAdmission, TLAPS

\* What a process in a locked section, or in a preflight, may rely on.
Holds(p) == proc[p].pc \in Locked => lock = p
HasPlan(p) == proc[p].pc # "idle" => Plan(p) \in Plans

\* Generations are unique, and one that is being qualified was not answered.
OwnGen(p) ==
    /\ proc[p].gen <= gens
    /\ proc[p].gen # 0 => proc[p].gen \notin rejected
    /\ proc[p].pc \in {"observe", "available", "rebind", "absent", "qualify", "save",
         "publish", "mark", "activate", "recheck", "published", "revoke"} => proc[p].gen # 0
    /\ \A q \in Procs \ {p} : proc[p].gen # 0 => proc[q].gen # proc[p].gen

\* How far publishing has come.
Progress(p) ==
    /\ proc[p].pc \in Preflighting /\ active.go => active.gen # proc[p].gen
    /\ proc[p].pc \in {"publish", "mark", "activate", "recheck"} =>
         saved[proc[p].gen] = Plan(p)
    /\ proc[p].pc \in {"mark", "activate"} => Own(p)
    /\ proc[p].pc = "activate" =>
         IF Creates(p) THEN pointer = GO(proc[p].gen, Plan(p))
                       ELSE bindings = [go |-> TRUE, plan |-> Plan(p)]
    /\ proc[p].pc = "recheck" => active = GO(proc[p].gen, Plan(p))

InPhase(p) == proc[p].pc \notin {"accept", "release"} => proc[p].phase <= Phases

IInv ==
    /\ TypeOK
    /\ ActiveIsQualified
    /\ rejected \subseteq 1..gens
    /\ active.go => active.gen # 0
    /\ \A p \in Procs : Holds(p) /\ HasPlan(p) /\ OwnGen(p) /\ Progress(p) /\ InPhase(p)

-----------------------------------------------------------------------------
(* Steps that do not touch what a reader of the qualification sees         *)

\* The part of TypeOK about executions and inputs.
RestOK ==
    /\ inputs \in Inputs /\ faults \in 0..MaxFaults
    /\ fence \in {None} \cup Owners
    /\ entries \in [1..Phases -> {"none", "pending", "allocated", "completed"}]
    /\ target \subseteq 1..Phases /\ executed \subseteq Plans

Counted == {"observe", "available", "rebind", "absent", "qualify", "save",
            "publish", "mark", "activate", "recheck", "published", "revoke"}

\* The preflight of p answers NO-GO: it is not active, or cannot be revoked.
Answered(p) ==
    /\ proc[p].gen # 0 /\ rejected' = rejected \cup {proc[p].gen}
    /\ \/ unrevoked' = unrevoked /\ (active.go => active.gen # proc[p].gen)
       \/ unrevoked' = unrevoked \cup {proc[p].gen}

\* A process goes on with command r, keeps or ends its generation, and holds
\* the lock exactly in a locked section.
Moves(p, r) ==
    /\ r \in Commands
    /\ proc' = [proc EXCEPT ![p] = r]
    /\ r.pc # "idle" => r.plan \in Plans
    /\ r.pc \notin {"accept", "release"} => r.phase <= Phases
    /\ r.pc \in Counted => r.gen # 0
    /\ r.pc \in Preflighting => proc[p].pc \in Preflighting \/ r.gen = 0
    /\ r.pc \notin {"publish", "mark", "activate", "recheck"}
    /\ \/ r.gen \in {0, proc[p].gen} /\ UNCHANGED <<rejected, unrevoked>>
       \/ r.gen = 0 /\ Answered(p)
    /\ r.pc \in Locked => lock \in {None, p}
    /\ lock' = IF r.pc \in Locked THEN p ELSE IF lock = p THEN None ELSE lock

\* Such a step preserves the invariant.
LEMMA MovesPreserves ==
    ASSUME IInv, NEW p \in Procs, NEW r, Moves(p, r), RestOK',
           UNCHANGED <<active, pointer, bindings, saved, valid, gens>>
    PROVE  IInv'
  <1> USE AdmissionAssumption
  <1> USE DEF Gens, Plan, Creates, Own, NoGo, GO
  <1>1. proc' \in [Procs -> Commands] /\ proc'[p] = r
        /\ \A q \in Procs \ {p} : proc'[q] = proc[q]
    BY DEF IInv, TypeOK, Moves
  <1>a. proc[p].gen \in 0..gens /\ proc[p].gen \in Gens /\ gens \in Gens
    BY DEF IInv, TypeOK, OwnGen, Commands
  <1>b. \/ UNCHANGED <<rejected, unrevoked>>
        \/ /\ rejected' = rejected \cup {proc[p].gen} /\ proc[p].gen \in 1..gens
           /\ \/ unrevoked' = unrevoked /\ (active.go => active.gen # proc[p].gen)
              \/ unrevoked' = unrevoked \cup {proc[p].gen}
    BY <1>a DEF Moves, Answered
  <1>2. TypeOK'
    <2>0. rejected \subseteq Gens /\ unrevoked \subseteq rejected
      BY DEF IInv, TypeOK
    <2>1. rejected' \subseteq Gens /\ unrevoked' \subseteq rejected'
      BY <1>a, <1>b, <2>0
    <2>2. lock' = None \/ (lock' \in Procs /\ proc'[lock'].pc \in Locked)
      BY <1>1 DEF IInv, TypeOK, Moves
    <2> QED
      BY <1>1, <2>1, <2>2 DEF IInv, TypeOK, RestOK
  <1>3. ActiveIsQualified' /\ (rejected \subseteq 1..gens)'
    BY <1>b DEF IInv, ActiveIsQualified
  <1>4. ASSUME NEW q \in Procs PROVE Holds(q)'
    BY <1>1 DEF IInv, TypeOK, Holds, Moves
  <1>5. ASSUME NEW q \in Procs PROVE HasPlan(q)' /\ InPhase(q)'
    BY <1>1 DEF IInv, HasPlan, InPhase, Moves
  <1>6. ASSUME NEW q \in Procs PROVE OwnGen(q)'
    BY <1>1 DEF IInv, TypeOK, OwnGen, Moves, Answered, Commands, Counted
  <1>7. ASSUME NEW q \in Procs PROVE Progress(q)'
    <2>1. CASE q # p
      BY <1>1, <2>1 DEF IInv, Progress
    <2>2. CASE q = p
      <3>2. r.pc \in Preflighting /\ active.go => active.gen # r.gen
        BY DEF IInv, Moves, Progress, Preflighting
      <3> QED
        BY <1>1, <2>2, <3>2 DEF Progress, Moves
    <2> QED
      BY <2>1, <2>2
  <1> QED
    BY <1>2, <1>3, <1>4, <1>5, <1>6, <1>7 DEF IInv

\* Following a step: the next command of a process that only changes its point.
LEMMA ToMoves ==
    ASSUME IInv, NEW p \in Procs, NEW point \in Points, To(p, point),
           proc[p].pc \notin Locked, point \notin Locked, proc[p].pc # "idle",
           point \notin {"publish", "recheck", "idle"},
           proc[p].phase <= Phases, proc[p].pc \notin {"accept", "release"},
           point \in Counted => proc[p].pc \in Counted,
           point \in Preflighting => proc[p].pc \in Preflighting,
           RestOK', UNCHANGED <<qualification, lock>>
    PROVE  IInv'
  <1> DEFINE r == [proc[p] EXCEPT !.pc = point]
  <1>1. proc[p] \in Commands /\ lock # p
    BY AdmissionAssumption DEF IInv, TypeOK
  <1>2. r \in Commands /\ r.pc = point /\ r.gen = proc[p].gen /\ r.plan = proc[p].plan
        /\ r.phase = proc[p].phase
    BY <1>1 DEF Commands
  <1>3. proc' = [proc EXCEPT ![p] = r]
    BY DEF To
  <1> HIDE DEF r
  <1>4. proc[p].plan \in Plans /\ (proc[p].pc \in Counted => proc[p].gen # 0)
    BY DEF IInv, HasPlan, OwnGen, Counted, Plan
  <1>5. point \notin {"publish", "mark", "activate", "recheck"}
    BY DEF Locked
  <1>6. UNCHANGED <<lock, rejected, unrevoked>>
    BY DEF qualification
  <1>7. Moves(p, r)
    BY <1>1, <1>2, <1>3, <1>4, <1>5, <1>6 DEF Moves
  <1> QED
    BY <1>7, MovesPreserves DEF qualification

\* The state of a process without a command.
LEMMA IdleOK ==
    Idle \in Commands /\ Idle.gen = 0 /\ Idle.pc = "idle" /\ Idle.phase <= Phases
  <1>1. 0 \in Gens /\ 1 \in 1..(Phases + 1) /\ 1 <= Phases
    BY AdmissionAssumption DEF Gens
  <1>2. NoGo(0) \in Pointers /\ "idle" \in Points
    BY <1>1 DEF Pointers, Points
  <1> QED
    BY <1>1, <1>2 DEF Idle, Commands

\* A command ends, with or without an answer.
LEMMA EndMoves ==
    ASSUME IInv, NEW p \in Procs, End(p), Unlock(p), RestOK',
           UNCHANGED <<active, pointer, bindings, saved, valid, gens>>,
           UNCHANGED <<rejected, unrevoked>> \/ Answered(p)
    PROVE  IInv'
  <1>1. Idle \in Commands /\ Idle.gen = 0 /\ Idle.pc = "idle" /\ Idle.phase <= Phases
    BY IdleOK
  <1>2. Moves(p, Idle)
    BY <1>1 DEF Moves, End, Unlock, Locked, Counted, Preflighting
  <1> QED
    BY <1>1, <1>2, MovesPreserves

-----------------------------------------------------------------------------
(* One step per action                                                     *)

\* What every step may use about the process it belongs to.
LEMMA Facts ==
    ASSUME IInv, NEW p \in Procs
    PROVE  /\ RestOK /\ proc[p] \in Commands /\ proc \in [Procs -> Commands]
           /\ lock = p => proc[p].pc \in Locked
           /\ proc[p].pc \notin {"accept", "release"} => proc[p].phase <= Phases
           /\ proc[p].pc # "idle" => proc[p].plan \in Plans
           /\ proc[p].pc \in Counted => proc[p].gen # 0
  BY AdmissionAssumption DEF IInv, TypeOK, RestOK, InPhase, HasPlan, Plan, OwnGen, Counted

\* Steps of an execution or a preflight that only go on to their next point.
LEMMA GoesOn ==
    ASSUME IInv, NEW p \in Procs,
           \/ Compile(p) \/ Qualify(p) \/ Payload(p) \/ Reread(p) \/ Hydrate(p) \/ Admit(p)
           \/ LiveChecks(p) \/ Begin(p) \/ Phase(p) \/ Absence(p)
           \/ BeginEntry(p) \/ Allocate(p) \/ RecordReceipt(p)
    PROVE  IInv'
  <1> USE Facts
  <1> USE DEF execution, Counted, Locked, Points, Preflighting, Executing, At
  <1>1. CASE Compile(p)
    BY <1>1, ToMoves DEF Compile, RestOK
  <1>2. CASE Qualify(p)
    BY <1>2, ToMoves DEF Qualify, RestOK
  <1>3. CASE Payload(p)
    BY <1>3, ToMoves DEF Payload, RestOK
  <1>4. CASE Reread(p)
    BY <1>4, ToMoves DEF Reread, RestOK
  <1>5. CASE Hydrate(p)
    BY <1>5, ToMoves DEF Hydrate, RestOK
  <1>6. CASE Admit(p)
    BY <1>6, ToMoves DEF Admit, RestOK
  <1>7. CASE LiveChecks(p)
    BY <1>7, ToMoves DEF LiveChecks, RestOK
  <1>8. CASE Begin(p)
    <2>1. RestOK'
      BY <1>8 DEF Begin, RestOK, Owners, Plan
    <2> QED
      BY <1>8, <2>1, ToMoves DEF Begin
  <1>9. CASE Phase(p)
    BY <1>9, ToMoves DEF Phase, RestOK
  <1>10. CASE Absence(p)
    BY <1>10, ToMoves DEF Absence, RestOK
  <1>11. CASE BeginEntry(p)
    <2>1. RestOK'
      BY <1>11 DEF BeginEntry, RestOK
    <2> QED
      BY <1>11, <2>1, ToMoves DEF BeginEntry
  <1>12. CASE Allocate(p)
    <2>1. RestOK'
      BY <1>12 DEF Allocate, RestOK, Commands
    <2> QED
      BY <1>12, <2>1, ToMoves DEF Allocate
  <1>13. CASE RecordReceipt(p)
    <2>1. RestOK'
      BY <1>13 DEF RecordReceipt, RestOK
    <2> QED
      BY <1>13, <2>1, ToMoves DEF RecordReceipt
  <1> QED
    BY <1>1, <1>2, <1>3, <1>4, <1>5, <1>6, <1>7, <1>8, <1>9, <1>10, <1>11, <1>12, <1>13

\* Steps that end a command.
LEMMA Ends ==
    ASSUME IInv, NEW p \in Procs,
           \/ Report(p) \/ RevokeRefused(p) \/ Reject(p) \/ Accept(p) \/ Release(p)
           \/ Stop(p) \/ Crash(p)
    PROVE  IInv'
  <1> USE Facts
  <1> USE DEF execution, qualification, At
  <1>1. CASE Report(p)
    <2>1. proc[p].pc = "published" /\ lock # p /\ RestOK'
      BY <1>1 DEF Report, RestOK, Locked
    <2>2. CASE To(p, "revoke")
      BY <1>1, <2>1, <2>2, ToMoves DEF Report, Locked, Points, Counted, Preflighting
    <2>3. CASE End(p)
      BY <1>1, <2>1, <2>3, EndMoves DEF Report, Unlock
    <2> QED
      BY <1>1, <2>2, <2>3 DEF Report
  <1>2. CASE RevokeRefused(p)
    <2>1. lock # p /\ RestOK' /\ Answered(p)
      BY <1>2 DEF RevokeRefused, RestOK, Locked, Answered, Counted
    <2> QED
      BY <1>2, <2>1, EndMoves DEF RevokeRefused, Unlock
  <1>3. CASE Reject(p)
    <2>1. active.go => active.gen # proc[p].gen
      BY <1>3 DEF Reject, IInv, Progress
    <2> QED
      BY <1>3, <2>1, EndMoves DEF Reject, RestOK, Answered
  <1>4. CASE Accept(p)
    <2>1. lock # p /\ RestOK'
      BY <1>4 DEF Accept, RestOK, Locked
    <2> QED
      BY <1>4, <2>1, EndMoves DEF Accept, Unlock
  <1>5. CASE Release(p)
    <2>1. lock # p /\ RestOK'
      BY <1>5 DEF Release, RestOK, Locked
    <2> QED
      BY <1>5, <2>1, EndMoves DEF Release, Unlock
  <1>6. CASE Stop(p)
    <2>1. RestOK'
      BY <1>6 DEF Stop, RestOK, Owners, Owns
    <2> QED
      BY <1>6, <2>1, EndMoves DEF Stop
  <1>7. CASE Crash(p)
    <2>1. faults' \in 0..MaxFaults
      BY <1>7, AdmissionAssumption DEF Crash, RestOK
    <2>2. RestOK'
      BY <1>7, <2>1 DEF Crash, RestOK, Owners, Owns
    <2> QED
      BY <1>7, <2>2, EndMoves DEF Crash
  <1> QED
    BY <1>1, <1>2, <1>3, <1>4, <1>5, <1>6, <1>7

\* Steps that change more of their process than its point.
LEMMA Advances ==
    ASSUME IInv, NEW p \in Procs,
           \/ \E kind \in Kinds : StartPreflight(p, kind)
           \/ \E plan \in Plans : StartExecution(p, plan)
           \/ Load(p) \/ Write(p) \/ StartCreate(p) \/ Mkdir(p) \/ Evidence(p)
           \/ CompleteEntry(p)
    PROVE  IInv'
  <1> USE Facts, AdmissionAssumption
  <1> USE DEF execution, qualification, At, Locked, Counted, Preflighting
  <1>1. ASSUME NEW kind \in Kinds, StartPreflight(p, kind) PROVE IInv'
    <2> DEFINE r == [Idle EXCEPT !.pc = "invalidate",
                                 !.plan = [kind |-> kind, inputs |-> inputs]]
    <2>1. r.plan \in Plans /\ RestOK' /\ proc' = [proc EXCEPT ![p] = r] /\ lock # p
      BY <1>1 DEF StartPreflight, Plans, RestOK, Idle
    <2>2. r \in Commands /\ r.pc = "invalidate" /\ r.gen = 0 /\ r.phase <= Phases
      BY <2>1, IdleOK DEF Commands, Points, Idle
    <2> HIDE DEF r
    <2>3. Moves(p, r)
      BY <1>1, <2>1, <2>2 DEF StartPreflight, Moves
    <2> QED
      BY <1>1, <2>1, <2>3, MovesPreserves DEF StartPreflight
  <1>2. ASSUME NEW plan \in Plans, StartExecution(p, plan) PROVE IInv'
    <2> DEFINE r == [Idle EXCEPT !.pc = "load", !.plan = plan]
    <2>1. r.plan \in Plans /\ RestOK' /\ proc' = [proc EXCEPT ![p] = r] /\ lock # p
      BY <1>2 DEF StartExecution, RestOK, Idle
    <2>2. r \in Commands /\ r.pc = "load" /\ r.gen = 0 /\ r.phase <= Phases
      BY <2>1, IdleOK DEF Commands, Points, Executing, Idle
    <2> HIDE DEF r
    <2>3. Moves(p, r)
      BY <1>2, <2>1, <2>2 DEF StartExecution, Moves
    <2> QED
      BY <1>2, <2>1, <2>3, MovesPreserves DEF StartExecution
  <1>3. CASE Load(p)
    <2> DEFINE r == [proc[p] EXCEPT !.seen = active, !.pc = "payload"]
    <2>1. RestOK' /\ proc' = [proc EXCEPT ![p] = r] /\ lock # p
      BY <1>3 DEF Load, RestOK
    <2>2. r \in Commands /\ r.pc = "payload" /\ r.gen = proc[p].gen /\ r.phase <= Phases
          /\ r.plan \in Plans
      BY <1>3 DEF Load, Commands, Points, Executing, IInv, TypeOK
    <2> HIDE DEF r
    <2>3. Moves(p, r)
      BY <1>3, <2>1, <2>2 DEF Load, Moves
    <2> QED
      BY <1>3, <2>1, <2>3, MovesPreserves DEF Load
  <1>4. CASE Write(p)
    <2> DEFINE r == [proc[p] EXCEPT !.phase = @ + 1,
                        !.late = IF active = proc[p].seen THEN @ ELSE @ + 1,
                        !.pc = IF proc[p].phase = Phases THEN "accept" ELSE "phase"]
    <2>1. RestOK' /\ proc' = [proc EXCEPT ![p] = r] /\ lock # p
      BY <1>4 DEF Write, RestOK
    <2>2. proc[p].phase \in 1..(Phases + 1) /\ proc[p].phase <= Phases /\ proc[p].late \in Nat
      BY <1>4 DEF Write, Commands
    <2>3. r \in Commands /\ r.pc \in {"accept", "phase"} /\ r.gen = proc[p].gen
          /\ (r.pc # "accept" => r.phase <= Phases) /\ r.plan \in Plans
      BY <1>4, <2>2 DEF Write, Commands, Points, Executing
    <2> HIDE DEF r
    <2>4. Moves(p, r)
      BY <1>4, <2>1, <2>3 DEF Write, Moves
    <2> QED
      BY <1>4, <2>1, <2>4, MovesPreserves DEF Write
  <1>5. CASE StartCreate(p)
    <2> DEFINE r == [proc[p] EXCEPT !.pc = "mkdir"]
    <2>1. RestOK' /\ proc' = [proc EXCEPT ![p] = r]
      BY <1>5 DEF StartCreate, RestOK, To
    <2>2. r \in Commands /\ r.pc = "mkdir" /\ r.gen = proc[p].gen /\ r.phase <= Phases
          /\ r.plan \in Plans
      BY <1>5 DEF StartCreate, Commands, Points, Executing
    <2> HIDE DEF r
    <2>3. Moves(p, r)
      BY <1>5, <2>1, <2>2 DEF StartCreate, Moves
    <2> QED
      BY <1>5, <2>1, <2>3, MovesPreserves DEF StartCreate
  <1>6. CASE Mkdir(p)
    <2> DEFINE r == [proc[p] EXCEPT !.pc = "evidence"]
    <2>1. RestOK' /\ proc' = [proc EXCEPT ![p] = r] /\ lock = p
      BY <1>6 DEF Mkdir, RestOK, Owners, To, Plan, IInv, Holds
    <2>2. r \in Commands /\ r.pc = "evidence" /\ r.gen = proc[p].gen /\ r.phase <= Phases
          /\ r.plan \in Plans
      BY <1>6 DEF Mkdir, Commands, Points, Executing
    <2> HIDE DEF r
    <2>3. Moves(p, r)
      BY <1>6, <2>1, <2>2 DEF Mkdir, Moves
    <2> QED
      BY <1>6, <2>1, <2>3, MovesPreserves DEF Mkdir
  <1>7. CASE Evidence(p)
    <2> DEFINE r == [proc[p] EXCEPT !.pc = "intent"]
    <2>1. RestOK' /\ proc' = [proc EXCEPT ![p] = r]
      BY <1>7 DEF Evidence, RestOK, To, Plan
    <2>2. r \in Commands /\ r.pc = "intent" /\ r.gen = proc[p].gen /\ r.phase <= Phases
          /\ r.plan \in Plans
      BY <1>7 DEF Evidence, Commands, Points, Executing
    <2> HIDE DEF r
    <2>3. Moves(p, r)
      BY <1>7, <2>1, <2>2 DEF Evidence, Moves, Unlock
    <2> QED
      BY <1>7, <2>1, <2>3, MovesPreserves DEF Evidence
  <1>8. CASE CompleteEntry(p)
    <2> DEFINE r == [proc[p] EXCEPT !.phase = @ + 1,
                        !.pc = IF proc[p].phase = Phases THEN "release" ELSE "intent"]
    <2>1. RestOK' /\ proc' = [proc EXCEPT ![p] = r] /\ lock # p
      BY <1>8 DEF CompleteEntry, RestOK
    <2>2. proc[p].phase \in 1..(Phases + 1) /\ proc[p].phase <= Phases
      BY <1>8 DEF CompleteEntry, Commands
    <2>3. r \in Commands /\ r.pc \in {"release", "intent"} /\ r.gen = proc[p].gen
          /\ (r.pc # "release" => r.phase <= Phases) /\ r.plan \in Plans
      BY <1>8, <2>2 DEF CompleteEntry, Commands, Points, Executing
    <2> HIDE DEF r
    <2>4. Moves(p, r)
      BY <1>8, <2>1, <2>3 DEF CompleteEntry, Moves
    <2> QED
      BY <1>8, <2>1, <2>4, MovesPreserves DEF CompleteEntry
  <1> QED
    BY <1>1, <1>2, <1>3, <1>4, <1>5, <1>6, <1>7, <1>8

\* A step that replaces the command of p by r: the parts of the invariant that
\* hold whatever the step does to the qualification.
LEMMA Frame ==
    ASSUME IInv, NEW p \in Procs, NEW r \in Commands, proc' = [proc EXCEPT ![p] = r]
    PROVE  /\ proc' \in [Procs -> Commands] /\ proc'[p] = r
           /\ \A q \in Procs \ {p} : proc'[q] = proc[q]
           /\ \A q \in Procs : proc[q].gen \in 0..gens
           /\ \A q \in Procs : lock = None => proc[q].pc \notin Locked
           /\ gens \in Gens /\ gens \in Nat
  BY AdmissionAssumption DEF IInv, TypeOK, OwnGen, Holds, Gens, Commands

\* A new generation: every older GO is gone, nobody is publishing.
LEMMA InvalidatePreserves ==
    ASSUME IInv, NEW p \in Procs, Invalidate(p)
    PROVE  IInv'
  <1> USE Facts, AdmissionAssumption
  <1> DEFINE r == [proc[p] EXCEPT !.gen = gens + 1,
                      !.pc = IF Creates(p) THEN "absent" ELSE "observe"]
  <1>1. gens + 1 \in Gens /\ gens \in Nat
    BY DEF Invalidate, IInv, TypeOK, Gens
  <1>2. proc' = [proc EXCEPT ![p] = r]
    BY DEF Invalidate
  <1>3. r \in Commands /\ r.gen = gens + 1 /\ r.pc \in {"absent", "observe"}
        /\ r.plan \in Plans /\ r.phase <= Phases
    BY <1>1 DEF Invalidate, At, Commands, Points, Preflighting
  <1> HIDE DEF r
  <1>4. /\ proc' \in [Procs -> Commands] /\ proc'[p] = r
        /\ \A q \in Procs \ {p} : proc'[q] = proc[q]
        /\ \A q \in Procs : proc[q].gen \in 0..gens
        /\ \A q \in Procs : proc[q].pc \notin Locked
    BY <1>2, <1>3, Frame DEF Invalidate
  <1>5. /\ gens' = gens + 1 /\ active' = NoGo(gens + 1) /\ ~active'.go
        /\ active'.gen = gens + 1 /\ lock' = None
        /\ UNCHANGED <<pointer, bindings, saved, valid, rejected, unrevoked, execution, inputs, faults>>
    BY DEF Invalidate, NoGo
  <1>6. TypeOK'
    <2>1. active' \in Pointers
      BY <1>1, <1>5 DEF Pointers
    <2> QED
      BY <1>1, <1>4, <1>5, <2>1 DEF IInv, TypeOK, execution
  <1>7. ActiveIsQualified' /\ (rejected \subseteq 1..gens)' /\ (active.go => active.gen # 0)'
    BY <1>1, <1>5 DEF IInv, ActiveIsQualified
  <1>8. ASSUME NEW q \in Procs PROVE Holds(q)' /\ HasPlan(q)' /\ InPhase(q)'
    BY <1>3, <1>4 DEF IInv, Holds, HasPlan, InPhase, Locked, Plan
  <1>9. ASSUME NEW q \in Procs PROVE OwnGen(q)'
    <2>1. \A x \in Procs \ {p} : proc'[x].gen # gens + 1
      BY <1>1, <1>4
    <2>2. rejected' \subseteq 1..gens
      BY <1>5 DEF IInv
    <2>3. CASE q = p
      BY <1>1, <1>3, <1>4, <1>5, <2>1, <2>2, <2>3 DEF OwnGen
    <2>4. CASE q # p
      BY <1>1, <1>3, <1>4, <1>5, <2>1, <2>4 DEF OwnGen, IInv
    <2> QED
      BY <2>3, <2>4
  <1>10. ASSUME NEW q \in Procs PROVE Progress(q)'
    BY <1>3, <1>4, <1>5 DEF IInv, Progress, Locked, Plan
  <1> QED
    BY <1>6, <1>7, <1>8, <1>9, <1>10 DEF IInv

\* Observations are only written over a NO-GO of one's own.
LEMMA ObservePreserves ==
    ASSUME IInv, NEW p \in Procs, Observe(p)
    PROVE  IInv'
  <1> USE Facts, AdmissionAssumption
  <1> DEFINE r == [proc[p] EXCEPT !.pc = IF At(p, "rebind") THEN "qualify" ELSE "available"]
  <1>1. proc' = [proc EXCEPT ![p] = r]
    BY DEF Observe, To
  <1>2. r \in Commands /\ r.gen = proc[p].gen /\ r.pc \in {"qualify", "available"}
        /\ r.plan = proc[p].plan /\ r.phase <= Phases /\ proc[p].plan \in Plans
        /\ r.gen # 0
    BY DEF Observe, At, Commands, Points, Preflighting, Counted
  <1> HIDE DEF r
  <1>3. /\ proc' \in [Procs -> Commands] /\ proc'[p] = r
        /\ \A q \in Procs \ {p} : proc'[q] = proc[q]
        /\ \A q \in Procs : proc[q].pc \notin Locked
    BY <1>1, <1>2, Frame DEF Observe
  <1>4. /\ ~active.go /\ lock' = None /\ bindings' \in [go : BOOLEAN, plan : Plans \cup {None}]
        /\ UNCHANGED <<active, pointer, saved, valid, gens, rejected, unrevoked, execution, inputs, faults>>
    BY <1>2 DEF Observe, Own, NoGo, Plan
  <1>5. TypeOK'
    BY <1>3, <1>4 DEF IInv, TypeOK, execution
  <1>6. ActiveIsQualified' /\ (rejected \subseteq 1..gens)' /\ (active.go => active.gen # 0)'
    BY <1>4 DEF IInv, ActiveIsQualified
  <1>7. ASSUME NEW q \in Procs PROVE Holds(q)' /\ HasPlan(q)' /\ InPhase(q)'
    BY <1>2, <1>3 DEF IInv, Holds, HasPlan, InPhase, Locked, Plan
  <1>8. ASSUME NEW q \in Procs PROVE OwnGen(q)'
    BY <1>2, <1>3, <1>4 DEF OwnGen, IInv
  <1>9. ASSUME NEW q \in Procs PROVE Progress(q)'
    BY <1>2, <1>3, <1>4 DEF IInv, Progress, Locked, Plan
  <1> QED
    BY <1>5, <1>6, <1>7, <1>8, <1>9 DEF IInv

\* The artifact of a generation is written by its own preflight, once, before
\* any GO of that generation exists.
LEMMA SavePreserves ==
    ASSUME IInv, NEW p \in Procs, SaveArtifact(p)
    PROVE  IInv'
  <1> USE Facts, AdmissionAssumption
  <1> DEFINE r == [proc[p] EXCEPT !.pc = "publish"]
  <1>1. proc' = [proc EXCEPT ![p] = r]
    BY DEF SaveArtifact, To
  <1>2. r \in Commands /\ r.gen = proc[p].gen /\ r.pc = "publish" /\ proc[p].pc = "save"
        /\ r.plan = proc[p].plan /\ r.phase <= Phases /\ proc[p].plan \in Plans
        /\ r.gen # 0 /\ r.gen \in Gens
    BY DEF SaveArtifact, At, Commands, Points, Preflighting, Counted
  <1> HIDE DEF r
  <1>3. /\ proc' \in [Procs -> Commands] /\ proc'[p] = r
        /\ \A q \in Procs \ {p} : proc'[q] = proc[q]
    BY <1>1, <1>2, Frame
  <1>4. /\ saved' = [saved EXCEPT ![proc[p].gen] = proc[p].plan]
        /\ valid' = valid \cup {proc[p].gen}
        /\ UNCHANGED <<active, pointer, bindings, gens, rejected, unrevoked, execution, inputs, lock, faults>>
    BY DEF SaveArtifact, Plan
  <1>5. saved'[proc[p].gen] = proc[p].plan /\ \A g \in Gens \ {proc[p].gen} : saved'[g] = saved[g]
    BY <1>2, <1>4 DEF IInv, TypeOK
  <1>6. TypeOK'
    <2>1. lock = None \/ (lock \in Procs /\ lock # p /\ proc[lock].pc \in Locked)
      BY <1>2 DEF IInv, TypeOK, Locked
    <2> QED
      BY <1>2, <1>3, <1>4, <2>1 DEF IInv, TypeOK, execution
  <1>7. active.go => active.gen # proc[p].gen
    BY <1>2 DEF IInv, Progress, Preflighting
  <1>8. ActiveIsQualified' /\ (rejected \subseteq 1..gens)' /\ (active.go => active.gen # 0)'
    BY <1>4, <1>5, <1>7 DEF IInv, ActiveIsQualified, TypeOK
  <1>9. ASSUME NEW q \in Procs PROVE Holds(q)' /\ HasPlan(q)' /\ InPhase(q)'
    BY <1>2, <1>3, <1>4 DEF IInv, Holds, HasPlan, InPhase, Locked, Plan
  <1>10. ASSUME NEW q \in Procs PROVE OwnGen(q)'
    BY <1>2, <1>3, <1>4 DEF OwnGen, IInv
  <1>11. ASSUME NEW q \in Procs PROVE Progress(q)'
    <2>1. CASE q = p
      BY <1>2, <1>3, <1>4, <1>5, <1>7, <2>1 DEF Progress, Plan
    <2>2. CASE q # p
      <3>1. proc[q].gen # 0 => proc[q].gen # proc[p].gen /\ saved'[proc[q].gen] = saved[proc[q].gen]
        BY <1>2, <1>5, <2>2, Facts DEF IInv, OwnGen, Commands
      <3> QED
        BY <1>3, <1>4, <2>2, <3>1, Facts DEF IInv, Progress, Plan, Own, Creates, Counted
    <2> QED
      BY <2>1, <2>2
  <1> QED
    BY <1>6, <1>8, <1>9, <1>10, <1>11 DEF IInv

\* Taking the lock: the generation is still one's own and nobody publishes.
LEMMA PublishPreserves ==
    ASSUME IInv, NEW p \in Procs, Publish(p)
    PROVE  IInv'
  <1> USE Facts, AdmissionAssumption
  <1> DEFINE r == [proc[p] EXCEPT !.pc = "mark"]
  <1>1. proc' = [proc EXCEPT ![p] = r]
    BY DEF Publish, To
  <1>2. r \in Commands /\ r.gen = proc[p].gen /\ r.pc = "mark" /\ proc[p].pc = "publish"
        /\ r.plan = proc[p].plan /\ r.phase <= Phases /\ proc[p].plan \in Plans
        /\ r.gen # 0
    BY DEF Publish, At, Commands, Points, Preflighting, Counted
  <1> HIDE DEF r
  <1>3. /\ proc' \in [Procs -> Commands] /\ proc'[p] = r
        /\ \A q \in Procs \ {p} : proc'[q] = proc[q]
        /\ \A q \in Procs : proc[q].pc \notin Locked
    BY <1>1, <1>2, Frame DEF Publish
  <1>4. /\ lock' = p /\ active = NoGo(proc[p].gen)
        /\ UNCHANGED <<qualification, execution, inputs, faults>>
    BY DEF Publish, Own
  <1>5. TypeOK'
    BY <1>2, <1>3, <1>4 DEF IInv, TypeOK, execution, qualification, Locked
  <1>6. ActiveIsQualified' /\ (rejected \subseteq 1..gens)' /\ (active.go => active.gen # 0)'
    BY <1>4 DEF IInv, ActiveIsQualified, qualification
  <1>7. ASSUME NEW q \in Procs PROVE Holds(q)' /\ HasPlan(q)' /\ InPhase(q)'
    BY <1>2, <1>3, <1>4 DEF IInv, Holds, HasPlan, InPhase, Plan
  <1>8. ASSUME NEW q \in Procs PROVE OwnGen(q)'
    BY <1>2, <1>3, <1>4 DEF OwnGen, IInv, qualification
  <1>9. ASSUME NEW q \in Procs PROVE Progress(q)'
    <2>1. CASE q = p
      BY <1>2, <1>3, <1>4, <2>1 DEF IInv, Progress, Plan, Own, NoGo, qualification
    <2>2. CASE q # p
      BY <1>3, <1>4, <2>2 DEF IInv, Progress, Plan, Own, Creates, qualification
    <2> QED
      BY <2>1, <2>2
  <1> QED
    BY <1>5, <1>6, <1>7, <1>8, <1>9 DEF IInv

\* The secondary record becomes GO while the pointer still says NO-GO.
LEMMA MarkPreserves ==
    ASSUME IInv, NEW p \in Procs, Mark(p)
    PROVE  IInv'
  <1> USE Facts, AdmissionAssumption
  <1> DEFINE r == [proc[p] EXCEPT !.pc = "activate"]
  <1>1. proc' = [proc EXCEPT ![p] = r]
    BY DEF Mark, To
  <1>2. r \in Commands /\ r.gen = proc[p].gen /\ r.pc = "activate" /\ proc[p].pc = "mark"
        /\ r.plan = proc[p].plan /\ r.phase <= Phases /\ proc[p].plan \in Plans
        /\ r.gen # 0 /\ r.gen \in Gens
    BY DEF Mark, At, Commands, Points, Preflighting, Counted
  <1> HIDE DEF r
  <1>3. /\ proc' \in [Procs -> Commands] /\ proc'[p] = r
        /\ \A q \in Procs \ {p} : proc'[q] = proc[q]
    BY <1>1, <1>2, Frame
  <1>4. lock = p /\ active = NoGo(proc[p].gen) /\ ~active.go
    BY <1>2 DEF IInv, Holds, Progress, Own, NoGo, Locked
  <1>5. \A q \in Procs \ {p} : proc[q].pc \notin Locked
    BY <1>4 DEF IInv, Holds
  <1>6. /\ IF Creates(p) THEN pointer' = GO(proc[p].gen, proc[p].plan) /\ bindings' = bindings
           ELSE bindings' = [go |-> TRUE, plan |-> proc[p].plan] /\ pointer' = pointer
        /\ UNCHANGED <<active, saved, valid, gens, rejected, unrevoked, execution, inputs, lock, faults>>
    BY DEF Mark, Plan
  <1>7. TypeOK'
    <2>1. GO(proc[p].gen, proc[p].plan) \in Pointers
      BY <1>2 DEF Pointers
    <2>a. [go |-> TRUE, plan |-> proc[p].plan] \in [go : BOOLEAN, plan : Plans \cup {None}]
      BY <1>2
    <2>b. pointer \in Pointers /\ bindings \in [go : BOOLEAN, plan : Plans \cup {None}]
      BY DEF IInv, TypeOK
    <2>2. pointer' \in Pointers /\ bindings' \in [go : BOOLEAN, plan : Plans \cup {None}]
      <3>1. CASE Creates(p)
        BY <1>6, <2>1, <2>b, <3>1
      <3>2. CASE ~Creates(p)
        BY <1>6, <2>a, <2>b, <3>2
      <3> QED
        BY <3>1, <3>2
    <2> QED
      BY <1>2, <1>3, <1>4, <1>6, <2>2 DEF IInv, TypeOK, execution, Locked
  <1>8. ActiveIsQualified' /\ (rejected \subseteq 1..gens)' /\ (active.go => active.gen # 0)'
    BY <1>4, <1>6 DEF IInv, ActiveIsQualified
  <1>9. ASSUME NEW q \in Procs PROVE Holds(q)' /\ HasPlan(q)' /\ InPhase(q)'
    BY <1>2, <1>3, <1>4, <1>6 DEF IInv, Holds, HasPlan, InPhase, Plan
  <1>10. ASSUME NEW q \in Procs PROVE OwnGen(q)'
    BY <1>2, <1>3, <1>6 DEF OwnGen, IInv
  <1>11. ASSUME NEW q \in Procs PROVE Progress(q)'
    <2>1. CASE q = p
      <3>1. saved[proc[p].gen] = proc[p].plan
        BY <1>2 DEF IInv, Progress, Plan
      <3>2. (proc'[p]).plan = proc[p].plan /\ (proc'[p]).gen = proc[p].gen
            /\ (proc'[p]).pc = "activate"
        BY <1>2, <1>3
      <3> QED
        BY <1>4, <1>6, <2>1, <3>1, <3>2 DEF Progress, Plan, Own, Creates
    <2>2. CASE q # p
      BY <1>3, <1>4, <1>5, <1>6, <2>2 DEF IInv, Progress, Plan, Locked
    <2> QED
      BY <2>1, <2>2
  <1> QED
    BY <1>7, <1>8, <1>9, <1>10, <1>11 DEF IInv

\* The pointer becomes GO when everything it names is in place.
LEMMA ActivatePreserves ==
    ASSUME IInv, NEW p \in Procs, Activate(p)
    PROVE  IInv'
  <1> USE Facts, AdmissionAssumption
  <1> DEFINE r == [proc[p] EXCEPT !.pc = "recheck"]
  <1>1. proc' = [proc EXCEPT ![p] = r]
    BY DEF Activate, To
  <1>2. r \in Commands /\ r.gen = proc[p].gen /\ r.pc = "recheck" /\ proc[p].pc = "activate"
        /\ r.plan = proc[p].plan /\ r.phase <= Phases /\ proc[p].plan \in Plans
        /\ r.gen # 0 /\ r.gen \in Gens
    BY DEF Activate, At, Commands, Points, Counted
  <1> HIDE DEF r
  <1>3. /\ proc' \in [Procs -> Commands] /\ proc'[p] = r
        /\ \A q \in Procs \ {p} : proc'[q] = proc[q]
    BY <1>1, <1>2, Frame
  <1>4. lock = p /\ active = NoGo(proc[p].gen) /\ proc[p].gen = gens
    BY <1>2 DEF IInv, Holds, Progress, Own, NoGo, Locked, ActiveIsQualified
  <1>5. \A q \in Procs \ {p} : proc[q].pc \notin Locked
    BY <1>4 DEF IInv, Holds
  <1>6. /\ active' = GO(proc[p].gen, proc[p].plan)
        /\ UNCHANGED <<pointer, bindings, saved, valid, gens, rejected, unrevoked, execution, inputs, lock, faults>>
    BY DEF Activate, Plan
  <1>7. active'.go /\ active'.gen = proc[p].gen /\ active'.plan = proc[p].plan
    BY <1>6 DEF GO
  <1>8. TypeOK'
    <2>1. active' \in Pointers
      BY <1>2, <1>6 DEF Pointers
    <2> QED
      BY <1>2, <1>3, <1>4, <1>6, <2>1 DEF IInv, TypeOK, execution, Locked
  <1>9. ActiveIsQualified' /\ (rejected \subseteq 1..gens)' /\ (active.go => active.gen # 0)'
    <2>1. proc[p].gen \notin rejected /\ saved[proc[p].gen] = proc[p].plan
      BY <1>2 DEF IInv, OwnGen, Progress, Plan
    <2>2. IF proc[p].plan.kind = "create" THEN pointer = GO(proc[p].gen, proc[p].plan)
          ELSE bindings = [go |-> TRUE, plan |-> proc[p].plan]
      BY <1>2 DEF IInv, Progress, Plan, Creates
    <2> QED
      BY <1>2, <1>4, <1>6, <1>7, <2>1, <2>2 DEF IInv, ActiveIsQualified
  <1>10. ASSUME NEW q \in Procs PROVE Holds(q)' /\ HasPlan(q)' /\ InPhase(q)'
    BY <1>2, <1>3, <1>4, <1>6 DEF IInv, Holds, HasPlan, InPhase, Plan
  <1>11. ASSUME NEW q \in Procs PROVE OwnGen(q)'
    BY <1>2, <1>3, <1>6 DEF OwnGen, IInv
  <1>12. ASSUME NEW q \in Procs PROVE Progress(q)'
    <2>1. CASE q = p
      <3>1. saved[proc[p].gen] = proc[p].plan
        BY <1>2 DEF IInv, Progress, Plan
      <3>2. (proc'[p]).plan = proc[p].plan /\ (proc'[p]).gen = proc[p].gen
            /\ (proc'[p]).pc = "recheck"
        BY <1>2, <1>3
      <3> QED
        BY <1>6, <2>1, <3>1, <3>2 DEF Progress, Plan, Preflighting
    <2>2. CASE q # p
      <3>1. proc[q].gen # 0 => proc[q].gen # proc[p].gen
        BY <1>2, <2>2 DEF IInv, OwnGen
      <3> QED
        BY <1>2, <1>3, <1>5, <1>6, <1>7, <2>2, <3>1 DEF IInv, Progress, Plan, Locked
    <2> QED
      BY <2>1, <2>2
  <1> QED
    BY <1>8, <1>9, <1>10, <1>11, <1>12 DEF IInv

\* The answer under the lock; a cancelled or expired GO is taken back.
LEMMA RecheckPreserves ==
    ASSUME IInv, NEW p \in Procs, Recheck(p)
    PROVE  IInv'
  <1> USE Facts, AdmissionAssumption
  <1>1. /\ proc[p].pc = "recheck" /\ lock = p /\ lock' = None
        /\ active = GO(proc[p].gen, proc[p].plan)
        /\ proc[p].gen = gens /\ proc[p].gen # 0 /\ proc[p].gen \in Gens
    BY DEF Recheck, Unlock, At, IInv, Holds, Locked, Progress, Plan, GO, ActiveIsQualified,
           Counted, Commands
  <1>2. \A q \in Procs \ {p} : proc[q].pc \notin Locked
    BY <1>1 DEF IInv, Holds
  <1>3. UNCHANGED <<pointer, bindings, saved, valid, gens, unrevoked, execution, inputs, faults>>
    BY DEF Recheck
  <1>4. CASE To(p, "published") /\ active' = active /\ rejected' = rejected
    <2> DEFINE r == [proc[p] EXCEPT !.pc = "published"]
    <2>1. proc' = [proc EXCEPT ![p] = r]
      BY <1>4 DEF To
    <2>2. r \in Commands /\ r.gen = proc[p].gen /\ r.pc = "published" /\ r.plan \in Plans
          /\ r.phase <= Phases
      BY <1>1 DEF Commands, Points
    <2> HIDE DEF r
    <2>3. Moves(p, r)
      BY <1>1, <1>3, <1>4, <2>1, <2>2 DEF Moves, Locked, Preflighting
    <2> QED
      BY <1>3, <1>4, <2>3, MovesPreserves DEF RestOK, execution
  <1>5. CASE /\ End(p) /\ active' = NoGo(proc[p].gen)
             /\ rejected' = rejected \cup {proc[p].gen}
    <2>1. /\ proc' \in [Procs -> Commands] /\ proc'[p] = Idle
          /\ \A q \in Procs \ {p} : proc'[q] = proc[q]
      BY <1>5, IdleOK, Frame DEF End
    <2>2. ~active'.go /\ active'.gen = proc[p].gen
      BY <1>5 DEF NoGo
    <2>3. TypeOK'
      <3>1. active' \in Pointers
        BY <1>1, <1>5 DEF Pointers
      <3>2. rejected' \subseteq Gens /\ unrevoked' \subseteq rejected'
        BY <1>1, <1>3, <1>5 DEF IInv, TypeOK
      <3> QED
        BY <1>1, <1>3, <2>1, <3>1, <3>2 DEF IInv, TypeOK, execution
    <2>4. ActiveIsQualified' /\ (rejected \subseteq 1..gens)' /\ (active.go => active.gen # 0)'
      <3>1. gens \in 1..gens
        BY <1>1 DEF Gens
      <3> QED
        BY <1>1, <1>3, <1>5, <2>2, <3>1 DEF IInv, ActiveIsQualified
    <2>5. ASSUME NEW q \in Procs PROVE Holds(q)' /\ HasPlan(q)' /\ InPhase(q)'
      BY <1>2, <2>1, IdleOK DEF IInv, Holds, HasPlan, InPhase, Plan, Locked
    <2>6. ASSUME NEW q \in Procs PROVE OwnGen(q)'
      <3>1. CASE q = p
        BY <1>1, <1>3, <2>1, <3>1, IdleOK DEF OwnGen, Gens
      <3>2. CASE q # p
        BY <1>1, <1>3, <1>5, <2>1, <3>2, IdleOK DEF OwnGen, IInv
      <3> QED
        BY <3>1, <3>2
    <2>7. ASSUME NEW q \in Procs PROVE Progress(q)'
      BY <1>2, <1>3, <2>1, <2>2, IdleOK DEF IInv, Progress, Plan, Locked, Preflighting
    <2> QED
      BY <2>3, <2>4, <2>5, <2>6, <2>7 DEF IInv
  <1> QED
    BY <1>4, <1>5 DEF Recheck

\* A later revocation only takes back its own generation.
LEMMA RevokePreserves ==
    ASSUME IInv, NEW p \in Procs, Revoke(p)
    PROVE  IInv'
  <1> USE Facts, AdmissionAssumption
  <1>1. /\ proc[p].gen # 0 /\ proc[p].gen \in 1..gens /\ proc[p].gen \in Gens
        /\ gens \in Nat
        /\ \A q \in Procs : proc[q].pc \notin Locked
    <2>1. proc[p].pc = "revoke" /\ lock = None
      BY DEF Revoke, At
    <2>2. proc[p].gen # 0
      BY <2>1 DEF Counted
    <2>3. gens \in Nat /\ proc[p].gen \in Nat /\ proc[p].gen \in Gens
      BY DEF IInv, TypeOK, Gens, Commands
    <2>4. proc[p].gen <= gens
      BY DEF IInv, OwnGen
    <2>5. \A q \in Procs : proc[q].pc \notin Locked
      BY <2>1 DEF IInv, Holds
    <2> QED
      BY <2>2, <2>3, <2>4, <2>5
  <1>2. /\ lock' = None /\ rejected' = rejected \cup {proc[p].gen}
        /\ UNCHANGED <<pointer, bindings, saved, valid, gens, unrevoked, execution, inputs, faults>>
    BY DEF Revoke
  <1>3. /\ proc' \in [Procs -> Commands] /\ proc'[p] = Idle
        /\ \A q \in Procs \ {p} : proc'[q] = proc[q]
    BY IdleOK, Frame DEF Revoke, End
  <1>4. /\ active'.gen = active.gen
        /\ active'.go => active' = active /\ active.gen # proc[p].gen
        /\ active' \in Pointers
    <2>1. NoGo(proc[p].gen) \in Pointers
      BY <1>1 DEF Pointers
    <2>2. active \in Pointers
      BY DEF IInv, TypeOK
    <2> QED
      BY <2>1, <2>2 DEF Revoke, NoGo
  <1>5. TypeOK'
    <2>1. rejected' \subseteq Gens /\ unrevoked' \subseteq rejected'
      BY <1>1, <1>2 DEF IInv, TypeOK
    <2> QED
      BY <1>2, <1>3, <1>4, <2>1 DEF IInv, TypeOK, execution
  <1>6. ActiveIsQualified' /\ (rejected \subseteq 1..gens)' /\ (active.go => active.gen # 0)'
    BY <1>1, <1>2, <1>4 DEF IInv, ActiveIsQualified
  <1>7. ASSUME NEW q \in Procs PROVE Holds(q)' /\ HasPlan(q)' /\ InPhase(q)'
    BY <1>1, <1>3, IdleOK DEF IInv, Holds, HasPlan, InPhase, Plan, Locked
  <1>8. ASSUME NEW q \in Procs PROVE OwnGen(q)'
    <2>1. CASE q = p
      BY <1>1, <1>2, <1>3, <2>1, IdleOK DEF OwnGen, IInv
    <2>2. CASE q # p
      BY <1>1, <1>2, <1>3, <2>2, IdleOK DEF OwnGen, IInv
    <2> QED
      BY <2>1, <2>2
  <1>9. ASSUME NEW q \in Procs PROVE Progress(q)'
    BY <1>1, <1>2, <1>3, <1>4, IdleOK DEF IInv, Progress, Plan, Locked, Preflighting
  <1> QED
    BY <1>5, <1>6, <1>7, <1>8, <1>9 DEF IInv

\* A cancellation is only noted.
LEMMA CancelPreserves ==
    ASSUME IInv, NEW p \in Procs, Cancel(p)
    PROVE  IInv'
  <1> USE Facts, AdmissionAssumption
  <1>1. /\ UNCHANGED <<qualification, execution, inputs, lock>>
        /\ faults' \in 0..MaxFaults
        /\ proc' = [proc EXCEPT ![p].cancelled = TRUE]
    BY DEF Cancel, RestOK
  <1>2. proc' \in [Procs -> Commands]
    BY <1>1 DEF Commands
  <1>3. \A q \in Procs : /\ proc'[q].pc = proc[q].pc /\ proc'[q].gen = proc[q].gen
                         /\ proc'[q].plan = proc[q].plan /\ proc'[q].phase = proc[q].phase
    BY <1>1 DEF Commands
  <1>4. TypeOK'
    BY <1>1, <1>2, <1>3 DEF IInv, TypeOK, qualification, execution
  <1>5. ActiveIsQualified' /\ (rejected \subseteq 1..gens)' /\ (active.go => active.gen # 0)'
    BY <1>1 DEF IInv, ActiveIsQualified, qualification
  <1>6. ASSUME NEW q \in Procs PROVE Holds(q)' /\ HasPlan(q)' /\ InPhase(q)'
    BY <1>1, <1>3 DEF IInv, Holds, HasPlan, InPhase, Plan
  <1>7. ASSUME NEW q \in Procs PROVE OwnGen(q)'
    BY <1>1, <1>3 DEF IInv, OwnGen, qualification
  <1>8. ASSUME NEW q \in Procs PROVE Progress(q)'
    BY <1>1, <1>3 DEF IInv, Progress, Own, Plan, Creates, qualification
  <1> QED
    BY <1>4, <1>5, <1>6, <1>7, <1>8 DEF IInv

\* Steps of the environment, and stuttering.
LEMMA OutsidePreserves ==
    ASSUME IInv, Reconcile \/ (\E g \in valid : Expire(g)) \/ ChangeInputs \/ UNCHANGED vars
    PROVE  IInv'
  <1>1. UNCHANGED <<active, pointer, bindings, saved, gens, rejected, unrevoked, lock, proc>>
    BY DEF Reconcile, Expire, ChangeInputs, vars, qualification
  <1>2. TypeOK'
    <2>1. valid' \subseteq Gens /\ inputs' \in Inputs
      BY DEF Reconcile, Expire, ChangeInputs, vars, qualification, IInv, TypeOK
    <2>2. UNCHANGED <<entries, target, executed, faults>> /\ (fence' = fence \/ fence' = None)
      BY DEF Reconcile, Expire, ChangeInputs, vars, execution
    <2> QED
      BY <1>1, <2>1, <2>2 DEF IInv, TypeOK
  <1> QED
    BY <1>1, <1>2 DEF IInv, ActiveIsQualified, Holds, HasPlan, InPhase, OwnGen, Progress,
                      Own, Plan, Creates

-----------------------------------------------------------------------------
(* The theorems                                                            *)

\* No command has started and nothing is qualified.
LEMMA InitOK == Init => IInv
  <1> SUFFICES ASSUME Init PROVE IInv
    OBVIOUS
  <1>1. NoGo(0) \in Pointers /\ 0 \in Gens /\ None \notin Procs
    BY AdmissionAssumption DEF Pointers, Gens
  <1>2. TypeOK
    BY <1>1, IdleOK, AdmissionAssumption DEF Init, TypeOK
  <1>3. ActiveIsQualified /\ rejected \subseteq 1..gens /\ ~active.go
    BY DEF Init, ActiveIsQualified, NoGo
  <1>4. ASSUME NEW p \in Procs PROVE Holds(p) /\ HasPlan(p) /\ OwnGen(p) /\ Progress(p) /\ InPhase(p)
    BY <1>3, IdleOK DEF Init, Holds, HasPlan, OwnGen, Progress, InPhase, Locked, Preflighting
  <1> QED
    BY <1>2, <1>3, <1>4 DEF IInv

\* Every step of a preflight, an execution or the environment preserves it.
LEMMA NextOK == IInv /\ [Next]_vars => IInv'
  <1> SUFFICES ASSUME IInv, [Next]_vars PROVE IInv'
    OBVIOUS
  <1>1. ASSUME NEW p \in Procs, Preflight(p) PROVE IInv'
    BY <1>1, InvalidatePreserves, ObservePreserves, SavePreserves, PublishPreserves,
       MarkPreserves, ActivatePreserves, RecheckPreserves, RevokePreserves, GoesOn, Ends
       DEF Preflight
  <1>2. ASSUME NEW p \in Procs, Upgrade(p) \/ Create(p) PROVE IInv'
    BY <1>2, GoesOn, Advances, Ends DEF Upgrade, Create
  <1>3. ASSUME NEW p \in Procs,
               \/ \E kind \in Kinds : StartPreflight(p, kind)
               \/ \E plan \in Plans : StartExecution(p, plan)
               \/ Stop(p) \/ Cancel(p) \/ Crash(p)
        PROVE IInv'
    BY <1>3, Advances, Ends, CancelPreserves
  <1> QED
    BY <1>1, <1>2, <1>3, OutsidePreserves DEF Next

\* The invariant holds throughout.
THEOREM Invariance == Spec => []IInv
  BY InitOK, NextOK, PTL DEF Spec

\* The files are always well formed and the publication lock is held only by a
\* process inside a locked section.
THEOREM TypeCorrect == Spec => []TypeOK
  <1>1. IInv => TypeOK
    BY DEF IInv
  <1> QED
    BY <1>1, Invariance, PTL

\* For any number of concurrent preflights and executions, cancelled, failed or
\* killed anywhere, the active pointer is the newest preflight's, and if it says
\* GO everything it names is complete, and it was not answered with NO-GO unless
\* its revocation found the lock busy.
THEOREM PublicationIsWhole == Spec => []ActiveIsQualified
  <1>1. IInv => ActiveIsQualified
    BY DEF IInv
  <1> QED
    BY <1>1, Invariance, PTL
-----------------------------------------------------------------------------
(* Consumption: what an admitted execution may rely on                      *)

\* The control points past the first read of the pointer, and those of an
\* execution that owns the environment.
Loaded == Executing \ {"load"}
Upgrading == {"hydrate", "admit", "check", "begin", "phase", "write", "accept"}
Creating == {"absence", "start", "mkdir", "evidence", "intent", "allocate", "receipt",
             "complete", "release"}
Journaling == {"intent", "allocate", "receipt", "complete", "release"}
Owning == {"phase", "write", "accept", "evidence"} \cup Journaling

\* The qualification an execution loaded was a GO for its plan, and whoever
\* still qualifies does so under another generation: once that GO is replaced
\* or revoked it never becomes active again.
SeenOnce(p) ==
    proc[p].pc \in Loaded =>
        /\ proc[p].seen = GO(proc[p].seen.gen, Plan(p)) /\ proc[p].seen.gen \in 1..gens
        /\ \A q \in Procs : proc[q].pc \in Preflighting => proc[q].gen # proc[p].seen.gen

\* Reread sends each kind of plan its own way.
KindKnown(p) ==
    /\ proc[p].pc \in Upgrading => Plan(p).kind = "upgrade"
    /\ proc[p].pc \in Creating => Plan(p).kind = "create"

\* A phase written late was the last one: its fence will not pass again.
LateOnce(p) ==
    /\ proc[p].late \in {0, 1}
    /\ proc[p].late = 1 => proc[p].pc \in {"phase", "accept"} /\ active # proc[p].seen

\* .execution-active names the process exactly while it executes.
Ownership(p) ==
    /\ proc[p].pc \in Owning => fence = [by |-> p, plan |-> Plan(p)]
    /\ fence # None /\ fence.by = p => proc[p].pc \in Owning

\* While a create holds the publication lock its qualification stays active.
\* Before, either it was replaced, or another process took the same plan, or
\* nothing was allocated and no other create can be the owner.
FreshStart(p) ==
    /\ proc[p].pc = "mkdir" => active = proc[p].seen
    /\ proc[p].pc \in {"start", "mkdir"} =>
         \/ active # proc[p].seen
         \/ Plan(p) \in executed
         \/ target = {} /\ (fence = None \/ fence.plan.kind = "upgrade" \/ fence.plan = Plan(p))
    /\ proc[p].pc = "evidence" => target = {}
    /\ proc[p].pc \in Journaling => Plan(p) \in executed
    /\ proc[p].pc = "allocate" => entries[proc[p].phase] = "pending"

Consumer(p) ==
    SeenOnce(p) /\ KindKnown(p) /\ LateOnce(p) /\ Ownership(p) /\ FreshStart(p)

\* The second inductive invariant, over the first.
Consumption == AllocationsOwned /\ \A p \in Procs : Consumer(p)

\* A step of process p leaves the other processes alone; it takes the fence only
\* when free and gives up only its own; it replaces neither a qualification in
\* use under the lock nor brings back one that is gone; only the owner of a
\* create touches its journal and its resources.
Leaves(p) ==
    /\ \A q \in Procs \ {p} : proc'[q] = proc[q]
    /\ proc'[p].pc \in Preflighting =>
         \/ proc[p].pc \in Preflighting /\ proc'[p].gen = proc[p].gen
         \/ proc'[p].gen \in {0, gens + 1}
    /\ gens' \in {gens, gens + 1}
    /\ \/ active' = active
       \/ /\ \A q \in Procs \ {p} : proc[q].pc # "mkdir"
          /\ \/ ~active'.go
             \/ proc[p].pc \in Preflighting /\ active' = GO(proc[p].gen, Plan(p))
    /\ executed \subseteq executed'
    /\ \/ fence' = fence
       \/ /\ fence = None /\ fence' = [by |-> p, plan |-> Plan(p)]
          /\ \/ Plan(p).kind = "upgrade"
             \/ active = proc[p].seen /\ proc[p].seen = GO(proc[p].seen.gen, Plan(p))
                /\ active' = active
       \/ /\ fence # None /\ fence.by = p
          /\ \/ fence' = None /\ (fence.plan.kind = "upgrade" \/ fence.plan \in executed)
             \/ fence' = [by |-> None, plan |-> fence.plan]
    /\ \/ target' = target /\ entries' = entries
       \/ proc[p].pc \in Journaling \cup {"evidence"} /\ (target' = target \/ proc[p].pc \in Journaling)

\* Whoever executes is on record.
LEMMA OwnerIsRecorded ==
    ASSUME IInv, NEW p \in Procs, Ownership(p), proc[p].pc \in Owning
    PROVE  fence = [by |-> p, plan |-> Plan(p)] /\ fence # None /\ Plan(p) \in Plans
  <1>1. Plan(p) \in Plans /\ fence = [by |-> p, plan |-> Plan(p)]
    BY Facts DEF Ownership, Owning, Journaling, Plan
  <1>2. fence \in Owners
    BY <1>1 DEF Owners
  <1> QED
    BY <1>1, <1>2, AdmissionAssumption

\* Under such a step the other processes keep what they rely on.
LEMMA OthersKeep ==
    ASSUME IInv, Consumption, NEW p \in Procs, Leaves(p), NEW q \in Procs \ {p}
    PROVE  Consumer(q)'
  <1> USE AdmissionAssumption
  <1>0. /\ IInv /\ Consumer(q) /\ Consumer(p) /\ proc'[q] = proc[q]
        /\ proc[q] \in Commands /\ gens \in Nat /\ None \notin Procs
    BY Facts DEF Consumption, Leaves, IInv, TypeOK, Gens
  <1>1. SeenOnce(q)'
    <2>1. SUFFICES ASSUME proc[q].pc \in Loaded
                   PROVE  /\ proc[q].seen = GO(proc[q].seen.gen, Plan(q))
                          /\ proc[q].seen.gen \in 1..gens'
                          /\ \A x \in Procs : proc'[x].pc \in Preflighting =>
                                proc'[x].gen # proc[q].seen.gen
      BY <1>0 DEF SeenOnce, Plan
    <2>2. proc[q].seen = GO(proc[q].seen.gen, Plan(q)) /\ proc[q].seen.gen \in 1..gens
      BY <1>0, <2>1 DEF Consumer, SeenOnce
    <2>3. proc[q].seen.gen \in 1..gens'
      BY <1>0, <2>2 DEF Leaves
    <2>4. ASSUME NEW x \in Procs, proc'[x].pc \in Preflighting
          PROVE  proc'[x].gen # proc[q].seen.gen
      <3>1. \A y \in Procs : proc[y].pc \in Preflighting => proc[y].gen # proc[q].seen.gen
        BY <1>0, <2>1 DEF Consumer, SeenOnce
      <3>2. CASE x # p
        BY <2>4, <3>1, <3>2 DEF Leaves
      <3>3. CASE x = p
        BY <1>0, <2>2, <2>4, <3>1, <3>3 DEF Leaves
      <3> QED
        BY <3>2, <3>3
    <2> QED
      BY <2>2, <2>3, <2>4
  <1>2. KindKnown(q)'
    BY <1>0 DEF Consumer, KindKnown, Plan
  <1>3. proc[q].pc \in Loaded /\ active # proc[q].seen => active' # proc[q].seen
    <2>1. SUFFICES ASSUME proc[q].pc \in Loaded, active' # active, active' = proc[q].seen
                   PROVE  FALSE
      OBVIOUS
    <2>2. proc[q].seen.go /\ \A x \in Procs : proc[x].pc \in Preflighting =>
             proc[x].gen # proc[q].seen.gen
      BY <1>0, <2>1 DEF Consumer, SeenOnce, GO
    <2>3. proc[p].pc \in Preflighting /\ active' = GO(proc[p].gen, Plan(p))
      BY <2>1, <2>2 DEF Leaves
    <2> QED
      BY <2>1, <2>2, <2>3 DEF GO
  <1>4. LateOnce(q)'
    BY <1>0, <1>3 DEF Consumer, LateOnce, Loaded, Executing
  <1>5. Ownership(q)'
    <2>1. CASE fence' = fence
      BY <1>0, <2>1 DEF Consumer, Ownership, Plan
    <2>2. CASE fence = None /\ fence' = [by |-> p, plan |-> Plan(p)]
      <3>1. proc[q].pc \notin Owning
        BY <1>0, <2>2, OwnerIsRecorded DEF Consumer
      <3> QED
        BY <1>0, <2>2, <3>1 DEF Ownership
    <2>3. CASE fence # None /\ fence.by = p /\ fence' \in {None, [by |-> None, plan |-> fence.plan]}
      <3>1. proc[q].pc \notin Owning
        BY <1>0, <2>3 DEF Consumer, Ownership
      <3> QED
        BY <1>0, <2>3, <3>1 DEF Ownership
    <2> QED
      BY <2>1, <2>2, <2>3 DEF Leaves
  <1>6. FreshStart(q)'
    <2>1. proc[q].pc = "mkdir" => active' = proc[q].seen
      BY <1>0 DEF Consumer, FreshStart, Leaves
    <2>2. proc[q].pc \in Owning => ~(proc[p].pc \in Owning)
      BY <1>0 DEF Consumer, Ownership
    <2>3. /\ proc[q].pc = "evidence" => target' = {}
          /\ proc[q].pc \in Journaling => Plan(q) \in executed'
          /\ proc[q].pc = "allocate" => entries'[proc[q].phase] = "pending"
      BY <1>0, <2>2 DEF Consumer, FreshStart, Leaves, Owning, Journaling
    <2>4. ASSUME proc[q].pc \in {"start", "mkdir"}, active' = proc[q].seen,
                 Plan(q) \notin executed'
          PROVE  target' = {} /\ (fence' = None \/ fence'.plan.kind = "upgrade"
                                  \/ fence'.plan = Plan(q))
      <3>1. active = proc[q].seen /\ Plan(q) \notin executed
        BY <1>3, <2>4 DEF Leaves, Loaded, Executing
      <3>2. target = {} /\ (fence = None \/ fence.plan.kind = "upgrade" \/ fence.plan = Plan(q))
        BY <1>0, <2>4, <3>1 DEF Consumer, FreshStart
      <3>3. target' = {}
        <4>1. SUFFICES ASSUME proc[p].pc \in Journaling PROVE FALSE
          BY <3>2 DEF Leaves
        <4>2. fence.plan = Plan(p) /\ Plan(p) \in executed /\ Plan(p).kind = "create"
              /\ fence = [by |-> p, plan |-> Plan(p)]
          BY <1>0, <4>1 DEF Consumer, Ownership, FreshStart, KindKnown, Owning,
             Creating, Journaling
        <4>3. fence # None
          BY <1>0, <4>1, OwnerIsRecorded DEF Consumer, Owning
        <4> QED
          BY <3>1, <3>2, <4>2, <4>3
      <3>4. CASE fence' = fence
        BY <3>2, <3>3, <3>4
      <3>5. CASE fence = None /\ fence' = [by |-> p, plan |-> Plan(p)]
                 /\ Plan(p).kind = "upgrade"
        BY <3>3, <3>5
      <3>6. CASE /\ fence = None /\ fence' = [by |-> p, plan |-> Plan(p)]
                 /\ active = proc[p].seen /\ proc[p].seen = GO(proc[p].seen.gen, Plan(p))
        <4>1. proc[q].seen = GO(proc[q].seen.gen, Plan(q))
          BY <1>0, <2>4 DEF Consumer, SeenOnce, Loaded, Executing
        <4>2. Plan(p) = Plan(q)
          BY <3>1, <3>6, <4>1 DEF GO
        <4> QED
          BY <3>3, <3>6, <4>2
      <3>7. CASE fence # None /\ fence.by = p /\ fence' \in {None, [by |-> None, plan |-> fence.plan]}
        BY <3>2, <3>3, <3>7
      <3> QED
        BY <3>4, <3>5, <3>6, <3>7 DEF Leaves
    <2> QED
      BY <1>0, <2>1, <2>3, <2>4 DEF FreshStart, Plan
  <1> QED
    BY <1>1, <1>2, <1>4, <1>5, <1>6 DEF Consumer

\* The fields of a command after a step that changes only its point, ...
LEMMA ToFields ==
    ASSUME IInv, NEW p \in Procs, NEW point, To(p, point)
    PROVE  /\ proc'[p].pc = point /\ proc'[p].plan = proc[p].plan
           /\ proc'[p].gen = proc[p].gen /\ proc'[p].seen = proc[p].seen
           /\ proc'[p].phase = proc[p].phase /\ proc'[p].late = proc[p].late
           /\ \A q \in Procs \ {p} : proc'[q] = proc[q]
  <1>1. proc[p] \in Commands /\ proc \in [Procs -> Commands]
    BY Facts
  <1> QED
    BY <1>1 DEF To, Commands

\* ... and after its end.
LEMMA EndFields ==
    ASSUME IInv, NEW p \in Procs, End(p)
    PROVE  /\ proc'[p].pc = "idle" /\ proc'[p].gen = 0 /\ proc'[p].late = 0
           /\ \A q \in Procs \ {p} : proc'[q] = proc[q]
  <1>1. proc \in [Procs -> Commands]
    BY Facts
  <1> QED
    BY <1>1 DEF End, Idle

\* A step that does nothing but change its own process is a step that leaves.
LEMMA QuietLeaves ==
    ASSUME NEW p \in Procs, \A q \in Procs \ {p} : proc'[q] = proc[q],
           UNCHANGED <<active, gens, executed, fence, target, entries>>,
           proc'[p].pc \in Preflighting =>
             \/ proc[p].pc \in Preflighting /\ proc'[p].gen = proc[p].gen
             \/ proc'[p].gen = 0
    PROVE  Leaves(p)
  BY DEF Leaves

\* Every step of a process leaves the others alone in this sense.
LEMMA StepsLeave ==
    ASSUME IInv, NEW p \in Procs, Consumer(p),
           \/ \E kind \in Kinds : StartPreflight(p, kind)
           \/ \E plan \in Plans : StartExecution(p, plan)
           \/ Preflight(p) \/ Upgrade(p) \/ Create(p) \/ Stop(p) \/ Cancel(p) \/ Crash(p)
    PROVE  Leaves(p)
  <1> USE AdmissionAssumption
  <1>0. /\ proc[p] \in Commands /\ proc \in [Procs -> Commands] /\ None \notin Procs
        /\ lock = p \/ lock = None => \A q \in Procs \ {p} : proc[q].pc # "mkdir"
    BY Facts DEF IInv, Holds, Locked
  <1> USE DEF qualification, execution, At, Preflighting
  <1>1. ASSUME NEW kind \in Kinds, StartPreflight(p, kind) PROVE Leaves(p)
    <2>1. proc'[p].pc = "invalidate" /\ proc'[p].gen = 0
          /\ \A q \in Procs \ {p} : proc'[q] = proc[q]
      BY <1>0, <1>1 DEF StartPreflight, Idle
    <2> QED
      BY <1>1, <2>1, QuietLeaves DEF StartPreflight
  <1>2. ASSUME NEW plan \in Plans, StartExecution(p, plan) PROVE Leaves(p)
    <2>1. proc'[p].pc = "load" /\ \A q \in Procs \ {p} : proc'[q] = proc[q]
      BY <1>0, <1>2 DEF StartExecution, Idle
    <2> QED
      BY <1>2, <2>1, QuietLeaves DEF StartExecution
  <1>3. CASE Observe(p)
    BY <1>3, ToFields, QuietLeaves DEF Observe
  <1>4. CASE Compile(p)
    BY <1>4, ToFields, QuietLeaves DEF Compile
  <1>5. CASE Qualify(p)
    BY <1>5, ToFields, QuietLeaves DEF Qualify
  <1>6. CASE SaveArtifact(p)
    BY <1>6, ToFields, QuietLeaves DEF SaveArtifact
  <1>7. CASE Publish(p)
    BY <1>7, ToFields, QuietLeaves DEF Publish
  <1>8. CASE Mark(p)
    BY <1>8, ToFields, QuietLeaves DEF Mark
  <1>9. CASE Payload(p)
    BY <1>9, ToFields, QuietLeaves DEF Payload
  <1>10. CASE Reread(p)
    BY <1>10, ToFields, QuietLeaves DEF Reread
  <1>11. CASE Hydrate(p)
    BY <1>11, ToFields, QuietLeaves DEF Hydrate
  <1>12. CASE Admit(p)
    BY <1>12, ToFields, QuietLeaves DEF Admit
  <1>13. CASE LiveChecks(p)
    BY <1>13, ToFields, QuietLeaves DEF LiveChecks
  <1>14. CASE Phase(p)
    BY <1>14, ToFields, QuietLeaves DEF Phase
  <1>15. CASE Absence(p)
    BY <1>15, ToFields, QuietLeaves DEF Absence
  <1>16. CASE StartCreate(p)
    BY <1>16, ToFields, QuietLeaves DEF StartCreate
  <1>17. CASE Invalidate(p)
    <2>1. /\ proc'[p].gen = gens + 1 /\ \A q \in Procs \ {p} : proc'[q] = proc[q]
          /\ ~active'.go /\ gens' = gens + 1
          /\ UNCHANGED <<fence, executed, target, entries>>
      BY <1>0, <1>17 DEF Invalidate, NoGo, Commands
    <2> QED
      BY <1>0, <1>17, <2>1 DEF Leaves, Invalidate
  <1>18. CASE Activate(p)
    <2>1. lock = p
      BY <1>18 DEF Activate, IInv, Holds, Locked
    <2> QED
      BY <1>0, <1>18, <2>1, ToFields DEF Leaves, Activate
  <1>19. CASE Recheck(p)
    <2>1. lock = p
      BY <1>19 DEF Recheck, IInv, Holds, Locked
    <2>2. To(p, "published") \/ End(p)
      BY <1>19 DEF Recheck
    <2>3. proc'[p].pc \in {"published", "idle"} /\ \A q \in Procs \ {p} : proc'[q] = proc[q]
      BY <2>2, ToFields, EndFields
    <2>4. active' = active \/ ~active'.go
      BY <1>19 DEF Recheck, NoGo
    <2>5. UNCHANGED <<gens, executed, fence, target, entries>>
      BY <1>19 DEF Recheck
    <2> QED
      BY <1>0, <2>1, <2>3, <2>4, <2>5 DEF Leaves
  <1>20. CASE Report(p)
    <2>1. To(p, "revoke") \/ End(p)
      BY <1>20 DEF Report
    <2>2. proc'[p].pc \in {"revoke", "idle"} /\ \A q \in Procs \ {p} : proc'[q] = proc[q]
      BY <2>1, ToFields, EndFields
    <2> QED
      BY <1>20, <2>2, QuietLeaves DEF Report
  <1>21. CASE Revoke(p)
    <2>1. active' = active \/ ~active'.go
      BY <1>21 DEF Revoke, NoGo
    <2> QED
      BY <1>0, <1>21, <2>1, EndFields DEF Leaves, Revoke
  <1>22. CASE RevokeRefused(p)
    BY <1>22, EndFields, QuietLeaves DEF RevokeRefused
  <1>23. CASE Reject(p)
    BY <1>23, EndFields, QuietLeaves DEF Reject
  <1>24. CASE Load(p)
    <2>1. proc'[p].pc = "payload" /\ \A q \in Procs \ {p} : proc'[q] = proc[q]
      BY <1>0, <1>24 DEF Load, Commands
    <2> QED
      BY <1>24, <2>1, QuietLeaves DEF Load
  <1>25. CASE Write(p)
    <2>1. proc'[p].pc \in {"accept", "phase"} /\ \A q \in Procs \ {p} : proc'[q] = proc[q]
      BY <1>0, <1>25 DEF Write, Commands
    <2> QED
      BY <1>25, <2>1, QuietLeaves DEF Write
  <1>26. CASE Begin(p)
    <2>1. Plan(p).kind = "upgrade"
      BY <1>26 DEF Begin, Consumer, KindKnown, Upgrading
    <2> QED
      BY <1>26, <2>1, ToFields DEF Leaves, Begin
  <1>27. CASE Accept(p)
    <2>1. fence = [by |-> p, plan |-> Plan(p)] /\ fence # None
      BY <1>27, OwnerIsRecorded DEF Accept, Consumer, Owning
    <2>2. Plan(p).kind = "upgrade"
      BY <1>27 DEF Accept, Consumer, KindKnown, Upgrading
    <2> QED
      BY <1>27, <2>1, <2>2, EndFields DEF Leaves, Accept
  <1>28. CASE Mkdir(p)
    <2>1. active = proc[p].seen /\ proc[p].seen = GO(proc[p].seen.gen, Plan(p))
      BY <1>28 DEF Mkdir, Consumer, FreshStart, SeenOnce, Loaded, Executing
    <2> QED
      BY <1>28, <2>1, ToFields DEF Leaves, Mkdir
  <1>29. CASE Evidence(p)
    BY <1>29, ToFields DEF Leaves, Evidence
  <1>30. CASE BeginEntry(p)
    BY <1>30, ToFields DEF Leaves, BeginEntry, Journaling
  <1>31. CASE Allocate(p)
    BY <1>31, ToFields DEF Leaves, Allocate, Journaling
  <1>32. CASE RecordReceipt(p)
    BY <1>32, ToFields DEF Leaves, RecordReceipt, Journaling
  <1>33. CASE CompleteEntry(p)
    <2>1. proc'[p].pc \in {"release", "intent"} /\ \A q \in Procs \ {p} : proc'[q] = proc[q]
      BY <1>0, <1>33 DEF CompleteEntry, Commands
    <2> QED
      BY <1>33, <2>1 DEF Leaves, CompleteEntry, Journaling
  <1>34. CASE Release(p)
    <2>1. fence = [by |-> p, plan |-> Plan(p)] /\ fence # None /\ Plan(p) \in executed
      BY <1>34, OwnerIsRecorded DEF Release, Consumer, Owning, Journaling, FreshStart
    <2> QED
      BY <1>34, <2>1, EndFields DEF Leaves, Release
  <1>35. CASE Stop(p)
    <2>1. CASE ~Owns(p)
      BY <1>35, <2>1, EndFields, QuietLeaves DEF Stop
    <2>2. CASE Owns(p)
      <3>1. fence = [by |-> p, plan |-> Plan(p)] /\ fence # None /\ Plan(p) \in Plans
        BY <2>2, OwnerIsRecorded DEF Owns, Consumer, Ownership
      <3>2. fence' = IF Creates(p) THEN [by |-> None, plan |-> Plan(p)] ELSE None
        BY <1>35, <2>2, <3>1 DEF Stop
      <3>3. ~Creates(p) => Plan(p).kind = "upgrade"
        BY <3>1 DEF Creates, Plans, Kinds
      <3> QED
        BY <1>35, <3>1, <3>2, <3>3, EndFields DEF Leaves, Stop
    <2> QED
      BY <2>1, <2>2
  <1>36. CASE Cancel(p)
    <2>1. /\ proc'[p].pc = proc[p].pc /\ proc'[p].gen = proc[p].gen
          /\ \A q \in Procs \ {p} : proc'[q] = proc[q]
      BY <1>0, <1>36 DEF Cancel, Commands
    <2> QED
      BY <1>36, <2>1, QuietLeaves DEF Cancel
  <1>37. CASE Crash(p)
    <2>1. CASE ~Owns(p)
      BY <1>37, <2>1, EndFields, QuietLeaves DEF Crash
    <2>2. CASE Owns(p)
      <3>1. fence = [by |-> p, plan |-> Plan(p)] /\ fence # None
        BY <2>2, OwnerIsRecorded DEF Owns, Consumer, Ownership
      <3>2. fence' = [by |-> None, plan |-> fence.plan] /\ fence.by = p
        BY <1>37, <2>2, <3>1 DEF Crash
      <3> QED
        BY <1>37, <3>1, <3>2, EndFields DEF Leaves, Crash
    <2> QED
      BY <2>1, <2>2
  <1> QED
    BY <1>1, <1>2, <1>3, <1>4, <1>5, <1>6, <1>7, <1>8, <1>9, <1>10, <1>11,
       <1>12, <1>13, <1>14, <1>15, <1>16, <1>17, <1>18, <1>19, <1>20, <1>21,
       <1>22, <1>23, <1>24, <1>25, <1>26, <1>27, <1>28, <1>29, <1>30, <1>31,
       <1>32, <1>33, <1>34, <1>35, <1>36, <1>37
    DEF Preflight, Upgrade, Create

\* A process outside executions relies on nothing.
LEMMA OutsideConsumes ==
    ASSUME IInv', NEW p \in Procs, proc'[p].pc \notin Executing, proc'[p].late = 0,
           fence' # None => fence'.by # p
    PROVE  Consumer(p)'
  BY DEF Consumer, SeenOnce, KindKnown, LateOnce, Ownership, FreshStart, Loaded, Upgrading,
     Creating, Journaling, Owning, Executing

\* Every step of a process keeps what the process itself relies on.
LEMMA OwnConsumes ==
    ASSUME IInv, IInv', NEW p \in Procs, Consumer(p), Leaves(p),
           \/ \E kind \in Kinds : StartPreflight(p, kind)
           \/ \E plan \in Plans : StartExecution(p, plan)
           \/ Preflight(p) \/ Upgrade(p) \/ Create(p) \/ Stop(p) \/ Cancel(p) \/ Crash(p)
    PROVE  Consumer(p)'
  <1> USE AdmissionAssumption
  <1>0. /\ proc[p] \in Commands /\ proc \in [Procs -> Commands] /\ None \notin Procs
        /\ active \in Pointers /\ gens \in Nat /\ active.gen = gens
        /\ active.go => active.gen # 0
        /\ active.go => active = GO(active.gen, active.plan)
        /\ \A q \in Procs : proc[q].pc \in Preflighting /\ active.go => active.gen # proc[q].gen
        /\ proc[p].pc # "idle" => Plan(p) \in Plans
    <2>1. /\ proc[p] \in Commands /\ proc \in [Procs -> Commands] /\ None \notin Procs
          /\ active \in Pointers /\ gens \in Nat /\ active.gen = gens
          /\ active.go => active.gen # 0
          /\ \A q \in Procs : proc[q].pc \in Preflighting /\ active.go => active.gen # proc[q].gen
          /\ proc[p].pc # "idle" => Plan(p) \in Plans
      BY Facts DEF IInv, TypeOK, Gens, ActiveIsQualified, Progress, Plan
    <2>2. active.go => active = GO(active.gen, active.plan)
      <3>1. CASE \E g \in Gens : active = NoGo(g)
        BY <3>1 DEF NoGo
      <3>2. CASE \E g \in Gens, plan \in Plans : active = GO(g, plan)
        BY <3>2 DEF GO
      <3> QED
        BY <2>1, <3>1, <3>2 DEF Pointers
    <2> QED
      BY <2>1, <2>2
  <1>a. proc[p].pc \notin Owning => (fence # None => fence.by # p)
    BY DEF Consumer, Ownership
  <1>b. proc[p].pc \notin Executing \/ proc[p].pc \notin {"phase", "accept"} => proc[p].late = 0
    BY DEF Consumer, LateOnce, Executing
  <1>c. \A q \in Procs \ {p} : proc'[q] = proc[q]
    BY DEF Leaves
  <1> USE DEF qualification, execution, At
  <1>1. ASSUME NEW kind \in Kinds, StartPreflight(p, kind) PROVE Consumer(p)'
    <2>1. proc'[p].pc = "invalidate" /\ proc'[p].late = 0
      BY <1>0, <1>1 DEF StartPreflight, Idle
    <2> QED
      BY <1>a, <1>1, <2>1, OutsideConsumes DEF StartPreflight, Executing, Owning, Journaling
  <1>2. ASSUME NEW plan \in Plans, StartExecution(p, plan) PROVE Consumer(p)'
    <2>1. proc'[p].pc = "load" /\ proc'[p].late = 0 /\ fence' = fence
      BY <1>0, <1>2 DEF StartExecution, Idle
    <2> QED
      BY <1>a, <1>2, <2>1 DEF StartExecution, Consumer, SeenOnce, KindKnown, LateOnce, Ownership, FreshStart, Loaded, Upgrading,
       Creating, Journaling, Owning, Executing, Preflighting, Plan
  <1>3. CASE Observe(p)
    BY <1>a, <1>b, <1>3, ToFields, OutsideConsumes DEF Observe, Executing, Owning, Journaling
  <1>4. CASE Compile(p)
    BY <1>a, <1>b, <1>4, ToFields, OutsideConsumes DEF Compile, Executing, Owning, Journaling
  <1>5. CASE Qualify(p)
    BY <1>a, <1>b, <1>5, ToFields, OutsideConsumes DEF Qualify, Executing, Owning, Journaling
  <1>6. CASE SaveArtifact(p)
    BY <1>a, <1>b, <1>6, ToFields, OutsideConsumes DEF SaveArtifact, Executing, Owning, Journaling
  <1>7. CASE Publish(p)
    BY <1>a, <1>b, <1>7, ToFields, OutsideConsumes DEF Publish, Executing, Owning, Journaling
  <1>8. CASE Mark(p)
    BY <1>a, <1>b, <1>8, ToFields, OutsideConsumes DEF Mark, Executing, Owning, Journaling
  <1>9. CASE Activate(p)
    BY <1>a, <1>b, <1>9, ToFields, OutsideConsumes DEF Activate, Executing, Owning, Journaling
  <1>10. CASE Invalidate(p)
    <2>1. proc'[p].pc \in {"absent", "observe"} /\ proc'[p].late = proc[p].late
      BY <1>0, <1>10 DEF Invalidate, Commands
    <2> QED
      BY <1>a, <1>b, <1>10, <2>1, OutsideConsumes DEF Invalidate, Executing, Owning, Journaling
  <1>11. CASE Recheck(p)
    <2>1. To(p, "published") \/ End(p)
      BY <1>11 DEF Recheck
    <2>2. proc'[p].pc \in {"published", "idle"} /\ proc'[p].late = 0
      BY <1>b, <1>11, <2>1, ToFields, EndFields DEF Recheck, Executing
    <2> QED
      BY <1>a, <1>11, <2>2, OutsideConsumes DEF Recheck, Executing, Owning, Journaling
  <1>12. CASE Report(p)
    <2>1. To(p, "revoke") \/ End(p)
      BY <1>12 DEF Report
    <2>2. proc'[p].pc \in {"revoke", "idle"} /\ proc'[p].late = 0
      BY <1>b, <1>12, <2>1, ToFields, EndFields DEF Report, Executing
    <2> QED
      BY <1>a, <1>12, <2>2, OutsideConsumes DEF Report, Executing, Owning, Journaling
  <1>13. CASE Revoke(p)
    BY <1>a, <1>13, EndFields, OutsideConsumes DEF Revoke, Executing, Owning, Journaling, Preflighting
  <1>14. CASE RevokeRefused(p)
    BY <1>a, <1>14, EndFields, OutsideConsumes DEF RevokeRefused, Executing, Owning, Journaling, Preflighting
  <1>15. CASE Reject(p)
    BY <1>a, <1>15, EndFields, OutsideConsumes DEF Reject, Executing, Owning, Journaling, Preflighting
  <1>16. CASE Load(p)
    <2>1. /\ proc'[p].pc = "payload" /\ proc'[p].seen = active /\ proc'[p].late = proc[p].late
          /\ proc'[p].plan = proc[p].plan /\ fence' = fence /\ gens' = gens
      BY <1>0, <1>16 DEF Load, Commands
    <2>2. /\ active.go /\ active = GO(active.gen, Plan(p)) /\ active.gen \in 1..gens
          /\ proc[p].pc = "load" /\ proc[p].late = 0
      BY <1>0, <1>b, <1>16 DEF Load
    <2>3. SeenOnce(p)'
      BY <1>0, <1>c, <2>1, <2>2 DEF SeenOnce, Plan, Preflighting
    <2> QED
      BY <1>a, <2>1, <2>2, <2>3 DEF Consumer, SeenOnce, KindKnown, LateOnce, Ownership, FreshStart, Loaded, Upgrading,
       Creating, Journaling, Owning, Executing, Preflighting, Plan
  <1>17. CASE Payload(p)
    <2>1. /\ proc'[p].plan = proc[p].plan /\ proc'[p].seen = proc[p].seen
          /\ proc'[p].late = proc[p].late /\ UNCHANGED <<active, gens, fence, target, executed>>
      BY <1>17, ToFields DEF Payload
    <2>2. proc'[p].pc = "reread"
      BY <1>17, ToFields DEF Payload
    <2>3. proc[p].pc = "payload" /\ proc[p].late = 0
      BY <1>b, <1>17 DEF Payload
    <2>4. SeenOnce(p)'
      BY <1>c, <2>1, <2>2, <2>3 DEF Consumer, SeenOnce, Loaded, Executing, Preflighting, Plan
    <2> QED
      BY <1>0, <1>a, <1>17, <2>1, <2>2, <2>3, <2>4 DEF Payload, Consumer, KindKnown,
         LateOnce, Ownership, FreshStart, Upgrading, Creating, Journaling, Owning, Plan
  <1>18. CASE Reread(p)
    <2>1. /\ proc'[p].plan = proc[p].plan /\ proc'[p].seen = proc[p].seen
          /\ proc'[p].late = proc[p].late /\ UNCHANGED <<active, gens, fence, target, executed>>
      BY <1>18, ToFields DEF Reread
    <2>2. proc'[p].pc = (IF Creates(p) THEN "absence" ELSE "hydrate")
      BY <1>18, ToFields DEF Reread
    <2>3. proc[p].pc = "reread" /\ proc[p].late = 0
      BY <1>b, <1>18 DEF Reread
    <2>4. SeenOnce(p)'
      BY <1>c, <2>1, <2>2, <2>3 DEF Consumer, SeenOnce, Loaded, Executing, Preflighting, Plan
    <2> QED
      BY <1>0, <1>a, <1>18, <2>1, <2>2, <2>3, <2>4 DEF Reread, Creates, Plans, Kinds, Consumer, KindKnown,
         LateOnce, Ownership, FreshStart, Upgrading, Creating, Journaling, Owning, Plan
  <1>19. CASE Hydrate(p)
    <2>1. /\ proc'[p].plan = proc[p].plan /\ proc'[p].seen = proc[p].seen
          /\ proc'[p].late = proc[p].late /\ UNCHANGED <<active, gens, fence, target, executed>>
      BY <1>19, ToFields DEF Hydrate
    <2>2. proc'[p].pc = "admit"
      BY <1>19, ToFields DEF Hydrate
    <2>3. proc[p].pc = "hydrate" /\ proc[p].late = 0
      BY <1>b, <1>19 DEF Hydrate
    <2>4. SeenOnce(p)'
      BY <1>c, <2>1, <2>2, <2>3 DEF Consumer, SeenOnce, Loaded, Executing, Preflighting, Plan
    <2> QED
      BY <1>0, <1>a, <1>19, <2>1, <2>2, <2>3, <2>4 DEF Hydrate, Consumer, KindKnown,
         LateOnce, Ownership, FreshStart, Upgrading, Creating, Journaling, Owning, Plan
  <1>20. CASE Admit(p)
    <2>1. /\ proc'[p].plan = proc[p].plan /\ proc'[p].seen = proc[p].seen
          /\ proc'[p].late = proc[p].late /\ UNCHANGED <<active, gens, fence, target, executed>>
      BY <1>20, ToFields DEF Admit
    <2>2. proc'[p].pc = "check"
      BY <1>20, ToFields DEF Admit
    <2>3. proc[p].pc = "admit" /\ proc[p].late = 0
      BY <1>b, <1>20 DEF Admit
    <2>4. SeenOnce(p)'
      BY <1>c, <2>1, <2>2, <2>3 DEF Consumer, SeenOnce, Loaded, Executing, Preflighting, Plan
    <2> QED
      BY <1>0, <1>a, <1>20, <2>1, <2>2, <2>3, <2>4 DEF Admit, Consumer, KindKnown,
         LateOnce, Ownership, FreshStart, Upgrading, Creating, Journaling, Owning, Plan
  <1>21. CASE LiveChecks(p)
    <2>1. /\ proc'[p].plan = proc[p].plan /\ proc'[p].seen = proc[p].seen
          /\ proc'[p].late = proc[p].late /\ UNCHANGED <<active, gens, fence, target, executed>>
      BY <1>21, ToFields DEF LiveChecks
    <2>2. proc'[p].pc = "begin"
      BY <1>21, ToFields DEF LiveChecks
    <2>3. proc[p].pc = "check" /\ proc[p].late = 0
      BY <1>b, <1>21 DEF LiveChecks
    <2>4. SeenOnce(p)'
      BY <1>c, <2>1, <2>2, <2>3 DEF Consumer, SeenOnce, Loaded, Executing, Preflighting, Plan
    <2> QED
      BY <1>0, <1>a, <1>21, <2>1, <2>2, <2>3, <2>4 DEF LiveChecks, Consumer, KindKnown,
         LateOnce, Ownership, FreshStart, Upgrading, Creating, Journaling, Owning, Plan
  <1>22. CASE StartCreate(p)
    <2>1. /\ proc'[p].plan = proc[p].plan /\ proc'[p].seen = proc[p].seen
          /\ proc'[p].late = proc[p].late /\ UNCHANGED <<active, gens, fence, target, executed>>
      BY <1>22, ToFields DEF StartCreate
    <2>2. proc'[p].pc = "mkdir"
      BY <1>22, ToFields DEF StartCreate
    <2>3. proc[p].pc = "start" /\ proc[p].late = 0
      BY <1>b, <1>22 DEF StartCreate
    <2>4. SeenOnce(p)'
      BY <1>c, <2>1, <2>2, <2>3 DEF Consumer, SeenOnce, Loaded, Executing, Preflighting, Plan
    <2> QED
      BY <1>0, <1>a, <1>22, <2>1, <2>2, <2>3, <2>4 DEF StartCreate, Reloaded, Consumer, KindKnown,
         LateOnce, Ownership, FreshStart, Upgrading, Creating, Journaling, Owning, Plan
  <1>23. CASE Absence(p)
    <2>1. /\ proc'[p].plan = proc[p].plan /\ proc'[p].seen = proc[p].seen
          /\ proc'[p].late = proc[p].late /\ proc'[p].phase = proc[p].phase /\ proc'[p].pc = "start"
          /\ UNCHANGED <<active, gens>>
      BY <1>23, ToFields DEF Absence
    <2>2. proc[p].pc = "absence" /\ proc[p].late = 0
      BY <1>b, <1>23 DEF Absence
    <2>3. SeenOnce(p)'
      BY <1>c, <2>1, <2>2 DEF Consumer, SeenOnce, Loaded, Executing, Preflighting, Plan
    <2>4. KindKnown(p)' /\ LateOnce(p)'
      BY <1>23, <2>1, <2>2 DEF Absence, Consumer, KindKnown, LateOnce, Upgrading, Creating, Plan
    <2>5. Ownership(p)'
      BY <1>0, <1>a, <1>23, <2>1, <2>2 DEF Absence, Consumer, Ownership, Owning, Journaling, Plan
    <2>6. FreshStart(p)'
      BY <1>0, <1>23, <2>1, <2>2 DEF Absence, Consumer, FreshStart, Journaling, Plan, Absent
    <2> QED
      BY <2>3, <2>4, <2>5, <2>6 DEF Consumer
  <1>24. CASE Begin(p)
    <2>1. /\ proc'[p].plan = proc[p].plan /\ proc'[p].seen = proc[p].seen
          /\ proc'[p].late = proc[p].late /\ proc'[p].phase = proc[p].phase /\ proc'[p].pc = "phase"
          /\ UNCHANGED <<active, gens>>
      BY <1>24, ToFields DEF Begin
    <2>2. proc[p].pc = "begin" /\ proc[p].late = 0
      BY <1>b, <1>24 DEF Begin
    <2>3. SeenOnce(p)'
      BY <1>c, <2>1, <2>2 DEF Consumer, SeenOnce, Loaded, Executing, Preflighting, Plan
    <2>4. KindKnown(p)' /\ LateOnce(p)'
      BY <1>24, <2>1, <2>2 DEF Begin, Consumer, KindKnown, LateOnce, Upgrading, Creating, Plan
    <2>5. Ownership(p)'
      BY <1>0, <1>a, <1>24, <2>1, <2>2 DEF Begin, Consumer, Ownership, Owning, Journaling, Plan
    <2>6. FreshStart(p)'
      BY <1>0, <1>24, <2>1, <2>2 DEF Begin, Consumer, FreshStart, Journaling, Plan
    <2> QED
      BY <2>3, <2>4, <2>5, <2>6 DEF Consumer
  <1>25. CASE Phase(p)
    <2>1. /\ proc'[p].plan = proc[p].plan /\ proc'[p].seen = proc[p].seen
          /\ proc'[p].late = proc[p].late /\ proc'[p].phase = proc[p].phase /\ proc'[p].pc = "write"
          /\ UNCHANGED <<active, gens>>
      BY <1>25, ToFields DEF Phase
    <2>2. proc[p].pc = "phase"
      BY <1>b, <1>25 DEF Phase
    <2>3. SeenOnce(p)'
      BY <1>c, <2>1, <2>2 DEF Consumer, SeenOnce, Loaded, Executing, Preflighting, Plan
    <2>4. KindKnown(p)' /\ LateOnce(p)'
      BY <1>25, <2>1, <2>2 DEF Phase, Consumer, KindKnown, LateOnce, Upgrading, Creating, Plan, Current
    <2>5. Ownership(p)'
      BY <1>0, <1>a, <1>25, <2>1, <2>2 DEF Phase, Consumer, Ownership, Owning, Journaling, Plan
    <2>6. FreshStart(p)'
      BY <1>0, <1>25, <2>1, <2>2 DEF Phase, Consumer, FreshStart, Journaling, Plan
    <2> QED
      BY <2>3, <2>4, <2>5, <2>6 DEF Consumer
  <1>26. CASE Mkdir(p)
    <2>1. /\ proc'[p].plan = proc[p].plan /\ proc'[p].seen = proc[p].seen
          /\ proc'[p].late = proc[p].late /\ proc'[p].phase = proc[p].phase /\ proc'[p].pc = "evidence"
          /\ UNCHANGED <<active, gens>>
      BY <1>26, ToFields DEF Mkdir
    <2>2. proc[p].pc = "mkdir" /\ proc[p].late = 0
      BY <1>b, <1>26 DEF Mkdir
    <2>3. SeenOnce(p)'
      BY <1>c, <2>1, <2>2 DEF Consumer, SeenOnce, Loaded, Executing, Preflighting, Plan
    <2>4. KindKnown(p)' /\ LateOnce(p)'
      BY <1>26, <2>1, <2>2 DEF Mkdir, Consumer, KindKnown, LateOnce, Upgrading, Creating, Plan
    <2>5. Ownership(p)'
      BY <1>0, <1>a, <1>26, <2>1, <2>2 DEF Mkdir, Consumer, Ownership, Owning, Journaling, Plan
    <2>6. FreshStart(p)'
      BY <1>0, <1>26, <2>1, <2>2 DEF Mkdir, Consumer, FreshStart, Journaling, Plan
    <2> QED
      BY <2>3, <2>4, <2>5, <2>6 DEF Consumer
  <1>27. CASE Evidence(p)
    <2>1. /\ proc'[p].plan = proc[p].plan /\ proc'[p].seen = proc[p].seen
          /\ proc'[p].late = proc[p].late /\ proc'[p].phase = proc[p].phase /\ proc'[p].pc = "intent"
          /\ UNCHANGED <<active, gens>>
      BY <1>27, ToFields DEF Evidence
    <2>2. proc[p].pc = "evidence" /\ proc[p].late = 0
      BY <1>b, <1>27 DEF Evidence
    <2>3. SeenOnce(p)'
      BY <1>c, <2>1, <2>2 DEF Consumer, SeenOnce, Loaded, Executing, Preflighting, Plan
    <2>4. KindKnown(p)' /\ LateOnce(p)'
      BY <1>27, <2>1, <2>2 DEF Evidence, Consumer, KindKnown, LateOnce, Upgrading, Creating, Plan
    <2>5. Ownership(p)'
      BY <1>0, <1>a, <1>27, <2>1, <2>2 DEF Evidence, Consumer, Ownership, Owning, Journaling, Plan
    <2>6. FreshStart(p)'
      BY <1>0, <1>27, <2>1, <2>2 DEF Evidence, Consumer, FreshStart, Journaling, Plan
    <2> QED
      BY <2>3, <2>4, <2>5, <2>6 DEF Consumer
  <1>28. CASE BeginEntry(p)
    <2>1. /\ proc'[p].plan = proc[p].plan /\ proc'[p].seen = proc[p].seen
          /\ proc'[p].late = proc[p].late /\ proc'[p].phase = proc[p].phase /\ proc'[p].pc = "allocate"
          /\ UNCHANGED <<active, gens>>
      BY <1>28, ToFields DEF BeginEntry
    <2>2. proc[p].pc = "intent" /\ proc[p].late = 0
      BY <1>b, <1>28 DEF BeginEntry
    <2>3. SeenOnce(p)'
      BY <1>c, <2>1, <2>2 DEF Consumer, SeenOnce, Loaded, Executing, Preflighting, Plan
    <2>4. KindKnown(p)' /\ LateOnce(p)'
      BY <1>28, <2>1, <2>2 DEF BeginEntry, Consumer, KindKnown, LateOnce, Upgrading, Creating, Plan
    <2>5. Ownership(p)'
      BY <1>0, <1>a, <1>28, <2>1, <2>2 DEF BeginEntry, Consumer, Ownership, Owning, Journaling, Plan
    <2>6. FreshStart(p)'
      BY <1>0, <1>28, <2>1, <2>2 DEF BeginEntry, Consumer, FreshStart, Journaling, Plan, Commands, IInv, TypeOK, InPhase
    <2> QED
      BY <2>3, <2>4, <2>5, <2>6 DEF Consumer
  <1>29. CASE Allocate(p)
    <2>1. /\ proc'[p].plan = proc[p].plan /\ proc'[p].seen = proc[p].seen
          /\ proc'[p].late = proc[p].late /\ proc'[p].phase = proc[p].phase /\ proc'[p].pc = "receipt"
          /\ UNCHANGED <<active, gens>>
      BY <1>29, ToFields DEF Allocate
    <2>2. proc[p].pc = "allocate" /\ proc[p].late = 0
      BY <1>b, <1>29 DEF Allocate
    <2>3. SeenOnce(p)'
      BY <1>c, <2>1, <2>2 DEF Consumer, SeenOnce, Loaded, Executing, Preflighting, Plan
    <2>4. KindKnown(p)' /\ LateOnce(p)'
      BY <1>29, <2>1, <2>2 DEF Allocate, Consumer, KindKnown, LateOnce, Upgrading, Creating, Plan
    <2>5. Ownership(p)'
      BY <1>0, <1>a, <1>29, <2>1, <2>2 DEF Allocate, Consumer, Ownership, Owning, Journaling, Plan
    <2>6. FreshStart(p)'
      BY <1>0, <1>29, <2>1, <2>2 DEF Allocate, Consumer, FreshStart, Journaling, Plan
    <2> QED
      BY <2>3, <2>4, <2>5, <2>6 DEF Consumer
  <1>30. CASE RecordReceipt(p)
    <2>1. /\ proc'[p].plan = proc[p].plan /\ proc'[p].seen = proc[p].seen
          /\ proc'[p].late = proc[p].late /\ proc'[p].phase = proc[p].phase /\ proc'[p].pc = "complete"
          /\ UNCHANGED <<active, gens>>
      BY <1>30, ToFields DEF RecordReceipt
    <2>2. proc[p].pc = "receipt" /\ proc[p].late = 0
      BY <1>b, <1>30 DEF RecordReceipt
    <2>3. SeenOnce(p)'
      BY <1>c, <2>1, <2>2 DEF Consumer, SeenOnce, Loaded, Executing, Preflighting, Plan
    <2>4. KindKnown(p)' /\ LateOnce(p)'
      BY <1>30, <2>1, <2>2 DEF RecordReceipt, Consumer, KindKnown, LateOnce, Upgrading, Creating, Plan
    <2>5. Ownership(p)'
      BY <1>0, <1>a, <1>30, <2>1, <2>2 DEF RecordReceipt, Consumer, Ownership, Owning, Journaling, Plan
    <2>6. FreshStart(p)'
      BY <1>0, <1>30, <2>1, <2>2 DEF RecordReceipt, Consumer, FreshStart, Journaling, Plan
    <2> QED
      BY <2>3, <2>4, <2>5, <2>6 DEF Consumer
  <1>31. CASE Write(p)
    <2>1. /\ proc'[p].plan = proc[p].plan /\ proc'[p].seen = proc[p].seen
          /\ proc'[p].late = (IF active = proc[p].seen THEN proc[p].late ELSE proc[p].late + 1)
          /\ proc'[p].pc = (IF proc[p].phase = Phases THEN "accept" ELSE "phase")
          /\ UNCHANGED <<active, gens, fence>>
      BY <1>0, <1>31 DEF Write, Commands
    <2>2. proc[p].pc = "write" /\ proc[p].late = 0
      BY <1>b, <1>31 DEF Write
    <2>3. SeenOnce(p)'
      BY <1>c, <2>1, <2>2 DEF Consumer, SeenOnce, Loaded, Executing, Preflighting, Plan
    <2> QED
      BY <2>1, <2>2, <2>3 DEF Consumer, KindKnown, LateOnce, Ownership, FreshStart, Upgrading,
         Creating, Owning, Journaling, Plan
  <1>32. CASE CompleteEntry(p)
    <2>1. /\ proc'[p].plan = proc[p].plan /\ proc'[p].seen = proc[p].seen
          /\ proc'[p].late = proc[p].late
          /\ proc'[p].pc = (IF proc[p].phase = Phases THEN "release" ELSE "intent")
          /\ UNCHANGED <<active, gens, fence, executed>>
      BY <1>0, <1>32 DEF CompleteEntry, Commands
    <2>2. proc[p].pc = "complete" /\ proc[p].late = 0
      BY <1>b, <1>32 DEF CompleteEntry
    <2>3. SeenOnce(p)'
      BY <1>c, <2>1, <2>2 DEF Consumer, SeenOnce, Loaded, Executing, Preflighting, Plan
    <2> QED
      BY <2>1, <2>2, <2>3 DEF Consumer, KindKnown, LateOnce, Ownership, FreshStart, Upgrading,
         Creating, Owning, Journaling, Plan
  <1>33. CASE Accept(p)
    BY <1>33, EndFields, OutsideConsumes DEF Accept, Executing
  <1>34. CASE Release(p)
    BY <1>34, EndFields, OutsideConsumes DEF Release, Executing
  <1>35. CASE Stop(p)
    <2>1. fence' # None => fence'.by # p
      BY <1>0, <1>a, <1>35, OwnerIsRecorded DEF Stop, Owns, Consumer, Ownership
    <2> QED
      BY <1>35, <2>1, EndFields, OutsideConsumes DEF Stop, Executing
  <1>36. CASE Crash(p)
    <2>1. fence' # None => fence'.by # p
      BY <1>0, <1>a, <1>36, OwnerIsRecorded DEF Crash, Owns, Consumer, Ownership
    <2> QED
      BY <1>36, <2>1, EndFields, OutsideConsumes DEF Crash, Executing
  <1>37. CASE Cancel(p)
    <2>1. /\ proc'[p].pc = proc[p].pc /\ proc'[p].plan = proc[p].plan
          /\ proc'[p].seen = proc[p].seen /\ proc'[p].late = proc[p].late
          /\ proc'[p].phase = proc[p].phase /\ proc'[p].gen = proc[p].gen
          /\ UNCHANGED <<active, gens, fence, executed, target, entries>>
      BY <1>0, <1>37 DEF Cancel, Commands
    <2>2. SeenOnce(p)'
      BY <1>c, <2>1 DEF Consumer, SeenOnce, Plan
    <2> QED
      BY <2>1, <2>2 DEF Consumer, KindKnown, LateOnce, Ownership, FreshStart, Plan
  <1> QED
    BY <1>1, <1>2, <1>3, <1>4, <1>5, <1>6, <1>7, <1>8, <1>9, <1>10, <1>11,
       <1>12, <1>13, <1>14, <1>15, <1>16, <1>17, <1>18, <1>19, <1>20, <1>21,
       <1>22, <1>23, <1>24, <1>25, <1>26, <1>27, <1>28, <1>29, <1>30, <1>31,
       <1>32, <1>33, <1>34, <1>35, <1>36, <1>37
    DEF Preflight, Upgrade, Create

\* A create has begun in this environment.
Begun == executed \cap [kind : {"create"}, inputs : Inputs] # {}

\* A step that changes neither evidence, journal, resources nor owner.
LEMMA SameAllocations ==
    ASSUME AllocationsOwned, UNCHANGED <<executed, target, entries, fence>>
    PROVE  AllocationsOwned'
  BY DEF AllocationsOwned

\* A change of the owner is harmless when a create stays the owner or was not.
LEMMA OtherOwner ==
    ASSUME AllocationsOwned, UNCHANGED <<target, entries>>,
           executed' \cap [kind : {"create"}, inputs : Inputs] # {} => Begun,
           \/ fence = None
           \/ fence.plan.kind = "upgrade"
           \/ fence' # None /\ fence'.plan.kind = "create"
    PROVE  AllocationsOwned'
  BY DEF AllocationsOwned, Begun

\* What the journal steps of a create may use.
LEMMA InJournal ==
    ASSUME IInv, NEW p \in Procs, Consumer(p), proc[p].pc \in Journaling
    PROVE  Begun /\ fence # None /\ fence.plan.kind = "create"
  <1>1. Plan(p) \in executed /\ Plan(p).kind = "create" /\ Plan(p) \in Plans
        /\ fence # None /\ fence.plan = Plan(p)
    BY OwnerIsRecorded DEF Consumer, FreshStart, KindKnown, Creating, Journaling, Owning
  <1>2. Plan(p) \in [kind : {"create"}, inputs : Inputs]
    BY <1>1 DEF Plans
  <1> QED
    BY <1>1, <1>2 DEF Begun

\* Every step of a process keeps every allocation owned.
LEMMA StepAllocations ==
    ASSUME IInv, AllocationsOwned, NEW p \in Procs, Consumer(p),
           \/ \E kind \in Kinds : StartPreflight(p, kind)
           \/ \E plan \in Plans : StartExecution(p, plan)
           \/ Preflight(p) \/ Upgrade(p) \/ Create(p) \/ Stop(p) \/ Cancel(p) \/ Crash(p)
    PROVE  AllocationsOwned'
  <1> USE AdmissionAssumption
  <1>0. /\ proc[p] \in Commands /\ entries \in [1..Phases -> {"none", "pending", "allocated", "completed"}]
        /\ target \subseteq 1..Phases /\ executed \subseteq Plans
    BY Facts DEF RestOK
  <1> USE DEF execution, At
  <1>1. CASE (\E kind \in Kinds : StartPreflight(p, kind)) \/ \E plan \in Plans : StartExecution(p, plan)
    BY <1>1, SameAllocations DEF StartPreflight, StartExecution
  <1>2. CASE Preflight(p)
    BY <1>2, SameAllocations DEF Preflight, Invalidate, Observe, Compile, Qualify, SaveArtifact,
       Publish, Mark, Activate, Recheck, Report, Revoke, RevokeRefused, Reject
  <1>3. CASE Load(p) \/ Payload(p) \/ Reread(p) \/ Hydrate(p) \/ Admit(p) \/ LiveChecks(p) \/ Phase(p) \/ Write(p)
    BY <1>3, SameAllocations DEF Load, Payload, Reread, Hydrate, Admit, LiveChecks, Phase, Write
  <1>4. CASE Absence(p) \/ StartCreate(p) \/ Cancel(p)
    BY <1>4, SameAllocations DEF Absence, StartCreate, Cancel
  <1>5. CASE Begin(p)
    <2>1. Plan(p).kind = "upgrade"
      BY <1>5 DEF Begin, Consumer, KindKnown, Upgrading
    <2>2. executed' \cap [kind : {"create"}, inputs : Inputs] # {} => Begun
      BY <1>5, <2>1 DEF Begin, Begun
    <2> QED
      BY <1>5, <2>2, OtherOwner DEF Begin
  <1>6. CASE Accept(p)
    <2>1. fence.plan.kind = "upgrade"
      BY <1>6, OwnerIsRecorded DEF Accept, Consumer, KindKnown, Upgrading, Owning
    <2> QED
      BY <1>6, <2>1, OtherOwner DEF Accept, Begun
  <1>7. CASE Mkdir(p)
    BY <1>7, OtherOwner DEF Mkdir, Begun
  <1>8. CASE Evidence(p)
    <2>1. target' = {}
      BY <1>8 DEF Evidence, Consumer, FreshStart
    <2> QED
      BY <2>1 DEF AllocationsOwned
  <1>9. CASE BeginEntry(p)
    <2>1. Begun /\ fence # None /\ fence.plan.kind = "create"
      BY <1>9, InJournal DEF BeginEntry, Journaling
    <2>2. \A k \in 1..Phases : entries[k] # "none" => entries'[k] # "none"
      BY <1>0, <1>9 DEF BeginEntry
    <2> QED
      BY <1>0, <1>9, <2>1, <2>2 DEF AllocationsOwned, Begun, BeginEntry
  <1>10. CASE Allocate(p)
    <2>1. Begun /\ fence # None /\ fence.plan.kind = "create"
      BY <1>10, InJournal DEF Allocate, Journaling
    <2>2. entries[proc[p].phase] = "pending"
      BY <1>10 DEF Allocate, Consumer, FreshStart
    <2> QED
      BY <1>0, <1>10, <2>1, <2>2 DEF AllocationsOwned, Begun, Allocate
  <1>11. CASE RecordReceipt(p)
    <2>1. Begun /\ fence # None /\ fence.plan.kind = "create"
      BY <1>11, InJournal DEF RecordReceipt, Journaling
    <2>2. \A k \in 1..Phases : entries[k] # "none" => entries'[k] # "none"
      BY <1>0, <1>11 DEF RecordReceipt
    <2> QED
      BY <1>0, <1>11, <2>1, <2>2 DEF AllocationsOwned, Begun, RecordReceipt
  <1>12. CASE CompleteEntry(p)
    <2>1. Begun /\ fence # None /\ fence.plan.kind = "create"
      BY <1>12, InJournal DEF CompleteEntry, Journaling
    <2>2. \A k \in 1..Phases : entries[k] # "none" => entries'[k] # "none"
      BY <1>0, <1>12 DEF CompleteEntry
    <2> QED
      BY <1>0, <1>12, <2>1, <2>2 DEF AllocationsOwned, Begun, CompleteEntry
  <1>13. CASE Release(p)
    <2>1. UNCHANGED <<entries, target>> /\ \A k \in target : entries[k] = "completed"
      BY <1>0, <1>13 DEF Release
    <2> QED
      BY <2>1 DEF AllocationsOwned
  <1>14. CASE Stop(p)
    <2>1. CASE ~Owns(p)
      BY <1>14, <2>1, SameAllocations DEF Stop
    <2>2. CASE Owns(p)
      <3>1. fence = [by |-> p, plan |-> Plan(p)] /\ fence # None /\ Plan(p) \in Plans
        BY <2>2, OwnerIsRecorded DEF Owns, Consumer, Ownership
      <3>2. fence' = IF Creates(p) THEN [by |-> None, plan |-> Plan(p)] ELSE None
        BY <1>14, <2>2, <3>1 DEF Stop
      <3>3. Creates(p) => fence' # None /\ fence'.plan.kind = "create"
        <4>1. [by |-> None, plan |-> Plan(p)] \in Owners
          BY <3>1 DEF Owners
        <4> QED
          BY <3>2, <4>1 DEF Creates
      <3>4. ~Creates(p) => fence.plan.kind = "upgrade"
        BY <3>1 DEF Creates, Plans, Kinds
      <3> QED
        BY <1>14, <3>3, <3>4, OtherOwner DEF Stop, Begun
    <2> QED
      BY <2>1, <2>2
  <1>15. CASE Crash(p)
    <2>1. CASE ~Owns(p)
      BY <1>15, <2>1, SameAllocations DEF Crash
    <2>2. CASE Owns(p)
      <3>1. fence = [by |-> p, plan |-> Plan(p)] /\ fence # None /\ Plan(p) \in Plans
        BY <2>2, OwnerIsRecorded DEF Owns, Consumer, Ownership
      <3>2. fence' = [by |-> None, plan |-> Plan(p)]
        BY <1>15, <2>2, <3>1 DEF Crash
      <3>3. fence' # None /\ fence'.plan = fence.plan /\ fence.plan.kind \in {"create", "upgrade"}
        <4>1. [by |-> None, plan |-> Plan(p)] \in Owners
          BY <3>1 DEF Owners
        <4> QED
          BY <3>1, <3>2, <4>1 DEF Plans, Kinds
      <3> QED
        BY <1>15, <3>3, OtherOwner DEF Crash, Begun
    <2> QED
      BY <2>1, <2>2
  <1> QED
    BY <1>1, <1>2, <1>3, <1>4, <1>5, <1>6, <1>7, <1>8, <1>9, <1>10, <1>11,
       <1>12, <1>13, <1>14, <1>15
    DEF Upgrade, Create

\* Reconciliation of a killed upgrade, expiry, an edit of the inputs, stuttering.
LEMMA OutsideConsumption ==
    ASSUME IInv, Consumption,
           Reconcile \/ (\E g \in valid : Expire(g)) \/ ChangeInputs \/ UNCHANGED vars
    PROVE  Consumption'
  <1> USE AdmissionAssumption
  <1>1. /\ UNCHANGED <<active, gens, proc, executed, target, entries>>
        /\ \/ fence' = fence
           \/ fence' = None /\ fence # None /\ fence.by = None /\ fence.plan.kind = "upgrade"
    BY DEF Reconcile, Expire, ChangeInputs, vars, qualification, execution
  <1>2. AllocationsOwned'
    BY <1>1, SameAllocations, OtherOwner DEF Consumption, Begun
  <1>3. ASSUME NEW p \in Procs PROVE Consumer(p)'
    <2>1. Consumer(p)
      BY DEF Consumption
    <2>2. SeenOnce(p)' /\ KindKnown(p)' /\ LateOnce(p)'
      BY <1>1, <2>1 DEF Consumer, SeenOnce, KindKnown, LateOnce, Plan
    <2>3. Ownership(p)'
      BY <1>1, <2>1, OwnerIsRecorded DEF Consumer, Ownership, Plan
    <2>4. FreshStart(p)'
      BY <1>1, <2>1 DEF Consumer, FreshStart, Plan
    <2> QED
      BY <2>2, <2>3, <2>4 DEF Consumer
  <1> QED
    BY <1>2, <1>3 DEF Consumption

\* Nothing is executed at the start.
LEMMA InitConsumption == Init => Consumption
  <1> SUFFICES ASSUME Init PROVE Consumption
    OBVIOUS
  <1>1. \A p \in Procs : proc[p].pc = "idle" /\ proc[p].late = 0
    BY DEF Init, Idle
  <1>2. \A p \in Procs : Consumer(p)
    BY <1>1 DEF Init, Consumer, SeenOnce, KindKnown, LateOnce, Ownership, FreshStart, Loaded,
       Upgrading, Creating, Journaling, Owning, Executing
  <1>3. AllocationsOwned
    BY DEF Init, AllocationsOwned
  <1> QED
    BY <1>2, <1>3 DEF Consumption

\* Every step preserves the second invariant.
LEMMA NextConsumption == IInv /\ IInv' /\ Consumption /\ [Next]_vars => Consumption'
  <1> SUFFICES ASSUME IInv, IInv', Consumption, [Next]_vars PROVE Consumption'
    OBVIOUS
  <1>1. ASSUME NEW p \in Procs,
               \/ \E kind \in Kinds : StartPreflight(p, kind)
               \/ \E plan \in Plans : StartExecution(p, plan)
               \/ Preflight(p) \/ Upgrade(p) \/ Create(p) \/ Stop(p) \/ Cancel(p) \/ Crash(p)
        PROVE  Consumption'
    <2>1. Consumer(p) /\ AllocationsOwned
      BY DEF Consumption
    <2>2. Leaves(p)
      BY <1>1, <2>1, StepsLeave
    <2>3. Consumer(p)'
      BY <1>1, <2>1, <2>2, OwnConsumes
    <2>4. \A q \in Procs \ {p} : Consumer(q)'
      BY <2>2, OthersKeep
    <2>5. AllocationsOwned'
      BY <1>1, <2>1, StepAllocations
    <2> QED
      BY <2>3, <2>4, <2>5 DEF Consumption
  <1> QED
    BY <1>1, OutsideConsumption DEF Next

\* The second invariant holds throughout.
THEOREM ConsumptionInvariance == Spec => []Consumption
  BY InitConsumption, NextConsumption, Invariance, PTL DEF Spec

\* However many preflights invalidate it, a running upgrade writes at most the
\* phase whose FenceInventory had already passed: a superseded qualification
\* never becomes active again, so no later fence passes.
THEOREM SupersessionStops == Spec => []SupersededStops
  <1>1. Consumption => SupersededStops
    BY DEF Consumption, Consumer, LateOnce, SupersededStops
  <1> QED
    BY <1>1, ConsumptionInvariance, PTL

\* Every provider resource of a create has its durable intent, and an owner
\* until its outcome is recorded, whatever fails, is cancelled or is killed
\* (BeginEntry, RecordReceipt, CompleteEntry, CompleteAndRelease).
THEOREM AllocationsStayOwned == Spec => []AllocationsOwned
  <1>1. Consumption => AllocationsOwned
    BY DEF Consumption
  <1> QED
    BY <1>1, ConsumptionInvariance, PTL

\* startEnvironmentCreateExecution: a create becomes the owner only while the
\* qualification it loaded is active, once per plan, and in an environment
\* where nothing was allocated, although absence was checked before the lock.
THEOREM CreatesStartFresh == Spec => AdmittedFresh
  <1>1. ASSUME IInv, Consumption, [Next]_vars,
               fence = None, fence' # None, fence'.plan.kind = "create"
        PROVE  /\ active.go /\ active.plan = fence'.plan
               /\ fence'.plan \notin executed
               /\ target = {}
    <2> USE AdmissionAssumption
    <2>1. PICK p \in Procs : Begin(p) \/ Mkdir(p)
      <3>1. \E p \in Procs : Upgrade(p) \/ Create(p)
        <4>1. ~(Reconcile \/ (\E g \in valid : Expire(g)) \/ ChangeInputs \/ UNCHANGED vars)
          BY <1>1 DEF Reconcile, Expire, ChangeInputs, vars, execution
        <4>2. \A p \in Procs : ~Preflight(p)
          BY <1>1 DEF Preflight, Invalidate, Observe, Compile, Qualify, SaveArtifact, Publish,
             Mark, Activate, Recheck, Report, Revoke, RevokeRefused, Reject, execution
        <4>3. \A p \in Procs :
                 ~(Stop(p) \/ Cancel(p) \/ Crash(p)
                   \/ (\E kind \in Kinds : StartPreflight(p, kind))
                   \/ (\E plan \in Plans : StartExecution(p, plan)))
          BY <1>1 DEF Stop, Cancel, Crash, StartPreflight, StartExecution, Owns, execution
        <4> QED
          BY <1>1, <4>1, <4>2, <4>3 DEF Next
      <3> QED
        BY <1>1, <3>1 DEF Upgrade, Create, Load, Payload, Reread, Hydrate, Admit, LiveChecks,
           Phase, Write, Accept, Absence, StartCreate, Evidence, BeginEntry, Allocate,
           RecordReceipt, CompleteEntry, Release, execution
    <2>2. Consumer(p) /\ fence' = [by |-> p, plan |-> Plan(p)]
      BY <1>1, <2>1 DEF Consumption, Begin, Mkdir
    <2>3. Mkdir(p) /\ Plan(p) \notin executed /\ proc[p].pc = "mkdir"
      BY <1>1, <2>1, <2>2 DEF Begin, Mkdir, Consumer, KindKnown, Upgrading, At
    <2>4. active = GO(proc[p].seen.gen, Plan(p)) /\ active = proc[p].seen
      BY <2>2, <2>3 DEF Consumer, FreshStart, SeenOnce, Loaded, Executing
    <2>5. target = {}
      BY <2>2, <2>3, <2>4 DEF Consumer, FreshStart
    <2> QED
      BY <2>2, <2>3, <2>4, <2>5 DEF GO
  <1>2. IInv /\ Consumption /\ [Next]_vars =>
          [fence = None /\ fence' # None /\ fence'.plan.kind = "create" =>
             /\ active.go /\ active.plan = fence'.plan
             /\ fence'.plan \notin executed
             /\ target = {}]_vars
    BY <1>1
  <1> QED
    BY <1>2, Invariance, ConsumptionInvariance, PTL DEF Spec, AdmittedFresh
=============================================================================
