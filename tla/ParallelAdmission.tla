------------------------- MODULE ParallelAdmission -------------------------
(***************************************************************************)
(* Parallel dry-run admission of a compiled plan: Plan.admitParallel of    *)
(* internal/deploymentplan/execute.go.                                     *)
(*                                                                         *)
(* The caller hands plan indexes 1..Size over an unbuffered channel to a   *)
(* pool of worker goroutines, receives their verdicts over a buffered      *)
(* channel, stops handing out work after the first failure or the          *)
(* cancellation of its context, joins every worker and picks one error.    *)
(* The sequential loop of Plan.Admit is the reference: SequentialVerdict.  *)
(***************************************************************************)
EXTENDS Integers, FiniteSets

CONSTANTS
    Size,           \* number of resources of the plan, len(p.Resources)
    Concurrency,    \* parallel.AdmissionConcurrency()
    Limit           \* maxAdmissionConcurrency

ASSUME SizesAssumption ==
    /\ Size \in Nat
    /\ Concurrency \in Nat \ {0}
    /\ Limit \in Nat \ {0}

Resources == 1..Size

\* workers := min(concurrency, maxAdmissionConcurrency, len(p.Resources))
Workers == {w \in 1..Size : w <= Concurrency /\ w <= Limit}

\* Verdict of admitResource: nil, a blocker of that resource, or ctx.Err().
Verdicts == {"ok", "blocked", "context"}

Receiving == 0      \* a worker waiting on the jobs channel
Exited == -1        \* a worker whose goroutine returned

VARIABLES
    bad,            \* the resources the API server refuses (never changes)
    cancelled,      \* ctx.Err() != nil
    pc,             \* control point of the calling goroutine
    open,           \* the jobs channel is not closed
    failed,         \* the caller has received a failing verdict
    armed,          \* the caller's select still listens on ctx.Done()
    next,           \* number of indexes handed out so far
    active,         \* handed out and not yet received back
    work,           \* per worker: Receiving, Exited or the index it holds
    stage,          \* per index: where its check is
    verdict,        \* per index: admitResource's result once computed
    ret             \* 0: no error; i > 0: the blocker of resource i; -1: ctx error

vars == <<bad, cancelled, pc, open, failed, armed, next, active, work, stage,
          verdict, ret>>

-----------------------------------------------------------------------------
\* Indexes whose verdict sits in the results channel, whose capacity is the
\* number of workers.  The channel is kept as a set: more orders of receipt
\* than the FIFO channel has, never fewer.
Buffered == {i \in Resources : stage[i] = "buffered"}

Outstanding == {i \in Resources : stage[i] \in {"running", "buffered"}}

Init ==
    /\ bad \in SUBSET Resources
    /\ cancelled \in BOOLEAN
    /\ pc = "enter"
    /\ open = TRUE
    /\ failed = FALSE
    /\ armed = TRUE
    /\ next = 0
    /\ active = 0
    /\ work = [w \in Workers |-> Receiving]
    /\ stage = [i \in Resources |-> "unsent"]
    /\ verdict = [i \in Resources |-> "ok"]
    /\ ret = 0

\* ctx is cancelled by a deadline or a signal at any moment, and stays so.
Cancel ==
    /\ ~cancelled
    /\ pc # "returned"
    /\ cancelled' = TRUE
    /\ UNCHANGED <<bad, pc, open, failed, armed, next, active, work, stage,
                   verdict, ret>>

-----------------------------------------------------------------------------
(* The calling goroutine                                                    *)

\* The entry check of ctx and the early return of a plan without resources.
Enter ==
    /\ pc = "enter"
    /\ IF cancelled THEN ret' = -1 /\ pc' = "returned"
       ELSE IF Workers = {} THEN ret' = 0 /\ pc' = "returned"
       ELSE ret' = ret /\ pc' = "top"
    /\ UNCHANGED <<bad, cancelled, open, failed, armed, next, active, work,
                   stage, verdict>>

\* Mutant of CloseJobs: the end of the plan is tested one index too late.
CloseJobs_OffByOne ==
    /\ pc = "top"
    /\ pc' = "disarm"
    /\ open' = (open /\ ~(next > Size \/ failed \/ cancelled))
    /\ UNCHANGED <<bad, cancelled, failed, armed, next, active, work, stage,
                   verdict, ret>>

\* Top of the loop: close the jobs channel when there is nothing more to send.
CloseJobs ==
    /\ pc = "top"
    /\ pc' = "disarm"
    /\ open' = (open /\ ~(next = Size \/ failed \/ cancelled))
    /\ UNCHANGED <<bad, cancelled, failed, armed, next, active, work, stage,
                   verdict, ret>>

\* Mutant of Disarm: the loop ends when the channel is closed, without draining
\* the checks still out.
Disarm_NoDrain ==
    /\ pc = "disarm"
    /\ armed' = (armed /\ ~cancelled)
    /\ pc' = IF ~open THEN "join" ELSE "select"
    /\ UNCHANGED <<bad, cancelled, open, failed, next, active, work, stage,
                   verdict, ret>>

\* Second, separate look at ctx.Err(), then the break of the loop.  A context
\* cancelled between the two looks leaves open = TRUE and armed = FALSE.
Disarm ==
    /\ pc = "disarm"
    /\ armed' = (armed /\ ~cancelled)
    /\ pc' = IF ~open /\ active = 0 THEN "join" ELSE "select"
    /\ UNCHANGED <<bad, cancelled, open, failed, next, active, work, stage,
                   verdict, ret>>

\* case dispatch <- next: rendezvous with a worker that is receiving.
Dispatch(w) ==
    /\ pc = "select"
    /\ open
    /\ work[w] = Receiving
    /\ next' = next + 1
    /\ active' = active + 1
    /\ work' = [work EXCEPT ![w] = next + 1]
    /\ stage' = [stage EXCEPT ![next + 1] = "running"]
    /\ pc' = "top"
    /\ UNCHANGED <<bad, cancelled, open, failed, armed, verdict, ret>>

\* Mutant of Receive: a failing check is not counted back in.
Receive_LosesFailure(i) ==
    /\ pc = "select"
    /\ stage[i] = "buffered"
    /\ active' = IF verdict[i] = "ok" THEN active - 1 ELSE active
    /\ stage' = [stage EXCEPT ![i] = "settled"]
    /\ failed' = (failed \/ verdict[i] # "ok")
    /\ pc' = "top"
    /\ UNCHANGED <<bad, cancelled, open, armed, next, work, verdict, ret>>

\* case finished := <-results.
Receive(i) ==
    /\ pc = "select"
    /\ stage[i] = "buffered"
    /\ active' = active - 1
    /\ stage' = [stage EXCEPT ![i] = "settled"]
    /\ failed' = (failed \/ verdict[i] # "ok")
    /\ pc' = "top"
    /\ UNCHANGED <<bad, cancelled, open, armed, next, work, verdict, ret>>

\* case <-cancelled: nothing but the next turn of the loop.
Wake ==
    /\ pc = "select"
    /\ armed
    /\ cancelled
    /\ armed' = FALSE
    /\ pc' = "top"
    /\ UNCHANGED <<bad, cancelled, open, failed, next, active, work, stage,
                   verdict, ret>>

\* The settled failures, errorsByIndex.
Failures == {i \in Resources : stage[i] = "settled" /\ verdict[i] # "ok"}

First(S) == CHOOSE i \in S : \A j \in S : i <= j

\* joined.Wait(), then ctx.Err(), then the first error in plan order.
Join ==
    /\ pc = "join"
    /\ \A w \in Workers : work[w] = Exited
    /\ ret' = IF cancelled THEN -1
              ELSE IF Failures = {} THEN 0
              ELSE First(Failures)
    /\ pc' = "returned"
    /\ UNCHANGED <<bad, cancelled, open, failed, armed, next, active, work,
                   stage, verdict>>

-----------------------------------------------------------------------------
(* The worker goroutines                                                    *)

\* admitResource: reads, compares and dry-runs one resource.  A cancelled
\* context shows as ctx.Err() or as a refused API call; an API that answers
\* before the cancellation is seen still gives the resource's own verdict.
AdmitResource(w) ==
    /\ work[w] \in Resources
    /\ stage[work[w]] = "running"
    /\ Cardinality(Buffered) < Cardinality(Workers)
    /\ \E v \in Verdicts :
          /\ \/ v = (IF work[w] \in bad THEN "blocked" ELSE "ok")
             \/ cancelled /\ v \in {"blocked", "context"}
          /\ verdict' = [verdict EXCEPT ![work[w]] = v]
    /\ stage' = [stage EXCEPT ![work[w]] = "buffered"]
    /\ work' = [work EXCEPT ![w] = Receiving]
    /\ UNCHANGED <<bad, cancelled, pc, open, failed, armed, next, active, ret>>

\* for index := range jobs ends: the channel is closed.
Exit(w) ==
    /\ work[w] = Receiving
    /\ ~open
    /\ work' = [work EXCEPT ![w] = Exited]
    /\ UNCHANGED <<bad, cancelled, pc, open, failed, armed, next, active, stage,
                   verdict, ret>>

\* The call has returned.
Returned == pc = "returned" /\ UNCHANGED vars

Caller ==
    \/ Enter
    \/ CloseJobs
    \/ Disarm
    \/ \E w \in Workers : Dispatch(w)
    \/ \E i \in Resources : Receive(i)
    \/ Wake
    \/ Join

Worker(w) == AdmitResource(w) \/ Exit(w)

Next ==
    \/ Caller
    \/ \E w \in Workers : Worker(w)
    \/ Cancel
    \/ Returned

\* Every backend call carries ctx and a deadline, so a check that started ends;
\* the Go scheduler runs every runnable goroutine.
Fairness == WF_vars(Caller) /\ \A w \in Workers : WF_vars(Worker(w))

Spec == Init /\ [][Next]_vars /\ Fairness

-----------------------------------------------------------------------------
(* Properties                                                               *)

\* The pool's variables are well typed and its counters within their bounds.
TypeOK ==
    /\ bad \in SUBSET Resources
    /\ cancelled \in BOOLEAN
    /\ pc \in {"enter", "top", "disarm", "select", "join", "returned"}
    /\ open \in BOOLEAN /\ failed \in BOOLEAN /\ armed \in BOOLEAN
    /\ next \in 0..Size
    /\ active \in 0..Size
    /\ work \in [Workers -> -1..Size]
    /\ stage \in [Resources -> {"unsent", "running", "buffered", "settled"}]
    /\ verdict \in [Resources -> Verdicts]
    /\ ret \in -1..Size

\* "Dispatch is a prefix of plan order.  Join that entire prefix before
\* selecting its first failure": unless the context was cancelled, the pool
\* returns exactly what the sequential loop of Plan.Admit returns, the blocker
\* of the first refused resource of the whole plan, or no error only when no
\* resource is refused.
SequentialVerdict ==
    pc = "returned" /\ ~cancelled =>
        ret = IF bad = {} THEN 0 ELSE First(bad)

\* No admission call is still running, and no verdict is left unread, when
\* admitParallel returns: a plan is never written while its own admission
\* still talks to the API server.
NoLeak ==
    pc = "returned" =>
        /\ Outstanding = {}
        /\ next > 0 => \A w \in Workers : work[w] = Exited

\* admitParallel returns, cancelled or not: neither the unbuffered jobs channel
\* nor the full results channel can leave everyone waiting.
Terminates == <>(pc = "returned")
=============================================================================
