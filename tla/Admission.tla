------------------------------ MODULE Admission ------------------------------
(***************************************************************************)
(* Admission of extraction requests: ExtractionService.extract             *)
(* (features/extraction/service.py) down to the scheduling of the event    *)
(* loop.  A request enters asyncio.timeout(0), awaits                      *)
(* asyncio.Semaphore.acquire, runs its pipeline and releases the permit in *)
(* a finally.  Whether that is the "atomic try-acquire" the code relies on *)
(* is decided by the order of the callbacks in the loop's ready queue, so  *)
(* the queue, the futures the tasks wait for, and Task.cancel are modelled *)
(* as asyncio (CPython 3.13) implements them.                              *)
(*                                                                         *)
(* One callback of the ready queue is one step: nothing else runs on the   *)
(* loop while it does.  The pipeline itself is one await here; module      *)
(* ExtractionPipeline opens it up.                                         *)
(***************************************************************************)
EXTENDS Integers, FiniteSets, SequencesExt

CONSTANTS
  Requests,       \* the tasks that call extract, each of them once
  MaxConcurrent   \* Settings.max_concurrent_extractions

\* core/config.py: Field(gt=0).
ASSUME ConstantsAssumption ==
  IsFiniteSet(Requests) /\ MaxConcurrent \in Nat \ {0}

VARIABLES
  pc,         \* where each request's task is
  fut,        \* the future the task is suspended on
  mustCancel, \* Task._must_cancel: raise CancelledError when it next runs
  deadline,   \* the state of the task's asyncio.timeout(0)
  cancelled,  \* whether the caller has cancelled the task
  value,      \* Semaphore._value
  waiters,    \* Semaphore._waiters, as the tasks whose futures it holds
  ready       \* the event loop's ready queue

vars == <<pc, fut, mustCancel, deadline, cancelled, value, waiters, ready>>

Answers == {"completed", "overloaded", "cancelled"}
Places == {"idle", "arriving", "waiting", "pipeline"} \cup Answers

\* The callbacks of the ready queue.
Step(r) == [call |-> "step", task |-> r]         \* Task.__step or __wakeup
OnTimeout(r) == [call |-> "on_timeout", task |-> r]  \* Timeout._on_timeout
Handles == [call : {"step", "on_timeout"}, task : Requests]

Running(h) == ready # <<>> /\ Head(ready) = h

At(place) == {r \in Requests : pc[r] = place}

TypeOK ==
  /\ pc \in [Requests -> Places]
  /\ fut \in [Requests -> {"none", "pending", "done", "cancelled"}]
  /\ mustCancel \in [Requests -> BOOLEAN]
  /\ deadline \in [Requests -> {"none", "entered", "expiring", "exited"}]
  /\ cancelled \in [Requests -> BOOLEAN]
  /\ value \in 0..MaxConcurrent
  /\ waiters \in Seq(Requests)
  /\ ready \in Seq(Handles)

-----------------------------------------------------------------------------
(* asyncio.Semaphore and Task.cancel                                       *)

\* Semaphore.locked().
Locked ==
  value = 0 \/ \E i \in DOMAIN waiters : fut[waiters[i]] # "cancelled"

Pending == {r \in At("waiting") : fut[r] = "pending"}

Before(q, r) ==
  \E i, j \in DOMAIN waiters : i < j /\ waiters[i] = q /\ waiters[j] = r

\* Mutant of FirstWaiters: every waiter is woken, whatever the permits.
AllWaiters(P, n) ==
  {woken \in Injection(1..Cardinality(P), P) :
     \A i, j \in DOMAIN woken : i < j => Before(woken[i], woken[j])}

\* The first n of the tasks in P, or all of them when there are fewer, in the
\* order in which they wait.
FirstWaiters(P, n) ==
  {woken \in Injection(1..(IF n <= Cardinality(P) THEN n ELSE Cardinality(P)), P) :
     \A i \in DOMAIN woken :
       /\ \A j \in DOMAIN woken : i < j => Before(woken[i], woken[j])
       /\ \A r \in P \ Range(woken) : Before(woken[i], r)}

\* Mutant of WakeUps: the futures are done, but their tasks are not scheduled.
NoWakeUps(woken) == <<>>

\* set_result on their futures puts their tasks in the ready queue.
WakeUps(woken) == [i \in DOMAIN woken |-> Step(woken[i])]

\* Task.cancel, after the loop has taken `queue` from the ready queue.
CancelTask(r, queue) ==
  IF fut[r] = "pending"
  THEN /\ fut' = [fut EXCEPT ![r] = "cancelled"]
       /\ ready' = Append(queue, Step(r))
       /\ UNCHANGED mustCancel
  ELSE /\ mustCancel' = [mustCancel EXCEPT ![r] = TRUE]
       /\ ready' = queue
       /\ UNCHANGED fut

\* CancelledError is raised in the task when it resumes.
Raises(r) == mustCancel[r] \/ fut[r] = "cancelled"

\* Mutant of TimesOut: the caller's cancellation is not looked for.
TimesOutRegardless(r) == deadline[r] = "expiring"

\* Timeout.__aexit__ turns CancelledError into TimeoutError only when the
\* deadline is all that cancelled the task (Task.uncancel).
TimesOut(r) == deadline[r] = "expiring" /\ ~cancelled[r]

-----------------------------------------------------------------------------
(* The steps of ExtractionService.extract                                  *)

Init ==
  /\ pc = [r \in Requests |-> "idle"]
  /\ fut = [r \in Requests |-> "none"]
  /\ mustCancel = [r \in Requests |-> FALSE]
  /\ deadline = [r \in Requests |-> "none"]
  /\ cancelled = [r \in Requests |-> FALSE]
  /\ value = MaxConcurrent
  /\ waiters = <<>>
  /\ ready = <<>>

\* The server schedules the task that will call extract.
Arrive(r) ==
  /\ pc[r] = "idle"
  /\ pc' = [pc EXCEPT ![r] = "arriving"]
  /\ ready' = Append(ready, Step(r))
  /\ UNCHANGED <<fut, mustCancel, deadline, cancelled, value, waiters>>

\* The task was cancelled before it first ran: extract is never entered.
CancelledEarly(r) ==
  /\ Running(Step(r)) /\ pc[r] = "arriving" /\ mustCancel[r]
  /\ pc' = [pc EXCEPT ![r] = "cancelled"]
  /\ ready' = Tail(ready)
  /\ UNCHANGED <<fut, mustCancel, deadline, cancelled, value, waiters>>

\* acquire returns without suspending, __aexit__ cancels the timer, and the
\* pipeline runs to its first await.
AcquireNow(r) ==
  /\ Running(Step(r)) /\ pc[r] = "arriving" /\ ~mustCancel[r]
  /\ ~Locked
  /\ value' = value - 1
  /\ pc' = [pc EXCEPT ![r] = "pipeline"]
  /\ fut' = [fut EXCEPT ![r] = "pending"]
  /\ deadline' = [deadline EXCEPT ![r] = "exited"]
  /\ ready' = Tail(ready)
  /\ UNCHANGED <<mustCancel, cancelled, waiters>>

\* The same, but the pipeline raises before its first await (the skill is not
\* in the manifest): the finally gives the permit back in the same step.  No
\* waiter is pending, or the semaphore would have been locked.
FailAtOnce(r) ==
  /\ Running(Step(r)) /\ pc[r] = "arriving" /\ ~mustCancel[r]
  /\ ~Locked
  /\ pc' = [pc EXCEPT ![r] = "completed"]
  /\ deadline' = [deadline EXCEPT ![r] = "exited"]
  /\ ready' = Tail(ready)
  /\ UNCHANGED <<fut, mustCancel, cancelled, value, waiters>>

\* Mutant of Suspend: acquire awaited outside timeout(0).
SuspendForGood(r) ==
  /\ Running(Step(r)) /\ pc[r] = "arriving" /\ ~mustCancel[r]
  /\ Locked
  /\ pc' = [pc EXCEPT ![r] = "waiting"]
  /\ fut' = [fut EXCEPT ![r] = "pending"]
  /\ waiters' = Append(waiters, r)
  /\ ready' = Tail(ready)
  /\ UNCHANGED <<mustCancel, deadline, cancelled, value>>

\* acquire would block: timeout(0) has put _on_timeout in the ready queue
\* when it was entered, then the task waits for a future of its own.
Suspend(r) ==
  /\ Running(Step(r)) /\ pc[r] = "arriving" /\ ~mustCancel[r]
  /\ Locked
  /\ pc' = [pc EXCEPT ![r] = "waiting"]
  /\ fut' = [fut EXCEPT ![r] = "pending"]
  /\ deadline' = [deadline EXCEPT ![r] = "entered"]
  /\ waiters' = Append(waiters, r)
  /\ ready' = Append(Tail(ready), OnTimeout(r))
  /\ UNCHANGED <<mustCancel, cancelled, value>>

\* The zero deadline fires.  __aexit__ may have cancelled the timer: a
\* cancelled handle is taken from the queue and dropped.
DeadlineFires(r) ==
  /\ Running(OnTimeout(r))
  /\ IF deadline[r] = "entered"
     THEN /\ deadline' = [deadline EXCEPT ![r] = "expiring"]
          /\ CancelTask(r, Tail(ready))
     ELSE /\ ready' = Tail(ready)
          /\ UNCHANGED <<deadline, fut, mustCancel>>
  /\ UNCHANGED <<pc, cancelled, value, waiters>>

\* A waiter resumes.  A permit it was handed but cannot keep goes back; every
\* free permit is then handed on.  TimeoutError becomes
\* ExtractionOverloadedError.  Resuming without an exception would be an
\* admission after a wait.
Resume(r) ==
  LET permits == IF Raises(r) /\ fut[r] = "done" THEN value + 1 ELSE value
      others == Pending \ {r}
  IN  /\ Running(Step(r)) /\ pc[r] = "waiting"
      /\ pc' = [pc EXCEPT ![r] =
                  IF ~Raises(r) THEN "pipeline"
                  ELSE IF TimesOut(r) THEN "overloaded" ELSE "cancelled"]
      /\ deadline' = [deadline EXCEPT ![r] = "exited"]
      /\ mustCancel' = [mustCancel EXCEPT ![r] = FALSE]
      /\ \E i \in DOMAIN waiters :
           waiters[i] = r /\ waiters' = RemoveAt(waiters, i)
      /\ \E woken \in FirstWaiters(others, permits) :
           /\ value' = permits - Len(woken)
           /\ fut' = [q \in Requests |->
                        IF q \in Range(woken) THEN "done"
                        ELSE IF q = r THEN (IF Raises(r) THEN "none" ELSE "pending")
                        ELSE fut[q]]
           /\ ready' = Tail(ready) \o WakeUps(woken)
      /\ UNCHANGED cancelled

\* What the pipeline waits for is there (a result or an exception).
PipelineEnds(r) ==
  /\ pc[r] = "pipeline" /\ fut[r] = "pending"
  /\ fut' = [fut EXCEPT ![r] = "done"]
  /\ ready' = Append(ready, Step(r))
  /\ UNCHANGED <<pc, mustCancel, deadline, cancelled, value, waiters>>

\* Mutant of Release: the permit is released after the pipeline, not in a finally.
ReleaseOnReturn(r) ==
  /\ Running(Step(r)) /\ pc[r] = "pipeline"
  /\ pc' = [pc EXCEPT ![r] = IF Raises(r) THEN "cancelled" ELSE "completed"]
  /\ mustCancel' = [mustCancel EXCEPT ![r] = FALSE]
  /\ value' = IF Raises(r) THEN value ELSE value + 1
  /\ fut' = [fut EXCEPT ![r] = "none"]
  /\ ready' = Tail(ready)
  /\ UNCHANGED <<deadline, cancelled, waiters>>

\* The pipeline returns or raises; the finally releases the permit, which goes
\* to the first waiter whose future is not done, if there is one.
Release(r) ==
  /\ Running(Step(r)) /\ pc[r] = "pipeline"
  /\ pc' = [pc EXCEPT ![r] = IF Raises(r) THEN "cancelled" ELSE "completed"]
  /\ mustCancel' = [mustCancel EXCEPT ![r] = FALSE]
  /\ \E woken \in FirstWaiters(Pending, 1) :
       /\ value' = (value + 1) - Len(woken)
       /\ fut' = [q \in Requests |->
                    IF q \in Range(woken) THEN "done"
                    ELSE IF q = r THEN "none" ELSE fut[q]]
       /\ ready' = Tail(ready) \o WakeUps(woken)
  /\ UNCHANGED <<deadline, cancelled, waiters>>

\* Another callback cancels the task (the caller is gone, the server stops).
CallerCancels(r) ==
  /\ pc[r] \in {"arriving", "waiting", "pipeline"} /\ ~cancelled[r]
  /\ cancelled' = [cancelled EXCEPT ![r] = TRUE]
  /\ CancelTask(r, ready)
  /\ UNCHANGED <<pc, deadline, value, waiters>>

\* The loop runs the first callback of the ready queue.
RunCallback ==
  \E r \in Requests :
    \/ CancelledEarly(r) \/ AcquireNow(r) \/ FailAtOnce(r) \/ Suspend(r)
    \/ DeadlineFires(r) \/ Resume(r) \/ Release(r)

Next ==
  \/ RunCallback
  \/ \E r \in Requests : Arrive(r) \/ PipelineEnds(r) \/ CallerCancels(r)

\* The loop keeps running its callbacks, and every pipeline ends: its budget
\* (settings.extraction_timeout_seconds) cancels what it still waits for.
Fairness == WF_vars(RunCallback) /\ \A r \in Requests : WF_vars(PipelineEnds(r))

Spec == Init /\ [][Next]_vars /\ Fairness

-----------------------------------------------------------------------------
(* The inductive invariant of AdmissionProofs                              *)

\* A task that has not run yet waits for nothing and is queued once at most.
FreshTasks ==
  \A r \in Requests : pc[r] \in {"idle", "arriving"} =>
    /\ fut[r] = "none"
    /\ \A i \in DOMAIN ready : ready[i] = Step(r) =>
         pc[r] = "arriving" /\ \A j \in DOMAIN ready : ready[j] = Step(r) => j = i

\* Until the zero deadline of a waiter has fired, it is queued before anything
\* that could resume the waiter; once it has fired, the waiter is doomed.
DeadlineFirst ==
  \A r \in Requests : pc[r] = "waiting" =>
    \/ /\ deadline[r] = "entered"
       /\ \E i \in DOMAIN ready :
            /\ ready[i] = OnTimeout(r)
            /\ \A j \in DOMAIN ready : ready[j] = Step(r) => i < j
    \/ deadline[r] = "expiring" /\ Raises(r)

\* The semaphore's deque holds tasks that wait, each of them once.
WaitersWait ==
  /\ \A i \in DOMAIN waiters : pc[waiters[i]] = "waiting"
  /\ \A i, j \in DOMAIN waiters : waiters[i] = waiters[j] => i = j

-----------------------------------------------------------------------------
(* Properties                                                              *)

\* The permits a woken task has been handed and not yet taken up.
Handed == {r \in At("waiting") : fut[r] = "done"}

\* No permit is lost or made up on any path through acquire, the zero deadline,
\* cancellation and the finally: the free permits, those handed to a woken
\* waiter and those held by running pipelines are MaxConcurrent together.
PermitConservation ==
  value + Cardinality(Handed) + Cardinality(At("pipeline")) = MaxConcurrent

\* What TLAPS proves inductive.
IInv == TypeOK /\ PermitConservation /\ FreshTasks /\ DeadlineFirst

\* A request that has to wait is not admitted later: its deadline fires before
\* a permit handed to it can resume it (service.py: "a caller either acquires
\* immediately or is rejected immediately").
WaiterNeverAdmitted ==
  [][\A r \in Requests : pc[r] = "waiting" => pc'[r] # "pipeline"]_vars

\* A cancellation by the caller is never swallowed or reported as a capacity
\* rejection, also when the zero deadline cancels the same task.
CancellationWins ==
  \A r \in Requests : cancelled[r] => pc[r] \notin {"completed", "overloaded"}

\* Every request that arrives is answered.
EveryArrivalAnswered ==
  \A r \in Requests : pc[r] = "arriving" ~> pc[r] \in Answers

\* A request's phase in the abstract specification.
PhaseAt(place) ==
  CASE place \in {"idle", "arriving"} -> "new"
    [] place = "waiting" -> "refused"
    [] place = "pipeline" -> "running"
    [] place = "overloaded" -> "rejected"
    [] OTHER -> "ended"

\* The abstract specification, with the loop's bookkeeping hidden.
Control == INSTANCE AdmissionControl WITH phase <- [r \in Requests |-> PhaseAt(pc[r])]

\* The semaphore, the zero timeout and the loop provide admission as one step.
RefinesControl == Control!Spec

=============================================================================
