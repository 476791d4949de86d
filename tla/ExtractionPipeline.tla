-------------------------- MODULE ExtractionPipeline --------------------------
(***************************************************************************)
(* The extraction pipeline of ExtractionService._run_pipeline              *)
(* (features/extraction/service.py) with the work it hands to threads.     *)
(*                                                                         *)
(* A request that AdmissionControl admits runs on the event loop and       *)
(* awaits, one after another, up to four jobs in worker threads: the       *)
(* preflight and the conversion of the PDF (docling_document_parser.py),   *)
(* LangExtract (extraction_engine.py) and the annotation                   *)
(* (pdf_annotator.py).  The LangExtract thread asks Ollama prompt by       *)
(* prompt, each time through a coroutine it posts to the loop and waits    *)
(* for (_validating_langextract_adapter.py).  The budget and the caller    *)
(* can cancel the task between any two of these steps.  They cannot stop a *)
(* thread: a running job goes on behind the answer.                        *)
(***************************************************************************)
EXTENDS Integers, FiniteSets, SequencesExt

CONSTANTS
  Requests,
  MaxConcurrent,  \* Settings.max_concurrent_extractions
  Threads,        \* threads of the loop's default executor
  MaxPrompts      \* bound: prompts LangExtract sends for one document

ASSUME PipelineAssumption ==
  /\ IsFiniteSet(Requests)
  /\ MaxConcurrent \in Nat \ {0} /\ Threads \in Nat \ {0} /\ MaxPrompts \in Nat \ {0}

VARIABLES
  phase,      \* AdmissionControl's: who holds a permit
  at,         \* the job a request's task awaits
  future,     \* the asyncio future of that job
  mustCancel, \* Task._must_cancel
  budget,     \* the state of budget_cm
  cancelled,  \* whether the caller has cancelled the task
  job,        \* the request's latest job in the executor
  pool,       \* the executor's work queue
  llm,        \* what the LangExtract thread is doing
  prompts,    \* how many prompts it has sent
  answer      \* what extract returned or raised

vars == <<phase, at, future, mustCancel, budget, cancelled, job, pool, llm, prompts, answer>>

Admission == INSTANCE AdmissionControl

Jobs == {"preflight", "convert", "extract", "annotate"}

\* How a job, or the future that stands for it, can end.  "timeout" is a
\* built-in TimeoutError of a library, "ollama" IntelligenceTimeoutError.
Failures == {"error", "timeout"}
Results == {"ok", "ollama"} \cup Failures

Answers == {"ok", "failed", "internal_error", "intelligence_timeout",
            "budget_exceeded", "cancelled"}

TypeOK ==
  /\ phase \in [Requests -> Admission!Phases]
  /\ at \in [Requests -> Jobs \cup {"none"}]
  /\ future \in [Requests -> Results \cup {"none", "pending", "cancelled"}]
  /\ mustCancel \in [Requests -> BOOLEAN]
  /\ budget \in [Requests -> {"none", "entered", "expiring", "exited"}]
  /\ cancelled \in [Requests -> BOOLEAN]
  /\ job \in [Requests -> {"none", "queued", "running"}]
  /\ pool \in Seq(Requests)
  /\ llm \in [Requests -> {"off", "idle", "asking"}]
  /\ prompts \in [Requests -> 0..MaxPrompts]
  /\ answer \in [Requests -> Answers \cup {"none"}]

Busy == {r \in Requests : job[r] = "running"}

-----------------------------------------------------------------------------
(* The task of a request                                                   *)

\* await asyncio.to_thread(...): the job goes to the executor's queue.
Submit(r, work) ==
  /\ at' = [at EXCEPT ![r] = work]
  /\ future' = [future EXCEPT ![r] = "pending"]
  /\ job' = [job EXCEPT ![r] = "queued"]
  /\ pool' = Append(pool, r)

\* extract returns or raises: the finally releases the permit.
Answer(r, a) ==
  /\ Admission!End(r)
  /\ answer' = [answer EXCEPT ![r] = a]
  /\ at' = [at EXCEPT ![r] = "none"]
  /\ future' = [future EXCEPT ![r] = "none"]
  /\ mustCancel' = [mustCancel EXCEPT ![r] = FALSE]
  /\ budget' = [budget EXCEPT ![r] = "exited"]

\* Task.cancel while the task awaits a job, or is about to resume from one.
CancelTask(r) ==
  IF future[r] = "pending"
  THEN /\ future' = [future EXCEPT ![r] = "cancelled"]
       /\ UNCHANGED mustCancel
  ELSE /\ mustCancel' = [mustCancel EXCEPT ![r] = TRUE]
       /\ UNCHANGED future

\* Mutant of DropJob: the executor's future is shielded from the cancellation.
KeepJob(r) == UNCHANGED <<job, pool>>

\* The callback of a cancelled asyncio future cancels the executor's: unless a
\* thread has taken the job by then, it never runs.
DropJob(r) ==
  \/ job[r] # "queued" /\ UNCHANGED <<job, pool>>
  \/ \E i \in DOMAIN pool :
       /\ pool[i] = r /\ pool' = RemoveAt(pool, i)
       /\ job' = [job EXCEPT ![r] = "none"]

Init ==
  /\ Admission!Init
  /\ at = [r \in Requests |-> "none"]
  /\ future = [r \in Requests |-> "none"]
  /\ mustCancel = [r \in Requests |-> FALSE]
  /\ budget = [r \in Requests |-> "none"]
  /\ cancelled = [r \in Requests |-> FALSE]
  /\ job = [r \in Requests |-> "none"]
  /\ pool = <<>>
  /\ llm = [r \in Requests |-> "off"]
  /\ prompts = [r \in Requests |-> 0]
  /\ answer = [r \in Requests |-> "none"]

\* The skill is found and the parser starts its preflight.
Start(r) ==
  /\ Admission!Admit(r)
  /\ Submit(r, "preflight")
  /\ budget' = [budget EXCEPT ![r] = "entered"]
  /\ UNCHANGED <<mustCancel, cancelled, llm, prompts, answer>>

\* SkillNotFoundError: admitted and answered without an await.
UnknownSkill(r) ==
  /\ phase[r] = "new" /\ ~Admission!AtCap
  /\ Answer(r, "failed")
  /\ UNCHANGED <<cancelled, job, pool, llm, prompts>>

Overloaded(r) ==
  /\ Admission!Refuse(r) \/ Admission!Deliver(r)
  /\ UNCHANGED <<at, future, mustCancel, budget, cancelled, job, pool, llm, prompts, answer>>

\* Mutant of BudgetFires: the task is cancelled only while its job has a thread.
BudgetFiresOnRunning(r) ==
  /\ budget[r] = "entered" /\ job[r] = "running"
  /\ budget' = [budget EXCEPT ![r] = "expiring"]
  /\ CancelTask(r)
  /\ UNCHANGED <<phase, at, cancelled, job, pool, llm, prompts, answer>>

\* budget_cm's timer fires.
BudgetFires(r) ==
  /\ budget[r] = "entered"
  /\ budget' = [budget EXCEPT ![r] = "expiring"]
  /\ CancelTask(r)
  /\ UNCHANGED <<phase, at, cancelled, job, pool, llm, prompts, answer>>

CallerCancels(r) ==
  /\ at[r] # "none" /\ ~cancelled[r]
  /\ cancelled' = [cancelled EXCEPT ![r] = TRUE]
  /\ CancelTask(r)
  /\ UNCHANGED <<phase, at, budget, job, pool, llm, prompts, answer>>

\* Mutant of CancelledAnswer: budget_cm.expired() decides alone.
BudgetFirst(r) == IF budget[r] = "expiring" THEN "budget_exceeded" ELSE "cancelled"

\* The answer to a request whose task was cancelled.
CancelledAnswer(r) ==
  IF budget[r] = "expiring" /\ ~cancelled[r] THEN "budget_exceeded" ELSE "cancelled"

\* The task resumes with CancelledError; the callback that drops its job stands
\* before it in the ready queue.  budget_cm turns it into TimeoutError, and so
\* into ExtractionBudgetExceededError, when it alone cancelled the task.
ResumeCancelled(r) ==
  /\ at[r] # "none"
  /\ future[r] = "cancelled" \/ (mustCancel[r] /\ future[r] # "pending")
  /\ Answer(r, CancelledAnswer(r))
  /\ DropJob(r)
  /\ UNCHANGED <<cancelled, llm, prompts>>

\* Mutant of FailedAnswer: a library's TimeoutError reaches the caller as it is.
FailedAnswerAsIs(r) ==
  IF future[r] = "ollama" THEN "intelligence_timeout" ELSE future[r]

\* Domain errors have their own code.  A TimeoutError that is not the budget's
\* propagates and ends as an internal error.
FailedAnswer(r) ==
  CASE future[r] = "ollama" -> "intelligence_timeout"
    [] future[r] = "timeout" -> "internal_error"
    [] OTHER -> "failed"

\* The job raised.
ResumeFailed(r) ==
  /\ at[r] # "none" /\ ~mustCancel[r]
  /\ future[r] \in {"ollama"} \cup Failures
  /\ Answer(r, FailedAnswer(r))
  /\ UNCHANGED <<cancelled, job, pool, llm, prompts>>

\* Mutant of ResumeNext: a component swallows CancelledError and goes on.
ResumeNextAnyway(r) ==
  /\ future[r] \in {"ok", "cancelled"} /\ ~mustCancel[r]
  /\ \/ at[r] = "preflight" /\ Submit(r, "convert")
     \/ at[r] = "convert" /\ Submit(r, "extract")
     \/ at[r] = "extract" /\ Submit(r, "annotate")
  /\ UNCHANGED <<phase, mustCancel, budget, cancelled, llm, prompts, answer>>

\* The job returned and the checks after it pass: on to the next job.
ResumeNext(r) ==
  /\ future[r] = "ok" /\ ~mustCancel[r]
  /\ \/ at[r] = "preflight" /\ Submit(r, "convert")
     \/ at[r] = "convert" /\ Submit(r, "extract")
     \/ at[r] = "extract" /\ Submit(r, "annotate")
  /\ UNCHANGED <<phase, mustCancel, budget, cancelled, llm, prompts, answer>>

\* The job returned and the pipeline ends: too many pages, no text, nothing to
\* extract from, every field failed; or the response, with an annotated PDF or,
\* for JSON_ONLY, without.
ResumeLast(r) ==
  /\ future[r] = "ok" /\ ~mustCancel[r]
  /\ \/ at[r] \in {"preflight", "convert", "extract"} /\ Answer(r, "failed")
     \/ at[r] \in {"extract", "annotate"} /\ Answer(r, "ok")
  /\ UNCHANGED <<cancelled, job, pool, llm, prompts>>

-----------------------------------------------------------------------------
(* The worker threads                                                      *)

\* An idle thread takes the first job.
TakeJob ==
  /\ pool # <<>> /\ Cardinality(Busy) < Threads
  /\ LET r == Head(pool)
     IN  /\ job' = [job EXCEPT ![r] = "running"]
         /\ llm' = [llm EXCEPT ![r] = IF at[r] = "extract" THEN "idle" ELSE "off"]
  /\ pool' = Tail(pool)
  /\ UNCHANGED <<phase, at, future, mustCancel, budget, cancelled, prompts, answer>>

\* A job's end is posted to the loop; with nobody waiting it is discarded.
EndJob(r, result) ==
  /\ job' = [job EXCEPT ![r] = "none"]
  /\ llm' = [llm EXCEPT ![r] = "off"]
  /\ future' = [future EXCEPT ![r] = IF @ = "pending" THEN result ELSE @]
  /\ UNCHANGED <<phase, at, mustCancel, budget, cancelled, pool, prompts, answer>>

\* The preflight, the conversion or the annotation ends; or LangExtract does,
\* after the last of its prompts.
JobEnds(r) ==
  /\ job[r] = "running"
  /\ llm[r] = "off" \/ (llm[r] = "idle" /\ prompts[r] > 0)
  /\ \E result \in {"ok"} \cup Failures : EndJob(r, result)

\* The adapter posts the generate coroutine of the next prompt to the loop.
\* Nothing tells the thread that its request has been answered.
Ask(r) ==
  /\ llm[r] = "idle" /\ prompts[r] < MaxPrompts
  /\ llm' = [llm EXCEPT ![r] = "asking"]
  /\ prompts' = [prompts EXCEPT ![r] = @ + 1]
  /\ UNCHANGED <<phase, at, future, mustCancel, budget, cancelled, job, pool, answer>>

Generated(r) ==
  /\ llm[r] = "asking"
  /\ llm' = [llm EXCEPT ![r] = "idle"]
  /\ UNCHANGED <<phase, at, future, mustCancel, budget, cancelled, job, pool, prompts, answer>>

\* generate raised, or future.result(timeout=ollama_timeout_seconds) ran out.
GenerateFails(r) ==
  /\ llm[r] = "asking"
  /\ \E result \in {"ollama"} \cup Failures : EndJob(r, result)

-----------------------------------------------------------------------------

Resume(r) ==
  ResumeCancelled(r) \/ ResumeFailed(r) \/ ResumeNext(r) \/ ResumeLast(r)

Next ==
  \/ TakeJob
  \/ \E r \in Requests :
       \/ Start(r) \/ UnknownSkill(r) \/ Overloaded(r) \/ Resume(r)
       \/ BudgetFires(r) \/ CallerCancels(r)
       \/ JobEnds(r) \/ Ask(r) \/ Generated(r) \/ GenerateFails(r)

\* The loop resumes tasks and fires timers.  Nothing is assumed of the threads:
\* a conversion or Ollama may hang for ever.
Fairness == \A r \in Requests : WF_vars(Resume(r)) /\ WF_vars(BudgetFires(r))

Spec == Init /\ [][Next]_vars /\ Fairness

-----------------------------------------------------------------------------
(* The inductive invariant of ExtractionPipelineProofs                     *)

\* A request runs exactly while its task awaits a job, and until then it has
\* neither an answer nor a budget that has been left.
RunningMeansAwaiting ==
  \A r \in Requests :
    /\ phase[r] = "running" <=> at[r] # "none"
    /\ at[r] = "none" <=> future[r] = "none"
    /\ at[r] # "none" <=> budget[r] \in {"entered", "expiring"}
    /\ answer[r] # "none" => phase[r] = "ended"

\* A job that nobody has cancelled is in the executor until it ends; a request
\* that was not admitted has none, and only LangExtract's thread asks Ollama.
JobsMatchFutures ==
  \A r \in Requests :
    /\ future[r] = "pending" => job[r] # "none"
    /\ future[r] \in Results => job[r] = "none"
    /\ phase[r] \in {"new", "refused", "rejected"} => job[r] = "none"
    /\ job[r] = "queued" => at[r] # "none"
    /\ llm[r] # "off" => job[r] = "running"

\* While the task runs, a cancellation waits to be delivered exactly if the
\* budget's timer has fired or the caller has cancelled.
CancellationPending ==
  \A r \in Requests :
    /\ phase[r] = "new" => ~cancelled[r]
    /\ mustCancel[r] => future[r] \in Results \cup {"cancelled"}
    /\ at[r] # "none" =>
         ((mustCancel[r] \/ future[r] = "cancelled") <=> (budget[r] = "expiring" \/ cancelled[r]))

QueuedOnce == \A i, j \in DOMAIN pool : pool[i] = pool[j] => i = j

-----------------------------------------------------------------------------
(* Properties                                                              *)

\* The executor's queue holds no job of a request that was answered: one that
\* timed out or was cancelled while its job stood in the queue never starts it
\* (only a job that already has a thread goes on behind the answer).
QueuedJobsAreAwaited ==
  /\ {pool[i] : i \in DOMAIN pool} = {r \in Requests : job[r] = "queued"}
  /\ \A r \in Requests : job[r] = "queued" => phase[r] = "running"

\* The three ways to run out of time are kept apart (service.py, issues #227
\* and #416): budget_exceeded is reported only when the budget's timer, and not
\* the caller, ended the pipeline; cancelled only when the caller did.
EndingsToldApart ==
  /\ \A r \in Requests : answer[r] = "cancelled" => cancelled[r]
  /\ \A r \in Requests : answer[r] = "budget_exceeded" => ~cancelled[r]
  /\ \A r \in Requests : budget[r] = "expiring" /\ at[r] # "none" =>
       mustCancel[r] \/ future[r] = "cancelled"

\* What TLAPS proves inductive.
IInv ==
  /\ TypeOK /\ RunningMeansAwaiting /\ JobsMatchFutures /\ CancellationPending
  /\ QueuedOnce /\ QueuedJobsAreAwaited /\ EndingsToldApart

\* One request never has two threads: a job is handed to the executor only when
\* the one before it has left its thread.
OneJobPerRequest ==
  [][\A r \in Requests : job'[r] = "queued" /\ job[r] # "queued" => job[r] = "none"]_vars

\* An admitted request is answered although every worker thread may hang: the
\* budget ends it, whatever job it waits for or queues for.
AnsweredDespiteHungThreads ==
  \A r \in Requests : phase[r] = "running" ~> phase[r] = "ended"

\* service.py, "Admission control": the semaphore is there "to keep timed-out
\* background work from piling up on CPU and Ollama".
OllamaWithinCap == Cardinality({r \in Requests : llm[r] = "asking"}) <= MaxConcurrent

=============================================================================
