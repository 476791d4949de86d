------------------------------ MODULE Generation ------------------------------
(***************************************************************************)
(* What happens in the LangExtract thread of one extraction: the adapter's *)
(* infer (extraction/_validating_langextract_adapter.py) posts, prompt by  *)
(* prompt, OllamaGemmaProvider.generate to the event loop and waits for    *)
(* the future; the coroutine asks Ollama until the reply passes            *)
(* StructuredOutputValidator.validate_and_retry or the attempts run out.   *)
(*                                                                         *)
(* The thread waits with a timeout.  Between its three steps after that -  *)
(* TimeoutError, future.done(), future.cancel() - the loop goes on, and    *)
(* the cancellation reaches the coroutine only when the loop runs it.      *)
(***************************************************************************)
EXTENDS Integers

CONSTANTS
  MaxPrompts,  \* bound: prompts LangExtract sends for one document
  MaxRetries,  \* Settings.structured_output_max_retries
  Timeout      \* Settings.ollama_timeout_seconds, in ticks

\* core/config.py: Field(ge=0) for the retries, Field(gt=0) for the timeout.
ASSUME GenerationAssumption ==
  MaxPrompts \in Nat \ {0} /\ MaxRetries \in Nat /\ Timeout \in Nat \ {0}

VARIABLES
  thread,    \* where infer is
  prompt,    \* the prompt it is at
  observed,  \* _max_observed_attempts
  answer,    \* what LangExtract returned or raised
  fut,       \* per prompt, the concurrent future infer waits for
  task,      \* per prompt, the generate coroutine on the loop
  outcome,   \* per prompt, what the coroutine returned or raised
  request,   \* per prompt, the coroutine's HTTP request or its reply
  cancel,    \* per prompt, how far future.cancel() has got
  attempt,   \* per prompt, the validator's attempt
  sent,      \* per prompt, how many requests Ollama was sent
  waited,    \* how long the thread has waited, up to Timeout
  lasted     \* how long each request for the prompt has lasted, up to Timeout

infer == <<thread, prompt, observed, answer>>
coroutine == <<task, outcome, request, attempt, sent>>
clock == <<waited, lasted>>
vars == <<infer, fut, cancel, coroutine, clock>>

Prompts == 1..MaxPrompts
MaxAttempts == MaxRetries + 1

\* A reply that passes the validation or not, a request that ran out of time
\* (httpx.TimeoutException), or failed (IntelligenceUnavailableError).
Replies == {"valid", "invalid", "timeout", "unavailable"}
Errors == {"failed", "timeout", "unavailable"}
Outcomes == {"ok"} \cup Errors

TypeOK ==
  /\ thread \in {"between", "waiting", "expired", "giving_up", "ended"}
  /\ prompt \in 0..MaxPrompts
  /\ observed \in 0..MaxAttempts
  /\ answer \in {"none", "adapter_timeout"} \cup Outcomes
  /\ fut \in [Prompts -> {"none", "pending", "cancelled"} \cup Outcomes]
  /\ task \in [Prompts -> {"none", "scheduled", "posting", "done"}]
  /\ outcome \in [Prompts -> {"none", "cancelled"} \cup Outcomes]
  /\ request \in [Prompts -> {"none", "open"} \cup Replies]
  /\ cancel \in [Prompts -> {"none", "posted", "thrown"}]
  /\ attempt \in [Prompts -> 0..MaxAttempts]
  /\ sent \in [Prompts -> 0..MaxAttempts]
  /\ waited \in 0..Timeout /\ lasted \in [1..MaxAttempts -> 0..Timeout]

Init ==
  /\ thread = "between" /\ prompt = 0 /\ observed = 0 /\ answer = "none"
  /\ fut = [p \in Prompts |-> "none"]
  /\ task = [p \in Prompts |-> "none"]
  /\ outcome = [p \in Prompts |-> "none"]
  /\ request = [p \in Prompts |-> "none"]
  /\ cancel = [p \in Prompts |-> "none"]
  /\ attempt = [p \in Prompts |-> 0]
  /\ sent = [p \in Prompts |-> 0]
  /\ waited = 0 /\ lasted = [a \in 1..MaxAttempts |-> 0]

-----------------------------------------------------------------------------
(* The LangExtract thread                                                  *)

\* run_coroutine_threadsafe(generate(prompt)), and the wait begins.
Submit ==
  /\ thread = "between" /\ prompt < MaxPrompts
  /\ thread' = "waiting"
  /\ prompt' = prompt + 1
  /\ fut' = [fut EXCEPT ![prompt'] = "pending"]
  /\ task' = [task EXCEPT ![prompt'] = "scheduled"]
  /\ waited' = 0 /\ lasted' = [a \in 1..MaxAttempts |-> 0]
  /\ UNCHANGED <<observed, answer, outcome, request, cancel, attempt, sent>>

\* LangExtract has had all the prompts it wants answered.
Finish ==
  /\ thread = "between" /\ prompt > 0
  /\ thread' = "ended" /\ answer' = "ok"
  /\ UNCHANGED <<prompt, observed, fut, cancel, coroutine, clock>>

\* Mutant of Observe: the last prompt's attempts, not the most.
ObserveLast(n) == n

Observe(n) == IF n > observed THEN n ELSE observed

\* future.result() of a settled future.
Take ==
  /\ fut[prompt] \in Outcomes
  /\ IF fut[prompt] = "ok"
     THEN /\ thread' = "between"
          /\ observed' = Observe(attempt[prompt])
          /\ UNCHANGED answer
     ELSE /\ thread' = "ended"
          /\ answer' = fut[prompt]
          /\ UNCHANGED observed
  /\ UNCHANGED <<prompt, fut, cancel, coroutine, clock>>

GetResult == thread = "waiting" /\ Take

\* Mutant of WaitTimesOut: a request that is still open is given more time.
WaitAgain ==
  /\ thread = "waiting" /\ fut[prompt] = "pending" /\ waited = Timeout
  /\ waited' = 0
  /\ UNCHANGED <<infer, fut, cancel, coroutine, lasted>>

\* future.result(timeout=...) raises TimeoutError.
WaitTimesOut ==
  /\ thread = "waiting" /\ fut[prompt] = "pending" /\ waited = Timeout
  /\ thread' = "expired"
  /\ UNCHANGED <<prompt, observed, answer, fut, cancel, coroutine, clock>>

\* future.done() finds that the result came in after all, or that it did not.
CheckDone ==
  /\ thread = "expired"
  /\ \/ Take
     \/ /\ fut[prompt] = "pending"
        /\ thread' = "giving_up"
        /\ UNCHANGED <<prompt, observed, answer, fut, cancel, coroutine, clock>>

\* Mutant of CancelFuture: the coroutine is left to itself.
ForgetFuture(p) == UNCHANGED <<fut, cancel>>

\* future.cancel(): of no effect on a future that has settled; otherwise it
\* has the loop call Task.cancel.
CancelFuture(p) ==
  IF fut[p] = "pending"
  THEN fut' = [fut EXCEPT ![p] = "cancelled"] /\ cancel' = [cancel EXCEPT ![p] = "posted"]
  ELSE UNCHANGED <<fut, cancel>>

\* Mutant of GiveUp: the timeout is not raised, LangExtract goes on.
GiveUpQuietly ==
  /\ thread = "giving_up"
  /\ CancelFuture(prompt)
  /\ thread' = "between"
  /\ UNCHANGED <<prompt, observed, answer, coroutine, clock>>

\* IntelligenceTimeoutError.
GiveUp ==
  /\ thread = "giving_up"
  /\ CancelFuture(prompt)
  /\ thread' = "ended" /\ answer' = "adapter_timeout"
  /\ UNCHANGED <<prompt, observed, coroutine, clock>>

-----------------------------------------------------------------------------
(* The generate coroutine on the event loop                                *)

\* client.post: a request to Ollama.
Post(p) ==
  /\ request' = [request EXCEPT ![p] = "open"]
  /\ sent' = [sent EXCEPT ![p] = @ + 1]

\* The coroutine ends; its done callback is yet to run.
Done(p, result) ==
  /\ task' = [task EXCEPT ![p] = "done"]
  /\ outcome' = [outcome EXCEPT ![p] = result]
  /\ request' = [request EXCEPT ![p] = "none"]

FirstStep(p) ==
  /\ task[p] = "scheduled"
  /\ task' = [task EXCEPT ![p] = "posting"]
  /\ Post(p)
  /\ UNCHANGED <<infer, fut, cancel, outcome, attempt, clock>>

\* Mutant of LastAttempt: one attempt too many.
OneMoreAttempt(p) == attempt[p] = MaxAttempts

\* The attempt whose reply is being validated is the last.
LastAttempt(p) == attempt[p] + 1 = MaxAttempts

\* The coroutine resumes with a reply and validates it, or raises.
ResumeWithReply(p) ==
  /\ task[p] = "posting" /\ cancel[p] # "thrown"
  /\ request[p] \in Replies
  /\ IF request[p] \in {"valid", "invalid"}
     THEN attempt' = [attempt EXCEPT ![p] = @ + 1] ELSE UNCHANGED attempt
  /\ \/ request[p] = "valid" /\ Done(p, "ok") /\ UNCHANGED sent
     \/ request[p] = "invalid" /\ LastAttempt(p) /\ Done(p, "failed") /\ UNCHANGED sent
     \/ request[p] = "invalid" /\ ~LastAttempt(p) /\ Post(p) /\ UNCHANGED <<task, outcome>>
     \/ request[p] \in {"timeout", "unavailable"} /\ Done(p, request[p]) /\ UNCHANGED sent
  /\ UNCHANGED <<infer, fut, cancel, clock>>

\* Task.cancel, called by the loop after the coroutine's first step.
CancelArrives(p) ==
  /\ cancel[p] = "posted" /\ task[p] # "scheduled"
  /\ cancel' = [cancel EXCEPT ![p] = IF task[p] = "done" THEN "none" ELSE "thrown"]
  /\ UNCHANGED <<infer, fut, coroutine, clock>>

\* The coroutine resumes with CancelledError; the request is closed.
ResumeCancelled(p) ==
  /\ task[p] = "posting" /\ cancel[p] = "thrown"
  /\ Done(p, "cancelled")
  /\ cancel' = [cancel EXCEPT ![p] = "none"]
  /\ UNCHANGED <<infer, fut, attempt, sent, clock>>

\* The done callback passes the outcome on, unless the future was cancelled.
Settle(p) ==
  /\ task[p] = "done" /\ fut[p] = "pending"
  /\ fut' = [fut EXCEPT ![p] = outcome[p]]
  /\ UNCHANGED <<infer, cancel, coroutine, clock>>

-----------------------------------------------------------------------------
(* The world                                                               *)

\* The request ends.  httpx.Timeout bounds each of its phases, so it cannot run
\* out of time before Timeout, and may go on after it.
OllamaReplies(p) ==
  /\ request[p] = "open" /\ cancel[p] # "thrown"
  /\ \E reply \in Replies :
       /\ reply = "timeout" => lasted[sent[p]] = Timeout
       /\ request' = [request EXCEPT ![p] = reply]
  /\ UNCHANGED <<infer, fut, cancel, task, outcome, attempt, sent, clock>>

\* Time passes, as far as somebody measures it.
Tick ==
  /\ waited' = IF thread = "waiting" /\ waited < Timeout THEN waited + 1 ELSE waited
  /\ lasted' = [a \in 1..MaxAttempts |->
                  IF lasted[a] < Timeout /\ \E p \in Prompts : request[p] = "open" /\ sent[p] = a
                  THEN lasted[a] + 1 ELSE lasted[a]]
  /\ clock' # clock
  /\ UNCHANGED <<infer, fut, cancel, coroutine>>

ThreadStep == GetResult \/ WaitTimesOut \/ CheckDone \/ GiveUp

LoopStep(p) ==
  FirstStep(p) \/ ResumeWithReply(p) \/ CancelArrives(p) \/ ResumeCancelled(p) \/ Settle(p)

Next ==
  \/ Submit \/ Finish \/ ThreadStep \/ Tick
  \/ \E p \in Prompts : LoopStep(p) \/ OllamaReplies(p)

\* The thread and the loop are scheduled and time passes.  Nothing is assumed
\* of Ollama.
Fairness == WF_vars(ThreadStep) /\ WF_vars(Tick) /\ \A p \in Prompts : WF_vars(LoopStep(p))

Spec == Init /\ [][Next]_vars /\ Fairness

-----------------------------------------------------------------------------
(* The inductive invariant of GenerationProofs                             *)

\* Every prompt before the one the thread is at is answered, no later one has
\* begun, and a future is settled only when its coroutine has ended.
PromptsInOrder ==
  \A p \in Prompts :
    /\ p < prompt => fut[p] = "ok"
    /\ p > prompt => fut[p] = "none" /\ task[p] = "none"
    /\ fut[p] \in Outcomes => task[p] = "done" /\ outcome[p] = fut[p]
    /\ request[p] # "none" => task[p] = "posting"
    /\ task[p] = "done" => outcome[p] \in Outcomes \/ fut[p] = "cancelled"
    /\ fut[p] = "none" => p > prompt

\* What the thread knows about the future it has waited for.
ThreadKnows ==
  /\ thread # "between" => prompt > 0
  /\ thread = "between" /\ prompt > 0 => fut[prompt] = "ok"
  /\ \A p \in Prompts : cancel[p] # "none" => fut[p] = "cancelled"
  /\ \A p \in Prompts : fut[p] = "cancelled" => thread = "ended" /\ answer # "ok"
  /\ answer = "ok" => prompt > 0 /\ fut[prompt] = "ok"
  /\ answer # "none" => thread = "ended"
  /\ answer = "failed" => fut[prompt] = "failed"

\* The validator's attempt is the number of requests sent, but for the one that
\* it has not seen the reply of.
AttemptsInStep ==
  \A p \in Prompts :
    /\ task[p] \in {"none", "scheduled"} => sent[p] = 0 /\ attempt[p] = 0
    /\ task[p] = "posting" => sent[p] = attempt[p] + 1
    /\ outcome[p] # "none" => task[p] = "done"
    /\ outcome[p] = "ok" => attempt[p] = sent[p]
    /\ outcome[p] = "failed" => sent[p] = MaxAttempts

\* The answered prompts are those the observed attempts are the most of.
ObservedSoFar ==
  LET seen == {p \in Prompts : p < prompt \/ (p = prompt /\ (thread = "between" \/ answer = "ok"))}
  IN  /\ \A p \in seen : sent[p] <= observed
      /\ IF seen = {} THEN observed = 0 ELSE \E p \in seen : sent[p] = observed

-----------------------------------------------------------------------------
(* Properties                                                              *)

\* One extraction never has two requests to Ollama open, also around the
\* timeout of the thread, the cancellation of a coroutine and its retries.
OneOpenRequest ==
  \A p, q \in Prompts : request[p] = "open" /\ request[q] = "open" => p = q

\* attempts_per_field tells the truth: the attempts reported are the most
\* requests any prompt cost; and structured_output_failed comes only after
\* every attempt was used.
AttemptsTruthful ==
  /\ answer = "ok" =>
       /\ \A p \in Prompts : sent[p] <= observed
       /\ \E p \in Prompts : sent[p] = observed
  /\ answer = "failed" => sent[prompt] = MaxAttempts

IInv ==
  TypeOK /\ PromptsInOrder /\ ThreadKnows /\ AttemptsInStep /\ ObservedSoFar

\* A hung Ollama does not pin the worker thread (issue #152).
ThreadReleased == thread = "waiting" ~> thread \in {"between", "ended"}

\* When the thread has ended, the coroutine it gave up stops asking Ollama.
CoroutineStops == thread = "ended" ~> \A p \in Prompts : task[p] \in {"none", "done"}

\* service.py, issue #227: IntelligenceTimeoutError is raised "when a single
\* Ollama request exceeds its own per-request deadline"; so also for a prompt
\* that took a second request, when the two of them filled the wait.
TimeoutMeansSlowRequest ==
  [][answer' = "adapter_timeout" /\ answer # answer'
       /\ sent[prompt] = 2 /\ lasted[1] + lasted[2] = Timeout =>
     lasted[1] = Timeout \/ lasted[2] = Timeout]_vars

=============================================================================
