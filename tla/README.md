# A TLA+ model of the PDF data extraction service

The service (`apps/backend/app`, FastAPI on one asyncio event loop) takes a PDF
and the name of a skill, parses the PDF with Docling, has LangExtract and a
local Gemma model (Ollama) fill in the fields the skill declares, and returns
them with the places in the document they were found at, optionally with an
annotated PDF. Two parts of it are interesting: the way a few asyncio
primitives, thread locks, worker threads, timeouts and signals are made to hold
together, and the arithmetic of offsets and limits that decides what an answer
may claim.

The modules here model both, TLC checks them on small instances and TLAPS
proves the results that matter most for every value of the constants. Paths
below are relative to `src/apps/backend/app/` unless they start with `src/`.

## 1. The system

Components, the state they keep, what they do, what is hard, and what makes
them correct. "Module" says where they are modelled.

| component | state | operations | module |
|---|---|---|---|
| Admission (`features/extraction/service.py`, `extract`) | an `asyncio.Semaphore`, one `asyncio.timeout(0)` per request | admit, reject with 503, release | `Admission`, `AdmissionControl` |
| Pipeline (`service.py`, `_run_pipeline`; `docling_document_parser.py`; `extraction_engine.py`; `pdf_annotator.py`) | the task of the request, its budget, one job in the executor at a time | preflight, convert, extract, annotate; budget and caller cancellation | `ExtractionPipeline` |
| Generation (`_validating_langextract_adapter.py`, `ollama_gemma_provider.py`, `structured_output_validator.py`) | a future per prompt, the validator's attempt, the observed maximum | `infer`, `generate`, validate and retry, adapter timeout, cancellation | `Generation` |
| Readiness probe (`api/probe_cache.py`, `ollama_health_probe.py`, `health_router.py`) | last result and its time, an `asyncio.Lock` | `prime`, `is_ready` | `ProbeCache` |
| HTTP client (`OllamaGemmaProvider._get_http_client`) | the client, the loop it is bound to, a lock per loop | rebind on another loop, close the stale client | `HttpClient` |
| Application state (`api/deps.py`, `features/extraction/deps.py`, `main.py`) | the lazily created dependencies on `app.state`, one re-entrant thread lock per module of factories | create on first use, start-up, priming, clean-up | `AppState` |
| Upload limits and route (`upload_size_limit_middleware.py`, `features/extraction/router.py`) | bytes received so far | reject early by `Content-Length`, refuse other framings, read in chunks | `Requests` |
| Request ids, access log, errors (`api/request_id_middleware.py`, `access_log_middleware.py`, `middleware.py`, `errors.py`, `health_router.py`) | context variables, the id on the request | bind, log, unbind, turn an error into an envelope | `Requests` |
| Skills (`features/extraction/skills/`) | the manifest, fixed after start-up | load and validate every file, look up name and version | `Skills` |
| Parsing, coordinates, engine, annotation (`parsing/`, `coordinates/`, `_to_raw_extractions`, `pdf_annotator.py`) | none | items to blocks, blocks to one text, LangExtract's spans to fields and boxes, boxes to highlights | `Spans`, `SubBlockMatcher` |
| Task timeout wrapper (`src/infra/taskfile/with_timeout.py`) | a process group, signal handlers, the lock in `Popen` | run with a deadline, terminate, kill, forward a signal | `WithTimeout` |
| Settings (`core/config.py`) | none | validate the environment | their bounds are the assumptions on the constants |
| Log redaction (`core/logging.py`) | none | rewrite events | not modelled |
| Error generator, benchmark and skill scripts | none at run time | | not modelled |

How they interact. A request is a task of the event loop. It passes the upload
limits, resolves its dependencies, asks the semaphore, and then runs the
pipeline, which awaits threads of the loop's default executor. The LangExtract
thread calls back into the loop: it posts the coroutine `generate` with
`run_coroutine_threadsafe` and blocks on a `concurrent.futures.Future`.
`generate` talks to Ollama over one shared `httpx` client. The readiness
endpoint uses the same client through the probe.

What is hard.

* Admission relies on `asyncio.timeout(0)` around `Semaphore.acquire` being an
  atomic try-acquire. asyncio has no such operation; whether it is one follows
  from the order of callbacks in the ready queue, the semaphore's waiters and
  the interplay of two cancellations (the zero deadline's and the caller's).
* A worker thread cannot be stopped. The budget, the caller or a failure
  answers the request while the job goes on, or while it still stands in the
  executor's queue.
* Three timeouts are nested (the request to Ollama, the adapter's wait, the
  budget), raised as similar exceptions and reported as different errors.
* The adapter's thread takes three steps after its wait ran out (the exception,
  `done()`, `cancel()`), and the loop runs between them.
* The probe cache holds its lock across an await; its callers can be cancelled
  while they wait for the lock or while it is being handed to them.
* The HTTP client, the dependencies and the lifespan clean-up are shared by
  threads or by loops, with an unlocked fast path.
* Factories call each other inside their critical sections, and constructors
  may raise there.
* Two layers bound an upload, one before the body is parsed and one while the
  PDF is read; what they measure differs by the multipart envelope.
* LangExtract's spans are not trusted. Whether a field may say that it comes
  from the document depends on offsets at block ends and in separators.
* In the task wrapper, handlers run on top of an interrupted `Popen.wait`, which
  may hold its lock.

`PROJECT.json` lists these hazards one by one, each with its line.

## 2. The modules

### AdmissionControl and Admission

`AdmissionControl` is what `extract` promises: a request is admitted or refused
in one step when it asks, fewer than `MaxConcurrent` pipelines running is the
condition of an admission, and a refusal has a cause.

`Admission` is how the code does it. One action is one callback of the loop, so
that nothing else runs inside it.

| model | code |
|---|---|
| `pc` | where the coroutine `extract` is suspended |
| `fut` | the future its task awaits, `mustCancel` is `Task._must_cancel` |
| `deadline` | the state of `asyncio.timeout(0)` |
| `value`, `waiters` | `Semaphore._value`, `_waiters` |
| `ready` | the ready queue of the loop: task steps and the timer's `_on_timeout` |
| `AcquireNow`, `FailAtOnce`, `Suspend` | the first step of `extract`: the semaphore is free (and the skill exists or not), or it is locked |
| `DeadlineFires` | `Timeout._on_timeout`, which cancels the task |
| `Resume` | `acquire` goes on after its wait, `__aexit__`, the `except TimeoutError` |
| `Release` | the pipeline has ended; the `finally` |
| `CallerCancels` | `Task.cancel` from outside |

asyncio itself is not under `src/`. `Locked`, `FirstWaiters`, `WakeUps`,
`CancelTask`, `Raises` and `TimesOut` model CPython 3.13's
`Semaphore`, `Task.cancel` and `Timeout`, and are marked external. The refinement mapping
(`PhaseAt`) gives each request its `phase` by where its coroutine is: a
suspended request has already been refused.

### ExtractionPipeline

The admitted request, job by job. It uses the actions of `AdmissionControl` for
the permit, which `Admission` refines, so the event queue does not have to be
modelled twice. `at` is the job the task awaits, `future` the asyncio future of
that job, `job` and `pool` the executor's side of it, `llm` and `prompts` the
LangExtract thread. What a job computes is abstracted to how it ends: it
returns, raises a domain error, raises a built-in `TimeoutError`, or (only from
`generate`) raises `IntelligenceTimeoutError`.

Cancelling a task cancels its future. The callback that passes this on to the
executor's future (and takes a queued job out of the executor) stands in the
ready queue before the step of the task, so both are one action,
`ResumeCancelled`. `CancelledAnswer` is `Timeout.__aexit__`: only a
cancellation that is the budget's alone becomes `ExtractionBudgetExceededError`.

### Generation

One LangExtract thread and the coroutines it posts, with the validator's
retries. `fut` is the concurrent future of a prompt, `task` the coroutine,
`outcome` what it ended with before the done callback (`Settle`) passes it on.
`WaitTimesOut`, `CheckDone` and `GiveUp` are the thread's three steps after the
wait; `cancel` follows `future.cancel()` from the thread (`posted`) through
`call_soon_threadsafe` (`thrown`) to the coroutine. `waited` and `lasted` are
clocks in ticks that stop at `Timeout`, because nothing depends on how much
longer something took.

Simplifications: a failed `generate` is the end of the thread for LangExtract
(it raises); the server's shutdown, which cancels tasks of the loop from
outside, is left out. `ExtractionPipeline` treats a `generate` that the adapter
gave up as over, where `Generation` shows that the coroutine ends a few steps
of the loop later.

### ProbeCache

`is_ready` with its lock, any number of callers, each of which may call again
and may be cancelled at each of its awaits; `prime` is a call like the others
(it runs before the server accepts requests). `entry` and `age` are the cached
result and the time since it was stored, up to `TTL`. `waiters`, `fut`, `mutex`
and `mustCancel` are `asyncio.Lock` (external). `ollama` and `sinceUp`, which
the code does not have, say whether Ollama is ready now and how long ago it
was last; the probe's answer is what Ollama was when it answered.

### HttpClient

`_get_http_client` and `_aclose_stale_client` on several event loops. `mode`
says whether the loops run one after another, as `asyncio.run` scopes do, or in
parallel threads; it never changes. Calls on one loop interleave at awaits
(`executing` is the call a loop is in the middle of), calls on parallel loops
at every access to `http_client` and `_http_client_loop`, each of which is an
action. `touched` records on which loops a client was used and `maker` which loop
made the current one, neither of which the code knows. `submitted` is the `aclose` a call has put on the old loop, which may
stop before it runs it; a cancellation, of the call or by the timeout of its
wait, drops one that has not finished, as if it had never begun. `asyncio.Lock`
is a plain mutex; who gets it next is
left open.

Modelling shows that without threads the rebuild lock is never contended: the
new binding is in place before the first await of the rebuild, so later calls
on the loop take the fast path (`OneClientPerSwitch` rests on that order, not
on the lock as the docstring has it).

### AppState

Threads that resolve dependencies (the workers of FastAPI's thread pool, and the
loop during start-up) and the lifespan. `state` is `app.state`: for each
dependency the number of the instance it holds, 0 for none. `uses` is what an
instance was constructed with, `got` what a thread has resolved so far. A factory
is four steps, because threads interleave at each of them: the unlocked look
(`Check`), the lock (`Acquire`), the second look (`Recheck`), and construction
with the assignment (`Build`, or `BuildFails`). `outer` is the stack of factories
a thread is inside of; `frames` are the holds on the two re-entrant locks.
`Return` goes back to the calling factory, to the next dependency of the request
or to the request.

`Startup`, `InstallCache` and `Prime` are the lifespan before its `yield`,
`Shutdown` takes the snapshot of `_lifespan_cleanup`, and `CleanInert`,
`CloseProvider`, `CloseFails` and `CancelCleanup` go through it. `seeded` is the
test seam, a probe that is there before start-up. The server answers its requests
before it shuts the lifespan down, so no factory runs during the clean-up; the
snapshot is safe because of that, not because of a lock.

### Skills and Requests

`Skills` is start-up: the loader walks a directory file by file (`LoadFile` is
`Accept` or `Note`), collects problems and either serves everything or nothing.
`Validates` is what a file must satisfy, with `IsEmptyObjectSchema` translated
in full, because a schema without fields passes everything else. A file is a
record of what the loader tells apart.

`Requests` is a request in the stack of ASGI layers. `depth` is the layer it is
in and `way` says whether it goes in or out; each layer has an `Enter` and a
`Leave` action, the route has one action per chunk. `bound` is the structlog
context variable, `stateId` the id on `request.state`, `result` the response or
exception that travels outwards. `Leave` stands for layers that pass a result on.
The pipeline behind the route is one step that succeeds, fails or is cancelled.
The module composes `Skills`: no request is served unless the application is up.

Modelling showed three things no property states. CORS preflights are answered
outside the request-id layer, so they have no id and no log entry, although
`request_id_middleware.py` speaks of every request. A schema whose root is
`type: string` is refused only because examples are non-empty objects. An upload
that declares its length but not its framing unambiguously is refused before the
body is looked at.

### SubBlockMatcher and Spans

`SubBlockMatcher` is `locate` with its three attempts: as it is, with runs of
white space collapsed, and in NFKC. A text is a sequence of characters; the
alphabet has a ligature, a combining mark, a precomposed letter and three kinds
of space, and `IsSpace`, `IsMark`, `Compatible` and `NFKC` say what `unicodedata`
does with them.

`Spans` is everything between Docling's document and the response: preflight
errors and the page limit, which items become blocks and with which box
(`BoxOf` turns boxes measured from the top, and a box whose bottom lies above
its top is refused, `Inverted`), `Concatenate`, `LookupOffset`, the
engine's rows, the resolver, and the highlights. Its property
`GroundedOnTouchedItems` compares the resolver with a reference that knows
nothing of indexes and offsets: the joined text, with the item each of its
characters belongs to. `SpansAssumption` says what Docling and LangExtract hand over: items
with a text, on pages that were read, and extractions with any class, any text
and any interval of integers or none. `None` for a missing value is a text of
its own that LangExtract cannot report.

### WithTimeout

One variable, `stack`, is the Python stack of the wrapper: `_run_with_deadline`
at the bottom and a handler with its `_terminate_process_tree` on top for each
signal that came meanwhile. `Look`, `StillRuns`, `Reap` and `SetReturncode` are
`Popen.wait` and `poll` with the lock between them (external, CPython 3.13).
`proc` are the root process and its helpers; a helper may ignore SIGTERM
(`stubborn`) and may be forked at any time. `swept` says how far the group has
been signalled. `Popen` may raise, which ends the wrapper with a traceback.

Simplifications: `poll` is one step, so no signal falls inside it; SIGKILL takes
effect at once; `killpg` finds the group or not, and never fails with
`PermissionError`, which needs a member of another user.

The model shows that a signal which interrupts `wait` while it holds its lock
leaves `poll()` at `None`, so that both waits of the handler last their five
seconds although the process may have gone (`with_timeout.py:181-182` means to
exclude signalling a process that has ended). The wrapper ends all the same
(`WrapperEnds`).

### MC modules

`MCAdmission`, `MCPipeline`, `MCGeneration`, `MCHttpClient`, `MCAppState` and
`MCWithTimeout` only add what TLC needs: a stuttering step when everything is
answered, so that deadlock checking stays on for every other state. `MCRequests`
and `MCSpans` also define the inputs; there a behaviour is one computation and
stops, so deadlock checking is off.

## 3. The runs

| run | instance | states | what it shows |
|---|---|---|---|
| `admission` | 4 requests, cap 2 | 205,658 | permits are conserved; a request that had to wait is never admitted; a caller's cancellation is never reported as overload; every arrival is answered; `Admission` implements `AdmissionControl` |
| `pipeline` | 3 requests, cap 1, 2 threads, 1 prompt | 146,189 | a queued job belongs to a request that waits for it; the endings are told apart; one request has one job; a request is answered although threads hang |
| `generation` | 3 prompts, 2 retries, timeout 3 | 63,389 | one request to Ollama at a time; truthful attempt counts; a hung Ollama does not pin the thread; a coroutine that was given up ends |
| `probe_cache` | 3 callers, TTL 2, probe 1 tick | 14,528 | one probe at a time; waiters do not repeat a refresh; log events agree with the cache; a positive answer is at most TTL and one probe old; every call ends |
| `http_client` | 2 loops, 3 calls on one and 2 on the other; in threads also 3 loops, one call on each | 363,628 | loops in turn: no client is used on two loops, none leaks, none is thrown away by the loop that made it or used it; also in parallel: the client handed out is open, and a call comes back although the old loop stopped or the holder of the lock was cancelled |
| `app_state` | 2 workers and the loop, 2 start-ups, 3 requests | 202,146 | one instance per dependency; nobody holds objects of an earlier lifespan; no client leaks; nobody is stuck in a factory |
| `requests` | directories of up to 3 files, 2 requests, limit 4, allowance 2, chunks of 3 | 255,389 | one upload limit; ids and log entries stay with their request; a directory is served whole or not at all |
| `spans` | documents of up to 3 items of up to 2 characters with every span, and of one item of up to 3 characters with every value; 2 extractions | 1,406,738 | boxes are those of the text a span touches; the answer has the declared fields; the matcher locates what it was asked for |
| `with_timeout` | a root, 2 helpers, 2 signals | 734,439 | the wrapper ends, with the code of the last signal it handled; the command is over by then |
| `background`, `request_timeout`, `helper_survives` | the smallest that do | | findings, section 6 |

Why the bounds are enough. With 4 requests and a cap of 2, two pipelines can
run while one waiter has been handed a permit and another is still pending,
and a permit can be handed on by a waiter that cannot keep it. In the pipeline,
3 requests compete for 2 threads, so that a job can wait in the executor behind
two hung ones; a cap of 1 with a hung request behind it is what lets background
work pile up. In `Generation` a first, a middle and a last attempt and prompt
exist, and a timeout can fall on each of them; 3 ticks let one wait contain
three requests of different lengths. Three callers of the probe are one that
refreshes and two that wait, of which one can be cancelled while the lock is on
its way to it; a TTL of 2 lets an entry be fresh, ageing and expired. Two loops
with two calls each switch up to three times, back to a loop that was left
before, and have a call rebuild while another on its loop comes in; with a third
call on one of them, a call that has waited for the lock finds that the one
before it has bound the client. Two loops never rebuild at the same time as long
as there is no third: the client has to be bound away from both. `ThirdLoopApart`
adds one, with one call on each loop and no loop that stops, which keeps the
state space small; with everything else the third loop is left out.

Two workers and the loop meet in every factory, two start-ups have a clean-up
between them, and three requests let a dependency be asked for in both lifespans
and twice at once. Directories of two files have every pair of a good or odd
file, those of three an odd file between good ones. With a limit of 4 and PDFs
of 0 to 8 bytes, envelopes of 1 to 3, an allowance of 2 and chunks of 3, an
upload can meet, miss or exceed each threshold alone. Two requests in a row show
what one leaves bound for the next. Three items with texts of 0 to 2 characters
have every neighbourhood of separators (an item without text is dropped), on
two pages, and the intervals reach from -1 past the end of the longest text.
Values and texts of three characters have a ligature or a mark at the start, in
the middle and at the end, also a mark behind a ligature; the three alphabets
are not mixed. Two signals nest a handler in a handler, and two
helpers are one that dies and one that does not. Every
integer in the models is a counter with its bound in `TypeOK`.

Fairness. In `Admission`, the loop runs its callbacks and every pipeline ends
(because of its budget, which `ExtractionPipeline` shows). In
`ExtractionPipeline`, the loop resumes tasks and fires the budget's timer;
nothing is assumed of threads, Docling or Ollama. In `Generation`, the thread
and the loop are scheduled and time passes; nothing is assumed of Ollama. In
`ProbeCache`, the loop resumes tasks and a probe ends, by `httpx.Timeout`. In
`HttpClient`, a loop that runs resumes tasks and fires timers; loops may stop at
any time. In `AppState`, weakly: a thread that can go on does go on, and so do the
start-up and the clean-up (an `aclose` ends, if only by its timeouts). In `WithTimeout`, the wrapper is
scheduled, and its deadlines pass however often it has looked; nothing is
assumed of the command.

Each property has a mutant in its module (an operator whose comment says
"Mutant of"), a plausible bug of that code with which TLC finds the property
violated.

## 4. The proofs

| module | theorems | inductive invariant |
|---|---|---|
| `AdmissionProofs` | `TypeCorrect`, `PermitsConserved`, `CapNeverExceeded`, `WaitersRejected`, `CancellationNeverLost`, `ImplementsControl` | `TypeOK`, `PermitConservation`, `FreshTasks`, `DeadlineFirst`; for `CancellationNeverLost` also `CancellationKept`, for `ImplementsControl` also `WaitersWait` |
| `ExtractionPipelineProofs` | `PipelineTypes`, `NoJobForAnAnsweredRequest`, `EndingsAreTold`, `OneJobAtATime`, `PipelineIsAdmitted`, `PipelinesWithinCap` | `TypeOK`, `RunningMeansAwaiting`, `JobsMatchFutures`, `CancellationPending`, `QueuedOnce`, `QueuedJobsAreAwaited`, `EndingsToldApart`; for the last theorem `WithinCap` |
| `GenerationProofs` | `GenerationTypes`, `RequestsOneByOne`, `AttemptsReported` | `TypeOK`, `PromptsInOrder`, `ThreadKnows`, `AttemptsInStep`, `ObservedSoFar` |
| `ProbeCacheProofs` | `TypesKept`, `ProbesCoalesce`, `LogIsTruthful`, `AnswersAreRecent`, `NoThunderingHerd` | `TypeOK`, `OneRefresh`, `LockInv`, `EntryInv`, `EventsMatchCache`, `RecentInv`, `ReadyIsRecent` |
| `HttpClientProofs` | `HttpClientTypeOK`, `HandedOutIsOpen`, `ReusedSafely`, `NoneLeaks`, `SwitchOnce` | `Shape`, `StaleIsNotCurrent`, `OneAtATime`, `BoundWhileRunning`, `UsedWhereBound`, `CurrentStaysOpen`, `ReusableAcrossRuns`; for the types and the last two also `Accounting` (`MadeBySwaps`, `LocalsOK`, `SwitchAlone`, `BoundToMaker`, `HeldUntilClosed`) |
| `AppStateProofs` | `AppStateTypes`, `CreatedOnce`, `Undrifted`, `ClientsMatch` | `Types`, `Nested`, `Locked`, `Absent`, `Resolved`, `Phases`, `Versions`, `Wired`, `ClientsKnown` |
| `RequestsProofs` | about `Requests`: `UploadLimit`, `Correlation`, `ServedWhole`; about `Spans` and `SubBlockMatcher`: `SpansGrounded`, `SpansAnswer`, `SpansMatched`, `LocateInText` | `UploadInv` (what the body counter may hold in each layer), `Bound` (the context a layer has set), `Correlated` (the id each answer carries); `LoaderInv` for the skills; `SpansInv` (`Parsed`, `HasRows`, `HasFields`, `Assembled`, `FailedEarly`) for `Spans` |
| `WithTimeoutProofs` | `WrapperTypes`, `RootIsGone`, `SignalDecides` | `TypeOK`, `FrameOK` of every open call, `ChildInv`, `SweptInv`, `ReasonInv` |

They assume what the constants assume (finite sets, positive settings, as
`core/config.py` demands) and hold for every number of requests, callers,
prompts and retries, and for every cap, timeout and TTL. `Skills` assumes of
`Directories` (`DirectoriesAssumption`) only that its members are sequences of
files as the loader sees them.

`WaitersRejected` is the theorem behind the "atomic try-acquire" of
`service.py`. It rests on `DeadlineFirst`: the zero deadline of a waiter is
queued when the waiter suspends, so it stands in the ready queue before every
callback that could resume the waiter, also one a release adds later; when it
has fired, the task carries a cancellation it cannot lose. `FreshTasks` is what
keeps a step left over from before the suspension out of the queue. Permits are
counted over `Handed`, the permits of waiters that were woken and have not run.

`ImplementsControl` is the refinement: a step of the loop is a step of
`AdmissionControl` or none. An unlocked semaphore has a free permit, so by
`PermitConservation` there is room; a locked one has none, or somebody in its
deque, who waits by `WaitersWait` and so is being refused already; and a waiter
resumes only to be rejected, by the argument above.

`CancellationNeverLost` says that no order of deadline, wake-up and caller makes
the task swallow a cancellation. `CancellationKept` is why: from the moment the
caller cancels, either the future it waits for or `Task._must_cancel` holds the
cancellation, until the task has raised it. A permit that is handed on touches
only a pending future, and the zero deadline can only add a second cancellation,
which `timeout` does not take for its own alone.

In `ExtractionPipelineProofs`, `CancellationPending` says that a task that runs
has a cancellation to deliver exactly when the timer has fired or the caller has
cancelled. With it `CancelledAnswer` cannot be wrong about who it was
(`EndingsAreTold`). `JobsMatchFutures` follows a job through the executor: a
future that has a result has no job left, so the next one can be submitted
(`OneJobAtATime`), and a queued job has a task (`NoJobForAnAnsweredRequest`).

`PipelineIsAdmitted` closes the circle with `Admission`: the pipeline's steps are
steps of `AdmissionControl`, of which `Admission` is the other implementation, so
that what the pipeline takes for granted of the cap is what the semaphore gives.
The running pipelines stay within the cap (`PipelinesWithinCap`), unlike the
threads that ask Ollama (run `background`).

`RequestsOneByOne` needs `PromptsInOrder`: a prompt before the current one has
a settled future, hence a finished coroutine, hence no request; the one
exception, a future the thread cancelled, is the last prompt by `ThreadKnows`.
`AttemptsReported` needs that the validator's attempt and the number of
requests sent run in step.

`AnswersAreRecent` follows a positive answer from the moment Ollama gave it
(`RecentInv`): through the request (its `elapsed`), the entry and its `age`,
up to the caller. `NoThunderingHerd` holds because the
step that starts a probe is the one that looks at the entry under the lock, and
because of `OneRefresh`.

`HandedOutIsOpen` holds with parallel loops too, because a client that was
replaced never becomes current again (`StaleIsNotCurrent`). `ReusedSafely` needs
that all calls under way are on the one running loop and that the client is
bound to it from the stamp on (`BoundWhileRunning`), that only one call of it
is inside a synchronous piece of code (`OneAtATime`), and that the current
client was used where it is bound or nowhere (`UsedWhereBound`).

`NoneLeaks` follows a client that is replaced. Without threads nothing else
touches the provider between the recheck and the `Swap` (`SwitchAlone`), so the
client a call has taken as the old one is the one it replaces; from the `Swap` on
the call holds it (`HeldUntilClosed`) at places where nothing can cancel it: the
old loop does not run, so the call never awaits a close on that loop, and closes
here. That is where the argument uses loops in turn. `SwitchOnce` is the other
side: a call that swaps has found the client bound to another loop, and what its
own loop has used or made is bound to its own; for what it has made, from the
moment it has made it, because nobody else runs between `Swap` and `Rebind`
(`BoundToMaker`). The number of clients is at most the number of calls
that have a `Swap` behind them (`MadeBySwaps`), which is what bounds `made`.

`CreatedOnce` is the double-checked lock. A thread that has looked under the
lock and found nothing is the only one inside a factory of that lock (`Locked`),
so what it found absent stays absent until it stores it (`Absent`). That its
inner factories run meanwhile does no harm because the factories form a chain:
`Nested` says that the stack of a thread is a segment of it, above the dependency
it is resolving. `Undrifted` follows: an instance is constructed with what its
thread has resolved (`Resolved`), and nothing leaves `app.state` before the
clean-up, during which nobody resolves (`Phases`). `ClientsMatch` counts one
client per provider instance, by their numbers (`Versions`).

`UploadLimit` carries from layer to layer what is known of a request that got so
far (its framing, its declared length), and from chunk to chunk that the buffer
stands within the limit before each read. `Correlation` needs that the id is
fixed while the request is inside the request-id layer, that the log entry is
written between the layers, and that whatever envelope is on its way out was
made inside. `ServedWhole` is an invariant of the loader's loop (`LoaderInv`): each
file before `next` is loaded under its own key or noted, and what is loaded
validates. A file that collides would have to be loaded under a key that already
belongs to another; the highest version is then found among the keys themselves.

`RootIsGone` and `SignalDecides` are about a stack of interrupted calls, any number
deep. The invariant (`ReasonInv`) need not follow the calls below the running one,
since a termination ends the wrapper without returning to them: what decides is
the reason of the top frame, which is the last signal handled. `FrameOK` holds of
every frame: whoever is past its kill, or has found `returncode` set, has seen the
child end. `SweptInv` says whom the signals to the group have left.

The theorems about `Spans` hold for documents, texts, spans and lists of names of
any length. `SpansInv` is simple: blocks and index are those of the document,
rows those of the reports, fields those of the rows. What it needs to be
inductive is that every row is one that `RawExtraction` accepts (`RowFacts`), and
that the first row of a name is the row of any declaration of it (`InvResolve`).
The work is in the functions that the steps compute, and none of their lemmas
is an induction over data by the library: `AlongInterval` is induction along an
interval for a *set* of numbers, from the well-foundedness of <, and `Recursion`
shows with it that a function defined entry by entry exists. From there
`InOrderFacts`, `StartsUnfolds` and `FlattenUnfolds` say what the selections, the
offsets and the joined sequences of the model are.

`SpansGrounded` then compares two descriptions of the joined text. `Geometry` has
each block start two positions behind the end of the one before it (so that
`OffsetIndex.__post_init__`, which refuses entries that overlap, never does).
`OwnersFacts` says that the character at an offset belongs to the block whose
range covers it. Hence the binary search finds exactly that block (`LookupFacts`);
its retry at a block's end accepts exactly the ends in a separator before more
text when no other block was touched (`BoundaryFacts`); and the walk from the
first to the last block collects exactly the blocks of which the span has
characters, which leaves out those without text (`TouchedBetween`, `MultiBoxes`).
Ids are distinct because the second part of an id counts the blocks of its page
(`IdsDistinct`). `SpansAnswer` adds that a box flipped twice stands where its item
does (`DrawnStands`), and that what is drawn, in whatever order and however
often, is the set of the touched items (`TouchedMembers`, `AnnotateMembers`).

`LocateInText` is about the maps of positions. Each normal form gives every
character a position of the text, and the positions do not go back
(`NormalForm`): true of kept characters in order (`CollapsedForm`), of segments
joined in order, each with positions of its own (`NfkcForm`, `FlattenSorted`), and
of the two composed (`NfkcCollapsedForm`). So a match translates to a range that
neither ends before it starts nor leaves the text, as `CharRange` demands.
`SpansMatched` carries that to the fields. That the range is the *right* one
depends on what NFKC does to the characters, and is `LocatedTextMatches`.

Only model-checked: the liveness properties (`EveryArrivalAnswered`,
`AnsweredDespiteHungThreads`, `ThreadReleased`, `CoroutineStops`,
`EveryCallEnds`, `RebuildEnds`, `CreationEnds`, `WrapperEnds`), because liveness
and `ENABLED` are beyond TLAPS with the provers used, and `LocatedTextMatches`:
that the text found says the value is a statement about the normal form of a
part of a text, for which the letters at its edges have to be followed through
both forms and back, and it has exceptions. Every other property that a passing run checks is a theorem.

## 5. Not modelled

* What third-party code computes: Docling's conversion and the options it is
  given, PyMuPDF, LangExtract's prompting and alignment, JSON schema, YAML.
* `OllamaGemmaProvider.infer`, the plugin entry that LangExtract would use on
  its own; the service goes through the adapter. The cache of compiled JSON
  schemas, and how a reply is stripped of fences and parsed: `Generation` knows
  only whether a reply passes.
* The freezing of loaded skills, and the ways in which a YAML text fails to
  parse, which are one defect in `Skills`.
* Geometry beyond the vertical flip: x coordinates (and that a box with its sides
  exchanged is refused), and glyphs within a block.
  A page number that Docling reports and does not have (`KeyError`).
* The bytes of the multipart answer, the table from error class to status, the
  Windows branch of `with_timeout.py`.
* Settings and the dotenv filter, log redaction: stateless; the settings' bounds
  are the assumptions on the constants. The error generator, the benchmark and
  the skill script have no state at run time.

## 6. Findings

1. `background`: the permit is returned with the answer while the LangExtract
   thread goes on asking Ollama, so the semaphore does not bound background
   work on Ollama as `service.py:19-22` says.
2. `request_timeout`: `ollama_timeout_seconds` also bounds all the retries of a
   prompt together, so `IntelligenceTimeoutError` can come without any slow
   request, unlike `service.py:318-322` says.
3. `helper_survives`: `with_timeout.py` sends SIGKILL only if the root process
   survives the grace time. A helper that ignores SIGTERM, or that is forked
   after it, outlives the wrapper, unlike lines 16-17 and 84-87 say.

Three smaller ones, which the models contain and no run refutes:

* A request can be refused as overloaded while no pipeline runs: a waiter that
  has been handed a permit and is about to be rejected keeps
  `Semaphore.locked()` true for a turn or two of the loop
  (`service.py:115-117`; `Locked` in `Admission`). 503 is retryable.
* With event loops in parallel threads `_get_http_client` may return a client
  of another loop (`ReusableAcrossRuns` is stated for loops in turn). The
  application runs one loop.
* `_nfkc_with_map` maps a letter with marks of which only some are composed one
  position short. And it maps the second letter of a ligature that has a mark to
  the position of the mark: in `ﬁ` + U+0301 the `i` is found one position behind
  the ligature, where `sub_block_matcher.py:144-146` says that all characters of
  an expanding codepoint "map back to that same source index"
  (`LocatedTextMatches` exempts both). The range is discarded by
  `_tight_sub_block_bbox`, so nothing shows it today.

## 7. What is left

Worth adding next, in this order: the provider's `infer` with its own client and
loop per call, beside `HttpClient`; the clean-up and parsing of replies, as
operators on tokens; the redaction filter, as a recursive operator on small
events. To prove: an abstract specification of the readiness cache (one answer
with an age) that `ProbeCache` implements, and one of lazy creation for
`AppState`.
