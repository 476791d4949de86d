------------------------------ MODULE ProbeCache ------------------------------
(***************************************************************************)
(* The cached readiness probe behind GET /ready: ProbeCache.is_ready       *)
(* (api/probe_cache.py).  An answer younger than the TTL is returned at    *)
(* once; otherwise the caller takes an asyncio.Lock, looks again, and asks *)
(* Ollama.  Whoever waits for the lock or for Ollama may be cancelled.     *)
(*                                                                         *)
(* Time passes in ticks.  A stretch of code between two awaits takes none. *)
(***************************************************************************)
EXTENDS Integers, SequencesExt

CONSTANTS
  Callers,    \* the tasks that serve GET /ready
  TTL,        \* Settings.ollama_probe_ttl_seconds, in ticks
  MaxProbe    \* bound: the ticks OllamaHealthProbe.check lasts

\* core/config.py: Field(ge=0) for the TTL.
ASSUME ProbeAssumption == TTL \in Nat /\ MaxProbe \in Nat

VARIABLES
  entry,      \* _last_result, or "never" until _has_previous_result
  age,        \* ticks since _last_check_time, up to TTL
  mutex,      \* Lock._locked: "free" or "held"
  waiters,    \* Lock._waiters, as the callers whose futures it holds
  pc,         \* where each caller is in is_ready
  fut,        \* the future a caller waits for in Lock.acquire
  mustCancel, \* Task._must_cancel
  previous,   \* the entry as a refresh found it (previous, had_previous)
  probe,      \* what a caller's request to Ollama has seen
  elapsed,    \* how long that request has lasted
  reply,      \* what is_ready returned in the last step, if it did
  lastEvent,  \* the last of the two transition events in the log
  ollama,     \* "up" while it answers and has the model
  sinceUp     \* ticks since it last did, up to MaxProbe + TTL + 1

cache == <<entry, age, lastEvent>>
lock == <<mutex, waiters, fut>>
world == <<ollama, sinceUp>>
vars == <<cache, lock, pc, mustCancel, previous, probe, elapsed, reply, world>>

Results == {"yes", "no"}

TypeOK ==
  /\ entry \in Results \cup {"never"} /\ age \in 0..TTL
  /\ lastEvent \in {"none", "recovered", "unreachable"}
  /\ mutex \in {"free", "held"} /\ waiters \in Seq(Callers)
  /\ fut \in [Callers -> {"none", "pending", "done", "cancelled"}]
  /\ pc \in [Callers -> {"idle", "waiting", "probing"}]
  /\ mustCancel \in [Callers -> BOOLEAN]
  /\ previous \in [Callers -> Results \cup {"never", "none"}]
  /\ probe \in [Callers -> Results \cup {"none", "asked"}]
  /\ elapsed \in [Callers -> 0..MaxProbe]
  /\ reply \in Results \cup {"none"}
  /\ ollama \in {"up", "down"} /\ sinceUp \in 0..(MaxProbe + TTL + 1)

-----------------------------------------------------------------------------
(* asyncio.Lock and the cache entry                                        *)

\* Mutant of LockAvailable: asyncio.Lock taken without waiting.
LockIgnored == TRUE

\* Lock.acquire returns without suspending.
LockAvailable == mutex = "free" /\ \A i \in DOMAIN waiters : fut[waiters[i]] = "cancelled"

\* Lock._wake_up_first: the first waiter's future is done, if it was pending.
Woken(queue, futures) ==
  IF queue # <<>> /\ futures[Head(queue)] = "pending"
  THEN [futures EXCEPT ![Head(queue)] = "done"] ELSE futures

\* Mutant of Fresh: an entry never expires.
FreshForGood == entry # "never"

Fresh == entry # "never" /\ age < TTL

Return(c, what) ==
  /\ pc' = [pc EXCEPT ![c] = "idle"]
  /\ reply' = what

Silent == reply' = "none"

\* The refresh remembers the entry and asks Ollama.
Refresh(c) ==
  /\ pc' = [pc EXCEPT ![c] = "probing"]
  /\ previous' = [previous EXCEPT ![c] = entry]
  /\ probe' = [probe EXCEPT ![c] = "asked"]
  /\ mutex' = "held"

\* A refresh ends.
EndRefresh(c) ==
  /\ mutex' = "free"
  /\ fut' = Woken(waiters, fut)
  /\ previous' = [previous EXCEPT ![c] = "none"]
  /\ probe' = [probe EXCEPT ![c] = "none"]
  /\ elapsed' = [elapsed EXCEPT ![c] = 0]

\* A caller leaves the lock's queue.
Dequeue(c) ==
  \E i \in DOMAIN waiters :
    /\ waiters[i] = c
    /\ waiters' = RemoveAt(waiters, i)
    /\ fut' = [fut EXCEPT ![c] = "none"]

-----------------------------------------------------------------------------

\* The lifespan primes the cache with its own probe before the first request;
\* without a lifespan the cache starts empty.
Init ==
  /\ entry \in Results \cup {"never"}
  /\ age = 0 /\ lastEvent = "none"
  /\ mutex = "free" /\ waiters = <<>>
  /\ fut = [c \in Callers |-> "none"]
  /\ pc = [c \in Callers |-> "idle"]
  /\ mustCancel = [c \in Callers |-> FALSE]
  /\ previous = [c \in Callers |-> "none"]
  /\ probe = [c \in Callers |-> "none"]
  /\ elapsed = [c \in Callers |-> 0]
  /\ reply = "none"
  /\ ollama \in {"up", "down"} /\ sinceUp \in 0..MaxProbe /\ (ollama = "up" => sinceUp = 0)

\* A call that needs no await.
AnswerAtOnce(c) ==
  /\ pc[c] = "idle" /\ Fresh
  /\ Return(c, entry)
  /\ UNCHANGED <<cache, lock, mustCancel, previous, probe, elapsed, world>>

\* A call that finds the entry expired and the lock free.
RefreshAtOnce(c) ==
  /\ pc[c] = "idle" /\ ~Fresh /\ LockAvailable
  /\ Refresh(c)
  /\ Silent
  /\ UNCHANGED <<cache, waiters, fut, mustCancel, elapsed, world>>

\* A call that finds the entry expired and the lock taken.
Wait(c) ==
  /\ pc[c] = "idle" /\ ~Fresh /\ ~LockAvailable
  /\ pc' = [pc EXCEPT ![c] = "waiting"]
  /\ fut' = [fut EXCEPT ![c] = "pending"]
  /\ waiters' = Append(waiters, c)
  /\ Silent
  /\ UNCHANGED <<cache, mutex, mustCancel, previous, probe, elapsed, world>>

\* A waiter gets the lock, finds the entry refreshed and releases the lock.
WaiterAnswers(c) ==
  /\ pc[c] = "waiting" /\ fut[c] = "done" /\ ~mustCancel[c] /\ Fresh
  /\ Return(c, entry)
  /\ \E i \in DOMAIN waiters :
       /\ waiters[i] = c
       /\ waiters' = RemoveAt(waiters, i)
       /\ fut' = Woken(waiters', [fut EXCEPT ![c] = "none"])
  /\ mutex' = "free"
  /\ UNCHANGED <<cache, mustCancel, previous, probe, elapsed, world>>

\* Mutant of WaiterRefreshes: no second look at the entry.
WaiterRefreshesAnyway(c) ==
  /\ pc[c] = "waiting" /\ fut[c] = "done" /\ ~mustCancel[c]
  /\ Refresh(c) /\ Dequeue(c)
  /\ Silent
  /\ UNCHANGED <<cache, mustCancel, elapsed, world>>

\* A waiter gets the lock and finds the entry expired still (the refresh was
\* cancelled), or again.
WaiterRefreshes(c) ==
  /\ pc[c] = "waiting" /\ fut[c] = "done" /\ ~mustCancel[c] /\ ~Fresh
  /\ Refresh(c) /\ Dequeue(c)
  /\ Silent
  /\ UNCHANGED <<cache, mustCancel, elapsed, world>>

\* A waiter resumes with CancelledError.  It may be the one the lock was
\* handed to: with the lock free, acquire wakes the next.
WaiterLeaves(c) ==
  /\ pc[c] = "waiting" /\ (fut[c] = "cancelled" \/ mustCancel[c])
  /\ Return(c, "none")
  /\ mustCancel' = [mustCancel EXCEPT ![c] = FALSE]
  /\ \E i \in DOMAIN waiters :
       /\ waiters[i] = c
       /\ waiters' = RemoveAt(waiters, i)
       /\ LET left == [fut EXCEPT ![c] = "none"]
          IN  fut' = IF mutex = "held" THEN left ELSE Woken(waiters', left)
  /\ UNCHANGED <<cache, mutex, previous, probe, elapsed, world>>

\* Ollama answers, or the request fails; the caller has not resumed yet.
OllamaAnswers(c) ==
  /\ probe[c] = "asked"
  /\ \E seen \in {"no"} \cup (IF ollama = "up" THEN {"yes"} ELSE {}) :
       probe' = [probe EXCEPT ![c] = seen]
  /\ Silent
  /\ UNCHANGED <<cache, lock, pc, mustCancel, previous, elapsed, world>>

\* Mutant of EventOf: degradations are not logged.
RecoveryOf(c, result) ==
  IF previous[c] = "no" /\ result = "yes" THEN "recovered" ELSE lastEvent

\* The transition event of a refresh, or the one logged before.
EventOf(c, result) ==
  IF previous[c] \in Results \ {result}
  THEN (IF result = "yes" THEN "recovered" ELSE "unreachable") ELSE lastEvent

\* The refresh stores its result, logs a transition and releases the lock.
Refreshed(c) ==
  /\ pc[c] = "probing" /\ probe[c] \in Results
  /\ entry' = probe[c]
  /\ age' = 0
  /\ lastEvent' = EventOf(c, probe[c])
  /\ Return(c, probe[c])
  /\ EndRefresh(c)
  /\ UNCHANGED <<waiters, mustCancel, world>>

\* A caller is cancelled while it waits for the lock.
CancelWaiter(c) ==
  /\ pc[c] = "waiting" /\ fut[c] # "cancelled" /\ ~mustCancel[c]
  /\ IF fut[c] = "pending"
     THEN fut' = [fut EXCEPT ![c] = "cancelled"] /\ UNCHANGED mustCancel
     ELSE mustCancel' = [mustCancel EXCEPT ![c] = TRUE] /\ UNCHANGED fut
  /\ Silent
  /\ UNCHANGED <<cache, mutex, waiters, pc, previous, probe, elapsed, world>>

\* Mutant of CancelRefresh: the lock is not released in a finally.
CancelRefreshLocked(c) ==
  /\ pc[c] = "probing"
  /\ Return(c, "none")
  /\ probe' = [probe EXCEPT ![c] = "none"]
  /\ UNCHANGED <<cache, lock, mustCancel, previous, elapsed, world>>

\* Mutant of CancelRefresh: the result is stored in a finally, there or not.
CancelRefreshStores(c) ==
  /\ pc[c] = "probing"
  /\ entry' = probe[c]
  /\ Return(c, "none")
  /\ EndRefresh(c)
  /\ UNCHANGED <<age, lastEvent, waiters, mustCancel, world>>

\* A caller is cancelled while it waits for Ollama: `except Exception` does not
\* catch CancelledError, so the entry stays as it is; the lock is released.
CancelRefresh(c) ==
  /\ pc[c] = "probing"
  /\ Return(c, "none")
  /\ EndRefresh(c)
  /\ UNCHANGED <<cache, waiters, mustCancel, world>>

\* Time passes, but no request to Ollama outlasts MaxProbe.
Tick ==
  /\ \A c \in Callers : pc[c] = "probing" => elapsed[c] < MaxProbe
  /\ elapsed' = [c \in Callers |-> IF pc[c] = "probing" THEN elapsed[c] + 1 ELSE elapsed[c]]
  /\ age' = IF age < TTL THEN age + 1 ELSE age
  /\ sinceUp' = IF ollama = "up" \/ sinceUp > MaxProbe + TTL THEN sinceUp ELSE sinceUp + 1
  /\ Silent
  /\ UNCHANGED <<entry, lastEvent, lock, pc, mustCancel, previous, probe, ollama>>

OllamaChanges ==
  /\ ollama' \in {"up", "down"} \ {ollama}
  /\ sinceUp' = IF ollama = "up" THEN sinceUp ELSE 0
  /\ Silent
  /\ UNCHANGED <<cache, lock, pc, mustCancel, previous, probe, elapsed>>

Resume(c) == WaiterAnswers(c) \/ WaiterRefreshes(c) \/ WaiterLeaves(c) \/ Refreshed(c)

Next ==
  \/ \E c \in Callers :
       \/ AnswerAtOnce(c) \/ RefreshAtOnce(c) \/ Wait(c) \/ Resume(c)
       \/ OllamaAnswers(c) \/ CancelWaiter(c) \/ CancelRefresh(c)
  \/ Tick \/ OllamaChanges

\* The loop resumes whoever can go on, and a request to Ollama ends
\* (httpx.Timeout, Settings.ollama_probe_timeout_seconds).
Fairness == \A c \in Callers : WF_vars(Resume(c)) /\ WF_vars(OllamaAnswers(c))

Spec == Init /\ [][Next]_vars /\ Fairness

-----------------------------------------------------------------------------
(* The parts of the inductive invariant of ProbeCacheProofs                *)

\* Whoever asks Ollama holds the lock, and a lock being handed over is free and
\* goes to the head of the queue.
LockInv ==
  /\ \A c \in Callers : pc[c] = "probing" => mutex = "held"
  /\ \A c \in Callers : pc[c] = "waiting" /\ fut[c] = "done" =>
       mutex = "free" /\ waiters # <<>> /\ Head(waiters) = c

\* Nobody changes the entry between a refresh's two looks at it.
EntryInv ==
  /\ \A c \in Callers : pc[c] = "probing" =>
       previous[c] = entry
  /\ entry = "never" => lastEvent = "none"

\* How long ago Ollama can have been ready, for a request and for the entry.
RecentInv ==
  /\ ollama = "up" => sinceUp = 0
  /\ \A c \in Callers : pc[c] = "probing" /\ probe[c] = "yes" => sinceUp <= elapsed[c]
  /\ Fresh /\ entry = "yes" => sinceUp <= MaxProbe + age

-----------------------------------------------------------------------------
(* Properties                                                              *)

\* Concurrent calls coalesce: no two requests to Ollama are ever under way, also
\* when callers are cancelled while the lock is being handed to them.
OneRefresh == \A c, d \in Callers : pc[c] = "probing" /\ pc[d] = "probing" => c = d

\* No thundering herd: whoever waited for a refresh that stored a result asks
\* Ollama only when that result has expired in the meantime.
RefreshOnlyWhenExpired ==
  [][\A c \in Callers : pc[c] # "probing" /\ pc'[c] = "probing" => ~Fresh /\ OneRefresh']_vars

\* What operators read in the log is what the cache says: a refresh that another
\* refresh overtook would log a transition that was none, or miss one.
EventsMatchCache ==
  /\ lastEvent = "recovered" => entry = "yes"
  /\ lastEvent = "unreachable" => entry = "no"

\* A positive answer is never older than the TTL and one probe: Ollama was ready
\* that long ago at most, however the caller came by the answer.
ReadyIsRecent ==
  reply = "yes" => sinceUp < MaxProbe + TTL \/ sinceUp <= MaxProbe

\* What TLAPS proves inductive.
IInv ==
  TypeOK /\ OneRefresh /\ LockInv /\ EntryInv /\ EventsMatchCache /\ RecentInv /\ ReadyIsRecent

\* Every call that waits is answered or cancelled: the lock is never lost with a
\* caller that was cancelled.
EveryCallEnds == \A c \in Callers : pc[c] # "idle" ~> pc[c] = "idle"

=============================================================================
