--------------------------- MODULE ProbeCacheProofs ---------------------------
(***************************************************************************)
(* Theorems about ProbeCache, for every set of callers, TTL and length of  *)
(* a probe.                                                                *)
(***************************************************************************)
EXTENDS ProbeCache, TLAPS

(***************************************************************************)
(* Waking the first waiter changes no future but that one, and that one    *)
(* only from pending to done.                                              *)
(***************************************************************************)
LEMMA WokenFacts ==
  ASSUME NEW queue \in Seq(Callers),
         NEW futures \in [Callers -> {"none", "pending", "done", "cancelled"}]
  PROVE  /\ Woken(queue, futures) \in [Callers -> {"none", "pending", "done", "cancelled"}]
         /\ \A c \in Callers :
              \/ Woken(queue, futures)[c] = futures[c]
              \/ queue # <<>> /\ Head(queue) = c
BY DEF Woken

(***************************************************************************)
(* A caller that leaves the lock's queue leaves a queue of callers, and    *)
(* the head in its place unless it was the head itself.                    *)
(***************************************************************************)
LEMMA Removed ==
  ASSUME NEW queue \in Seq(Callers), NEW i \in DOMAIN queue
  PROVE  /\ RemoveAt(queue, i) \in Seq(Callers)
         /\ Head(queue) # queue[i] =>
              RemoveAt(queue, i) # <<>> /\ Head(RemoveAt(queue, i)) = Head(queue)
<1>1. i \in 1..Len(queue) /\ queue[i] \in Callers /\ Head(queue) = queue[1]
  OBVIOUS
<1>2. SubSeq(queue, 1, i - 1) \in Seq(Callers) /\ SubSeq(queue, i + 1, Len(queue)) \in Seq(Callers)
  BY <1>1
<1>3. RemoveAt(queue, i) \in Seq(Callers)
  BY <1>2 DEF RemoveAt
<1>4. ASSUME Head(queue) # queue[i]
      PROVE  RemoveAt(queue, i) # <<>> /\ Head(RemoveAt(queue, i)) = Head(queue)
  <2>1. i > 1
    BY <1>1, <1>4
  <2>2. Len(SubSeq(queue, 1, i - 1)) = i - 1 /\ SubSeq(queue, 1, i - 1)[1] = queue[1]
    BY <1>1, <2>1
  <2>3. Len(RemoveAt(queue, i)) >= 1 /\ RemoveAt(queue, i)[1] = queue[1]
    BY <1>1, <1>2, <2>1, <2>2 DEF RemoveAt
  <2>4. QED BY <1>1, <1>3, <2>3
<1>5. QED BY <1>3, <1>4

(***************************************************************************)
(* The invariant holds of a cache that is empty or has just been primed.   *)
(***************************************************************************)
THEOREM ProbeCacheInit == Init => IInv
<1> SUFFICES ASSUME Init PROVE IInv
  OBVIOUS
<1>1. /\ fut \in [Callers -> {"none", "pending", "done", "cancelled"}]
      /\ pc \in [Callers -> {"idle", "waiting", "probing"}]
      /\ mustCancel \in [Callers -> BOOLEAN]
      /\ previous \in [Callers -> Results \cup {"never", "none"}]
      /\ probe \in [Callers -> Results \cup {"none", "asked"}]
  BY DEF Init
<1>2. elapsed \in [Callers -> 0..MaxProbe] /\ sinceUp \in 0..(MaxProbe + TTL + 1) /\ age \in 0..TTL
  BY ProbeAssumption DEF Init
<1>3. TypeOK
  BY <1>1, <1>2 DEF Init, TypeOK
<1>4. OneRefresh /\ LockInv /\ EntryInv
  BY DEF Init, OneRefresh, LockInv, EntryInv
<1>5. EventsMatchCache /\ ReadyIsRecent
  BY DEF Init, EventsMatchCache, ReadyIsRecent
<1>6. RecentInv
  BY ProbeAssumption DEF Init, RecentInv, Fresh
<1>7. QED BY <1>3, <1>4, <1>5, <1>6 DEF IInv

(***************************************************************************)
(* Every step keeps the types.                                             *)
(***************************************************************************)
LEMMA TypeStep ==
  ASSUME IInv, [Next]_vars
  PROVE  TypeOK'
<1> USE ProbeAssumption DEF IInv
<1>1. CASE UNCHANGED vars
  BY <1>1 DEF vars, cache, lock, world, TypeOK, Results
<1>2. CASE Tick \/ OllamaChanges
  BY <1>2 DEF Tick, OllamaChanges, Silent, vars, cache, lock, world, TypeOK, Results
<1>3. ASSUME NEW c \in Callers, AnswerAtOnce(c) \/ OllamaAnswers(c) \/ CancelWaiter(c)
      PROVE  TypeOK'
  <2>1. CASE AnswerAtOnce(c)
    BY <2>1 DEF AnswerAtOnce, Fresh, Return, cache, lock, world, TypeOK, Results
  <2>2. CASE OllamaAnswers(c)
    BY <2>2 DEF OllamaAnswers, Silent, cache, lock, world, TypeOK, Results
  <2>3. CASE CancelWaiter(c)
    BY <2>3 DEF CancelWaiter, Silent, cache, world, TypeOK, Results
  <2>4. QED BY <1>3, <2>1, <2>2, <2>3
<1>4. ASSUME NEW c \in Callers, RefreshAtOnce(c) \/ Wait(c)
      PROVE  TypeOK'
  <2>1. CASE RefreshAtOnce(c)
    BY <2>1 DEF RefreshAtOnce, Refresh, Silent, cache, world, TypeOK, Results
  <2>2. CASE Wait(c)
    <3>1. waiters' \in Seq(Callers)
      BY <2>2 DEF Wait, TypeOK
    <3>2. QED BY <2>2, <3>1 DEF Wait, Silent, cache, world, TypeOK, Results
  <2>3. QED BY <1>4, <2>1, <2>2
<1>5. ASSUME NEW c \in Callers, Refreshed(c) \/ CancelRefresh(c)
      PROVE  TypeOK'
  <2>1. fut' \in [Callers -> {"none", "pending", "done", "cancelled"}]
    <3>1. fut' = Woken(waiters, fut)
      BY <1>5 DEF Refreshed, CancelRefresh, EndRefresh
    <3>2. QED BY <3>1, WokenFacts DEF TypeOK
  <2>2. CASE Refreshed(c)
    <3>1. lastEvent' \in {"none", "recovered", "unreachable"}
      BY <2>2 DEF Refreshed, EventOf, TypeOK
    <3>2. QED BY <2>1, <2>2, <3>1 DEF Refreshed, EndRefresh, Return, world, TypeOK, Results
  <2>3. CASE CancelRefresh(c)
    BY <2>1, <2>3 DEF CancelRefresh, EndRefresh, Return, cache, world, TypeOK, Results
  <2>4. QED BY <1>5, <2>2, <2>3
<1>6. ASSUME NEW c \in Callers, WaiterAnswers(c) \/ WaiterLeaves(c) \/ WaiterRefreshes(c)
      PROVE  TypeOK'
  <2>1. waiters' \in Seq(Callers)
    BY <1>6, Removed DEF WaiterAnswers, WaiterLeaves, WaiterRefreshes, Dequeue, TypeOK
  <2>2. PICK left \in [Callers -> {"none", "pending", "done", "cancelled"}] :
          fut' = left \/ fut' = Woken(waiters', left)
    <3>1. [fut EXCEPT ![c] = "none"] \in [Callers -> {"none", "pending", "done", "cancelled"}]
      BY DEF TypeOK
    <3>2. \/ fut' = [fut EXCEPT ![c] = "none"]
          \/ fut' = Woken(waiters', [fut EXCEPT ![c] = "none"])
      BY <1>6 DEF WaiterAnswers, WaiterLeaves, WaiterRefreshes, Dequeue
    <3>3. QED BY <3>1, <3>2
  <2>3. fut' \in [Callers -> {"none", "pending", "done", "cancelled"}]
    BY <2>1, <2>2, WokenFacts
  <2>4. CASE WaiterAnswers(c)
    BY <2>1, <2>3, <2>4 DEF WaiterAnswers, Fresh, Return, cache, world, TypeOK, Results
  <2>5. CASE WaiterLeaves(c)
    BY <2>1, <2>3, <2>5 DEF WaiterLeaves, Return, cache, world, TypeOK, Results
  <2>6. CASE WaiterRefreshes(c)
    BY <2>1, <2>3, <2>6 DEF WaiterRefreshes, Refresh, Silent, cache, world, TypeOK, Results
  <2>7. QED BY <1>6, <2>4, <2>5, <2>6
<1>7. QED
  BY <1>1, <1>2, <1>3, <1>4, <1>5, <1>6 DEF Next, Resume

(***************************************************************************)
(* The lock excludes: it is handed to one waiter at a time, while nobody   *)
(* holds it and nobody can take it past that waiter.                       *)
(***************************************************************************)
LEMMA LockStep ==
  ASSUME IInv, [Next]_vars
  PROVE  OneRefresh' /\ LockInv'
<1> USE DEF IInv, OneRefresh, LockInv
<1>1. CASE UNCHANGED vars
  BY <1>1 DEF vars, lock
<1>2. CASE Tick \/ OllamaChanges
  BY <1>2 DEF Tick, OllamaChanges, lock
<1>3. ASSUME NEW c \in Callers, AnswerAtOnce(c) \/ OllamaAnswers(c) \/ CancelWaiter(c)
      PROVE  OneRefresh' /\ LockInv'
  BY <1>3 DEF AnswerAtOnce, OllamaAnswers, CancelWaiter, Return, lock, TypeOK, Results
<1>4. ASSUME NEW c \in Callers, RefreshAtOnce(c)
      PROVE  OneRefresh' /\ LockInv'
  <2>1. \A d \in Callers : pc[d] # "probing"
    BY <1>4 DEF RefreshAtOnce, LockAvailable
  <2>2. \A d \in Callers : ~ (pc[d] = "waiting" /\ fut[d] = "done")
    BY <1>4 DEF RefreshAtOnce, LockAvailable, TypeOK, Results
  <2>3. QED BY <1>4, <2>1, <2>2 DEF RefreshAtOnce, Refresh, TypeOK, Results
<1>5. ASSUME NEW c \in Callers, Wait(c)
      PROVE  OneRefresh' /\ LockInv'
  <2>1. waiters # <<>> => waiters' # <<>> /\ Head(waiters') = Head(waiters)
    <3>1. waiters' = Append(waiters, c) /\ waiters \in Seq(Callers)
      BY <1>5 DEF Wait, TypeOK
    <3>2. Len(waiters') = Len(waiters) + 1 /\ Len(waiters) \in Nat
      BY <3>1
    <3>3. \A i \in 1..Len(waiters) : waiters'[i] = waiters[i]
      BY <3>1
    <3>4. QED BY <3>1, <3>2, <3>3
  <2>2. QED BY <1>5, <2>1 DEF Wait, TypeOK, Results
<1>6. ASSUME NEW c \in Callers, Refreshed(c) \/ CancelRefresh(c)
      PROVE  OneRefresh' /\ LockInv'
  <2>1. fut' = Woken(waiters, fut)
    BY <1>6 DEF Refreshed, CancelRefresh, EndRefresh
  <2>2. \A d \in Callers : fut'[d] = fut[d] \/ (waiters # <<>> /\ Head(waiters) = d)
    BY <2>1 DEF Woken, TypeOK
  <2>3. /\ pc[c] = "probing" /\ pc' = [pc EXCEPT ![c] = "idle"]
        /\ mutex' = "free" /\ waiters' = waiters
    BY <1>6 DEF Refreshed, CancelRefresh, EndRefresh, Return
  <2>4. \A d \in Callers : ~ (pc[d] = "waiting" /\ fut[d] = "done")
    BY <2>3
  <2>5. QED BY <2>2, <2>3, <2>4 DEF TypeOK
<1>7. ASSUME NEW c \in Callers, WaiterRefreshes(c)
      PROVE  OneRefresh' /\ LockInv'
  <2>1. fut' = [fut EXCEPT ![c] = "none"] /\ pc' = [pc EXCEPT ![c] = "probing"] /\ mutex' = "held"
    BY <1>7 DEF WaiterRefreshes, Refresh, Dequeue
  <2>2. \A d \in Callers : pc[d] = "waiting" /\ fut[d] = "done" => d = c
    BY <1>7 DEF WaiterRefreshes
  <2>3. QED BY <1>7, <2>1, <2>2 DEF WaiterRefreshes, TypeOK, Results
<1>8. ASSUME NEW c \in Callers, WaiterAnswers(c) \/ WaiterLeaves(c)
      PROVE  OneRefresh' /\ LockInv'
  <2>1. PICK i \in DOMAIN waiters : waiters[i] = c /\ waiters' = RemoveAt(waiters, i)
    BY <1>8 DEF WaiterAnswers, WaiterLeaves
  <2>2. /\ waiters' \in Seq(Callers)
        /\ Head(waiters) # c => waiters' # <<>> /\ Head(waiters') = Head(waiters)
    BY <2>1, Removed DEF TypeOK, Results
  <2>3. [fut EXCEPT ![c] = "none"] \in [Callers -> {"none", "pending", "done", "cancelled"}]
    BY DEF TypeOK, Results
  <2>4. \A d \in Callers \ {c} :
          fut'[d] = fut[d] \/ (mutex = "free" /\ waiters' # <<>> /\ Head(waiters') = d)
    <3>1. \A d \in Callers \ {c} : [fut EXCEPT ![c] = "none"][d] = fut[d]
      BY DEF TypeOK
    <3>2. \A d \in Callers \ {c} :
            \/ Woken(waiters', [fut EXCEPT ![c] = "none"])[d] = fut[d]
            \/ waiters' # <<>> /\ Head(waiters') = d
      BY <2>2, <2>3, <3>1 DEF Woken
    <3>3. \/ fut' = [fut EXCEPT ![c] = "none"]
          \/ /\ fut' = Woken(waiters', [fut EXCEPT ![c] = "none"])
             /\ mutex = "free"
      BY <1>8 DEF WaiterAnswers, WaiterLeaves, TypeOK
    <3>4. QED BY <3>1, <3>2, <3>3
  <2>5. pc' = [pc EXCEPT ![c] = "idle"] /\ mutex' = mutex
    BY <1>8 DEF WaiterAnswers, WaiterLeaves, Return
  <2>6. WaiterAnswers(c) => mutex = "free"
    BY DEF WaiterAnswers
  <2>7. mutex' = mutex
    BY <1>8, <2>6 DEF WaiterAnswers, WaiterLeaves, TypeOK, Results
  <2>8. QED BY <2>2, <2>4, <2>5, <2>7 DEF TypeOK, Results
<1>9. QED
  BY <1>1, <1>2, <1>3, <1>4, <1>5, <1>6, <1>7, <1>8 DEF Next, Resume

(***************************************************************************)
(* What a refresh remembers across its await is still so when it resumes,  *)
(* because it is the only one; hence the log tells the cache's transitions.*)
(***************************************************************************)
LEMMA EntryStep ==
  ASSUME IInv, [Next]_vars
  PROVE  EntryInv' /\ EventsMatchCache'
<1> USE DEF IInv, EntryInv, EventsMatchCache
<1>1. CASE UNCHANGED vars
  BY <1>1 DEF vars, cache
<1>2. CASE Tick \/ OllamaChanges
  BY <1>2 DEF Tick, OllamaChanges, cache
<1>3. ASSUME NEW c \in Callers,
             \/ AnswerAtOnce(c) \/ RefreshAtOnce(c) \/ Wait(c) \/ OllamaAnswers(c)
             \/ CancelWaiter(c) \/ CancelRefresh(c)
             \/ WaiterAnswers(c) \/ WaiterRefreshes(c) \/ WaiterLeaves(c)
      PROVE  EntryInv' /\ EventsMatchCache'
  BY <1>3
  DEF AnswerAtOnce, RefreshAtOnce, Wait, OllamaAnswers, CancelWaiter, CancelRefresh,
      WaiterAnswers, WaiterRefreshes, WaiterLeaves, Refresh, EndRefresh, Return, cache, TypeOK, Results
<1>4. ASSUME NEW c \in Callers, Refreshed(c)
      PROVE  EntryInv' /\ EventsMatchCache'
  <2>1. previous[c] = entry
    BY <1>4 DEF Refreshed
  <2>2. EventsMatchCache'
    BY <1>4, <2>1 DEF Refreshed, EventOf, TypeOK, Results
  <2>3. \A d \in Callers : pc'[d] # "probing"
    BY <1>4 DEF Refreshed, Return, OneRefresh, TypeOK, Results
  <2>4. QED BY <1>4, <2>2, <2>3 DEF Refreshed, Results
<1>5. QED
  BY <1>1, <1>2, <1>3, <1>4 DEF Next, Resume

(***************************************************************************)
(* A positive entry is as old as its age and the probe that made it.       *)
(***************************************************************************)
LEMMA RecentStep ==
  ASSUME IInv, [Next]_vars
  PROVE  RecentInv' /\ ReadyIsRecent'
<1> USE ProbeAssumption DEF IInv, RecentInv, ReadyIsRecent, Fresh
<1>1. CASE UNCHANGED vars
  BY <1>1 DEF vars, cache, world
<1>2. CASE Tick
  BY <1>2 DEF Tick, Silent, TypeOK, Results
<1>3. CASE OllamaChanges
  BY <1>3 DEF OllamaChanges, Silent, cache, TypeOK, Results
<1>4. ASSUME NEW c \in Callers, AnswerAtOnce(c) \/ WaiterAnswers(c)
      PROVE  RecentInv' /\ ReadyIsRecent'
  BY <1>4 DEF AnswerAtOnce, WaiterAnswers, Return, cache, world, TypeOK, Results
<1>5. ASSUME NEW c \in Callers,
             \/ RefreshAtOnce(c) \/ WaiterRefreshes(c) \/ Wait(c)
             \/ CancelWaiter(c) \/ CancelRefresh(c) \/ WaiterLeaves(c)
      PROVE  RecentInv' /\ ReadyIsRecent'
  <2>1. reply' = "none" /\ UNCHANGED <<cache, world>>
    BY <1>5
    DEF RefreshAtOnce, WaiterRefreshes, Wait, CancelWaiter, CancelRefresh, WaiterLeaves, Return,
        Silent
  <2>2. CASE RefreshAtOnce(c) \/ WaiterRefreshes(c)
    BY <2>1, <2>2 DEF RefreshAtOnce, WaiterRefreshes, Refresh, cache, world, TypeOK
  <2>3. CASE Wait(c) \/ CancelWaiter(c) \/ WaiterLeaves(c)
    BY <2>1, <2>3 DEF Wait, CancelWaiter, WaiterLeaves, Return, cache, world, TypeOK
  <2>4. CASE CancelRefresh(c)
    BY <2>1, <2>4 DEF CancelRefresh, EndRefresh, Return, cache, world, TypeOK
  <2>5. QED BY <1>5, <2>2, <2>3, <2>4
<1>6. ASSUME NEW c \in Callers, OllamaAnswers(c)
      PROVE  RecentInv' /\ ReadyIsRecent'
  BY <1>6 DEF OllamaAnswers, Silent, cache, world, TypeOK, Results
<1>7. ASSUME NEW c \in Callers, Refreshed(c)
      PROVE  RecentInv' /\ ReadyIsRecent'
  BY <1>7 DEF Refreshed, EndRefresh, Return, world, TypeOK, Results
<1>8. QED
  BY <1>1, <1>2, <1>3, <1>4, <1>5, <1>6, <1>7 DEF Next, Resume

(***************************************************************************)
(* The invariant is inductive.                                             *)
(***************************************************************************)
THEOREM ProbeCacheInvariant == Spec => []IInv
<1>1. IInv /\ [Next]_vars => IInv'
  BY TypeStep, LockStep, EntryStep, RecentStep DEF IInv
<1>2. QED BY ProbeCacheInit, <1>1, PTL DEF Spec

(***************************************************************************)
(* The model's variables keep their types: an entry is always an answer.   *)
(***************************************************************************)
THEOREM TypesKept == Spec => []TypeOK
<1>1. IInv => TypeOK
  BY DEF IInv
<1>2. QED BY ProbeCacheInvariant, <1>1, PTL

(***************************************************************************)
(* Concurrent calls coalesce: at most one request to Ollama is under way.  *)
(***************************************************************************)
THEOREM ProbesCoalesce == Spec => []OneRefresh
<1>1. IInv => OneRefresh
  BY DEF IInv
<1>2. QED BY ProbeCacheInvariant, <1>1, PTL

(***************************************************************************)
(* The last transition event in the log agrees with the cache.             *)
(***************************************************************************)
THEOREM LogIsTruthful == Spec => []EventsMatchCache
<1>1. IInv => EventsMatchCache
  BY DEF IInv
<1>2. QED BY ProbeCacheInvariant, <1>1, PTL

(***************************************************************************)
(* A positive answer of /ready is never older than the TTL and one probe.  *)
(***************************************************************************)
THEOREM AnswersAreRecent == Spec => []ReadyIsRecent
<1>1. IInv => ReadyIsRecent
  BY DEF IInv
<1>2. QED BY ProbeCacheInvariant, <1>1, PTL

(***************************************************************************)
(* No thundering herd: a step that asks Ollama is taken by RefreshAtOnce   *)
(* or WaiterRefreshes, both after their look at an expired entry.          *)
(***************************************************************************)
LEMMA OnlyRefreshesAsk ==
  ASSUME TypeOK, [Next]_vars, NEW c \in Callers, pc[c] # "probing", pc'[c] = "probing"
  PROVE  ~Fresh
<1>1. CASE UNCHANGED vars \/ Tick \/ OllamaChanges
  BY <1>1 DEF vars, Tick, OllamaChanges
<1>2. ASSUME NEW d \in Callers,
             \/ AnswerAtOnce(d) \/ Wait(d) \/ WaiterAnswers(d) \/ WaiterLeaves(d) \/ Refreshed(d)
             \/ OllamaAnswers(d) \/ CancelWaiter(d) \/ CancelRefresh(d)
      PROVE  FALSE
  BY <1>2 DEF AnswerAtOnce, Wait, WaiterAnswers, WaiterLeaves, Refreshed, OllamaAnswers,
              CancelWaiter, CancelRefresh, Return, TypeOK
<1>3. ASSUME NEW d \in Callers, RefreshAtOnce(d) \/ WaiterRefreshes(d)
      PROVE  ~Fresh
  BY <1>3 DEF RefreshAtOnce, WaiterRefreshes
<1>4. QED BY <1>1, <1>2, <1>3 DEF Next, Resume

\* Whoever waited for a refresh that stored a result asks Ollama only when that
\* result has expired, and is then the only one to ask.
THEOREM NoThunderingHerd == Spec => RefreshOnlyWhenExpired
<1>1. IInv /\ IInv' /\ [Next]_vars =>
        [\A c \in Callers : pc[c] # "probing" /\ pc'[c] = "probing" => ~Fresh /\ OneRefresh']_vars
  BY OnlyRefreshesAsk DEF IInv
<1>2. QED
  BY <1>1, ProbeCacheInvariant, PTL DEF Spec, RefreshOnlyWhenExpired

=============================================================================
