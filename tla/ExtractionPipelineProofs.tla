----------------------- MODULE ExtractionPipelineProofs -----------------------
(***************************************************************************)
(* Theorems about ExtractionPipeline, for every number of requests,        *)
(* threads and prompts and every cap.                                      *)
(***************************************************************************)
EXTENDS ExtractionPipeline, FiniteSetTheorems, TLAPS

(***************************************************************************)
(* A sequence without its entry i: the entries after it move up.           *)
(***************************************************************************)
LEMMA WithoutEntry ==
  ASSUME NEW S, NEW s \in Seq(S), NEW i \in DOMAIN s
  PROVE  /\ RemoveAt(s, i) \in Seq(S)
         /\ DOMAIN RemoveAt(s, i) = 1..(Len(s) - 1)
         /\ \A j \in 1..(Len(s) - 1) : RemoveAt(s, i)[j] = s[IF j < i THEN j ELSE j + 1]
<1> DEFINE before == SubSeq(s, 1, i - 1)
           after == SubSeq(s, i + 1, Len(s))
<1>1. i \in 1..Len(s) /\ Len(s) \in Nat
  OBVIOUS
<1>2. /\ before \in Seq(S) /\ Len(before) = i - 1
      /\ \A j \in 1..(i - 1) : before[j] = s[j]
  BY <1>1
<1>3. /\ after \in Seq(S) /\ Len(after) = Len(s) - i
      /\ \A j \in 1..(Len(s) - i) : after[j] = s[i + j]
  BY <1>1
<1>4. RemoveAt(s, i) = before \o after
  BY DEF RemoveAt
<1> HIDE DEF before, after
<1>5. /\ before \o after \in Seq(S) /\ Len(before \o after) = Len(s) - 1
      /\ \A j \in 1..(Len(s) - 1) :
           (before \o after)[j] = IF j <= i - 1 THEN before[j] ELSE after[j - (i - 1)]
  <2>1. before \in Seq(S) /\ after \in Seq(S) /\ Len(before) = i - 1 /\ Len(after) = Len(s) - i
    BY <1>2, <1>3
  <2>2. QED BY <1>1, <2>1
<1>6. \A j \in 1..(Len(s) - 1) :
        /\ j < i => j \in 1..(i - 1) /\ j <= i - 1
        /\ ~(j < i) => /\ ~(j <= i - 1)
                       /\ j - (i - 1) \in 1..(Len(s) - i) /\ i + (j - (i - 1)) = j + 1
  BY <1>1
<1>7. \A j \in 1..(Len(s) - 1) : (before \o after)[j] = s[IF j < i THEN j ELSE j + 1]
  BY <1>2, <1>3, <1>5, <1>6
<1>8. DOMAIN (before \o after) = 1..(Len(s) - 1)
  BY <1>5
<1>9. QED BY <1>4, <1>5, <1>7, <1>8

(***************************************************************************)
(* Every request starts with nothing under way.                            *)
(***************************************************************************)
THEOREM PipelineInit == Init => IInv
<1> SUFFICES ASSUME Init PROVE IInv
  OBVIOUS
<1> USE PipelineAssumption DEF Init, Admission!Init
<1>1. TypeOK
  BY DEF TypeOK, Admission!Phases
<1>2. RunningMeansAwaiting /\ JobsMatchFutures /\ CancellationPending
  BY DEF RunningMeansAwaiting, JobsMatchFutures, CancellationPending, Results, Failures
<1>3. QueuedOnce /\ QueuedJobsAreAwaited /\ EndingsToldApart
  BY DEF QueuedOnce, QueuedJobsAreAwaited, EndingsToldApart
<1>4. QED BY <1>1, <1>2, <1>3 DEF IInv

(***************************************************************************)
(* Every step keeps the types.                                             *)
(***************************************************************************)
LEMMA TypeStep == IInv /\ [Next]_vars => TypeOK'
<1> SUFFICES ASSUME IInv, [Next]_vars PROVE TypeOK'
  OBVIOUS
<1> USE PipelineAssumption DEF IInv, Jobs, Results, Failures, Answers, Admission!Phases
<1>1. CASE UNCHANGED vars
  BY <1>1 DEF vars, TypeOK
<1>2. CASE TakeJob
  BY <1>2 DEF TakeJob, TypeOK
<1>3. ASSUME NEW r \in Requests, Start(r)
      PROVE  TypeOK'
  BY <1>3 DEF Start, Submit, Admission!Admit, Admission!Move, TypeOK
<1>4. ASSUME NEW r \in Requests, NEW a \in Answers, Answer(r, a),
             UNCHANGED <<cancelled, llm, prompts>>,
             job' \in [Requests -> {"none", "queued", "running"}], pool' \in Seq(Requests)
      PROVE  TypeOK'
  BY <1>4 DEF Answer, Admission!End, Admission!Move, TypeOK
<1>5. ASSUME NEW r \in Requests, UnknownSkill(r) \/ Overloaded(r)
      PROVE  TypeOK'
  <2>1. CASE UnknownSkill(r)
    BY <1>4, <2>1 DEF UnknownSkill, TypeOK
  <2>2. CASE Overloaded(r)
    BY <2>2 DEF Overloaded, Admission!Refuse, Admission!Deliver, Admission!Move, TypeOK
  <2>3. QED BY <1>5, <2>1, <2>2
<1>6. ASSUME NEW r \in Requests, ResumeCancelled(r)
      PROVE  TypeOK'
  <2>1. job' \in [Requests -> {"none", "queued", "running"}]
    BY <1>6 DEF ResumeCancelled, DropJob, TypeOK
  <2>2. pool' \in Seq(Requests)
    BY <1>6, WithoutEntry DEF ResumeCancelled, DropJob, TypeOK
  <2>3. CancelledAnswer(r) \in Answers
    BY DEF CancelledAnswer
  <2>4. QED BY <1>4, <1>6, <2>1, <2>2, <2>3 DEF ResumeCancelled
<1>7. ASSUME NEW r \in Requests, ResumeFailed(r) \/ ResumeLast(r)
      PROVE  TypeOK'
  <2>1. FailedAnswer(r) \in Answers
    BY DEF FailedAnswer
  <2>2. PICK a \in Answers : Answer(r, a)
    BY <1>7, <2>1 DEF ResumeFailed, ResumeLast
  <2>3. QED BY <1>4, <1>7, <2>2 DEF ResumeFailed, ResumeLast, TypeOK
<1>8. ASSUME NEW r \in Requests, ResumeNext(r)
      PROVE  TypeOK'
  <2>1. PICK work \in Jobs : Submit(r, work)
    BY <1>8 DEF ResumeNext
  <2>2. QED BY <1>8, <2>1 DEF ResumeNext, Submit, TypeOK
<1>9. ASSUME NEW r \in Requests, BudgetFires(r) \/ CallerCancels(r)
      PROVE  TypeOK'
  <2>1. /\ future' \in [Requests -> Results \cup {"none", "pending", "cancelled"}]
        /\ UNCHANGED <<phase, at, job, pool, llm, prompts, answer>>
    BY <1>9 DEF BudgetFires, CallerCancels, CancelTask, TypeOK
  <2>2. mustCancel' \in [Requests -> BOOLEAN]
    BY <1>9, Zenon DEF BudgetFires, CallerCancels, CancelTask, TypeOK
  <2>3. /\ budget' \in [Requests -> {"none", "entered", "expiring", "exited"}]
        /\ cancelled' \in [Requests -> BOOLEAN]
    BY <1>9 DEF BudgetFires, CallerCancels, TypeOK
  <2>4. QED BY <2>1, <2>2, <2>3 DEF TypeOK
<1>10. ASSUME NEW r \in Requests, NEW result \in Results, EndJob(r, result)
       PROVE  TypeOK'
  <2>1. future' \in [Requests -> Results \cup {"none", "pending", "cancelled"}]
    BY <1>10 DEF EndJob, TypeOK
  <2>2. QED BY <1>10, <2>1 DEF EndJob, TypeOK
<1>11. ASSUME NEW r \in Requests, JobEnds(r) \/ GenerateFails(r)
       PROVE  TypeOK'
  <2>1. PICK result \in Results : EndJob(r, result)
    BY <1>11 DEF JobEnds, GenerateFails
  <2>2. QED BY <1>10, <2>1
<1>12. ASSUME NEW r \in Requests, Ask(r)
       PROVE  TypeOK'
  <2>1. prompts[r] + 1 \in 0..MaxPrompts
    BY <1>12 DEF Ask, TypeOK
  <2>2. QED BY <1>12, <2>1 DEF Ask, TypeOK
<1>13. ASSUME NEW r \in Requests, Generated(r)
       PROVE  TypeOK'
  BY <1>13 DEF Generated, TypeOK
<1>14. QED
  BY <1>1, <1>2, <1>3, <1>5, <1>6, <1>7, <1>8, <1>9, <1>11, <1>12, <1>13 DEF Next, Resume

(***************************************************************************)
(* A request runs exactly while its task awaits a job.                     *)
(***************************************************************************)
LEMMA RunningStep == IInv /\ [Next]_vars => RunningMeansAwaiting'
<1> SUFFICES ASSUME IInv, [Next]_vars PROVE RunningMeansAwaiting'
  OBVIOUS
<1> USE DEF IInv, RunningMeansAwaiting, Results, Failures
<1>1. CASE UNCHANGED <<phase, at, future, budget, answer>>
  BY <1>1
<1>2. ASSUME NEW r \in Requests, NEW a \in Answers, Answer(r, a)
      PROVE  RunningMeansAwaiting'
  BY <1>2 DEF Answer, Admission!End, Admission!Move, TypeOK
<1>3. ASSUME NEW r \in Requests, Start(r)
      PROVE  RunningMeansAwaiting'
  BY <1>3 DEF Start, Submit, Admission!Admit, Admission!Move, TypeOK
<1>4. ASSUME NEW r \in Requests, Overloaded(r)
      PROVE  RunningMeansAwaiting'
  BY <1>4 DEF Overloaded, Admission!Refuse, Admission!Deliver, Admission!Move, TypeOK
<1>5. ASSUME NEW r \in Requests, ResumeNext(r)
      PROVE  RunningMeansAwaiting'
  <2>1. PICK work \in Jobs : Submit(r, work) /\ at[r] # "none"
    BY <1>5 DEF ResumeNext, Jobs
  <2>2. QED BY <1>5, <2>1 DEF ResumeNext, Submit, Jobs, TypeOK
<1>6. ASSUME NEW r \in Requests, BudgetFires(r) \/ CallerCancels(r)
      PROVE  RunningMeansAwaiting'
  <2>1. UNCHANGED <<phase, at, answer>> /\ at[r] # "none"
    BY <1>6 DEF BudgetFires, CallerCancels
  <2>2. future' = future \/ (future[r] # "none" /\ future' = [future EXCEPT ![r] = "cancelled"])
    BY <1>6 DEF BudgetFires, CallerCancels, CancelTask
  <2>3. \A q \in Requests : future'[q] = "none" <=> future[q] = "none"
    BY <2>2 DEF TypeOK
  <2>4. \A q \in Requests :
          budget'[q] \in {"entered", "expiring"} <=> budget[q] \in {"entered", "expiring"}
    BY <1>6 DEF BudgetFires, CallerCancels, TypeOK
  <2>5. QED BY <2>1, <2>3, <2>4
<1>7. ASSUME NEW r \in Requests, NEW result \in Results, EndJob(r, result)
      PROVE  RunningMeansAwaiting'
  BY <1>7 DEF EndJob, TypeOK
<1>8. ASSUME NEW r \in Requests, Resume(r) \/ UnknownSkill(r), ~ResumeNext(r)
      PROVE  RunningMeansAwaiting'
  <2>1. \E a \in Answers : Answer(r, a)
    BY <1>8 DEF Resume, ResumeCancelled, ResumeFailed, ResumeLast, UnknownSkill, CancelledAnswer,
                FailedAnswer, Answers
  <2>2. QED BY <1>2, <2>1
<1>9. QED
  BY <1>1, <1>3, <1>4, <1>5, <1>6, <1>7, <1>8
  DEF Next, Resume, vars, TakeJob, JobEnds, Ask, Generated, GenerateFails

(***************************************************************************)
(* A job is in the executor as long as its future says.                    *)
(***************************************************************************)
LEMMA JobsStep == IInv /\ [Next]_vars => JobsMatchFutures'
<1> SUFFICES ASSUME IInv, [Next]_vars PROVE JobsMatchFutures'
  OBVIOUS
<1> USE DEF IInv, RunningMeansAwaiting, JobsMatchFutures, QueuedJobsAreAwaited, Results, Failures
<1>1. CASE UNCHANGED <<phase, at, future, job, llm>>
  BY <1>1
<1>2. CASE TakeJob
  <2>1. Head(pool) \in Requests /\ job[Head(pool)] = "queued"
    BY <1>2 DEF TakeJob, TypeOK
  <2>2. QED BY <1>2, <2>1 DEF TakeJob, TypeOK
<1>3. ASSUME NEW r \in Requests, Start(r)
      PROVE  JobsMatchFutures'
  BY <1>3 DEF Start, Submit, Admission!Admit, Admission!Move, TypeOK
<1>4. ASSUME NEW r \in Requests, Overloaded(r)
      PROVE  JobsMatchFutures'
  BY <1>4 DEF Overloaded, Admission!Refuse, Admission!Deliver, Admission!Move, TypeOK
<1>5. ASSUME NEW r \in Requests, ResumeNext(r)
      PROVE  JobsMatchFutures'
  <2>1. PICK work \in Jobs : Submit(r, work)
    BY <1>5 DEF ResumeNext, Jobs
  <2>2. QED BY <1>5, <2>1 DEF ResumeNext, Submit, Jobs, TypeOK
<1>6. ASSUME NEW r \in Requests, NEW a \in Answers, Answer(r, a), job[r] # "queued",
             UNCHANGED <<job, llm>>
      PROVE  JobsMatchFutures'
  BY <1>6 DEF Answer, Admission!End, Admission!Move, TypeOK
<1>7. ASSUME NEW r \in Requests, UnknownSkill(r) \/ ResumeFailed(r) \/ ResumeLast(r)
      PROVE  JobsMatchFutures'
  <2>1. job[r] # "queued" /\ UNCHANGED <<job, llm>>
    BY <1>7 DEF UnknownSkill, ResumeFailed, ResumeLast
  <2>2. \E a \in Answers : Answer(r, a)
    BY <1>7 DEF UnknownSkill, ResumeFailed, ResumeLast, FailedAnswer, Answers
  <2>3. QED BY <1>6, <2>1, <2>2
<1>8. ASSUME NEW r \in Requests, ResumeCancelled(r)
      PROVE  JobsMatchFutures'
  <2>1. \E a \in Answers : Answer(r, a)
    BY <1>8 DEF ResumeCancelled, CancelledAnswer, Answers
  <2>2. CASE job[r] # "queued"
    <3>1. UNCHANGED <<job, llm>>
      BY <1>8, <2>2 DEF ResumeCancelled, DropJob
    <3>2. QED BY <1>6, <2>1, <2>2, <3>1
  <2>3. CASE job[r] = "queued"
    <3>1. job' = [job EXCEPT ![r] = "none"] /\ UNCHANGED llm
      BY <1>8, <2>3 DEF ResumeCancelled, DropJob
    <3>2. QED BY <2>1, <2>3, <3>1 DEF Answer, Admission!End, Admission!Move, TypeOK
  <2>4. QED BY <2>2, <2>3
<1>9. ASSUME NEW r \in Requests, BudgetFires(r) \/ CallerCancels(r)
      PROVE  JobsMatchFutures'
  <2>1. UNCHANGED <<phase, at, job, llm>>
    BY <1>9 DEF BudgetFires, CallerCancels
  <2>2. future' = future \/ future' = [future EXCEPT ![r] = "cancelled"]
    BY <1>9 DEF BudgetFires, CallerCancels, CancelTask
  <2>3. QED BY <2>1, <2>2 DEF TypeOK
<1>10. ASSUME NEW r \in Requests, NEW result \in Results, EndJob(r, result), job[r] = "running"
       PROVE  JobsMatchFutures'
  BY <1>10 DEF EndJob, TypeOK
<1>11. ASSUME NEW r \in Requests, JobEnds(r) \/ GenerateFails(r)
       PROVE  JobsMatchFutures'
  <2>1. job[r] = "running"
    BY <1>11 DEF JobEnds, GenerateFails
  <2>2. \E result \in Results : EndJob(r, result)
    BY <1>11 DEF JobEnds, GenerateFails
  <2>3. QED BY <1>10, <2>1, <2>2
<1>12. ASSUME NEW r \in Requests, Ask(r) \/ Generated(r)
       PROVE  JobsMatchFutures'
  BY <1>12 DEF Ask, Generated, TypeOK
<1>13. QED
  BY <1>1, <1>2, <1>3, <1>4, <1>5, <1>7, <1>8, <1>9, <1>11, <1>12 DEF Next, Resume, vars

(***************************************************************************)
(* A cancellation that has been asked for stays pending.                   *)
(***************************************************************************)
LEMMA CancellationStep == IInv /\ [Next]_vars => CancellationPending'
<1> SUFFICES ASSUME IInv, [Next]_vars PROVE CancellationPending'
  OBVIOUS
<1> USE DEF IInv, RunningMeansAwaiting, CancellationPending, Results, Failures
<1>1. CASE UNCHANGED <<phase, at, future, mustCancel, budget, cancelled>>
  BY <1>1
<1>2. ASSUME NEW r \in Requests, NEW a \in Answers, Answer(r, a), UNCHANGED cancelled
      PROVE  CancellationPending'
  BY <1>2 DEF Answer, Admission!End, Admission!Move, TypeOK
<1>3. ASSUME NEW r \in Requests, Start(r)
      PROVE  CancellationPending'
  BY <1>3 DEF Start, Submit, Admission!Admit, Admission!Move, TypeOK
<1>4. ASSUME NEW r \in Requests, ResumeNext(r)
      PROVE  CancellationPending'
  <2>1. PICK work \in Jobs : Submit(r, work)
    BY <1>4 DEF ResumeNext, Jobs
  <2>2. QED BY <1>4, <2>1 DEF ResumeNext, Submit, Jobs, TypeOK
<1>5. ASSUME NEW r \in Requests, Resume(r) \/ UnknownSkill(r), ~ResumeNext(r)
      PROVE  CancellationPending'
  <2>1. \E a \in Answers : Answer(r, a)
    BY <1>5 DEF Resume, ResumeCancelled, ResumeFailed, ResumeLast, UnknownSkill, CancelledAnswer,
                FailedAnswer, Answers
  <2>2. UNCHANGED cancelled
    BY <1>5 DEF Resume, ResumeCancelled, ResumeFailed, ResumeLast, UnknownSkill
  <2>3. QED BY <1>2, <2>1, <2>2
<1>6. ASSUME NEW r \in Requests, BudgetFires(r) \/ CallerCancels(r)
      PROVE  CancellationPending'
  <2>1. \A q \in Requests \ {r} :
          /\ phase'[q] = phase[q] /\ at'[q] = at[q] /\ future'[q] = future[q] /\ mustCancel'[q] = mustCancel[q]
          /\ budget'[q] = budget[q] /\ cancelled'[q] = cancelled[q]
    BY <1>6 DEF BudgetFires, CallerCancels, CancelTask, TypeOK
  <2>2. phase'[r] = "running" /\ (mustCancel'[r] => future'[r] \in Results \cup {"cancelled"})
    BY <1>6 DEF BudgetFires, CallerCancels, CancelTask, TypeOK
  <2>3. mustCancel'[r] \/ future'[r] = "cancelled"
    BY <1>6 DEF BudgetFires, CallerCancels, CancelTask, TypeOK
  <2>4. budget'[r] = "expiring" \/ cancelled'[r]
    BY <1>6 DEF BudgetFires, CallerCancels, TypeOK
  <2>5. QED BY <2>1, <2>2, <2>3, <2>4
<1>7. ASSUME NEW r \in Requests, Overloaded(r)
      PROVE  CancellationPending'
  BY <1>7 DEF Overloaded, Admission!Refuse, Admission!Deliver, Admission!Move, TypeOK
<1>8. ASSUME NEW r \in Requests, NEW result \in Results, EndJob(r, result)
      PROVE  CancellationPending'
  BY <1>8 DEF EndJob, TypeOK
<1>9. ASSUME NEW r \in Requests, JobEnds(r) \/ GenerateFails(r)
      PROVE  CancellationPending'
  <2>1. \E result \in Results : EndJob(r, result)
    BY <1>9 DEF JobEnds, GenerateFails
  <2>2. QED BY <1>8, <2>1
<1>10. QED
  BY <1>1, <1>3, <1>4, <1>5, <1>6, <1>7, <1>9
  DEF Next, Resume, vars, TakeJob, Ask, Generated

(***************************************************************************)
(* The executor's queue holds the queued jobs, each of them once.          *)
(***************************************************************************)
LEMMA QueueStep == IInv /\ [Next]_vars => QueuedOnce' /\ QueuedJobsAreAwaited'
<1> SUFFICES ASSUME IInv, [Next]_vars PROVE QueuedOnce' /\ QueuedJobsAreAwaited'
  OBVIOUS
<1> DEFINE QueueIs(q, j) ==
             /\ \A i, k \in DOMAIN q : q[i] = q[k] => i = k
             /\ \A i \in DOMAIN q : q[i] \in Requests /\ j[q[i]] = "queued"
             /\ \A r \in Requests : j[r] = "queued" => \E i \in DOMAIN q : q[i] = r
<1>1. QueueIs(pool, job)
  BY DEF IInv, QueuedOnce, QueuedJobsAreAwaited, TypeOK
<1>2. (\A r \in Requests : job'[r] = "queued" => phase'[r] = "running")
  BY TypeStep, RunningStep, JobsStep DEF IInv, RunningMeansAwaiting, JobsMatchFutures
<1>3. ASSUME QueueIs(pool', job')
      PROVE  QueuedOnce' /\ QueuedJobsAreAwaited'
  BY <1>2, <1>3 DEF QueuedOnce, QueuedJobsAreAwaited
<1>4. CASE UNCHANGED <<pool, job>>
  BY <1>1, <1>3, <1>4
<1>5. CASE TakeJob
  <2>1. /\ Head(pool) \in Requests /\ pool[1] = Head(pool) /\ 1 \in DOMAIN pool
        /\ pool' = Tail(pool) /\ job' = [job EXCEPT ![Head(pool)] = "running"]
        /\ DOMAIN pool = 1..Len(pool) /\ Len(pool) \in Nat
    BY <1>5 DEF TakeJob, IInv, TypeOK
  <2>2. DOMAIN pool' = 1..(Len(pool) - 1) /\ \A i \in 1..(Len(pool) - 1) : pool'[i] = pool[i + 1]
    BY <1>5, <2>1 DEF IInv, TypeOK
  <2>3. \A i \in DOMAIN pool' : i + 1 \in DOMAIN pool /\ i + 1 # 1
    BY <2>1, <2>2
  <2>4. \A i \in DOMAIN pool' : pool'[i] \in Requests /\ pool'[i] # Head(pool)
    BY <1>1, <2>1, <2>2, <2>3
  <2>5. \A i \in DOMAIN pool' : job'[pool'[i]] = "queued"
    BY <1>1, <2>1, <2>2, <2>3, <2>4 DEF IInv, TypeOK
  <2>6. \A i, k \in DOMAIN pool' : pool'[i] = pool'[k] => i = k
    BY <1>1, <2>2, <2>3
  <2>7. ASSUME NEW r \in Requests, job'[r] = "queued"
        PROVE  \E i \in DOMAIN pool' : pool'[i] = r
    <3>1. r # Head(pool) /\ job[r] = "queued"
      BY <2>1, <2>7 DEF IInv, TypeOK
    <3>2. PICK i \in DOMAIN pool : pool[i] = r
      BY <1>1, <3>1
    <3>3. i - 1 \in DOMAIN pool' /\ pool'[i - 1] = r
      BY <2>1, <2>2, <3>1, <3>2
    <3>4. QED BY <3>3
  <2>8. QED BY <1>3, <2>4, <2>5, <2>6, <2>7
<1>6. ASSUME NEW r \in Requests, NEW work, Submit(r, work), job[r] = "none"
      PROVE  QueuedOnce' /\ QueuedJobsAreAwaited'
  <2>1. /\ DOMAIN pool' = 1..(Len(pool) + 1) /\ pool'[Len(pool) + 1] = r
        /\ \A i \in DOMAIN pool : i \in DOMAIN pool' /\ pool'[i] = pool[i]
        /\ DOMAIN pool = 1..Len(pool) /\ Len(pool) \in Nat
    BY <1>6 DEF Submit, IInv, TypeOK
  <2>2. \A q \in Requests : job'[q] = "queued" <=> job[q] = "queued" \/ q = r
    BY <1>6 DEF Submit, IInv, TypeOK
  <2>3. \A i \in DOMAIN pool' : i \in DOMAIN pool \/ i = Len(pool) + 1
    BY <2>1
  <2>4. \A i \in DOMAIN pool : pool[i] # r
    BY <1>1, <1>6
  <2>5. QueueIs(pool', job')
    BY <1>1, <2>1, <2>2, <2>3, <2>4
  <2>6. QED BY <1>3, <2>5
<1>7. ASSUME NEW r \in Requests, ResumeCancelled(r)
      PROVE  QueuedOnce' /\ QueuedJobsAreAwaited'
  <2>1. CASE job[r] # "queued"
    BY <1>1, <1>4, <1>7, <2>1 DEF ResumeCancelled, DropJob
  <2>2. CASE job[r] = "queued"
    <3>1. PICK i \in DOMAIN pool : /\ pool[i] = r /\ pool' = RemoveAt(pool, i)
                                   /\ job' = [job EXCEPT ![r] = "none"]
      BY <1>7, <2>2 DEF ResumeCancelled, DropJob
    <3>2. pool \in Seq(Requests) /\ \A j, k \in DOMAIN pool : pool[j] = pool[k] => j = k
      BY <1>1 DEF IInv, TypeOK
    <3>3. /\ \A j \in DOMAIN pool' : \E k \in DOMAIN pool : pool'[j] = pool[k] /\ pool[k] # r
          /\ \A k \in DOMAIN pool : pool[k] # r => \E j \in DOMAIN pool' : pool'[j] = pool[k]
          /\ \A j, k \in DOMAIN pool' : pool'[j] = pool'[k] => j = k
      <4> DEFINE old(j) == IF j < i THEN j ELSE j + 1
      <4>1. /\ DOMAIN pool' = 1..(Len(pool) - 1) /\ DOMAIN pool = 1..Len(pool) /\ Len(pool) \in Nat
            /\ \A j \in DOMAIN pool' : pool'[j] = pool[old(j)]
        <5>1. /\ DOMAIN RemoveAt(pool, i) = 1..(Len(pool) - 1)
              /\ \A j \in 1..(Len(pool) - 1) :
                   RemoveAt(pool, i)[j] = pool[IF j < i THEN j ELSE j + 1]
          BY <3>2, WithoutEntry, Zenon
        <5>2. DOMAIN pool = 1..Len(pool) /\ Len(pool) \in Nat
          BY <3>2
        <5>3. QED BY <3>1, <5>1, <5>2, Zenon
      <4>2. /\ \A j \in DOMAIN pool' : old(j) \in DOMAIN pool /\ old(j) # i
            /\ \A j, k \in DOMAIN pool' : old(j) = old(k) => j = k
        BY <4>1
      <4>3. ASSUME NEW k \in DOMAIN pool, k # i
            PROVE  \E j \in DOMAIN pool' : old(j) = k
        <5>1. CASE k < i
          BY <3>1, <4>1, <5>1
        <5>2. CASE k > i
          <6>1. k - 1 \in DOMAIN pool' /\ old(k - 1) = k
            BY <3>1, <4>1, <5>2
          <6>2. QED BY <6>1
        <5>3. QED BY <3>1, <4>1, <4>3, <5>1, <5>2
      <4> HIDE DEF old
      <4>4. QED BY <3>1, <3>2, <4>1, <4>2, <4>3
    <3>4. \A q \in Requests : job'[q] = "queued" <=> job[q] = "queued" /\ q # r
      BY <3>1 DEF IInv, TypeOK
    <3>5. \A j \in DOMAIN pool' : pool'[j] \in Requests /\ job'[pool'[j]] = "queued"
      BY <1>1, <3>3, <3>4
    <3>6. \A q \in Requests : job'[q] = "queued" => \E j \in DOMAIN pool' : pool'[j] = q
      BY <1>1, <3>3, <3>4
    <3>7. QED BY <1>3, <3>3, <3>5, <3>6
  <2>3. QED BY <2>1, <2>2
<1>8. ASSUME NEW r \in Requests, Start(r) \/ ResumeNext(r)
      PROVE  QueuedOnce' /\ QueuedJobsAreAwaited'
  <2>1. job[r] = "none"
    BY <1>8 DEF Start, ResumeNext, Admission!Admit, Admission!Move, IInv, JobsMatchFutures, Results
  <2>2. \E work \in Jobs : Submit(r, work)
    BY <1>8 DEF Start, ResumeNext, Jobs
  <2>3. QED BY <1>6, <2>1, <2>2
<1>9. ASSUME NEW r \in Requests, JobEnds(r) \/ GenerateFails(r)
      PROVE  QueuedOnce' /\ QueuedJobsAreAwaited'
  <2>1. job[r] = "running" /\ job' = [job EXCEPT ![r] = "none"] /\ pool' = pool
    BY <1>9 DEF JobEnds, GenerateFails, EndJob, IInv, JobsMatchFutures
  <2>2. \A q \in Requests : job'[q] = "queued" <=> job[q] = "queued"
    BY <2>1 DEF IInv, TypeOK
  <2>3. QED BY <1>1, <1>3, <2>1, <2>2
<1>10. QED
  BY <1>4, <1>5, <1>7, <1>8, <1>9
  DEF Next, Resume, vars, UnknownSkill, Overloaded, ResumeFailed, ResumeLast, BudgetFires,
      CallerCancels, Ask, Generated

(***************************************************************************)
(* An answer is true when it is given and stays so.                        *)
(***************************************************************************)
LEMMA EndingsStep == IInv /\ [Next]_vars => EndingsToldApart'
<1> SUFFICES ASSUME IInv, [Next]_vars PROVE EndingsToldApart'
  OBVIOUS
<1> DEFINE Truthful(a, c) == (a = "cancelled" => c) /\ (a = "budget_exceeded" => ~c)
<1>1. \A r \in Requests : Truthful(answer[r], cancelled[r])
  BY DEF IInv, EndingsToldApart
<1>2. \A r \in Requests : budget'[r] = "expiring" /\ at'[r] # "none" =>
                           mustCancel'[r] \/ future'[r] = "cancelled"
  BY CancellationStep DEF CancellationPending
<1>3. ASSUME \A r \in Requests : Truthful(answer'[r], cancelled'[r])
      PROVE  EndingsToldApart'
  BY <1>2, <1>3 DEF EndingsToldApart
<1>4. CASE UNCHANGED <<answer, cancelled>>
  BY <1>1, <1>3, <1>4
<1>5. ASSUME NEW r \in Requests, NEW a \in Answers, Answer(r, a), UNCHANGED cancelled,
             Truthful(a, cancelled[r])
      PROVE  EndingsToldApart'
  BY <1>1, <1>3, <1>5 DEF Answer, IInv, TypeOK
<1>6. ASSUME NEW r \in Requests, ResumeCancelled(r)
      PROVE  EndingsToldApart'
  <2>1. budget[r] = "expiring" \/ cancelled[r]
    BY <1>6 DEF ResumeCancelled, IInv, CancellationPending
  <2>2. Truthful(CancelledAnswer(r), cancelled[r])
    BY <2>1 DEF CancelledAnswer
  <2>3. CancelledAnswer(r) \in Answers
    BY DEF CancelledAnswer, Answers
  <2>4. QED BY <1>5, <1>6, <2>2, <2>3 DEF ResumeCancelled
<1>7. ASSUME NEW r \in Requests, ResumeFailed(r) \/ ResumeLast(r) \/ UnknownSkill(r)
      PROVE  EndingsToldApart'
  <2>1. FailedAnswer(r) \in Answers \ {"cancelled", "budget_exceeded"}
    BY DEF FailedAnswer, Answers
  <2>2. PICK a \in Answers \ {"cancelled", "budget_exceeded"} : Answer(r, a)
    BY <1>7, <2>1 DEF ResumeFailed, ResumeLast, UnknownSkill, Answers
  <2>3. UNCHANGED cancelled
    BY <1>7 DEF ResumeFailed, ResumeLast, UnknownSkill
  <2>4. QED BY <1>5, <2>2, <2>3
<1>8. ASSUME NEW r \in Requests, CallerCancels(r)
      PROVE  EndingsToldApart'
  <2>1. answer[r] = "none"
    BY <1>8 DEF CallerCancels, IInv, RunningMeansAwaiting
  <2>2. UNCHANGED answer /\ \A q \in Requests \ {r} : cancelled'[q] = cancelled[q]
    BY <1>8 DEF CallerCancels, IInv, TypeOK
  <2>3. QED BY <1>1, <1>3, <2>1, <2>2
<1>9. QED
  BY <1>4, <1>6, <1>7, <1>8
  DEF Next, Resume, vars, TakeJob, Start, Overloaded, ResumeNext, BudgetFires, JobEnds, Ask,
      Generated, GenerateFails, EndJob

(***************************************************************************)
(* The invariant is inductive.                                             *)
(***************************************************************************)
THEOREM PipelineInvariant == Spec => []IInv
<1>1. IInv /\ [Next]_vars => IInv'
  BY TypeStep, RunningStep, JobsStep, CancellationStep, QueueStep, EndingsStep DEF IInv
<1>2. QED BY PipelineInit, <1>1, PTL DEF Spec

(***************************************************************************)
(* The model's variables keep their types.                                 *)
(***************************************************************************)
THEOREM PipelineTypes == Spec => []TypeOK
<1>1. IInv => TypeOK
  BY DEF IInv
<1>2. QED BY PipelineInvariant, <1>1, PTL

(***************************************************************************)
(* The executor never starts a job for a request that has been answered.   *)
(***************************************************************************)
THEOREM NoJobForAnAnsweredRequest == Spec => []QueuedJobsAreAwaited
<1>1. IInv => QueuedJobsAreAwaited
  BY DEF IInv
<1>2. QED BY PipelineInvariant, <1>1, PTL

(***************************************************************************)
(* A budget that runs out, a caller that cancels and a failure are told    *)
(* apart, in whatever order they come.                                     *)
(***************************************************************************)
THEOREM EndingsAreTold == Spec => []EndingsToldApart
<1>1. IInv => EndingsToldApart
  BY DEF IInv
<1>2. QED BY PipelineInvariant, <1>1, PTL

(***************************************************************************)
(* A request never has two jobs in the executor.                           *)
(***************************************************************************)
THEOREM OneJobAtATime == Spec => OneJobPerRequest
<1> DEFINE Free == \A r \in Requests : job'[r] = "queued" /\ job[r] # "queued" => job[r] = "none"
<1>1. IInv /\ [Next]_vars => [Free]_vars
  <2> SUFFICES ASSUME IInv, Next PROVE Free
    BY DEF Free
  <2>1. CASE UNCHANGED job
    BY <2>1
  <2>2. ASSUME NEW r \in Requests, NEW to \in {"none", "running"}, job' = [job EXCEPT ![r] = to]
        PROVE  Free
    BY <2>2 DEF IInv, TypeOK
  <2>3. CASE TakeJob
    <3>1. Head(pool) \in Requests
      BY <2>3 DEF TakeJob, IInv, TypeOK
    <3>2. QED BY <2>2, <2>3, <3>1 DEF TakeJob
  <2>4. ASSUME NEW r \in Requests, Start(r) \/ ResumeNext(r)
        PROVE  Free
    <3>1. job[r] = "none"
      BY <2>4 DEF Start, ResumeNext, Admission!Admit, Admission!Move, IInv, JobsMatchFutures, Results
    <3>2. job' = [job EXCEPT ![r] = "queued"]
      BY <2>4 DEF Start, ResumeNext, Submit
    <3>3. QED BY <3>1, <3>2 DEF IInv, TypeOK
  <2>5. ASSUME NEW r \in Requests, JobEnds(r) \/ GenerateFails(r) \/ ResumeCancelled(r)
        PROVE  Free
    <3>1. UNCHANGED job \/ job' = [job EXCEPT ![r] = "none"]
      BY <2>5 DEF JobEnds, GenerateFails, EndJob, ResumeCancelled, DropJob
    <3>2. QED BY <2>1, <2>2, <3>1
  <2>6. QED
    BY <2>1, <2>3, <2>4, <2>5
    DEF Next, Resume, UnknownSkill, Overloaded, ResumeFailed, ResumeLast, BudgetFires,
        CallerCancels, Ask, Generated
<1>2. QED BY PipelineInvariant, <1>1, PTL DEF Spec, OneJobPerRequest

-----------------------------------------------------------------------------
(* The pipeline and admission control                                      *)

(***************************************************************************)
(* What the pipeline does to the phases admission control does too: the    *)
(* task's jobs, their threads and the cancellations move none of them.     *)
(***************************************************************************)
LEMMA AdmissionStep == [Next]_vars => [Admission!Next]_phase
<1> SUFFICES ASSUME Next PROVE Admission!Next \/ UNCHANGED phase
  BY DEF vars
<1>1. ASSUME NEW r \in Requests, Admission!Admit(r) \/ Overloaded(r) \/ Admission!End(r)
      PROVE  Admission!Next
  BY <1>1 DEF Overloaded, Admission!Next
<1>2. ASSUME NEW r \in Requests, Start(r)
      PROVE  Admission!Next
  BY <1>1, <1>2 DEF Start
<1>3. ASSUME NEW r \in Requests,
             UnknownSkill(r) \/ ResumeCancelled(r) \/ ResumeFailed(r) \/ ResumeLast(r)
      PROVE  Admission!Next
  <2>1. \E a : Answer(r, a)
    BY <1>3 DEF UnknownSkill, ResumeCancelled, ResumeFailed, ResumeLast
  <2>2. Admission!End(r)
    BY <2>1 DEF Answer
  <2>3. QED BY <1>1, <2>2
<1>4. ASSUME NEW r \in Requests,
             \/ ResumeNext(r) \/ BudgetFires(r) \/ CallerCancels(r)
             \/ JobEnds(r) \/ Ask(r) \/ Generated(r) \/ GenerateFails(r)
      PROVE  UNCHANGED phase
  BY <1>4 DEF ResumeNext, BudgetFires, CallerCancels, JobEnds, Ask, Generated, GenerateFails, EndJob
<1>5. CASE TakeJob
  BY <1>5 DEF TakeJob
<1>6. QED BY <1>1, <1>2, <1>3, <1>4, <1>5 DEF Next, Resume

(***************************************************************************)
(* The pipeline behaves as admission control allows, whatever its threads  *)
(* do: ExtractionService.extract composed from the two modules keeps the   *)
(* promise that module Admission shows the semaphore to keep.              *)
(***************************************************************************)
THEOREM PipelineIsAdmitted == Spec => Admission!Spec
<1>1. Init => Admission!Init
  BY DEF Init
<1>2. QED BY <1>1, AdmissionStep, PTL DEF Spec, Admission!Spec

\* At most MaxConcurrent requests hold a permit.
WithinCap == Cardinality(Admission!In("running")) <= MaxConcurrent

(***************************************************************************)
(* A step of admission control keeps the number of admitted requests       *)
(* within the cap: only Admit adds one, and it finds room.                 *)
(***************************************************************************)
LEMMA CapStep == TypeOK /\ WithinCap /\ [Admission!Next]_phase => WithinCap'
<1> DEFINE running == Admission!In("running")
<1> SUFFICES ASSUME TypeOK, WithinCap, Admission!Next \/ UNCHANGED phase PROVE WithinCap'
  OBVIOUS
<1>1. IsFiniteSet(running) /\ running \subseteq Requests
  BY PipelineAssumption, FS_Subset DEF Admission!In
<1>2. /\ Cardinality(running) \in Nat /\ MaxConcurrent \in Nat
      /\ Cardinality(running) <= MaxConcurrent
  BY <1>1, FS_CardinalityType, PipelineAssumption DEF WithinCap
<1>3. ASSUME running' \subseteq running
      PROVE  WithinCap'
  <2>1. Cardinality(running') \in Nat /\ Cardinality(running') <= Cardinality(running)
    BY <1>1, <1>3, FS_Subset, FS_CardinalityType
  <2>2. QED BY <1>2, <2>1 DEF WithinCap
<1>4. CASE UNCHANGED phase
  BY <1>3, <1>4 DEF Admission!In
<1>5. ASSUME NEW r \in Requests, Admission!Admit(r)
      PROVE  WithinCap'
  <2>1. running' = running \cup {r} /\ r \notin running
    BY <1>5 DEF Admission!Admit, Admission!Move, Admission!In, TypeOK
  <2>2. Admission!Cardinality(running) = Cardinality(running)
    BY DEF Admission!Cardinality, Cardinality
  <2>3. Cardinality(running) < MaxConcurrent
    BY <1>2, <1>5, <2>2 DEF Admission!Admit, Admission!AtCap
  <2>4. Cardinality(running') = Cardinality(running) + 1
    BY <1>1, <2>1, FS_AddElement
  <2>5. QED BY <1>2, <2>3, <2>4 DEF WithinCap
<1>6. ASSUME NEW r \in Requests,
             Admission!Refuse(r) \/ Admission!Deliver(r) \/ Admission!End(r)
      PROVE  WithinCap'
  <2>1. running' \subseteq running
    BY <1>6 DEF Admission!Refuse, Admission!Deliver, Admission!End, Admission!Move,
                Admission!In, TypeOK
  <2>2. QED BY <1>3, <2>1
<1>7. QED BY <1>4, <1>5, <1>6 DEF Admission!Next

(***************************************************************************)
(* At no moment are more than MaxConcurrent pipelines admitted.  (What is  *)
(* not true of them is OllamaWithinCap: the threads of answered requests   *)
(* hold no permit.)                                                        *)
(***************************************************************************)
THEOREM PipelinesWithinCap == Spec => []WithinCap
<1>1. Init => WithinCap
  <2> SUFFICES ASSUME Init PROVE WithinCap
    OBVIOUS
  <2>1. Admission!In("running") = {}
    BY DEF Init, Admission!Init, Admission!In
  <2>2. QED BY <2>1, FS_EmptySet, PipelineAssumption DEF WithinCap
<1>2. TypeOK /\ WithinCap /\ [Next]_vars => WithinCap'
  BY CapStep, AdmissionStep
<1>3. QED BY PipelineTypes, <1>1, <1>2, PTL DEF Spec

=============================================================================
