--------------------------- MODULE GenerationProofs ---------------------------
(***************************************************************************)
(* Theorems about Generation, for every number of prompts and retries and  *)
(* every timeout.                                                          *)
(***************************************************************************)
EXTENDS Generation, TLAPS

(***************************************************************************)
(* The invariant holds before the first prompt.                            *)
(***************************************************************************)
THEOREM GenerationInit == Init => IInv
<1> SUFFICES ASSUME Init PROVE IInv
  OBVIOUS
<1>1. TypeOK
  BY GenerationAssumption DEF Init, TypeOK, Prompts, MaxAttempts
<1>2. PromptsInOrder /\ ThreadKnows /\ AttemptsInStep
  BY DEF Init, PromptsInOrder, ThreadKnows, AttemptsInStep, Outcomes, Errors, Prompts
<1>3. ObservedSoFar
  BY DEF Init, ObservedSoFar, Prompts
<1>4. QED BY <1>1, <1>2, <1>3 DEF IInv

(***************************************************************************)
(* Every step keeps the types.                                             *)
(***************************************************************************)
LEMMA TypeStep == IInv /\ [Next]_vars => TypeOK'
<1> SUFFICES ASSUME IInv, [Next]_vars PROVE TypeOK'
  OBVIOUS
<1> USE GenerationAssumption DEF IInv, Prompts, MaxAttempts, Outcomes, Errors, Replies
<1>1. CASE UNCHANGED vars
  BY <1>1 DEF vars, infer, coroutine, clock, TypeOK
<1>2. CASE Submit
  BY <1>2 DEF Submit, TypeOK
<1>3. CASE Finish
  BY <1>3 DEF Finish, coroutine, clock, TypeOK
<1>4. CASE GetResult \/ (CheckDone /\ Take)
  <2>1. Take /\ prompt \in Prompts
    BY <1>4 DEF GetResult, CheckDone, ThreadKnows, TypeOK
  <2>2. attempt[prompt] \in 0..MaxAttempts /\ fut[prompt] \in Outcomes
    BY <2>1 DEF TypeOK, Take
  <2>3. Observe(attempt[prompt]) \in 0..MaxAttempts
    BY <2>2 DEF Observe, TypeOK
  <2>4. observed' \in 0..MaxAttempts
    BY <2>1, <2>3 DEF Take, TypeOK
  <2>5. QED BY <2>1, <2>2, <2>4 DEF Take, coroutine, clock, TypeOK
<1>5. CASE WaitTimesOut \/ (CheckDone /\ ~Take)
  BY <1>5 DEF WaitTimesOut, CheckDone, coroutine, clock, TypeOK
<1>6. CASE GiveUp
  BY <1>6 DEF GiveUp, CancelFuture, coroutine, clock, TypeOK
<1>7. CASE Tick
  <2>1. waited' \in 0..Timeout
    BY <1>7 DEF Tick, TypeOK
  <2>2. \A a \in 1..MaxAttempts : lasted[a] \in 0..Timeout
    BY DEF TypeOK
  <2>3. \A a \in 1..MaxAttempts : lasted[a] < Timeout => lasted[a] + 1 \in 0..Timeout
    BY <2>2
  <2>4. lasted' \in [1..MaxAttempts -> 0..Timeout]
    BY <1>7, <2>2, <2>3 DEF Tick
  <2>5. QED BY <1>7, <2>1, <2>4 DEF Tick, infer, coroutine, TypeOK
<1>8. ASSUME NEW p \in Prompts, FirstStep(p)
      PROVE  TypeOK'
  BY <1>8 DEF FirstStep, Post, infer, clock, TypeOK, AttemptsInStep
<1>9. ASSUME NEW p \in Prompts, ResumeWithReply(p)
      PROVE  TypeOK'
  <2>1. attempt[p] + 1 = sent[p] /\ attempt[p] \in 0..MaxRetries
    BY <1>9 DEF ResumeWithReply, TypeOK, AttemptsInStep
  <2>2. attempt' \in [Prompts -> 0..MaxAttempts]
    BY <1>9, <2>1 DEF ResumeWithReply, TypeOK
  <2>3. CASE request[p] = "invalid" /\ ~LastAttempt(p)
    <3>1. Post(p) /\ UNCHANGED <<task, outcome>> /\ sent[p] + 1 \in 0..MaxAttempts
      BY <1>9, <2>1, <2>3 DEF ResumeWithReply, LastAttempt
    <3>2. QED BY <1>9, <2>2, <3>1 DEF ResumeWithReply, Post, infer, clock, TypeOK
  <2>4. CASE request[p] # "invalid" \/ LastAttempt(p)
    <3>1. PICK result \in Outcomes : UNCHANGED sent /\ Done(p, result)
      BY <1>9, <2>4 DEF ResumeWithReply
    <3>2. /\ task' \in [Prompts -> {"none", "scheduled", "posting", "done"}]
          /\ outcome' \in [Prompts -> {"none", "cancelled"} \cup Outcomes]
          /\ request' \in [Prompts -> {"none", "open"} \cup Replies]
      BY <3>1 DEF Done, TypeOK
    <3>3. QED BY <1>9, <2>2, <3>1, <3>2 DEF ResumeWithReply, infer, clock, TypeOK
  <2>5. QED BY <2>3, <2>4
<1>10. ASSUME NEW p \in Prompts, CancelArrives(p) \/ ResumeCancelled(p) \/ Settle(p)
       PROVE  TypeOK'
  <2>1. CASE CancelArrives(p)
    BY <2>1 DEF CancelArrives, infer, coroutine, clock, TypeOK
  <2>2. CASE ResumeCancelled(p)
    BY <2>2 DEF ResumeCancelled, Done, infer, clock, TypeOK
  <2>3. CASE Settle(p)
    BY <2>3 DEF Settle, infer, coroutine, clock, TypeOK
  <2>4. QED BY <1>10, <2>1, <2>2, <2>3
<1>11. ASSUME NEW p \in Prompts, OllamaReplies(p)
       PROVE  TypeOK'
  BY <1>11 DEF OllamaReplies, infer, clock, TypeOK
<1>12. QED
  BY <1>1, <1>2, <1>3, <1>4, <1>5, <1>6, <1>7, <1>8, <1>9, <1>10, <1>11
  DEF Next, ThreadStep, LoopStep

(***************************************************************************)
(* The thread goes through the prompts one by one, and what it believes of *)
(* the futures behind and before it is so.                                 *)
(***************************************************************************)
LEMMA OrderStep == IInv /\ [Next]_vars => PromptsInOrder' /\ ThreadKnows'
<1> SUFFICES ASSUME IInv, [Next]_vars PROVE PromptsInOrder' /\ ThreadKnows'
  OBVIOUS
<1> USE GenerationAssumption DEF IInv, Prompts, Outcomes, Errors
<1>1. CASE UNCHANGED vars
  BY <1>1 DEF vars, infer, coroutine, clock, PromptsInOrder, ThreadKnows
<1>2. CASE Submit
  BY <1>2 DEF Submit, TypeOK, PromptsInOrder, ThreadKnows
<1>3. CASE Finish
  BY <1>3 DEF Finish, coroutine, clock, TypeOK, PromptsInOrder, ThreadKnows
<1>4. CASE GetResult \/ (CheckDone /\ Take)
  <2>1. Take /\ prompt \in Prompts /\ thread \in {"waiting", "expired"}
    BY <1>4 DEF GetResult, CheckDone, ThreadKnows, TypeOK
  <2>2. PromptsInOrder'
    BY <2>1 DEF Take, coroutine, clock, PromptsInOrder
  <2>3. ThreadKnows'
    BY <2>1 DEF Take, coroutine, clock, ThreadKnows
  <2>4. QED BY <2>2, <2>3
<1>5. CASE WaitTimesOut \/ (CheckDone /\ ~Take)
  BY <1>5 DEF WaitTimesOut, CheckDone, coroutine, clock, TypeOK, PromptsInOrder, ThreadKnows
<1>6. CASE GiveUp
  <2>1. prompt \in Prompts
    BY <1>6 DEF GiveUp, TypeOK, ThreadKnows
  <2>2. CASE fut[prompt] = "pending"
    <3>1. PromptsInOrder'
      BY <1>6, <2>1, <2>2 DEF GiveUp, CancelFuture, coroutine, TypeOK, PromptsInOrder
    <3>2. ThreadKnows'
      BY <1>6, <2>1, <2>2 DEF GiveUp, CancelFuture, TypeOK, ThreadKnows
    <3>3. QED BY <3>1, <3>2
  <2>3. CASE fut[prompt] # "pending"
    BY <1>6, <2>3 DEF GiveUp, CancelFuture, coroutine, PromptsInOrder, ThreadKnows
  <2>4. QED BY <2>2, <2>3
<1>7. CASE Tick
  BY <1>7 DEF Tick, infer, coroutine, PromptsInOrder, ThreadKnows
<1>8. ASSUME NEW p \in Prompts, FirstStep(p)
      PROVE  PromptsInOrder' /\ ThreadKnows'
  BY <1>8 DEF FirstStep, Post, infer, clock, TypeOK, PromptsInOrder, ThreadKnows
<1>9. ASSUME NEW p \in Prompts, ResumeWithReply(p)
      PROVE  PromptsInOrder' /\ ThreadKnows'
  <2>1. UNCHANGED <<infer, fut, cancel>> /\ task[p] = "posting"
    BY <1>9 DEF ResumeWithReply
  <2>2. CASE Post(p) /\ UNCHANGED <<task, outcome>>
    BY <2>1, <2>2 DEF Post, infer, TypeOK, PromptsInOrder, ThreadKnows
  <2>3. CASE \E result \in Outcomes : Done(p, result)
    BY <2>1, <2>3 DEF Done, infer, TypeOK, PromptsInOrder, ThreadKnows
  <2>4. QED BY <1>9, <2>2, <2>3 DEF ResumeWithReply
<1>10. ASSUME NEW p \in Prompts, CancelArrives(p)
       PROVE  PromptsInOrder' /\ ThreadKnows'
  BY <1>10 DEF CancelArrives, infer, coroutine, TypeOK, PromptsInOrder, ThreadKnows
<1>11. ASSUME NEW p \in Prompts, ResumeCancelled(p)
       PROVE  PromptsInOrder' /\ ThreadKnows'
  BY <1>11 DEF ResumeCancelled, Done, infer, TypeOK, PromptsInOrder, ThreadKnows
<1>12. ASSUME NEW p \in Prompts, Settle(p)
       PROVE  PromptsInOrder' /\ ThreadKnows'
  BY <1>12 DEF Settle, infer, coroutine, TypeOK, PromptsInOrder, ThreadKnows
<1>13. ASSUME NEW p \in Prompts, OllamaReplies(p)
       PROVE  PromptsInOrder' /\ ThreadKnows'
  BY <1>13 DEF OllamaReplies, infer, TypeOK, PromptsInOrder, ThreadKnows
<1>14. QED
  BY <1>1, <1>2, <1>3, <1>4, <1>5, <1>6, <1>7, <1>8, <1>9, <1>10, <1>11, <1>12, <1>13
  DEF Next, ThreadStep, LoopStep

(***************************************************************************)
(* The validator's attempts keep step with the requests Ollama is sent.    *)
(***************************************************************************)
LEMMA AttemptsStep == IInv /\ [Next]_vars => AttemptsInStep'
<1> SUFFICES ASSUME IInv, [Next]_vars PROVE AttemptsInStep'
  OBVIOUS
<1> USE GenerationAssumption DEF IInv, AttemptsInStep, MaxAttempts
<1>1. CASE UNCHANGED coroutine
  BY <1>1 DEF coroutine
<1>2. CASE Submit
  BY <1>2 DEF Submit, TypeOK, PromptsInOrder, Prompts
<1>3. ASSUME NEW p \in Prompts, FirstStep(p)
      PROVE  AttemptsInStep'
  BY <1>3 DEF FirstStep, Post, TypeOK
<1>4. ASSUME NEW p \in Prompts, ResumeWithReply(p)
      PROVE  AttemptsInStep'
  <2>1. task[p] = "posting" /\ sent[p] = attempt[p] + 1 /\ attempt[p] \in Nat
    BY <1>4 DEF ResumeWithReply, TypeOK
  <2>2. CASE request[p] = "valid"
    BY <1>4, <2>1, <2>2 DEF ResumeWithReply, Done, TypeOK
  <2>3. CASE request[p] = "invalid" /\ LastAttempt(p)
    BY <1>4, <2>1, <2>3 DEF ResumeWithReply, LastAttempt, Done, TypeOK
  <2>4. CASE request[p] = "invalid" /\ ~LastAttempt(p)
    BY <1>4, <2>1, <2>4 DEF ResumeWithReply, Post, TypeOK
  <2>5. CASE request[p] \in {"timeout", "unavailable"}
    BY <1>4, <2>1, <2>5 DEF ResumeWithReply, Done, TypeOK
  <2>6. QED BY <1>4, <2>2, <2>3, <2>4, <2>5 DEF ResumeWithReply, Replies
<1>5. ASSUME NEW p \in Prompts, ResumeCancelled(p)
      PROVE  AttemptsInStep'
  BY <1>5 DEF ResumeCancelled, Done, TypeOK
<1>6. ASSUME NEW p \in Prompts, OllamaReplies(p)
      PROVE  AttemptsInStep'
  BY <1>6 DEF OllamaReplies, TypeOK
<1>7. QED
  BY <1>1, <1>2, <1>3, <1>4, <1>5, <1>6
  DEF Next, ThreadStep, LoopStep, vars, Finish, GetResult, Take, WaitTimesOut, CheckDone, GiveUp,
      Tick, CancelArrives, Settle

(***************************************************************************)
(* The adapter's maximum is that of the prompts it has had answers for,    *)
(* and their requests are over.                                            *)
(***************************************************************************)
LEMMA ObservedStep == IInv /\ [Next]_vars => ObservedSoFar'
<1> SUFFICES ASSUME IInv, [Next]_vars PROVE ObservedSoFar'
  OBVIOUS
<1> USE GenerationAssumption DEF IInv
<1> DEFINE seen == {p \in Prompts : p < prompt \/ (p = prompt /\ (thread = "between" \/ answer = "ok"))}
<1>1. \A p \in seen : task[p] = "done"
  BY DEF PromptsInOrder, ThreadKnows, Outcomes, Prompts, TypeOK
<1>2. ASSUME UNCHANGED <<infer, sent>>
      PROVE  ObservedSoFar'
  BY <1>2 DEF ObservedSoFar, infer
<1>3. ASSUME UNCHANGED infer, NEW p \in Prompts, task[p] # "done",
             sent' = [sent EXCEPT ![p] = @ + 1]
      PROVE  ObservedSoFar'
  <2>1. seen' = seen /\ observed' = observed
    BY <1>3 DEF infer
  <2>2. \A q \in seen : sent'[q] = sent[q]
    BY <1>1, <1>3 DEF TypeOK
  <2>3. QED BY <2>1, <2>2 DEF ObservedSoFar
<1>4. ASSUME UNCHANGED <<observed, sent>>, seen' = seen
      PROVE  ObservedSoFar'
  BY <1>4 DEF ObservedSoFar
<1>5. CASE Submit
  <2>1. seen' = seen
    BY <1>5 DEF Submit, TypeOK, Prompts, ThreadKnows
  <2>2. QED BY <1>4, <1>5, <2>1 DEF Submit
<1>6. CASE Finish
  <2>1. seen' = seen
    BY <1>6 DEF Finish
  <2>2. QED BY <1>4, <1>6, <2>1 DEF Finish, coroutine
<1>7. CASE GetResult \/ (CheckDone /\ Take)
  <2>1. Take /\ prompt \in Prompts /\ thread \in {"waiting", "expired"}
    BY <1>7 DEF GetResult, CheckDone, ThreadKnows, TypeOK, Prompts
  <2>2. answer = "none"
    BY <2>1 DEF ThreadKnows
  <2>3. CASE fut[prompt] = "ok"
    <3>1. seen' = seen \cup {prompt}
      BY <2>1, <2>2, <2>3 DEF Take, TypeOK, Prompts
    <3>2. attempt[prompt] = sent[prompt] /\ sent[prompt] \in Nat /\ observed \in Nat
      BY <2>1, <2>3 DEF PromptsInOrder, AttemptsInStep, TypeOK, Outcomes, MaxAttempts
    <3>3. observed' = (IF sent[prompt] > observed THEN sent[prompt] ELSE observed) /\ sent' = sent
      BY <2>1, <2>3, <3>2 DEF Take, Observe, coroutine
    <3>4. \A p \in seen : sent[p] <= observed /\ sent[p] \in Nat
      BY DEF ObservedSoFar, TypeOK, MaxAttempts
    <3>5. \A p \in seen' : sent'[p] <= observed'
      BY <3>1, <3>2, <3>3, <3>4
    <3>6. \E p \in seen' : sent'[p] = observed'
      <4>1. CASE sent[prompt] >= observed
        BY <3>1, <3>2, <3>3, <4>1
      <4>2. CASE sent[prompt] < observed
        <5>1. seen # {}
          BY <3>2, <4>2 DEF ObservedSoFar
        <5>2. QED BY <3>1, <3>2, <3>3, <4>2, <5>1 DEF ObservedSoFar
      <4>3. QED BY <3>2, <4>1, <4>2
    <3>7. QED BY <3>5, <3>6 DEF ObservedSoFar
  <2>4. CASE fut[prompt] # "ok"
    <3>1. seen' = seen
      BY <2>1, <2>2, <2>4 DEF Take, Outcomes, Errors
    <3>2. QED BY <1>4, <2>1, <2>4, <3>1 DEF Take, coroutine
  <2>5. QED BY <2>3, <2>4
<1>8. CASE WaitTimesOut \/ (CheckDone /\ ~Take) \/ GiveUp
  <2>1. /\ thread \in {"waiting", "expired", "giving_up"} /\ answer = "none"
        /\ thread' # "between" /\ answer' # "ok" /\ prompt' = prompt
        /\ UNCHANGED <<observed, sent>>
    BY <1>8 DEF WaitTimesOut, CheckDone, GiveUp, ThreadKnows, coroutine
  <2>2. seen' = seen
    BY <2>1
  <2>3. QED BY <1>4, <2>1, <2>2
<1>9. ASSUME NEW p \in Prompts, FirstStep(p)
      PROVE  ObservedSoFar'
  BY <1>3, <1>9 DEF FirstStep, Post, infer
<1>10. ASSUME NEW p \in Prompts, ResumeWithReply(p)
       PROVE  ObservedSoFar'
  BY <1>2, <1>3, <1>10 DEF ResumeWithReply, Post, infer
<1>11. CASE UNCHANGED vars \/ Tick
  BY <1>2, <1>11 DEF vars, Tick, infer, coroutine
<1>12. ASSUME NEW p \in Prompts,
              CancelArrives(p) \/ ResumeCancelled(p) \/ Settle(p) \/ OllamaReplies(p)
       PROVE  ObservedSoFar'
  BY <1>2, <1>12 DEF CancelArrives, ResumeCancelled, Settle, OllamaReplies, infer, coroutine
<1>13. QED
  BY <1>5, <1>6, <1>7, <1>8, <1>9, <1>10, <1>11, <1>12 DEF Next, ThreadStep, LoopStep

(***************************************************************************)
(* The invariant is inductive.                                             *)
(***************************************************************************)
THEOREM GenerationInvariant == Spec => []IInv
<1>1. IInv /\ [Next]_vars => IInv'
  BY TypeStep, OrderStep, AttemptsStep, ObservedStep DEF IInv
<1>2. QED BY GenerationInit, <1>1, PTL DEF Spec

(***************************************************************************)
(* The model's variables keep their types: no prompt takes more requests   *)
(* than the configured attempts.                                           *)
(***************************************************************************)
THEOREM GenerationTypes == Spec => []TypeOK
<1>1. IInv => TypeOK
  BY DEF IInv
<1>2. QED BY GenerationInvariant, <1>1, PTL

(***************************************************************************)
(* One extraction never has two requests to Ollama open.                   *)
(***************************************************************************)
THEOREM RequestsOneByOne == Spec => []OneOpenRequest
<1>1. IInv => OneOpenRequest
  <2> SUFFICES ASSUME IInv, NEW p \in Prompts, NEW q \in Prompts,
                      request[p] = "open", request[q] = "open"
               PROVE  p = q
    BY DEF OneOpenRequest
  <2>1. \A r \in {p, q} : ~(r > prompt) /\ ~(r < prompt)
    BY DEF IInv, PromptsInOrder, Outcomes
  <2>2. prompt \in Nat /\ p \in Nat /\ q \in Nat
    BY GenerationAssumption DEF IInv, TypeOK, Prompts
  <2>3. QED BY <2>1, <2>2
<1>2. QED BY GenerationInvariant, <1>1, PTL

(***************************************************************************)
(* The attempts reported to the caller are the requests that were made.    *)
(***************************************************************************)
THEOREM AttemptsReported == Spec => []AttemptsTruthful
<1>1. IInv => AttemptsTruthful
  <2> SUFFICES ASSUME IInv PROVE AttemptsTruthful
    OBVIOUS
  <2> USE GenerationAssumption DEF IInv, Prompts
  <2>1. ASSUME answer = "ok"
        PROVE  (\A p \in Prompts : sent[p] <= observed) /\ (\E p \in Prompts : sent[p] = observed)
    <3>1. prompt \in Prompts
      BY <2>1 DEF TypeOK, ThreadKnows
    <3>2. \A p \in Prompts : p > prompt => sent[p] = 0
      BY DEF PromptsInOrder, AttemptsInStep
    <3>3. \A p \in Prompts : p <= prompt => sent[p] <= observed
      BY <2>1, <3>1 DEF ObservedSoFar
    <3>4. \E p \in Prompts : sent[p] = observed
      BY <2>1, <3>1 DEF ObservedSoFar
    <3>5. QED BY <3>1, <3>2, <3>3, <3>4 DEF TypeOK, MaxAttempts
  <2>2. ASSUME answer = "failed"
        PROVE  sent[prompt] = MaxAttempts
    <3>1. prompt \in Prompts
      BY <2>2 DEF TypeOK, ThreadKnows
    <3>2. outcome[prompt] = "failed"
      BY <2>2, <3>1 DEF ThreadKnows, PromptsInOrder, Outcomes, Errors
    <3>3. QED BY <3>1, <3>2 DEF AttemptsInStep
  <2>3. QED BY <2>1, <2>2 DEF AttemptsTruthful
<1>2. QED BY GenerationInvariant, <1>1, PTL

=============================================================================
