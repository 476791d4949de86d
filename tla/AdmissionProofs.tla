--------------------------- MODULE AdmissionProofs ---------------------------
(***************************************************************************)
(* Theorems about Admission, for every set of requests and every cap.      *)
(***************************************************************************)
EXTENDS Admission, FiniteSetTheorems, FunctionTheorems, SequenceTheorems, TLAPS

(***************************************************************************)
(* What wake_up_next hands out: a sequence of distinct waiters, as many as *)
(* permits at most, and one callback for each of them.                     *)
(***************************************************************************)
LEMMA WokenFacts ==
  ASSUME NEW P, P \subseteq Requests, NEW n \in Nat, NEW woken \in FirstWaiters(P, n)
  PROVE  /\ woken \in Seq(P)
         /\ Len(woken) \in 0..n
         /\ Range(woken) \subseteq P
         /\ IsFiniteSet(Range(woken))
         /\ Cardinality(Range(woken)) = Len(woken)
         /\ WakeUps(woken) \in Seq(Handles)
         /\ Len(WakeUps(woken)) = Len(woken)
         /\ \A i \in 1..Len(woken) :
              woken[i] \in P /\ WakeUps(woken)[i] = Step(woken[i])
<1> DEFINE k == IF n <= Cardinality(P) THEN n ELSE Cardinality(P)
<1>1. IsFiniteSet(P) /\ Cardinality(P) \in Nat
  BY FS_Subset, FS_CardinalityType, ConstantsAssumption
<1>2. k \in Nat /\ k <= n
  BY <1>1
<1>3. woken \in Injection(1..k, P)
  BY DEF FirstWaiters
<1>4. woken \in [1..k -> P] /\ \A a, b \in 1..k : woken[a] = woken[b] => a = b
  BY <1>3, Fun_InjectionProperties
<1>5. woken \in Seq(P) /\ Len(woken) = k /\ DOMAIN woken = 1..k
  BY <1>2, <1>4
<1>6. Range(woken) \subseteq P /\ woken \in Surjection(1..k, Range(woken))
  BY <1>4, Fun_RangeProperties
<1>7. woken \in Injection(1..k, Range(woken))
  <2>1. woken \in [1..k -> Range(woken)]
    BY <1>4, <1>5 DEF Range
  <2>2. QED BY <2>1, <1>4, Fun_IsInj
<1>8. IsFiniteSet(1..k) /\ Cardinality(1..k) = k
  BY <1>2, FS_Interval
<1>9. IsFiniteSet(Range(woken)) /\ Cardinality(Range(woken)) = k
  <2>1. IsFiniteSet(Range(woken))
    BY <1>6, <1>8, FS_Surjection
  <2>2. QED BY <2>1, <1>6, <1>7, <1>8, FS_Surjection
<1>10. WakeUps(woken) = [i \in 1..k |-> Step(woken[i])]
  BY <1>5 DEF WakeUps
<1>11. \A i \in 1..k : Step(woken[i]) \in Handles
  BY <1>4 DEF Step, Handles
<1>12. WakeUps(woken) \in Seq(Handles) /\ Len(WakeUps(woken)) = k
  BY <1>2, <1>10, <1>11
<1>13. QED
  BY <1>2, <1>4, <1>5, <1>6, <1>9, <1>10, <1>12

(***************************************************************************)
(* The counts PermitConservation adds up are counts of finite sets.        *)
(***************************************************************************)
LEMMA FiniteCounts ==
  ASSUME NEW S, S \subseteq Requests
  PROVE  IsFiniteSet(S) /\ Cardinality(S) \in Nat
BY FS_Subset, FS_CardinalityType, ConstantsAssumption

(***************************************************************************)
(* The invariant holds when no request has arrived and the semaphore holds *)
(* all its permits.                                                        *)
(***************************************************************************)
THEOREM AdmissionInit == Init => IInv
<1> SUFFICES ASSUME Init PROVE IInv
  OBVIOUS
<1>1. TypeOK
  BY ConstantsAssumption DEF Init, TypeOK, Places
<1>2. PermitConservation
  <2>1. Handed = {} /\ At("pipeline") = {}
    BY DEF Init, Handed, At
  <2>2. Cardinality(Handed) = 0 /\ Cardinality(At("pipeline")) = 0
    BY <2>1, FS_EmptySet, Zenon
  <2>3. QED BY <2>2, ConstantsAssumption DEF Init, PermitConservation
<1>3. FreshTasks /\ DeadlineFirst
  BY DEF Init, FreshTasks, DeadlineFirst
<1>4. QED BY <1>1, <1>2, <1>3 DEF IInv

(***************************************************************************)
(* How the counts move with one request.                                   *)
(***************************************************************************)
LEMMA CountWith ==
  ASSUME NEW S, S \subseteq Requests, NEW r \in Requests
  PROVE  /\ r \notin S => Cardinality(S \cup {r}) = Cardinality(S) + 1
         /\ r \in S => Cardinality(S \ {r}) = Cardinality(S) - 1
BY FiniteCounts, FS_AddElement, FS_RemoveElement

(***************************************************************************)
(* Two groups of requests that share none are counted apart.               *)
(***************************************************************************)
LEMMA CountDisjoint ==
  ASSUME NEW S, NEW T, IsFiniteSet(S), IsFiniteSet(T), S \cap T = {}
  PROVE  Cardinality(S \cup T) = Cardinality(S) + Cardinality(T)
<1>1. Cardinality(S) \in Nat /\ Cardinality(T) \in Nat
  BY FS_CardinalityType
<1>2. Cardinality(S \cap T) = 0
  BY FS_EmptySet, Zenon
<1>3. Cardinality(S \cup T) = Cardinality(S) + Cardinality(T) - Cardinality(S \cap T)
  BY FS_Union, Zenon
<1>4. QED BY <1>1, <1>2, <1>3

(***************************************************************************)
(* No waiter ever resumes without an exception: the zero deadline has      *)
(* fired by then.                                                          *)
(***************************************************************************)
LEMMA ResumeRaises ==
  ASSUME TypeOK, DeadlineFirst, NEW r \in Requests, Resume(r)
  PROVE  deadline[r] = "expiring" /\ Raises(r)
<1>1. pc[r] = "waiting" /\ ready # <<>> /\ Head(ready) = Step(r)
  BY DEF Resume, Running
<1>2. 1 \in DOMAIN ready /\ ready[1] = Step(r)
  BY <1>1 DEF TypeOK
<1>3. ~ \E i \in DOMAIN ready :
         ready[i] = OnTimeout(r) /\ \A j \in DOMAIN ready : ready[j] = Step(r) => i < j
  BY <1>2 DEF TypeOK
<1>4. QED BY <1>1, <1>3 DEF DeadlineFirst

(***************************************************************************)
(* The permit count is preserved by every action.                          *)
(***************************************************************************)
LEMMA ConservationStep ==
  ASSUME IInv, [Next]_vars
  PROVE  PermitConservation' /\ value' \in Int
<1> USE DEF IInv
<1>0. value \in Nat /\ Cardinality(Handed) \in Nat /\ Cardinality(At("pipeline")) \in Nat
  BY FiniteCounts, ConstantsAssumption DEF TypeOK, Handed, At
<1> DEFINE Same == value' = value /\ Handed' = Handed /\ At("pipeline")' = At("pipeline")
<1>1. Same => PermitConservation' /\ value' \in Int
  BY <1>0 DEF PermitConservation
<1>2. CASE UNCHANGED vars
  BY <1>1, <1>2 DEF vars, Handed, At
<1>3. ASSUME NEW r \in Requests, CancelledEarly(r) \/ FailAtOnce(r) \/ Suspend(r)
      PROVE  Same
  BY <1>3 DEF CancelledEarly, FailAtOnce, Suspend, Handed, At, TypeOK
<1>4. ASSUME NEW r \in Requests, AcquireNow(r)
      PROVE  PermitConservation' /\ value' \in Int
  <2>1. Handed' = Handed
    BY <1>4 DEF AcquireNow, Handed, At, TypeOK
  <2>2. At("pipeline")' = At("pipeline") \cup {r} /\ r \notin At("pipeline")
    BY <1>4 DEF AcquireNow, At, TypeOK
  <2>3. Cardinality(At("pipeline")') = Cardinality(At("pipeline")) + 1
    BY <2>2, CountWith DEF At
  <2>4. QED BY <1>0, <1>4, <2>1, <2>3 DEF AcquireNow, PermitConservation
<1>5. ASSUME NEW r \in Requests, DeadlineFires(r) \/ CallerCancels(r)
      PROVE  Same
  BY <1>5 DEF DeadlineFires, CallerCancels, CancelTask, Handed, At, TypeOK
<1>6. ASSUME NEW r \in Requests, Arrive(r) \/ PipelineEnds(r)
      PROVE  Same
  BY <1>6 DEF Arrive, PipelineEnds, Handed, At, TypeOK
<1>7. ASSUME NEW r \in Requests, Resume(r)
      PROVE  PermitConservation' /\ value' \in Int
  <2> DEFINE permits == IF Raises(r) /\ fut[r] = "done" THEN value + 1 ELSE value
             others == Pending \ {r}
             kept == Handed \ {r}
  <2>1. Raises(r) /\ pc[r] = "waiting" /\ pc'[r] \in Answers
    BY <1>7, ResumeRaises DEF Resume, TypeOK, Answers
  <2>2. PICK woken \in FirstWaiters(others, permits) :
          /\ value' = permits - Len(woken)
          /\ fut' = [q \in Requests |->
                       IF q \in Range(woken) THEN "done"
                       ELSE IF q = r THEN "none" ELSE fut[q]]
    BY <1>7, <2>1 DEF Resume
  <2>3. permits \in Nat /\ others \subseteq Requests
    BY <1>0 DEF Pending, At
  <2>4. /\ Range(woken) \subseteq others
        /\ IsFiniteSet(Range(woken)) /\ Cardinality(Range(woken)) = Len(woken)
        /\ Len(woken) \in Nat
    <3>1. woken \in FirstWaiters(others, permits)
      BY <2>2
    <3> HIDE DEF permits, others
    <3>2. Len(woken) \in 0..permits
      BY <3>1, <2>3, WokenFacts
    <3>3. Len(woken) \in Nat
      BY <2>3, <3>2
    <3>4. QED BY <3>1, <3>3, <2>3, WokenFacts, Zenon
  <2>5. At("pipeline")' = At("pipeline")
    BY <1>7, <2>1 DEF Resume, At, TypeOK, Answers
  <2>6. Handed' = kept \cup Range(woken) /\ kept \cap Range(woken) = {}
    BY <1>7, <2>1, <2>2, <2>4 DEF Resume, Handed, Pending, At, TypeOK, Answers
  <2>7. IsFiniteSet(kept) /\ kept \subseteq Requests
    BY FiniteCounts DEF Handed, At
  <2>8. Cardinality(Handed') = Cardinality(kept) + Len(woken)
    BY <2>4, <2>6, <2>7, CountDisjoint, Zenon
  <2>9. value + Cardinality(Handed) = permits + Cardinality(kept)
    <3>1. CASE fut[r] = "done"
      <4>1. r \in Handed
        BY <2>1, <3>1 DEF Handed, At
      <4>2. Cardinality(kept) = Cardinality(Handed) - 1
        BY <4>1, CountWith DEF Handed, At
      <4>3. QED BY <1>0, <2>1, <3>1, <4>2
    <3>2. CASE fut[r] # "done"
      <4>1. kept = Handed
        BY <3>2 DEF Handed
      <4>2. QED BY <3>2, <4>1
    <3>3. QED BY <3>1, <3>2
  <2>10. Cardinality(kept) \in Nat
    BY <2>7, FiniteCounts
  <2>11. value' = permits - Len(woken)
    BY <2>2
  <2> HIDE DEF permits, kept, others
  <2>12. QED
    BY <1>0, <2>3, <2>4, <2>5, <2>8, <2>9, <2>10, <2>11 DEF PermitConservation
<1>8. ASSUME NEW r \in Requests, Release(r)
      PROVE  PermitConservation' /\ value' \in Int
  <2>1. pc[r] = "pipeline" /\ pc'[r] \in Answers
    BY <1>8 DEF Release, TypeOK, Answers
  <2>2. PICK woken \in FirstWaiters(Pending, 1) :
          /\ value' = (value + 1) - Len(woken)
          /\ fut' = [q \in Requests |->
                       IF q \in Range(woken) THEN "done"
                       ELSE IF q = r THEN "none" ELSE fut[q]]
    BY <1>8 DEF Release
  <2>3. /\ Range(woken) \subseteq Pending
        /\ IsFiniteSet(Range(woken)) /\ Cardinality(Range(woken)) = Len(woken)
        /\ Len(woken) \in Nat
    <3>1. Pending \subseteq Requests /\ 1 \in Nat
      BY DEF Pending, At
    <3>2. Len(woken) \in 0..1
      BY <2>2, <3>1, WokenFacts
    <3>3. Len(woken) \in Nat
      BY <3>2
    <3>4. QED BY <2>2, <3>1, <3>3, WokenFacts, Zenon
  <2>4. At("pipeline")' = At("pipeline") \ {r} /\ r \in At("pipeline")
    BY <1>8, <2>1 DEF Release, At, TypeOK, Answers
  <2>5. Cardinality(At("pipeline")') = Cardinality(At("pipeline")) - 1
    BY <2>4, CountWith DEF At
  <2>6. Handed' = Handed \cup Range(woken) /\ Handed \cap Range(woken) = {}
    BY <1>8, <2>1, <2>2, <2>3 DEF Release, Handed, Pending, At, TypeOK, Answers
  <2>7. Cardinality(Handed') = Cardinality(Handed) + Len(woken)
    <3>1. IsFiniteSet(Handed)
      BY FiniteCounts DEF Handed, At
    <3>2. QED BY <2>3, <2>6, <3>1, CountDisjoint, Zenon
  <2>8. QED
    BY <1>0, <2>2, <2>3, <2>5, <2>7 DEF PermitConservation
<1>9. QED
  BY <1>1, <1>2, <1>3, <1>4, <1>5, <1>6, <1>7, <1>8 DEF Next, RunCallback

(***************************************************************************)
(* What handing on permits does to the rest of the state: only waiters     *)
(* whose futures were pending are touched and scheduled, at the end of the *)
(* ready queue.                                                            *)
(***************************************************************************)
LEMMA HandedOn ==
  ASSUME IInv, NEW r \in Requests, Resume(r) \/ Release(r)
  PROVE  /\ value' \in Nat
         /\ fut' \in [Requests -> {"none", "pending", "done", "cancelled"}]
         /\ \A q \in Requests \ {r} : fut'[q] = fut[q] \/ q \in Pending
         /\ \E wakes \in Seq(Handles) :
              /\ ready' = Tail(ready) \o wakes
              /\ \A i \in 1..Len(wakes) : \E q \in Pending \ {r} : wakes[i] = Step(q)
<1> USE DEF IInv
<1>0. PICK P \in SUBSET (Pending \ {r}), n \in Nat, free \in Nat :
         /\ n <= free
         /\ \E woken \in FirstWaiters(P, n) :
              /\ value' = free - Len(woken)
              /\ fut' = [q \in Requests |->
                           IF q \in Range(woken) THEN "done"
                           ELSE IF q = r THEN "none" ELSE fut[q]]
              /\ ready' = Tail(ready) \o WakeUps(woken)
  <2>1. CASE Resume(r)
    <3> DEFINE permits == IF Raises(r) /\ fut[r] = "done" THEN value + 1 ELSE value
    <3>1. Raises(r)
      BY <2>1, ResumeRaises
    <3>2. permits \in Nat /\ permits <= permits
      BY ConstantsAssumption DEF TypeOK
    <3>3. \E woken \in FirstWaiters(Pending \ {r}, permits) :
            /\ value' = permits - Len(woken)
            /\ fut' = [q \in Requests |->
                         IF q \in Range(woken) THEN "done"
                         ELSE IF q = r THEN "none" ELSE fut[q]]
            /\ ready' = Tail(ready) \o WakeUps(woken)
      BY <2>1, <3>1 DEF Resume
    <3> HIDE DEF permits
    <3>4. QED BY <3>2, <3>3
  <2>2. CASE Release(r)
    <3>1. Pending \in SUBSET (Pending \ {r})
      BY <2>2 DEF Release, Pending, At
    <3>2. value + 1 \in Nat /\ 1 \in Nat /\ 1 <= value + 1
      BY ConstantsAssumption DEF TypeOK
    <3>3. PICK woken \in FirstWaiters(Pending, 1) :
            /\ value' = (value + 1) - Len(woken)
            /\ fut' = [q \in Requests |->
                         IF q \in Range(woken) THEN "done"
                         ELSE IF q = r THEN "none" ELSE fut[q]]
            /\ ready' = Tail(ready) \o WakeUps(woken)
      BY <2>2 DEF Release
    <3> DEFINE free == value + 1
    <3>4. free \in Nat /\ 1 <= free /\ 1 \in Nat
      BY <3>2
    <3>5. value' = free - Len(woken)
      BY <3>3
    <3> HIDE DEF free
    <3>6. QED BY <3>1, <3>3, <3>4, <3>5
  <2>3. QED BY <2>1, <2>2
<1>1. PICK woken \in FirstWaiters(P, n) :
         /\ value' = free - Len(woken)
         /\ fut' = [q \in Requests |->
                      IF q \in Range(woken) THEN "done"
                      ELSE IF q = r THEN "none" ELSE fut[q]]
         /\ ready' = Tail(ready) \o WakeUps(woken)
  BY <1>0
<1>2. P \subseteq Requests
  BY DEF Pending, At
<1>3. Len(woken) \in 0..n
  BY <1>1, <1>2, WokenFacts
<1>4. Range(woken) \subseteq P /\ WakeUps(woken) \in Seq(Handles)
  BY <1>1, <1>2, WokenFacts
<1>5. Len(WakeUps(woken)) = Len(woken)
      /\ \A i \in 1..Len(woken) : woken[i] \in P /\ WakeUps(woken)[i] = Step(woken[i])
  BY <1>1, <1>2, WokenFacts
<1>6. value' \in Nat
  BY <1>0, <1>1, <1>3
<1>7. fut' \in [Requests -> {"none", "pending", "done", "cancelled"}]
  BY <1>1 DEF TypeOK
<1>8. \A q \in Requests \ {r} : fut'[q] = fut[q] \/ q \in Pending
  BY <1>1, <1>4
<1>9. \A i \in 1..Len(WakeUps(woken)) :
        \E q \in Pending \ {r} : WakeUps(woken)[i] = Step(q)
  BY <1>5
<1>10. QED
  BY <1>1, <1>4, <1>6, <1>7, <1>8, <1>9

(***************************************************************************)
(* Every step keeps the types. That the semaphore's counter never goes     *)
(* below 0 or above the cap is what permit conservation adds.              *)
(***************************************************************************)
LEMMA TypeStep ==
  ASSUME IInv, [Next]_vars
  PROVE  TypeOK'
<1> USE DEF IInv
<1>0. PermitConservation' /\ value' \in Int
  BY ConservationStep
<1>1. CASE UNCHANGED vars
  BY <1>1 DEF vars, TypeOK
<1>2. ASSUME NEW r \in Requests,
             CancelledEarly(r) \/ FailAtOnce(r) \/ AcquireNow(r)
      PROVE  TypeOK'
  <2>1. Tail(ready) \in Seq(Handles)
    BY <1>2 DEF CancelledEarly, FailAtOnce, AcquireNow, Running, TypeOK
  <2>2. value' \in 0..MaxConcurrent
    BY <1>2, ConstantsAssumption DEF CancelledEarly, FailAtOnce, AcquireNow, Locked, TypeOK
  <2>3. QED
    BY <1>2, <2>1, <2>2 DEF CancelledEarly, FailAtOnce, AcquireNow, TypeOK, Places, Answers
<1>3. ASSUME NEW r \in Requests, Suspend(r)
      PROVE  TypeOK'
  <2>1. Append(Tail(ready), OnTimeout(r)) \in Seq(Handles)
    BY <1>3 DEF Suspend, Running, TypeOK, OnTimeout, Handles
  <2>2. QED
    BY <1>3, <2>1 DEF Suspend, TypeOK, Places
<1>4. ASSUME NEW r \in Requests, NEW queue \in Seq(Handles), CancelTask(r, queue)
      PROVE  /\ fut' \in [Requests -> {"none", "pending", "done", "cancelled"}]
             /\ mustCancel' \in [Requests -> BOOLEAN]
             /\ ready' \in Seq(Handles)
  <2>1. Append(queue, Step(r)) \in Seq(Handles)
    BY DEF Step, Handles
  <2>2. QED
    BY <1>4, <2>1 DEF CancelTask, TypeOK
<1>5. ASSUME NEW r \in Requests, DeadlineFires(r)
      PROVE  TypeOK'
  <2>1. Tail(ready) \in Seq(Handles)
    BY <1>5 DEF DeadlineFires, Running, TypeOK
  <2>2. CASE deadline[r] = "entered"
    BY <1>4, <1>5, <2>1, <2>2 DEF DeadlineFires, TypeOK
  <2>3. CASE deadline[r] # "entered"
    BY <1>5, <2>1, <2>3 DEF DeadlineFires, TypeOK
  <2>4. QED BY <2>2, <2>3
<1>6. ASSUME NEW r \in Requests, CallerCancels(r)
      PROVE  TypeOK'
  BY <1>4, <1>6 DEF CallerCancels, TypeOK
<1>7. ASSUME NEW r \in Requests, Arrive(r) \/ PipelineEnds(r)
      PROVE  TypeOK'
  <2>1. Append(ready, Step(r)) \in Seq(Handles)
    BY DEF TypeOK, Step, Handles
  <2>2. QED
    BY <1>7, <2>1 DEF Arrive, PipelineEnds, TypeOK, Places
<1>8. ASSUME NEW r \in Requests, Resume(r) \/ Release(r)
      PROVE  TypeOK'
  <2>1. value' \in 0..MaxConcurrent
    <3>1. value' \in Nat
      BY <1>8, HandedOn
    <3>2. Cardinality(Handed)' \in Nat /\ Cardinality(At("pipeline"))' \in Nat
      BY FiniteCounts DEF Handed, At
    <3>3. QED BY <1>0, <3>1, <3>2, ConstantsAssumption DEF PermitConservation
  <2>2. fut' \in [Requests -> {"none", "pending", "done", "cancelled"}]
    BY <1>8, HandedOn
  <2>3. ready' \in Seq(Handles)
    <3>1. Tail(ready) \in Seq(Handles)
      BY <1>8 DEF Resume, Release, Running, TypeOK
    <3>2. PICK wakes \in Seq(Handles) : ready' = Tail(ready) \o wakes
      BY <1>8, HandedOn
    <3>3. QED BY <3>1, <3>2
  <2>4. waiters' \in Seq(Requests)
    <3>1. CASE Resume(r)
      <4>1. PICK i \in DOMAIN waiters : waiters' = RemoveAt(waiters, i)
        BY <3>1 DEF Resume
      <4>2. /\ SubSeq(waiters, 1, i - 1) \in Seq(Requests)
            /\ SubSeq(waiters, i + 1, Len(waiters)) \in Seq(Requests)
        BY DEF TypeOK
      <4>3. QED BY <4>1, <4>2 DEF RemoveAt
    <3>2. CASE Release(r)
      BY <3>2 DEF Release, TypeOK
    <3>3. QED BY <1>8, <3>1, <3>2
  <2>5. pc' \in [Requests -> Places]
    BY <1>8 DEF Resume, Release, TypeOK, Places, Answers
  <2>6. /\ mustCancel' \in [Requests -> BOOLEAN]
        /\ deadline' \in [Requests -> {"none", "entered", "expiring", "exited"}]
        /\ cancelled' \in [Requests -> BOOLEAN]
    BY <1>8 DEF Resume, Release, TypeOK
  <2>7. QED
    BY <2>1, <2>2, <2>3, <2>4, <2>5, <2>6 DEF TypeOK
<1>9. QED
  BY <1>1, <1>2, <1>3, <1>5, <1>6, <1>7, <1>8 DEF Next, RunCallback

(***************************************************************************)
(* A task that has not run yet stays in the queue once. A callback that is *)
(* in the queue after a step was in it before, in the same order, or was   *)
(* appended.                                                               *)
(***************************************************************************)
LEMMA FreshStep ==
  ASSUME IInv, [Next]_vars
  PROVE  FreshTasks'
<1> SUFFICES ASSUME NEW t \in Requests, pc'[t] \in {"idle", "arriving"}
             PROVE  /\ fut'[t] = "none"
                    /\ \A i \in DOMAIN ready' : ready'[i] = Step(t) =>
                         /\ pc'[t] = "arriving"
                         /\ \A j \in DOMAIN ready' : ready'[j] = Step(t) => j = i
  BY DEF FreshTasks
<1> USE DEF IInv
<1> DEFINE Once(q) == \A i \in DOMAIN q : q[i] = Step(t) =>
                        /\ pc'[t] = "arriving"
                        /\ \A j \in DOMAIN q : q[j] = Step(t) => j = i
<1>1. ASSUME NEW q \in Seq(Handles), Once(q), NEW h \in Handles, h # Step(t)
      PROVE  Once(Append(q, h))
  BY <1>1
<1>2. ASSUME ready # <<>>, Once(ready)
      PROVE  Once(Tail(ready))
  BY <1>2 DEF TypeOK
<1>3. ASSUME NEW q \in Seq(Handles), Once(q), NEW wakes \in Seq(Handles),
             \A i \in 1..Len(wakes) : wakes[i] # Step(t)
      PROVE  Once(q \o wakes)
  BY <1>3
<1>4. CASE UNCHANGED vars
  BY <1>4 DEF vars, FreshTasks
<1>5. ASSUME pc'[t] = pc[t]
      PROVE  fut[t] = "none" /\ Once(ready)
  BY <1>5 DEF FreshTasks
<1>6. ASSUME NEW r \in Requests,
             CancelledEarly(r) \/ FailAtOnce(r) \/ AcquireNow(r)
      PROVE  fut'[t] = "none" /\ Once(ready')
  <2>1. r # t /\ pc'[t] = pc[t] /\ fut'[t] = fut[t] /\ ready # <<>> /\ ready' = Tail(ready)
    BY <1>6 DEF CancelledEarly, FailAtOnce, AcquireNow, Running, TypeOK
  <2>2. QED BY <1>2, <1>5, <2>1
<1>7. ASSUME NEW r \in Requests, Suspend(r)
      PROVE  fut'[t] = "none" /\ Once(ready')
  <2>1. r # t /\ pc'[t] = pc[t] /\ fut'[t] = fut[t] /\ ready # <<>>
    BY <1>7 DEF Suspend, Running, TypeOK
  <2>2. ready' = Append(Tail(ready), OnTimeout(r)) /\ Tail(ready) \in Seq(Handles)
    BY <1>7 DEF Suspend, Running, TypeOK
  <2>3. OnTimeout(r) \in Handles /\ OnTimeout(r) # Step(t)
    BY DEF OnTimeout, Step, Handles
  <2>4. QED BY <1>1, <1>2, <1>5, <2>1, <2>2, <2>3
<1>8. ASSUME NEW r \in Requests, NEW queue \in Seq(Handles), CancelTask(r, queue),
             fut[t] = "none", Once(queue)
      PROVE  fut'[t] = "none" /\ Once(ready')
  <2>1. CASE fut[r] = "pending"
    <3>1. Step(r) # Step(t) /\ Step(r) \in Handles
      BY <1>8, <2>1 DEF Step, Handles
    <3>2. fut'[t] = "none" /\ ready' = Append(queue, Step(r))
      BY <1>8, <2>1 DEF CancelTask, TypeOK
    <3>3. QED BY <1>1, <1>8, <3>1, <3>2
  <2>2. CASE fut[r] # "pending"
    BY <1>8, <2>2 DEF CancelTask
  <2>3. QED BY <2>1, <2>2
<1>9. ASSUME NEW r \in Requests, DeadlineFires(r)
      PROVE  fut'[t] = "none" /\ Once(ready')
  <2>1. pc'[t] = pc[t] /\ ready # <<>> /\ Tail(ready) \in Seq(Handles)
    BY <1>9 DEF DeadlineFires, Running, TypeOK
  <2>2. fut[t] = "none" /\ Once(Tail(ready))
    BY <1>2, <1>5, <2>1
  <2>3. CASE deadline[r] = "entered"
    BY <1>8, <1>9, <2>1, <2>2, <2>3 DEF DeadlineFires
  <2>4. CASE deadline[r] # "entered"
    BY <1>9, <2>2, <2>4 DEF DeadlineFires
  <2>5. QED BY <2>3, <2>4
<1>10. ASSUME NEW r \in Requests, CallerCancels(r)
       PROVE  fut'[t] = "none" /\ Once(ready')
  <2>1. pc'[t] = pc[t] /\ ready \in Seq(Handles)
    BY <1>10 DEF CallerCancels, TypeOK
  <2>2. QED BY <1>5, <1>8, <1>10, <2>1 DEF CallerCancels
<1>11. ASSUME NEW r \in Requests, Arrive(r)
       PROVE  fut'[t] = "none" /\ Once(ready')
  <2>1. ready' = Append(ready, Step(r)) /\ fut' = fut /\ pc[r] = "idle" /\ ready \in Seq(Handles)
    BY <1>11 DEF Arrive, TypeOK
  <2>2. CASE r = t
    <3>1. pc'[t] = "arriving" /\ fut[t] = "none"
      BY <1>11, <2>1, <2>2 DEF Arrive, TypeOK, FreshTasks
    <3>2. \A i \in DOMAIN ready : ready[i] # Step(t)
      BY <2>1, <2>2 DEF FreshTasks
    <3>3. QED BY <2>1, <2>2, <3>1, <3>2
  <2>3. CASE r # t
    <3>1. pc'[t] = pc[t]
      BY <1>11, <2>3 DEF Arrive, TypeOK
    <3>2. Step(r) \in Handles /\ Step(r) # Step(t)
      BY <2>3 DEF Step, Handles
    <3>3. QED BY <1>1, <1>5, <2>1, <3>1, <3>2
  <2>4. QED BY <2>2, <2>3
<1>12. ASSUME NEW r \in Requests, PipelineEnds(r)
       PROVE  fut'[t] = "none" /\ Once(ready')
  <2>1. r # t /\ pc'[t] = pc[t] /\ fut'[t] = fut[t] /\ ready' = Append(ready, Step(r))
    BY <1>12 DEF PipelineEnds, TypeOK
  <2>2. Step(r) \in Handles /\ Step(r) # Step(t) /\ ready \in Seq(Handles)
    BY <2>1 DEF Step, Handles, TypeOK
  <2>3. QED BY <1>1, <1>5, <2>1, <2>2
<1>13. ASSUME NEW r \in Requests, Resume(r) \/ Release(r)
       PROVE  fut'[t] = "none" /\ Once(ready')
  <2>1. r # t /\ pc'[t] = pc[t] /\ ready # <<>> /\ Tail(ready) \in Seq(Handles)
    BY <1>13, ResumeRaises DEF Resume, Release, Running, TypeOK
  <2>2. t \notin Pending
    BY <2>1 DEF Pending, At
  <2>3. PICK wakes \in Seq(Handles) :
          /\ ready' = Tail(ready) \o wakes
          /\ \A i \in 1..Len(wakes) : \E q \in Pending \ {r} : wakes[i] = Step(q)
    BY <1>13, HandedOn
  <2>4. \A i \in 1..Len(wakes) : wakes[i] # Step(t)
    <3>1. \A q \in Pending : Step(q) # Step(t)
      BY <2>2 DEF Step
    <3>2. QED BY <2>3, <3>1
  <2>5. fut'[t] = fut[t]
    BY <1>13, <2>1, <2>2, HandedOn
  <2>6. QED BY <1>2, <1>3, <1>5, <2>1, <2>3, <2>4, <2>5
<1>14. QED
  BY <1>4, <1>5, <1>6, <1>7, <1>9, <1>10, <1>11, <1>12, <1>13 DEF Next, RunCallback, vars

(***************************************************************************)
(* A waiter's zero deadline stays ahead of everything that could resume    *)
(* the waiter, until it fires and dooms the waiter: whatever a step        *)
(* appends to the ready queue comes after it.                              *)
(***************************************************************************)
LEMMA DeadlineStep ==
  ASSUME IInv, [Next]_vars
  PROVE  DeadlineFirst'
<1> SUFFICES ASSUME NEW w \in Requests, pc'[w] = "waiting"
             PROVE  \/ /\ deadline'[w] = "entered"
                       /\ \E i \in DOMAIN ready' :
                            /\ ready'[i] = OnTimeout(w)
                            /\ \A j \in DOMAIN ready' : ready'[j] = Step(w) => i < j
                    \/ deadline'[w] = "expiring" /\ Raises(w)'
  BY DEF DeadlineFirst
<1> USE DEF IInv
<1> DEFINE InOrder(q) == \E i \in DOMAIN q :
                           /\ q[i] = OnTimeout(w)
                           /\ \A j \in DOMAIN q : q[j] = Step(w) => i < j
           Doomed == deadline[w] = "expiring" /\ Raises(w)
           Goal == (deadline'[w] = "entered" /\ InOrder(ready')) \/ Doomed'
<1>1. ASSUME NEW q \in Seq(Handles), InOrder(q), NEW h \in Handles
      PROVE  InOrder(Append(q, h))
  BY <1>1
<1>2. ASSUME ready # <<>>, InOrder(ready), Head(ready) # OnTimeout(w)
      PROVE  InOrder(Tail(ready))
  <2>1. PICK i \in DOMAIN ready :
          ready[i] = OnTimeout(w) /\ \A j \in DOMAIN ready : ready[j] = Step(w) => i < j
    BY <1>2
  <2>2. i \in 2..Len(ready)
    BY <1>2, <2>1 DEF TypeOK
  <2>3. /\ Tail(ready) \in Seq(Handles) /\ Len(Tail(ready)) = Len(ready) - 1
        /\ \A j \in 1..Len(Tail(ready)) : Tail(ready)[j] = ready[j + 1]
    BY <1>2, HeadTailProperties DEF TypeOK
  <2>4. i - 1 \in DOMAIN Tail(ready) /\ Tail(ready)[i - 1] = OnTimeout(w)
    BY <2>1, <2>2, <2>3
  <2>5. \A j \in DOMAIN Tail(ready) : Tail(ready)[j] = Step(w) => i - 1 < j
    BY <2>1, <2>2, <2>3 DEF TypeOK
  <2>6. QED BY <2>4, <2>5
<1>3. ASSUME NEW q \in Seq(Handles), InOrder(q), NEW wakes \in Seq(Handles)
      PROVE  InOrder(q \o wakes)
  BY <1>3
<1>4. ASSUME pc[w] = "waiting"
      PROVE  (deadline[w] = "entered" /\ InOrder(ready)) \/ Doomed
  BY <1>4 DEF DeadlineFirst
<1>5. CASE UNCHANGED vars
  BY <1>4, <1>5 DEF vars, Raises
<1>6. ASSUME NEW r \in Requests,
             CancelledEarly(r) \/ FailAtOnce(r) \/ AcquireNow(r)
      PROVE  Goal
  <2>1. /\ r # w /\ pc'[w] = pc[w] /\ deadline'[w] = deadline[w] /\ Raises(w)' = Raises(w)
        /\ ready # <<>> /\ ready' = Tail(ready) /\ Head(ready) = Step(r)
    BY <1>6 DEF CancelledEarly, FailAtOnce, AcquireNow, Running, TypeOK, Raises
  <2>2. Step(r) # OnTimeout(w)
    BY DEF Step, OnTimeout
  <2>3. QED BY <1>2, <1>4, <2>1, <2>2
<1>7. ASSUME NEW r \in Requests, Suspend(r)
      PROVE  Goal
  <2>1. /\ ready # <<>> /\ Head(ready) = Step(r) /\ Tail(ready) \in Seq(Handles)
        /\ ready' = Append(Tail(ready), OnTimeout(r))
    BY <1>7 DEF Suspend, Running, TypeOK
  <2>2. Step(r) # OnTimeout(w) /\ OnTimeout(r) \in Handles /\ Step(r) # OnTimeout(r)
    BY DEF Step, OnTimeout, Handles
  <2>3. CASE r = w
    <3>1. deadline'[w] = "entered"
      BY <1>7, <2>3 DEF Suspend, TypeOK
    <3>2. \A j \in DOMAIN ready : ready[j] = Step(w) => j = 1
      BY <1>7, <2>1, <2>3 DEF Suspend, FreshTasks, TypeOK
    <3>3. \A j \in DOMAIN Tail(ready) : Tail(ready)[j] # Step(w)
      BY <2>1, <3>2 DEF TypeOK
    <3>4. InOrder(ready')
      <4> DEFINE k == Len(Tail(ready)) + 1
      <4>1. k \in DOMAIN ready' /\ ready'[k] = OnTimeout(w)
        BY <2>1, <2>2, <2>3
      <4>2. \A j \in DOMAIN ready' : ready'[j] # Step(w)
        BY <2>1, <2>2, <2>3, <3>3
      <4> HIDE DEF k
      <4>3. QED BY <4>1, <4>2
    <3>5. QED BY <3>1, <3>4
  <2>4. CASE r # w
    <3>1. pc'[w] = pc[w] /\ deadline'[w] = deadline[w] /\ Raises(w)' = Raises(w)
      BY <1>7, <2>4 DEF Suspend, TypeOK, Raises
    <3>2. QED BY <1>1, <1>2, <1>4, <2>1, <2>2, <3>1
  <2>5. QED BY <2>3, <2>4
<1>8. ASSUME NEW r \in Requests, NEW queue \in Seq(Handles), CancelTask(r, queue)
      PROVE  /\ InOrder(queue) => InOrder(ready')
             /\ Raises(w) => Raises(w)'
             /\ Raises(r)'
  <2>1. Step(r) \in Handles
    BY DEF Step, Handles
  <2>2. InOrder(queue) => InOrder(ready')
    BY <1>1, <1>8, <2>1 DEF CancelTask
  <2>3. QED BY <1>8, <2>2 DEF CancelTask, Raises, TypeOK
<1>9. ASSUME NEW r \in Requests, DeadlineFires(r)
      PROVE  Goal
  <2>1. /\ pc'[w] = pc[w] /\ ready # <<>> /\ Tail(ready) \in Seq(Handles)
        /\ Head(ready) = OnTimeout(r)
    BY <1>9 DEF DeadlineFires, Running, TypeOK
  <2>2. r # w => OnTimeout(r) # OnTimeout(w)
    BY DEF OnTimeout
  <2>3. CASE deadline[r] = "entered"
    <3>1. CancelTask(r, Tail(ready)) /\ deadline' = [deadline EXCEPT ![r] = "expiring"]
      BY <1>9, <2>3 DEF DeadlineFires
    <3>2. (InOrder(Tail(ready)) => InOrder(ready')) /\ (Raises(w) => Raises(w)') /\ Raises(r)'
      BY <1>8, <2>1, <3>1
    <3>3. CASE r = w
      BY <3>1, <3>2, <3>3 DEF TypeOK
    <3>4. CASE r # w
      <4>1. deadline'[w] = deadline[w]
        BY <3>1, <3>4 DEF TypeOK
      <4>2. QED BY <1>2, <1>4, <2>1, <2>2, <3>2, <3>4, <4>1
    <3>5. QED BY <3>3, <3>4
  <2>4. CASE deadline[r] # "entered"
    <3>1. deadline'[w] = deadline[w] /\ Raises(w)' = Raises(w) /\ ready' = Tail(ready)
      BY <1>9, <2>4 DEF DeadlineFires, Raises
    <3>2. QED BY <1>2, <1>4, <2>1, <2>2, <2>4, <3>1
  <2>5. QED BY <2>3, <2>4
<1>10. ASSUME NEW r \in Requests, CallerCancels(r)
       PROVE  Goal
  <2>1. /\ pc'[w] = pc[w] /\ deadline'[w] = deadline[w] /\ ready \in Seq(Handles)
        /\ CancelTask(r, ready)
    BY <1>10 DEF CallerCancels, TypeOK
  <2>2. QED BY <1>4, <1>8, <2>1
<1>11. ASSUME NEW r \in Requests, Arrive(r) \/ PipelineEnds(r)
       PROVE  Goal
  <2>1. /\ r # w /\ pc'[w] = pc[w] /\ deadline'[w] = deadline[w] /\ Raises(w)' = Raises(w)
        /\ ready' = Append(ready, Step(r)) /\ ready \in Seq(Handles)
    BY <1>11 DEF Arrive, PipelineEnds, TypeOK, Raises
  <2>2. Step(r) \in Handles
    BY DEF Step, Handles
  <2>3. QED BY <1>1, <1>4, <2>1, <2>2
<1>12. ASSUME NEW r \in Requests, Resume(r) \/ Release(r)
       PROVE  Goal
  <2>1. /\ r # w /\ pc'[w] = pc[w] /\ deadline'[w] = deadline[w]
        /\ ready # <<>> /\ Tail(ready) \in Seq(Handles) /\ Head(ready) = Step(r)
        /\ mustCancel'[w] = mustCancel[w]
    BY <1>12, ResumeRaises DEF Resume, Release, Running, TypeOK
  <2>2. Step(r) # OnTimeout(w)
    BY DEF Step, OnTimeout
  <2>3. \E wakes \in Seq(Handles) : ready' = Tail(ready) \o wakes
    BY <1>12, HandedOn
  <2>4. Raises(w) => Raises(w)'
    <3>1. fut'[w] = fut[w] \/ w \in Pending
      BY <1>12, <2>1, HandedOn
    <3>2. QED BY <2>1, <3>1 DEF Raises, Pending
  <2>5. QED BY <1>2, <1>3, <1>4, <2>1, <2>2, <2>3, <2>4
<1>13. QED
  BY <1>5, <1>6, <1>7, <1>9, <1>10, <1>11, <1>12 DEF Next, RunCallback

(***************************************************************************)
(* The invariant is inductive, whatever the requests and the cap.          *)
(***************************************************************************)
THEOREM AdmissionInvariant == Spec => []IInv
<1>1. IInv /\ [Next]_vars => IInv'
  BY TypeStep, ConservationStep, FreshStep, DeadlineStep DEF IInv
<1>2. QED BY AdmissionInit, <1>1, PTL DEF Spec

(***************************************************************************)
(* Every variable keeps its type; the semaphore's counter stays between 0  *)
(* and the cap.                                                            *)
(***************************************************************************)
THEOREM TypeCorrect == Spec => []TypeOK
<1>1. IInv => TypeOK
  BY DEF IInv
<1>2. QED BY AdmissionInvariant, <1>1, PTL

(***************************************************************************)
(* No permit of the admission semaphore is lost or made up.                *)
(***************************************************************************)
THEOREM PermitsConserved == Spec => []PermitConservation
<1>1. IInv => PermitConservation
  BY DEF IInv
<1>2. QED BY AdmissionInvariant, <1>1, PTL

(***************************************************************************)
(* At most MaxConcurrent pipelines run at a time.                          *)
(***************************************************************************)
THEOREM CapNeverExceeded == Spec => [](Cardinality(At("pipeline")) <= MaxConcurrent)
<1>1. IInv => Cardinality(At("pipeline")) <= MaxConcurrent
  <2>1. Cardinality(At("pipeline")) \in Nat /\ Cardinality(Handed) \in Nat
    BY FiniteCounts DEF At, Handed
  <2>2. QED BY <2>1, ConstantsAssumption DEF IInv, TypeOK, PermitConservation
<1>2. QED BY AdmissionInvariant, <1>1, PTL

(***************************************************************************)
(* A request that has to wait is never admitted: asyncio.timeout(0) makes  *)
(* Semaphore.acquire a try-acquire.                                        *)
(***************************************************************************)
THEOREM WaitersRejected == Spec => WaiterNeverAdmitted
<1>1. ASSUME IInv, [Next]_vars
      PROVE  [\A r \in Requests : pc[r] = "waiting" => pc'[r] # "pipeline"]_vars
  <2>1. CASE UNCHANGED vars
    BY <2>1
  <2>2. ASSUME NEW q \in Requests, Resume(q), NEW r \in Requests, pc[r] = "waiting"
        PROVE  pc'[r] # "pipeline"
    <3>1. Raises(q)
      BY <1>1, <2>2, ResumeRaises DEF IInv
    <3>2. QED BY <1>1, <2>2, <3>1 DEF Resume, IInv, TypeOK
  <2>3. ASSUME NEW q \in Requests,
               \/ CancelledEarly(q) \/ AcquireNow(q) \/ FailAtOnce(q) \/ Suspend(q)
               \/ DeadlineFires(q) \/ Release(q)
               \/ Arrive(q) \/ PipelineEnds(q) \/ CallerCancels(q),
               NEW r \in Requests, pc[r] = "waiting"
        PROVE  pc'[r] # "pipeline"
    BY <1>1, <2>3
    DEF IInv, TypeOK, CancelledEarly, AcquireNow, FailAtOnce, Suspend, DeadlineFires, Release,
        Arrive, PipelineEnds, CallerCancels
  <2>4. QED BY <1>1, <2>1, <2>2, <2>3 DEF Next, RunCallback
<1>2. QED BY AdmissionInvariant, <1>1, PTL DEF Spec, WaiterNeverAdmitted

\* A cancellation by the caller cannot get lost: until the task has raised it,
\* the future or Task._must_cancel holds it; then the request has ended with it.
CancellationKept ==
  \A r \in Requests : cancelled[r] =>
    \/ pc[r] \in {"arriving", "waiting", "pipeline"} /\ Raises(r)
    \/ pc[r] = "cancelled"

(***************************************************************************)
(* Every step keeps a cancellation: a permit that is handed on touches a   *)
(* pending future only, and the zero deadline can only add to what is      *)
(* raised.                                                                 *)
(***************************************************************************)
LEMMA CancellationStep ==
  ASSUME IInv, CancellationKept, [Next]_vars
  PROVE  CancellationKept'
<1> USE DEF IInv, TypeOK
<1> SUFFICES ASSUME NEW w \in Requests, cancelled'[w]
             PROVE  \/ pc'[w] \in {"arriving", "waiting", "pipeline"} /\ Raises(w)'
                    \/ pc'[w] = "cancelled"
  BY DEF CancellationKept
<1> DEFINE Goal == \/ pc'[w] \in {"arriving", "waiting", "pipeline"} /\ Raises(w)'
                   \/ pc'[w] = "cancelled"
<1>1. cancelled[w] => \/ pc[w] \in {"arriving", "waiting", "pipeline"} /\ Raises(w)
                      \/ pc[w] = "cancelled"
  BY DEF CancellationKept
<1>2. CASE UNCHANGED vars
  BY <1>1, <1>2 DEF vars, Raises
<1>3. ASSUME NEW r \in Requests, CancelledEarly(r) \/ Arrive(r)
      PROVE  Goal
  BY <1>1, <1>3 DEF CancelledEarly, Arrive, Raises
<1>4. ASSUME NEW r \in Requests, AcquireNow(r) \/ FailAtOnce(r) \/ Suspend(r)
      PROVE  Goal
  <2>1. /\ pc[r] = "arriving" /\ ~Raises(r) /\ cancelled' = cancelled
        /\ \A q \in Requests : q # r => pc'[q] = pc[q] /\ Raises(q)' = Raises(q)
    BY <1>4 DEF AcquireNow, FailAtOnce, Suspend, FreshTasks, Raises
  <2>2. r # w
    BY <1>1, <2>1
  <2>3. QED BY <1>1, <2>1, <2>2
<1>5. ASSUME NEW r \in Requests, NEW queue, CancelTask(r, queue)
      PROVE  (Raises(w) => Raises(w)') /\ Raises(r)'
  BY <1>5 DEF CancelTask, Raises
<1>6. ASSUME NEW r \in Requests, DeadlineFires(r)
      PROVE  Goal
  <2>1. pc' = pc /\ cancelled' = cancelled
    BY <1>6 DEF DeadlineFires
  <2>2. Raises(w) => Raises(w)'
    <3>1. CASE deadline[r] = "entered"
      BY <1>5, <1>6, <3>1 DEF DeadlineFires
    <3>2. CASE deadline[r] # "entered"
      BY <1>6, <3>2 DEF DeadlineFires, Raises
    <3>3. QED BY <3>1, <3>2
  <2>3. QED BY <1>1, <2>1, <2>2
<1>7. ASSUME NEW r \in Requests, CallerCancels(r)
      PROVE  Goal
  <2>1. /\ pc' = pc /\ pc[r] \in {"arriving", "waiting", "pipeline"}
        /\ (Raises(w) => Raises(w)') /\ Raises(r)'
        /\ r # w => cancelled'[w] = cancelled[w]
    BY <1>5, <1>7 DEF CallerCancels
  <2>2. QED BY <1>1, <2>1
<1>8. ASSUME NEW r \in Requests, PipelineEnds(r)
      PROVE  Goal
  <2>1. pc' = pc /\ cancelled' = cancelled /\ (Raises(w) => Raises(w)')
    BY <1>8 DEF PipelineEnds, Raises
  <2>2. QED BY <1>1, <2>1
<1>9. ASSUME NEW r \in Requests, Resume(r) \/ Release(r)
      PROVE  Goal
  <2>1. /\ cancelled' = cancelled
        /\ \A q \in Requests : q # r => pc'[q] = pc[q] /\ mustCancel'[q] = mustCancel[q]
    BY <1>9 DEF Resume, Release
  <2>2. CASE w = r
    <3>1. pc[w] \in {"waiting", "pipeline"}
      BY <1>9, <2>2 DEF Resume, Release
    <3>2. Raises(w) /\ cancelled[w]
      BY <1>1, <2>1, <3>1
    <3>3. ~TimesOut(w)
      BY <3>2 DEF TimesOut
    <3>4. QED BY <1>9, <2>2, <3>2, <3>3 DEF Resume, Release
  <2>3. CASE w # r
    <3>1. fut'[w] = fut[w] \/ w \in Pending
      BY <1>9, <2>3, HandedOn
    <3>2. Raises(w) => Raises(w)'
      BY <2>1, <2>3, <3>1 DEF Raises, Pending
    <3>3. QED BY <1>1, <2>1, <2>3, <3>2
  <2>4. QED BY <2>2, <2>3
<1>10. QED
  BY <1>2, <1>3, <1>4, <1>6, <1>7, <1>8, <1>9 DEF Next, RunCallback

(***************************************************************************)
(* A caller that has cancelled is never told that the service is           *)
(* overloaded, also when the zero deadline has cancelled the task as well, *)
(* and its request never completes.                                        *)
(***************************************************************************)
THEOREM CancellationNeverLost == Spec => []CancellationWins
<1>1. Init => CancellationKept
  BY DEF Init, CancellationKept
<1>2. IInv /\ CancellationKept /\ [Next]_vars => CancellationKept'
  BY CancellationStep
<1>3. CancellationKept => CancellationWins
  BY DEF CancellationKept, CancellationWins
<1>4. QED BY AdmissionInvariant, <1>1, <1>2, <1>3, PTL DEF Spec

(***************************************************************************)
(* A sequence without its entry i: the entries after it move up.           *)
(***************************************************************************)
LEMMA WithoutEntry ==
  ASSUME NEW S, NEW s \in Seq(S), NEW i \in DOMAIN s
  PROVE  /\ RemoveAt(s, i) \in Seq(S)
         /\ DOMAIN RemoveAt(s, i) = 1..(Len(s) - 1)
         /\ \A j \in 1..(Len(s) - 1) : RemoveAt(s, i)[j] = s[IF j < i THEN j ELSE j + 1]
<1> DEFINE before == SubSeq(s, 1, i - 1)
           after == SubSeq(s, i + 1, Len(s))
<1>1. i \in 1..Len(s) /\ Len(s) \in Nat
  OBVIOUS
<1>2. /\ before \in Seq(S) /\ Len(before) = i - 1
      /\ \A j \in 1..(i - 1) : before[j] = s[j]
  BY <1>1
<1>3. /\ after \in Seq(S) /\ Len(after) = Len(s) - i
      /\ \A j \in 1..(Len(s) - i) : after[j] = s[i + j]
  BY <1>1
<1>4. RemoveAt(s, i) = before \o after
  BY DEF RemoveAt
<1> HIDE DEF before, after
<1>5. /\ before \o after \in Seq(S) /\ Len(before \o after) = Len(s) - 1
      /\ \A j \in 1..(Len(s) - 1) :
           (before \o after)[j] = IF j <= i - 1 THEN before[j] ELSE after[j - (i - 1)]
  <2>1. before \in Seq(S) /\ after \in Seq(S) /\ Len(before) = i - 1 /\ Len(after) = Len(s) - i
    BY <1>2, <1>3
  <2>2. QED BY <1>1, <2>1
<1>6. \A j \in 1..(Len(s) - 1) :
        /\ j < i => j \in 1..(i - 1) /\ j <= i - 1
        /\ ~(j < i) => /\ ~(j <= i - 1)
                       /\ j - (i - 1) \in 1..(Len(s) - i) /\ i + (j - (i - 1)) = j + 1
  BY <1>1
<1>7. \A j \in 1..(Len(s) - 1) : (before \o after)[j] = s[IF j < i THEN j ELSE j + 1]
  BY <1>2, <1>3, <1>5, <1>6
<1>8. DOMAIN (before \o after) = 1..(Len(s) - 1)
  BY <1>5
<1>9. QED BY <1>4, <1>5, <1>7, <1>8

(***************************************************************************)
(* The waiters of the semaphore are the tasks that wait for it, or some of *)
(* them, each of them once.                                                *)
(***************************************************************************)
LEMMA WaitersStep ==
  ASSUME IInv, WaitersWait, [Next]_vars
  PROVE  WaitersWait'
<1> USE DEF IInv, TypeOK
<1>1. ASSUME waiters' = waiters, \A q \in Requests : pc[q] = "waiting" => pc'[q] = "waiting"
      PROVE  WaitersWait'
  BY <1>1 DEF WaitersWait
<1>2. CASE UNCHANGED vars
  BY <1>1, <1>2 DEF vars
<1>3. ASSUME NEW r \in Requests,
             \/ CancelledEarly(r) \/ AcquireNow(r) \/ FailAtOnce(r) \/ DeadlineFires(r)
             \/ Release(r) \/ Arrive(r) \/ PipelineEnds(r) \/ CallerCancels(r)
      PROVE  WaitersWait'
  <2>1. waiters' = waiters
    BY <1>3 DEF CancelledEarly, AcquireNow, FailAtOnce, DeadlineFires, Release, Arrive,
                PipelineEnds, CallerCancels
  <2>2. pc' = pc \/ (pc[r] # "waiting" /\ \E to \in Places : pc' = [pc EXCEPT ![r] = to])
    BY <1>3 DEF CancelledEarly, AcquireNow, FailAtOnce, DeadlineFires, Release, Arrive,
                PipelineEnds, CallerCancels, Places, Answers
  <2>3. QED BY <1>1, <2>1, <2>2
<1>4. ASSUME NEW r \in Requests, Suspend(r)
      PROVE  WaitersWait'
  <2>1. /\ pc[r] = "arriving" /\ pc' = [pc EXCEPT ![r] = "waiting"]
        /\ waiters' = Append(waiters, r)
    BY <1>4 DEF Suspend
  <2>2. \A i \in DOMAIN waiters : waiters[i] # r
    BY <2>1 DEF WaitersWait
  <2>3. /\ DOMAIN waiters = 1..Len(waiters) /\ Len(waiters) \in Nat
        /\ DOMAIN waiters' = 1..(Len(waiters) + 1) /\ waiters'[Len(waiters) + 1] = r
        /\ \A i \in DOMAIN waiters : waiters'[i] = waiters[i] /\ waiters[i] \in Requests
    BY <2>1
  <2>4. \A i \in DOMAIN waiters' : i \in DOMAIN waiters \/ i = Len(waiters) + 1
    BY <2>3
  <2>5. QED BY <2>1, <2>2, <2>3, <2>4 DEF WaitersWait
<1>5. ASSUME NEW r \in Requests, Resume(r)
      PROVE  WaitersWait'
  <2>1. PICK i \in DOMAIN waiters : waiters[i] = r /\ waiters' = RemoveAt(waiters, i)
    BY <1>5 DEF Resume
  <2>2. waiters \in Seq(Requests) /\ \A j, k \in DOMAIN waiters : waiters[j] = waiters[k] => j = k
    BY DEF WaitersWait
  <2>3. /\ \A j \in DOMAIN waiters' :
             \E k \in DOMAIN waiters : waiters'[j] = waiters[k] /\ waiters[k] # r
        /\ \A j, k \in DOMAIN waiters' : waiters'[j] = waiters'[k] => j = k
    <3> DEFINE old(j) == IF j < i THEN j ELSE j + 1
    <3>1. /\ DOMAIN waiters' = 1..(Len(waiters) - 1) /\ DOMAIN waiters = 1..Len(waiters)
          /\ Len(waiters) \in Nat /\ \A j \in DOMAIN waiters' : waiters'[j] = waiters[old(j)]
      <4>1. /\ DOMAIN RemoveAt(waiters, i) = 1..(Len(waiters) - 1)
            /\ \A j \in 1..(Len(waiters) - 1) :
                 RemoveAt(waiters, i)[j] = waiters[IF j < i THEN j ELSE j + 1]
        <5> HIDE DEF IInv, TypeOK, old
        <5>1. waiters \in Seq(Requests)
          BY <2>2
        <5>2. QED BY <5>1, WithoutEntry
      <4>2. DOMAIN waiters = 1..Len(waiters) /\ Len(waiters) \in Nat
        BY <2>2
      <4>3. QED BY <2>1, <4>1, <4>2, Zenon
    <3>2. /\ \A j \in DOMAIN waiters' : old(j) \in DOMAIN waiters /\ old(j) # i
          /\ \A j, k \in DOMAIN waiters' : old(j) = old(k) => j = k
      BY <3>1
    <3> HIDE DEF old
    <3>3. QED BY <2>1, <2>2, <3>1, <3>2
  <2>4. \A q \in Requests \ {r} : pc'[q] = pc[q]
    BY <1>5 DEF Resume
  <2>5. \A k \in DOMAIN waiters : waiters[k] \in Requests /\ pc[waiters[k]] = "waiting"
    BY <2>2 DEF WaitersWait
  <2>6. QED BY <2>3, <2>4, <2>5 DEF WaitersWait
<1>6. QED BY <1>2, <1>3, <1>4, <1>5 DEF Next, RunCallback

(***************************************************************************)
(* A step of the loop is a step of the abstract specification or none:     *)
(* a free semaphore means there is room, a locked one that the cap is      *)
(* reached or that somebody is already being refused.                      *)
(***************************************************************************)
LEMMA ControlStep ==
  ASSUME IInv, WaitersWait, [Next]_vars
  PROVE  [Control!Next]_[r \in Requests |-> PhaseAt(pc[r])]
<1> DEFINE phases == [r \in Requests |-> PhaseAt(pc[r])]
<1> USE DEF IInv, TypeOK
<1>1. ASSUME pc' = pc
      PROVE  phases' = phases
  BY <1>1
<1>2. ASSUME NEW r \in Requests, NEW to \in Places, pc' = [pc EXCEPT ![r] = to]
      PROVE  phases' = [phases EXCEPT ![r] = PhaseAt(to)]
  BY <1>2
<1>3. /\ PhaseAt("idle") = "new" /\ PhaseAt("arriving") = "new" /\ PhaseAt("waiting") = "refused"
      /\ PhaseAt("pipeline") = "running" /\ PhaseAt("overloaded") = "rejected"
      /\ PhaseAt("completed") = "ended" /\ PhaseAt("cancelled") = "ended"
  BY DEF PhaseAt
<1>4. \A r \in Requests : /\ PhaseAt(pc[r]) = "running" <=> pc[r] = "pipeline"
                          /\ PhaseAt(pc[r]) = "refused" <=> pc[r] = "waiting"
  BY DEF PhaseAt
<1>5. Control!In("running") = At("pipeline") /\ Control!In("refused") = At("waiting")
  BY <1>4 DEF Control!In, At
<1>6. Control!AtCap <=> Cardinality(At("pipeline")) >= MaxConcurrent
  <2>1. Control!Cardinality(At("pipeline")) = Cardinality(At("pipeline"))
    BY DEF Control!Cardinality, Cardinality
  <2>2. QED BY <1>5, <2>1 DEF Control!AtCap
<1>7. /\ Cardinality(At("pipeline")) \in Nat /\ Cardinality(Handed) \in Nat
      /\ value \in Nat /\ MaxConcurrent \in Nat
  BY FiniteCounts, ConstantsAssumption DEF At, Handed
<1>8. ASSUME NEW r \in Requests, NEW to \in Places, pc' = [pc EXCEPT ![r] = to]
      PROVE  Control!Move(r, PhaseAt(pc[r]), PhaseAt(to))
  BY <1>2, <1>8 DEF Control!Move
<1> HIDE DEF phases
<1>9. ASSUME NEW r \in Requests, AcquireNow(r)
      PROVE  Control!Next
  <2>1. value > 0
    BY <1>7, <1>9 DEF AcquireNow, Locked
  <2>2. ~Control!AtCap
    BY <1>6, <1>7, <2>1 DEF PermitConservation
  <2>3. Control!Move(r, "new", "running")
    BY <1>3, <1>8, <1>9 DEF AcquireNow, Places
  <2>4. QED BY <2>2, <2>3 DEF Control!Next, Control!Admit
<1>10. ASSUME NEW r \in Requests, Suspend(r)
       PROVE  Control!Next
  <2>1. Control!AtCap \/ Control!In("refused") # {}
    <3>1. CASE value = 0
      <4>1. CASE Handed = {}
        BY <1>6, <1>7, <3>1, <4>1, FS_EmptySet DEF PermitConservation
      <4>2. CASE Handed # {}
        BY <1>5, <4>2 DEF Handed
      <4>3. QED BY <4>1, <4>2
    <3>2. CASE \E i \in DOMAIN waiters : fut[waiters[i]] # "cancelled"
      BY <1>5, <3>2 DEF WaitersWait, At
    <3>3. QED BY <1>10, <3>1, <3>2 DEF Suspend, Locked
  <2>2. Control!Move(r, "new", "refused")
    BY <1>3, <1>8, <1>10 DEF Suspend, Places
  <2>3. QED BY <2>1, <2>2 DEF Control!Next, Control!Refuse
<1>11. ASSUME NEW r \in Requests, Resume(r)
       PROVE  Control!Next
  <2>1. PICK to \in {"overloaded", "cancelled"} : pc' = [pc EXCEPT ![r] = to]
    BY <1>11, ResumeRaises DEF Resume
  <2>2. pc[r] = "waiting" /\ to \in Places
    BY <1>11 DEF Resume, Places, Answers
  <2>3. Control!Move(r, PhaseAt(pc[r]), PhaseAt(to))
    BY <1>8, <2>1, <2>2
  <2>4. Control!Move(r, "refused", "rejected") \/ Control!Move(r, "refused", "ended")
    BY <1>3, <2>2, <2>3
  <2>5. QED BY <2>4 DEF Control!Next, Control!Deliver, Control!End
<1>12. ASSUME NEW r \in Requests, CancelledEarly(r) \/ FailAtOnce(r) \/ Release(r)
       PROVE  Control!Next
  <2>1. PICK to \in {"completed", "cancelled"} : pc' = [pc EXCEPT ![r] = to]
    BY <1>12 DEF CancelledEarly, FailAtOnce, Release
  <2>2. PhaseAt(pc[r]) \in {"new", "running"}
    BY <1>3, <1>12 DEF CancelledEarly, FailAtOnce, Release
  <2>3. Control!Move(r, PhaseAt(pc[r]), "ended")
    BY <1>3, <1>8, <2>1 DEF Places, Answers
  <2>4. QED BY <2>2, <2>3 DEF Control!Next, Control!End
<1>13. ASSUME NEW r \in Requests, Arrive(r)
       PROVE  phases' = phases
  <2>1. pc[r] = "idle" /\ pc' = [pc EXCEPT ![r] = "arriving"] /\ "arriving" \in Places
    BY <1>13 DEF Arrive, Places
  <2>2. phases' = [phases EXCEPT ![r] = PhaseAt("arriving")]
    BY <1>2, <2>1
  <2>3. phases[r] = "new" /\ phases = [q \in Requests |-> phases[q]]
    BY <1>3, <2>1 DEF phases
  <2>4. QED BY <1>3, <2>2, <2>3
<1>14. ASSUME NEW r \in Requests,
              DeadlineFires(r) \/ PipelineEnds(r) \/ CallerCancels(r) \/ UNCHANGED vars
       PROVE  phases' = phases
  BY <1>1, <1>14 DEF DeadlineFires, PipelineEnds, CallerCancels, vars
<1>15. CASE UNCHANGED vars
  BY <1>1, <1>15 DEF vars, phases
<1>16. QED
  BY <1>9, <1>10, <1>11, <1>12, <1>13, <1>14, <1>15 DEF Next, RunCallback, phases

(***************************************************************************)
(* The semaphore, the zero timeout and the loop implement admission as one *)
(* indivisible step, for any number of requests and any cap.               *)
(***************************************************************************)
THEOREM ImplementsControl == Spec => RefinesControl
<1>1. Init => Control!Init
  BY DEF Init, Control!Init, PhaseAt
<1>2. Init => WaitersWait
  BY DEF Init, WaitersWait
<1>3. IInv /\ WaitersWait /\ [Next]_vars => WaitersWait'
  BY WaitersStep
<1>4. IInv /\ WaitersWait /\ [Next]_vars => [Control!Next]_[r \in Requests |-> PhaseAt(pc[r])]
  BY ControlStep
<1>5. QED BY AdmissionInvariant, <1>1, <1>2, <1>3, <1>4, PTL DEF Spec, RefinesControl, Control!Spec

=============================================================================
