--------------------------- MODULE HttpClientProofs ---------------------------
(***************************************************************************)
(* Proofs about HttpClient, for any set of loops, any number of calls on   *)
(* each of them, and loops that start, stop and close at any time: the     *)
(* provider never closes the client it hands out, and as long as the loops *)
(* run one after another no client is used on two of them, none leaks, and *)
(* a switch of loops costs one new client.                                 *)
(***************************************************************************)
EXTENDS HttpClient, FiniteSetTheorems, TLAPS

(***************************************************************************)
(* The shape of the state.                                                 *)
(***************************************************************************)
LEMMA HomeIsLoop == \A c \in Calls : Home(c) \in Loops
  BY HttpClientAssumption DEF Home

LEMMA ClientsAreNumbered == \A k \in Clients : k \in Nat
<1>1. Cardinality(Calls) \in Nat
  BY HttpClientAssumption, FS_CardinalityType
<1>2. QED
  BY <1>1 DEF Clients

LEMMA ShapeStep ==
  ASSUME Shape, StaleIsNotCurrent, [Next]_vars
  PROVE  Shape'
<1> USE HomeIsLoop
<1> USE DEF Shape, Over, Suspended, Synchronous
<1>1. CASE UNCHANGED vars
  BY <1>1 DEF vars, provider, locals
<1>2. ASSUME NEW c \in Calls, EnterFast(c) \/ EnterLocked(c) \/ EnterWaiting(c) \/ GetLock(c)
      PROVE  Shape'
  <2>1. pc' \in [Calls -> Over \cup Suspended \cup Synchronous]
    BY <1>2 DEF EnterFast, EnterLocked, EnterWaiting, GetLock, Wake
  <2>2. executing' \in [Loops -> Calls \cup {None}]
    BY <1>2 DEF EnterFast, EnterLocked, EnterWaiting, GetLock, Wake
  <2>3. QED
    BY <1>2, <2>1, <2>2
       DEF EnterFast, EnterLocked, EnterWaiting, GetLock, Wake, provider, locals
<1>3. ASSUME NEW c \in Calls, FoundBound(c) \/ FoundUnbound(c) \/ FoundOther(c)
      PROVE  Shape'
  BY <1>3 DEF FoundBound, FoundUnbound, FoundOther, GoOn, Stay, provider, locals
<1>4. ASSUME NEW c \in Calls, Stamp(c) \/ TakeOld(c) \/ Rebind(c)
      PROVE  Shape'
  BY <1>4 DEF Stamp, TakeOld, Rebind, GoOn, Stay, provider, locals
<1>5. ASSUME NEW c \in Calls, Swap(c)
      PROVE  Shape'
  <2>1. made' = made + 1 /\ http_client' = made' /\ old_client' = old_client /\ closed' = closed
    BY <1>5 DEF Swap, locals
  <2>2. made' \in Nat /\ http_client' \in 0..made' /\ 0..made \subseteq 0..made'
    BY <2>1
  <2>3. QED
    BY <1>5, <2>1, <2>2 DEF Swap, GoOn, Stay, locals
<1>6. ASSUME NEW c \in Calls, Return(c)
      PROVE  Shape'
  <2>1. touched' \in [Clients -> SUBSET Loops]
    BY <1>6 DEF Return
  <2>2. old_client' \in [Calls -> 0..made]
    BY <1>6 DEF Return, Forget
  <2>3. submitted' \in [Calls -> {"none", "posted", "returned", "raised", "dropped"}]
    BY <1>6 DEF Return, Forget
  <2>4. executing' \in [Loops -> Calls \cup {None}]
    BY <1>6 DEF Return, Suspend
  <2>5. QED
    BY <1>6, <2>1, <2>2, <2>3, <2>4 DEF Return, GoOn, provider
<1>7. ASSUME NEW c \in Calls, CheckLoop(c) \/ Submit(c) \/ SubmitRaises(c)
      PROVE  Shape'
  <2>1. pc' \in [Calls -> Over \cup Suspended \cup Synchronous]
    BY <1>7 DEF CheckLoop, Submit, SubmitRaises, GoOn
  <2>2. submitted' \in [Calls -> {"none", "posted", "returned", "raised", "dropped"}]
    BY <1>7 DEF CheckLoop, Submit, SubmitRaises
  <2>3. executing' \in [Loops -> Calls \cup {None}]
    BY <1>7 DEF CheckLoop, Submit, SubmitRaises, Stay, Suspend
  <2>4. QED
    BY <1>7, <2>1, <2>2, <2>3 DEF CheckLoop, Submit, SubmitRaises, GoOn, provider, locals
<1>8. ASSUME NEW c \in Calls, OldLoopCloses(c)
      PROVE  Shape'
  <2>1. submitted' \in [Calls -> {"none", "posted", "returned", "raised", "dropped"}]
    <3>1. PICK end \in {"returned", "raised"} : submitted' = [submitted EXCEPT ![c] = end]
      BY <1>8 DEF OldLoopCloses
    <3>2. QED BY <3>1
  <2>2. closed' = closed \cup {old_client[c]} /\ old_client[c] \in 0..made
    BY <1>8 DEF OldLoopCloses
  <2>3. closed' \subseteq 0..made
    BY <2>2
  <2>4. QED
    BY <1>8, <2>1, <2>3 DEF OldLoopCloses, locals
<1>9. ASSUME NEW c \in Calls, Awaited(c) \/ NotAwaited(c) \/ ClosedHere(c)
      PROVE  Shape'
  <2>1. submitted' \in [Calls -> {"none", "posted", "returned", "raised", "dropped"}]
    BY <1>9 DEF Awaited, NotAwaited, ClosedHere
  <2>2. pc' \in [Calls -> Over \cup Suspended \cup Synchronous]
    BY <1>9 DEF Awaited, NotAwaited, ClosedHere, Wake
  <2>3. QED
    BY <1>9, <2>1, <2>2 DEF Awaited, NotAwaited, ClosedHere, Wake, provider, locals
<1>10. ASSUME NEW c \in Calls, CloseHere(c)
       PROVE  Shape'
  BY <1>10 DEF CloseHere, GoOn, Suspend, locals
<1>11. ASSUME NEW c \in Calls, Cancel(c)
       PROVE  Shape'
  BY <1>11 DEF Cancel, Forget, provider
<1>12. ASSUME NEW l \in Loops, Start(l) \/ Stop(l) \/ Close(l)
       PROVE  Shape'
  BY <1>12 DEF Start, Stop, Close, provider, locals
<1>13. QED
  BY <1>1, <1>2, <1>3, <1>4, <1>5, <1>6, <1>7, <1>8, <1>9, <1>10, <1>11, <1>12
     DEF Next, CallStep

(***************************************************************************)
(* The client to be closed is never the current one: it was when it was    *)
(* taken, but since then a new client has been put in place, and a client  *)
(* that was replaced does not come back.                                   *)
(***************************************************************************)
LEMMA StaleStep ==
  ASSUME Shape, StaleIsNotCurrent, CurrentStaysOpen, [Next]_vars
  PROVE  StaleIsNotCurrent' /\ CurrentStaysOpen'
<1> USE DEF Shape, StaleIsNotCurrent, CurrentStaysOpen, Closing
<1>1. CASE UNCHANGED vars
  BY <1>1 DEF vars, provider, locals
<1>2. ASSUME NEW c \in Calls, EnterFast(c) \/ EnterLocked(c) \/ EnterWaiting(c) \/ GetLock(c)
      PROVE  StaleIsNotCurrent' /\ CurrentStaysOpen'
  BY <1>2 DEF EnterFast, EnterLocked, EnterWaiting, Arrives, GetLock, Wake, provider, locals
<1>3. ASSUME NEW c \in Calls, FoundBound(c) \/ FoundUnbound(c) \/ FoundOther(c)
      PROVE  StaleIsNotCurrent' /\ CurrentStaysOpen'
  BY <1>3 DEF FoundBound, FoundUnbound, FoundOther, GoOn, provider, locals
<1>4. ASSUME NEW c \in Calls, Stamp(c) \/ TakeOld(c) \/ Rebind(c)
      PROVE  StaleIsNotCurrent' /\ CurrentStaysOpen'
  BY <1>4 DEF Stamp, TakeOld, Rebind, GoOn, provider, locals
<1>5. ASSUME NEW c \in Calls, Swap(c)
      PROVE  StaleIsNotCurrent' /\ CurrentStaysOpen'
  <2>1. http_client' = made + 1
    BY <1>5 DEF Swap
  <2>2. \A k \in 0..made : k # made + 1
    OBVIOUS
  <2>3. QED
    BY <1>5, <2>1, <2>2 DEF Swap, GoOn, locals
<1>6. ASSUME NEW c \in Calls, Return(c)
      PROVE  StaleIsNotCurrent' /\ CurrentStaysOpen'
  BY <1>6 DEF Return, GoOn, Forget, provider
<1>7. ASSUME NEW c \in Calls, CheckLoop(c) \/ Submit(c) \/ SubmitRaises(c)
      PROVE  StaleIsNotCurrent' /\ CurrentStaysOpen'
  BY <1>7 DEF CheckLoop, Submit, SubmitRaises, GoOn, provider, locals
<1>8. ASSUME NEW c \in Calls, OldLoopCloses(c)
      PROVE  StaleIsNotCurrent' /\ CurrentStaysOpen'
  BY <1>8 DEF OldLoopCloses, locals
<1>9. ASSUME NEW c \in Calls, Awaited(c) \/ NotAwaited(c) \/ ClosedHere(c)
      PROVE  StaleIsNotCurrent' /\ CurrentStaysOpen'
  BY <1>9 DEF Awaited, NotAwaited, ClosedHere, Wake, provider, locals
<1>10. ASSUME NEW c \in Calls, CloseHere(c)
       PROVE  StaleIsNotCurrent' /\ CurrentStaysOpen'
  BY <1>10 DEF CloseHere, GoOn, locals
<1>11. ASSUME NEW c \in Calls, Cancel(c)
       PROVE  StaleIsNotCurrent' /\ CurrentStaysOpen'
  BY <1>11 DEF Cancel, Forget, provider
<1>12. ASSUME NEW l \in Loops, Start(l) \/ Stop(l) \/ Close(l)
       PROVE  StaleIsNotCurrent' /\ CurrentStaysOpen'
  BY <1>12 DEF Start, Stop, Close, provider, locals
<1>13. QED
  BY <1>1, <1>2, <1>3, <1>4, <1>5, <1>6, <1>7, <1>8, <1>9, <1>10, <1>11, <1>12
     DEF Next, CallStep

(***************************************************************************)
(* One call at a time on each loop.                                        *)
(***************************************************************************)
LEMMA OneAtATimeStep ==
  ASSUME Shape, OneAtATime, [Next]_vars
  PROVE  OneAtATime'
<1> USE HomeIsLoop
<1> USE DEF Shape, OneAtATime, Synchronous
<1>0. None \notin Calls
  BY HttpClientAssumption
<1>1. CASE UNCHANGED vars
  BY <1>1 DEF vars
<1>2. ASSUME NEW c \in Calls, EnterFast(c) \/ EnterLocked(c) \/ EnterWaiting(c) \/ GetLock(c)
      PROVE  OneAtATime'
  BY <1>0, <1>2 DEF EnterFast, EnterLocked, EnterWaiting, GetLock, Wake
<1>3. ASSUME NEW c \in Calls,
             \/ FoundBound(c) \/ FoundUnbound(c) \/ FoundOther(c) \/ Stamp(c)
             \/ TakeOld(c) \/ Swap(c) \/ Rebind(c) \/ CheckLoop(c) \/ SubmitRaises(c)
      PROVE  OneAtATime'
  <2>1. executing[Home(c)] = c /\ executing' = executing
        /\ \A d \in Calls : d # c => pc'[d] = pc[d]
    BY <1>3 DEF FoundBound, FoundUnbound, FoundOther, Stamp, TakeOld, Swap, Rebind,
                CheckLoop, SubmitRaises, GoOn, Stay
  <2>2. QED BY <2>1
<1>4. ASSUME NEW c \in Calls, Return(c) \/ Submit(c) \/ CloseHere(c)
      PROVE  OneAtATime'
  <2>1. pc'[c] \notin Synchronous /\ executing[Home(c)] = c
    BY <1>4 DEF Return, Submit, CloseHere, GoOn
  <2>2. \A d \in Calls : d # c => pc'[d] = pc[d]
    BY <1>4 DEF Return, Submit, CloseHere, GoOn
  <2>3. \A l \in Loops : l # Home(c) => executing'[l] = executing[l]
    BY <1>4 DEF Return, Submit, CloseHere, Suspend
  <2>4. QED BY <2>1, <2>2, <2>3
<1>5. ASSUME NEW c \in Calls, Awaited(c) \/ NotAwaited(c) \/ ClosedHere(c)
      PROVE  OneAtATime'
  BY <1>0, <1>5 DEF Awaited, NotAwaited, ClosedHere, Wake
<1>6. ASSUME NEW c \in Calls, OldLoopCloses(c) \/ Cancel(c)
      PROVE  OneAtATime'
  BY <1>6 DEF OldLoopCloses, Cancel
<1>7. ASSUME NEW l \in Loops, Start(l) \/ Stop(l) \/ Close(l)
      PROVE  OneAtATime'
  BY <1>7 DEF Start, Stop, Close
<1>8. QED
  BY <1>1, <1>2, <1>3, <1>4, <1>5, <1>6, <1>7 DEF Next, CallStep

(***************************************************************************)
(* Without threads: where the client is bound.                             *)
(***************************************************************************)
LEMMA BoundStep ==
  ASSUME IInv, [Next]_vars
  PROVE  BoundWhileRunning'
<1> SUFFICES ASSUME mode' = "alternating"
             PROVE  /\ \A l, m \in Loops : loop'[l] = "running" /\ loop'[m] = "running" => l = m
                    /\ \A c \in Calls : pc'[c] \notin Over => loop'[Home(c)] = "running"
                    /\ \A c \in Calls : pc'[c] \in {"read"} \cup Closing => bound_to' = Home(c)
                    /\ \A c \in Calls : pc'[c] = "stamp" => bound_to' = None
  BY DEF BoundWhileRunning
<1> USE HomeIsLoop
<1> USE DEF IInv, Shape, BoundWhileRunning, Over, Closing
<1>0. ASSUME NEW c \in Calls, NEW d \in Calls, mode = "alternating",
             loop[Home(c)] = "running", pc[d] \notin Over
      PROVE  Home(d) = Home(c)
  BY <1>0
<1>1. CASE UNCHANGED vars
  BY <1>1 DEF vars, provider
<1>2. ASSUME NEW c \in Calls, EnterFast(c) \/ EnterLocked(c) \/ EnterWaiting(c) \/ GetLock(c)
      PROVE  BoundWhileRunning'
  BY <1>2 DEF EnterFast, EnterLocked, EnterWaiting, GetLock, Wake, IsBound, provider
<1>3. ASSUME NEW c \in Calls, FoundBound(c) \/ FoundUnbound(c) \/ FoundOther(c)
      PROVE  BoundWhileRunning'
  BY <1>3 DEF FoundBound, FoundUnbound, FoundOther, GoOn, IsBound, provider
<1>4. ASSUME NEW c \in Calls, TakeOld(c) \/ Swap(c)
      PROVE  BoundWhileRunning'
  BY <1>4 DEF TakeOld, Swap, GoOn, provider
<1>5. ASSUME NEW c \in Calls, Stamp(c) \/ Rebind(c)
      PROVE  BoundWhileRunning'
  <2>1. /\ mode' = mode /\ loop' = loop /\ bound_to' = Home(c)
        /\ executing[Home(c)] = c /\ loop[Home(c)] = "running"
        /\ \A d \in Calls : d # c => pc'[d] = pc[d]
        /\ pc'[c] \in {"read", "check_loop"}
    BY <1>5 DEF Stamp, Rebind, GoOn
  <2>2. ASSUME NEW d \in Calls, d # c, pc[d] = "stamp", mode = "alternating"
        PROVE  FALSE
    <3>1. Home(d) = Home(c)
      BY <1>0, <2>1, <2>2
    <3>2. executing[Home(d)] = d
      BY <2>2 DEF OneAtATime, Synchronous
    <3>3. QED BY <2>1, <2>2, <3>1, <3>2
  <2>3. ASSUME NEW d \in Calls, pc'[d] \in {"read"} \cup Closing, mode = "alternating"
        PROVE  Home(d) = Home(c)
    BY <1>0, <2>1, <2>3
  <2>4. QED
    BY <2>1, <2>2, <2>3
<1>6. ASSUME NEW c \in Calls,
             \/ Return(c) \/ CheckLoop(c) \/ Submit(c) \/ SubmitRaises(c) \/ CloseHere(c)
             \/ Awaited(c) \/ NotAwaited(c) \/ ClosedHere(c) \/ Cancel(c) \/ OldLoopCloses(c)
      PROVE  BoundWhileRunning'
  <2>1. mode' = mode /\ loop' = loop /\ bound_to' = bound_to
    BY <1>6 DEF Return, CheckLoop, Submit, SubmitRaises, CloseHere, Awaited, NotAwaited,
                ClosedHere, Cancel, OldLoopCloses, GoOn, Wake, provider
  <2>2. \A d \in Calls : \/ pc'[d] = pc[d]
                         \/ pc'[d] \in Over
                         \/ pc[d] \in Closing /\ pc'[d] \in {"read"} \cup Closing
    BY <1>6 DEF Return, CheckLoop, Submit, SubmitRaises, CloseHere, Awaited, NotAwaited,
                ClosedHere, Cancel, OldLoopCloses, GoOn, Wake
  <2>3. QED BY <2>1, <2>2
<1>7. ASSUME NEW l \in Loops, Start(l) \/ Stop(l) \/ Close(l)
      PROVE  BoundWhileRunning'
  BY <1>7 DEF Start, Stop, Close, provider
<1>8. BoundWhileRunning'
  BY <1>1, <1>2, <1>3, <1>4, <1>5, <1>6, <1>7 DEF Next, CallStep
<1>9. QED
  BY <1>8

(***************************************************************************)
(* Without threads: where the clients have been used.                      *)
(***************************************************************************)
LEMMA UsedStep ==
  ASSUME IInv, [Next]_vars
  PROVE  UsedWhereBound' /\ ReusableAcrossRuns'
<1> USE DEF IInv, Shape, UsedWhereBound, ReusableAcrossRuns, BoundToCallersLoop
<1>1. CASE UNCHANGED <<mode, made, http_client, bound_to, touched, pc>>
  BY <1>1
<1>2. CASE \E c \in Calls :
             /\ mode' = mode /\ made' = made /\ http_client' = http_client
             /\ bound_to' = bound_to /\ touched' = touched
             /\ \A d \in Calls : pc'[d] = "rebind" => pc[d] = "rebind"
  BY <1>2
<1>3. ASSUME NEW c \in Calls, Swap(c)
      PROVE  UsedWhereBound' /\ ReusableAcrossRuns'
  <2>1. made' = made + 1 /\ http_client' = made + 1
        /\ mode' = mode /\ touched' = touched /\ bound_to' = bound_to
    BY <1>3 DEF Swap, GoOn
  <2>2. \A k \in Clients : k \in Nat
    BY ClientsAreNumbered
  <2>3. QED
    BY <2>1, <2>2
<1>4. ASSUME NEW c \in Calls, Stamp(c) \/ Rebind(c)
      PROVE  UsedWhereBound' /\ ReusableAcrossRuns'
  <2>1. /\ mode' = mode /\ made' = made /\ http_client' = http_client /\ touched' = touched
        /\ bound_to' = Home(c)
        /\ \A d \in Calls : pc'[d] = "rebind" => pc[d] = "rebind"
    BY <1>4 DEF Stamp, Rebind, GoOn
  <2>2. mode = "alternating" /\ http_client \in Clients => touched[http_client] = {}
    <3>1. CASE Stamp(c)
      <4>1. mode = "alternating" => bound_to = None
        BY <3>1 DEF Stamp, GoOn, BoundWhileRunning
      <4>2. None \notin Loops
        BY HttpClientAssumption
      <4>3. QED BY <4>1, <4>2
    <3>2. CASE Rebind(c)
      BY <3>2 DEF Rebind, GoOn
    <3>3. QED BY <1>4, <3>1, <3>2
  <2>3. QED
    BY <2>1, <2>2
<1>5. ASSUME NEW c \in Calls, Return(c)
      PROVE  UsedWhereBound' /\ ReusableAcrossRuns'
  <2>1. /\ mode' = mode /\ made' = made /\ http_client' = http_client /\ bound_to' = bound_to
        /\ touched' = [touched EXCEPT ![http_client] = @ \cup {Home(c)}]
        /\ pc[c] = "read" /\ executing[Home(c)] = c /\ loop[Home(c)] = "running"
        /\ \A d \in Calls : pc'[d] = "rebind" => pc[d] = "rebind"
    BY <1>5 DEF Return, GoOn, provider
  <2>2. mode = "alternating" => bound_to = Home(c)
    BY <2>1 DEF BoundWhileRunning
  <2>3. ASSUME NEW d \in Calls, pc[d] = "rebind", mode = "alternating"
        PROVE  FALSE
    <3>1. loop[Home(d)] = "running"
      BY <2>3 DEF BoundWhileRunning, Over
    <3>2. Home(d) = Home(c)
      BY <2>1, <2>3, <3>1, HomeIsLoop DEF BoundWhileRunning
    <3>3. executing[Home(d)] = d
      BY <2>3 DEF OneAtATime, Synchronous
    <3>4. QED BY <2>1, <2>3, <3>2, <3>3
  <2>4. mode = "alternating" /\ http_client \in Clients => touched'[http_client] \subseteq {bound_to}
    BY <2>1, <2>2
  <2>5. \A k \in Clients : k # http_client => touched'[k] = touched[k]
    BY <2>1
  <2>6. QED
    BY <2>1, <2>3, <2>4, <2>5
<1>6. ASSUME NEW c \in Calls,
             \/ EnterFast(c) \/ EnterLocked(c) \/ EnterWaiting(c) \/ GetLock(c)
             \/ FoundBound(c) \/ FoundUnbound(c) \/ FoundOther(c) \/ TakeOld(c)
      PROVE  UsedWhereBound' /\ ReusableAcrossRuns'
  BY <1>2, <1>6 DEF EnterFast, EnterLocked, EnterWaiting, GetLock, FoundBound, FoundUnbound,
                    FoundOther, TakeOld, GoOn, Wake, provider
<1>7. ASSUME NEW c \in Calls,
             \/ CheckLoop(c) \/ Submit(c) \/ SubmitRaises(c) \/ CloseHere(c)
             \/ Awaited(c) \/ NotAwaited(c) \/ ClosedHere(c) \/ Cancel(c) \/ OldLoopCloses(c)
      PROVE  UsedWhereBound' /\ ReusableAcrossRuns'
  BY <1>2, <1>7 DEF CheckLoop, Submit, SubmitRaises, CloseHere, Awaited, NotAwaited,
                    ClosedHere, Cancel, OldLoopCloses, GoOn, Wake, provider
<1>8. ASSUME NEW l \in Loops, Start(l) \/ Stop(l) \/ Close(l)
      PROVE  UsedWhereBound' /\ ReusableAcrossRuns'
  BY <1>1, <1>8 DEF Start, Stop, Close, provider
<1>9. CASE UNCHANGED vars
  BY <1>1, <1>9 DEF vars, provider
<1>10. QED
  BY <1>3, <1>4, <1>5, <1>6, <1>7, <1>8, <1>9 DEF Next, CallStep

(***************************************************************************)
(* The invariant is inductive.                                             *)
(***************************************************************************)
THEOREM HttpClientInvariant == Spec => []IInv
<1>1. Init => IInv
  <2> SUFFICES ASSUME Init PROVE IInv
    OBVIOUS
  <2>1. Shape
    BY DEF Init, Shape, Over
  <2>2. StaleIsNotCurrent /\ OneAtATime /\ CurrentStaysOpen
    BY DEF Init, StaleIsNotCurrent, OneAtATime, CurrentStaysOpen, Closing, Synchronous
  <2>3. BoundWhileRunning
    BY DEF Init, BoundWhileRunning, Over, Closing
  <2>4. UsedWhereBound /\ ReusableAcrossRuns
    BY DEF Init, UsedWhereBound, ReusableAcrossRuns, BoundToCallersLoop
  <2>5. QED BY <2>1, <2>2, <2>3, <2>4 DEF IInv
<1>2. IInv /\ [Next]_vars => IInv'
  <2> SUFFICES ASSUME IInv, [Next]_vars PROVE IInv'
    OBVIOUS
  <2>1. Shape' /\ StaleIsNotCurrent' /\ CurrentStaysOpen'
    BY ShapeStep, StaleStep DEF IInv
  <2>2. OneAtATime'
    BY OneAtATimeStep DEF IInv
  <2>3. QED
    BY <2>1, <2>2, BoundStep, UsedStep DEF IInv
<1>3. QED
  BY <1>1, <1>2, PTL DEF Spec

\* The provider never closes the client it hands out, also with loops in
\* parallel threads.
THEOREM HandedOutIsOpen == Spec => []CurrentStaysOpen
<1>1. IInv => CurrentStaysOpen
  BY DEF IInv
<1>2. QED
  BY <1>1, HttpClientInvariant, PTL

\* A provider can be reused across asyncio.run scopes (issue #132).
THEOREM ReusedSafely == Spec => []ReusableAcrossRuns
<1>1. IInv => ReusableAcrossRuns
  BY DEF IInv
<1>2. QED
  BY <1>1, HttpClientInvariant, PTL

(***************************************************************************)
(* Each client but the first was made by a call that has its Swap behind   *)
(* it: the calls bound the clients, which is what makes 0..made a set of   *)
(* Clients.                                                                *)
(***************************************************************************)
SwapBehind ==
  {c \in Calls : pc[c] \notin {"new", "waiting", "recheck", "stamp", "take_old", "swap"}}

MadeBySwaps == made <= Cardinality(SwapBehind)

\* The locals of a rebuild, and the rest of TypeOK that Shape leaves out.
LocalsOK ==
  /\ mode \in {"alternating", "threads"}
  /\ bound_to \in Loops \cup {None}
  /\ lock \in [Loops -> Calls \cup {None}]
  /\ old_loop \in [Calls -> Loops \cup {None}]
  /\ \A c \in Calls : pc[c] \in Rebuilding => old_loop[c] \in Loops \ {Home(c)}

\* Without threads a switch has the provider for itself: nobody rebinds or
\* replaces the client between the recheck and the Swap, and the old loop never
\* runs when CheckLoop asks.
SwitchAlone ==
  mode = "alternating" =>
    \A c \in Calls :
      /\ pc[c] \notin {"submit", "awaiting"}
      /\ pc[c] = "swap" => old_client[c] = http_client
      /\ pc[c] \in {"take_old", "swap"} => bound_to # Home(c)

\* Without threads the current client is bound to the loop that made it, if any
\* did, except before the Rebind of the call that has just made it.
BoundToMaker ==
  mode = "alternating" =>
    /\ \A c \in Calls : pc[c] = "rebind" => maker = Home(c)
    /\ (\A c \in Calls : pc[c] # "rebind") => maker \in {None, bound_to}

\* Without threads a client that was replaced and not closed is held by the call
\* that replaced it, at a place where nothing can cancel it.
HeldUntilClosed ==
  mode = "alternating" =>
    \A k \in 0..made :
      \/ k = http_client \/ k \in closed
      \/ \E c \in Calls : pc[c] \in {"rebind", "check_loop", "close_here"} /\ old_client[c] = k

Accounting == MadeBySwaps /\ LocalsOK /\ SwitchAlone /\ BoundToMaker /\ HeldUntilClosed

(***************************************************************************)
(* No step takes a call back behind its Swap, and only Swap makes a        *)
(* client.                                                                 *)
(***************************************************************************)
LEMMA SwapsCounted ==
  ASSUME Shape, MadeBySwaps, [Next]_vars
  PROVE  MadeBySwaps'
<1> USE DEF Shape
<1>1. IsFiniteSet(SwapBehind) /\ IsFiniteSet(SwapBehind') /\ Cardinality(SwapBehind) \in Nat
  <2>1. SwapBehind \subseteq Calls /\ SwapBehind' \subseteq Calls
    BY DEF SwapBehind
  <2>2. QED BY <2>1, HttpClientAssumption, FS_Subset, FS_CardinalityType
<1>2. ASSUME made' = made,
             \A c \in Calls : pc'[c] = pc[c] \/ c \in SwapBehind'
      PROVE  MadeBySwaps'
  <2>1. SwapBehind \subseteq SwapBehind'
    BY <1>2 DEF SwapBehind
  <2>2. Cardinality(SwapBehind) <= Cardinality(SwapBehind') /\ Cardinality(SwapBehind') \in Nat
    BY <1>1, <2>1, FS_Subset, FS_CardinalityType
  <2>3. QED BY <1>1, <1>2, <2>2 DEF MadeBySwaps
<1>3. CASE UNCHANGED vars
  BY <1>3 DEF vars, provider, MadeBySwaps, SwapBehind
<1>4. ASSUME NEW c \in Calls, Swap(c)
      PROVE  MadeBySwaps'
  <2>1. SwapBehind' = SwapBehind \cup {c} /\ c \notin SwapBehind /\ made' = made + 1
    BY <1>4 DEF Swap, GoOn, SwapBehind
  <2>2. Cardinality(SwapBehind') = Cardinality(SwapBehind) + 1
    BY <1>1, <2>1, FS_AddElement
  <2>3. QED BY <1>1, <2>1, <2>2 DEF MadeBySwaps
<1>5. ASSUME NEW c \in Calls,
             \/ EnterFast(c) \/ EnterLocked(c) \/ EnterWaiting(c) \/ GetLock(c) \/ FoundBound(c)
             \/ FoundUnbound(c) \/ FoundOther(c) \/ Stamp(c) \/ TakeOld(c) \/ Rebind(c)
      PROVE  MadeBySwaps'
  <2>1. made' = made
    BY <1>5 DEF EnterFast, EnterLocked, EnterWaiting, GetLock, FoundBound, FoundUnbound,
                FoundOther, Stamp, TakeOld, Rebind, provider
  <2>2. SwapBehind \subseteq SwapBehind'
    BY <1>5 DEF EnterFast, EnterLocked, EnterWaiting, GetLock, FoundBound, FoundUnbound,
                FoundOther, Stamp, TakeOld, Rebind, Arrives, GoOn, Wake, SwapBehind
  <2>3. Cardinality(SwapBehind) <= Cardinality(SwapBehind') /\ Cardinality(SwapBehind') \in Nat
    BY <1>1, <2>2, FS_Subset, FS_CardinalityType
  <2>4. QED BY <1>1, <2>1, <2>3 DEF MadeBySwaps
<1>6. ASSUME NEW c \in Calls,
             \/ Return(c) \/ CheckLoop(c) \/ Submit(c) \/ SubmitRaises(c) \/ CloseHere(c)
             \/ Awaited(c) \/ NotAwaited(c) \/ ClosedHere(c) \/ Cancel(c) \/ OldLoopCloses(c)
      PROVE  MadeBySwaps'
  <2>1. made' = made
    BY <1>6 DEF Return, CheckLoop, Submit, SubmitRaises, CloseHere, Awaited, NotAwaited,
                ClosedHere, Cancel, OldLoopCloses, provider
  <2>2. \A d \in Calls : pc'[d] = pc[d] \/ d \in SwapBehind'
    BY <1>6 DEF Return, CheckLoop, Submit, SubmitRaises, CloseHere, Awaited, NotAwaited,
                ClosedHere, Cancel, OldLoopCloses, GoOn, Wake, SwapBehind
  <2>3. QED BY <1>2, <2>1, <2>2
<1>7. ASSUME NEW l \in Loops, Start(l) \/ Stop(l) \/ Close(l)
      PROVE  MadeBySwaps'
  BY <1>2, <1>7 DEF Start, Stop, Close, provider
<1>8. QED
  BY <1>3, <1>4, <1>5, <1>6, <1>7 DEF Next, CallStep

(***************************************************************************)
(* The local variables of a rebuild.                                       *)
(***************************************************************************)
LEMMA LocalsStep ==
  ASSUME Shape, LocalsOK, [Next]_vars
  PROVE  LocalsOK'
<1> USE HomeIsLoop
<1> USE DEF Shape, LocalsOK, Rebuilding, Closing
<1>1. CASE UNCHANGED vars
  BY <1>1 DEF vars, provider, locals
<1>2. ASSUME NEW c \in Calls, EnterFast(c) \/ EnterLocked(c) \/ EnterWaiting(c) \/ GetLock(c)
      PROVE  LocalsOK'
  <2>1. lock' \in [Loops -> Calls \cup {None}]
    BY <1>2 DEF EnterFast, EnterLocked, EnterWaiting, GetLock
  <2>2. QED
    BY <1>2, <2>1 DEF EnterFast, EnterLocked, EnterWaiting, GetLock, Arrives, Wake, provider, locals
<1>3. ASSUME NEW c \in Calls, FoundBound(c) \/ FoundUnbound(c)
      PROVE  LocalsOK'
  BY <1>3 DEF FoundBound, FoundUnbound, GoOn, provider, locals
<1>4. ASSUME NEW c \in Calls, FoundOther(c)
      PROVE  LocalsOK'
  <2>1. /\ bound_to \in Loops \ {Home(c)} /\ old_loop' = [old_loop EXCEPT ![c] = bound_to]
        /\ pc' = [pc EXCEPT ![c] = "take_old"] /\ UNCHANGED <<mode, bound_to, lock>>
    BY <1>4 DEF FoundOther, GoOn, IsBound, provider
  <2>2. QED BY <2>1
<1>5. ASSUME NEW c \in Calls,
             \/ Stamp(c) \/ TakeOld(c) \/ Swap(c) \/ Rebind(c) \/ CheckLoop(c) \/ Submit(c)
             \/ SubmitRaises(c) \/ CloseHere(c) \/ Awaited(c) \/ NotAwaited(c) \/ ClosedHere(c)
             \/ OldLoopCloses(c)
      PROVE  LocalsOK'
  <2>1. UNCHANGED <<mode, lock, old_loop>> /\ bound_to' \in Loops \cup {None}
    BY <1>5 DEF Stamp, TakeOld, Swap, Rebind, CheckLoop, Submit, SubmitRaises, CloseHere, Awaited,
                NotAwaited, ClosedHere, OldLoopCloses, GoOn, Wake, provider, locals
  <2>2. \A d \in Calls : pc'[d] = pc[d] \/ pc[d] \in Rebuilding \/ pc'[d] = "read"
    BY <1>5 DEF Stamp, TakeOld, Swap, Rebind, CheckLoop, Submit, SubmitRaises, CloseHere, Awaited,
                NotAwaited, ClosedHere, OldLoopCloses, GoOn, Wake
  <2>3. QED BY <2>1, <2>2
<1>6. ASSUME NEW c \in Calls, Return(c) \/ Cancel(c)
      PROVE  LocalsOK'
  <2>1. lock' \in [Loops -> Calls \cup {None}]
    BY <1>6 DEF Return, Cancel, Unlock
  <2>2. old_loop' = [old_loop EXCEPT ![c] = None] /\ UNCHANGED <<mode, bound_to>>
    BY <1>6 DEF Return, Cancel, Forget, GoOn, provider
  <2>3. pc' = [pc EXCEPT ![c] = "done"] \/ pc' = [pc EXCEPT ![c] = "cancelled"]
    BY <1>6 DEF Return, Cancel, GoOn
  <2>4. QED BY <2>1, <2>2, <2>3
<1>7. ASSUME NEW l \in Loops, Start(l) \/ Stop(l) \/ Close(l)
      PROVE  LocalsOK'
  BY <1>7 DEF Start, Stop, Close, provider, locals
<1>8. QED
  BY <1>1, <1>2, <1>3, <1>4, <1>5, <1>6, <1>7 DEF Next, CallStep

(***************************************************************************)
(* Without threads one call at most is in the middle of a synchronous      *)
(* piece of code, on the one loop that runs.                               *)
(***************************************************************************)
LEMMA OneSynchronousCall ==
  ASSUME IInv, mode = "alternating", NEW c \in Calls, NEW d \in Calls,
         pc[c] \in Synchronous, pc[d] \in Synchronous
  PROVE  c = d
<1>1. pc[c] \notin Over /\ pc[d] \notin Over
  BY DEF Synchronous, Over
<1>2. Home(c) = Home(d)
  BY <1>1, HomeIsLoop DEF IInv, BoundWhileRunning
<1>3. executing[Home(c)] = c /\ executing[Home(d)] = d
  BY DEF IInv, OneAtATime
<1>4. QED BY <1>2, <1>3

(***************************************************************************)
(* No step disturbs a switch that is under way.                            *)
(***************************************************************************)
LEMMA AloneStep ==
  ASSUME IInv, LocalsOK, SwitchAlone, [Next]_vars
  PROVE  SwitchAlone'
<1> USE HomeIsLoop
<1> USE DEF IInv, Shape, SwitchAlone
<1>1. ASSUME UNCHANGED <<mode, bound_to, http_client>>,
             \A c \in Calls : /\ pc'[c] \in {"submit", "awaiting"} => pc'[c] = pc[c]
                              /\ pc'[c] \in {"take_old", "swap"} =>
                                   pc'[c] = pc[c] /\ old_client'[c] = old_client[c]
      PROVE  SwitchAlone'
  BY <1>1
<1>2. CASE UNCHANGED vars
  BY <1>1, <1>2 DEF vars, provider, locals
<1>3. ASSUME NEW c \in Calls,
             \/ EnterFast(c) \/ EnterLocked(c) \/ EnterWaiting(c) \/ GetLock(c) \/ FoundBound(c)
             \/ FoundUnbound(c) \/ SubmitRaises(c) \/ Awaited(c) \/ NotAwaited(c)
             \/ CloseHere(c) \/ ClosedHere(c) \/ OldLoopCloses(c)
      PROVE  SwitchAlone'
  <2>1. UNCHANGED <<mode, bound_to, http_client, old_client>>
    BY <1>3 DEF EnterFast, EnterLocked, EnterWaiting, GetLock, FoundBound, FoundUnbound,
                SubmitRaises, Awaited, NotAwaited, CloseHere, ClosedHere, OldLoopCloses,
                GoOn, Wake, provider, locals
  <2>2. \A d \in Calls : pc'[d] = pc[d] \/ pc'[d] \in {"read", "recheck", "waiting", "stamp",
                                                      "close_here", "closing"}
    BY <1>3 DEF EnterFast, EnterLocked, EnterWaiting, GetLock, FoundBound, FoundUnbound,
                SubmitRaises, Awaited, NotAwaited, CloseHere, ClosedHere, OldLoopCloses,
                GoOn, Wake
  <2>3. QED BY <1>1, <2>1, <2>2
<1>4. ASSUME NEW c \in Calls, Return(c) \/ Cancel(c)
      PROVE  SwitchAlone'
  <2>1. UNCHANGED <<mode, bound_to, http_client>>
    BY <1>4 DEF Return, Cancel, GoOn, provider
  <2>2. \A d \in Calls : pc'[d] \in Over \/ (pc'[d] = pc[d] /\ old_client'[d] = old_client[d])
    BY <1>4 DEF Return, Cancel, GoOn, Forget, Over
  <2>3. QED BY <1>1, <2>1, <2>2 DEF Over
<1>5. ASSUME NEW c \in Calls, FoundOther(c)
      PROVE  SwitchAlone'
  <2>1. /\ UNCHANGED <<mode, bound_to, http_client, old_client>>
        /\ bound_to # Home(c) /\ pc' = [pc EXCEPT ![c] = "take_old"]
    BY <1>5 DEF FoundOther, GoOn, IsBound, provider
  <2>2. QED BY <2>1
<1>6. ASSUME NEW c \in Calls, TakeOld(c)
      PROVE  SwitchAlone'
  <2>1. /\ UNCHANGED <<mode, bound_to, http_client>> /\ pc[c] = "take_old"
        /\ pc' = [pc EXCEPT ![c] = "swap"]
        /\ old_client' = [old_client EXCEPT ![c] = http_client]
    BY <1>6 DEF TakeOld, GoOn, provider
  <2>2. QED BY <2>1
<1>7. ASSUME NEW c \in Calls, Stamp(c) \/ Swap(c) \/ Rebind(c)
      PROVE  SwitchAlone'
  <2>1. /\ mode' = mode /\ pc[c] \in {"stamp", "swap", "rebind"}
        /\ pc'[c] \in {"read", "rebind", "check_loop"}
        /\ \A d \in Calls : d # c => pc'[d] = pc[d]
    BY <1>7 DEF Stamp, Swap, Rebind, GoOn
  <2>2. ASSUME mode = "alternating", NEW d \in Calls, d # c
        PROVE  pc[d] \notin {"take_old", "swap"}
    BY <2>1, <2>2, OneSynchronousCall DEF Synchronous
  <2>3. QED BY <2>1, <2>2
<1>8. ASSUME NEW c \in Calls, CheckLoop(c)
      PROVE  SwitchAlone'
  <2>1. /\ UNCHANGED <<mode, bound_to, http_client, old_client>>
        /\ pc[c] = "check_loop" /\ loop[Home(c)] = "running"
        /\ pc' = [pc EXCEPT ![c] = IF loop[old_loop[c]] = "running" THEN "submit" ELSE "close_here"]
    BY <1>8 DEF CheckLoop, GoOn, provider, locals
  <2>2. old_loop[c] \in Loops /\ old_loop[c] # Home(c)
    BY <2>1 DEF LocalsOK, Rebuilding, Closing
  <2>3. mode = "alternating" => loop[old_loop[c]] # "running"
    BY <2>1, <2>2 DEF BoundWhileRunning
  <2>4. QED BY <1>1, <2>1, <2>3
<1>9. ASSUME NEW c \in Calls, Submit(c)
      PROVE  SwitchAlone'
  BY <1>9 DEF Submit, GoOn
<1>10. ASSUME NEW l \in Loops, Start(l) \/ Stop(l) \/ Close(l)
       PROVE  SwitchAlone'
  BY <1>1, <1>10 DEF Start, Stop, Close, provider, locals
<1>11. QED
  BY <1>2, <1>3, <1>4, <1>5, <1>6, <1>7, <1>8, <1>9, <1>10 DEF Next, CallStep

(***************************************************************************)
(* Only Swap names a maker, and its call binds the client to it at once.   *)
(***************************************************************************)
LEMMA MakerStep ==
  ASSUME IInv, BoundToMaker, [Next]_vars
  PROVE  BoundToMaker'
<1> USE DEF IInv, Shape, BoundToMaker
<1>1. ASSUME UNCHANGED <<mode, bound_to, maker>>,
             \A c \in Calls : pc[c] = "rebind" <=> pc'[c] = "rebind"
      PROVE  BoundToMaker'
  BY <1>1
<1>2. CASE UNCHANGED vars
  BY <1>1, <1>2 DEF vars, provider
<1>3. ASSUME NEW c \in Calls,
             \/ EnterFast(c) \/ EnterLocked(c) \/ EnterWaiting(c) \/ GetLock(c) \/ FoundBound(c)
             \/ FoundUnbound(c) \/ FoundOther(c) \/ TakeOld(c)
      PROVE  BoundToMaker'
  BY <1>1, <1>3 DEF EnterFast, EnterLocked, EnterWaiting, GetLock, FoundBound, FoundUnbound,
                    FoundOther, TakeOld, Arrives, GoOn, Wake, provider
<1>4. ASSUME NEW c \in Calls,
             \/ Return(c) \/ CheckLoop(c) \/ Submit(c) \/ SubmitRaises(c) \/ Awaited(c)
             \/ NotAwaited(c) \/ CloseHere(c) \/ ClosedHere(c) \/ Cancel(c) \/ OldLoopCloses(c)
      PROVE  BoundToMaker'
  BY <1>1, <1>4 DEF Return, CheckLoop, Submit, SubmitRaises, Awaited, NotAwaited, CloseHere,
                    ClosedHere, Cancel, OldLoopCloses, GoOn, Wake, Suspended, provider
<1>5. ASSUME NEW c \in Calls, Swap(c)
      PROVE  BoundToMaker'
  <2>1. /\ mode' = mode /\ maker' = Home(c) /\ pc[c] = "swap" /\ pc'[c] = "rebind"
        /\ \A d \in Calls : d # c => pc'[d] = pc[d]
    BY <1>5 DEF Swap, GoOn
  <2>2. ASSUME mode = "alternating", NEW d \in Calls, pc[d] = "rebind"
        PROVE  FALSE
    BY <2>1, <2>2, OneSynchronousCall DEF Synchronous
  <2>3. QED BY <2>1, <2>2
<1>6. ASSUME NEW c \in Calls, Stamp(c) \/ Rebind(c)
      PROVE  BoundToMaker'
  <2>1. /\ mode' = mode /\ maker' = maker /\ bound_to' = Home(c)
        /\ pc[c] \in {"stamp", "rebind"} /\ pc'[c] # "rebind"
        /\ \A d \in Calls : d # c => pc'[d] = pc[d]
    BY <1>6 DEF Stamp, Rebind, GoOn
  <2>2. ASSUME mode = "alternating", NEW d \in Calls, pc[d] = "rebind"
        PROVE  d = c
    BY <2>1, <2>2, OneSynchronousCall DEF Synchronous
  <2>3. CASE Stamp(c)
    <3>1. pc[c] = "stamp" /\ (mode = "alternating" => bound_to = None)
      BY <2>3 DEF Stamp, GoOn, BoundWhileRunning
    <3>2. mode = "alternating" => maker = None /\ \A d \in Calls : pc[d] # "rebind"
      BY <2>2, <3>1
    <3>3. QED BY <2>1, <3>2
  <2>4. CASE Rebind(c)
    <3>1. pc[c] = "rebind"
      BY <2>4 DEF Rebind, GoOn
    <3>2. mode = "alternating" => maker = Home(c)
      BY <3>1
    <3>3. QED BY <2>1, <2>2, <3>2
  <2>5. QED BY <1>6, <2>3, <2>4
<1>7. ASSUME NEW l \in Loops, Start(l) \/ Stop(l) \/ Close(l)
      PROVE  BoundToMaker'
  BY <1>1, <1>7 DEF Start, Stop, Close, provider
<1>8. QED
  BY <1>2, <1>3, <1>4, <1>5, <1>6, <1>7 DEF Next, CallStep

(***************************************************************************)
(* A replaced client passes from Swap to the close without a gap.          *)
(***************************************************************************)
LEMMA HeldStep ==
  ASSUME IInv, LocalsOK, SwitchAlone, HeldUntilClosed, [Next]_vars
  PROVE  HeldUntilClosed'
<1> USE DEF IInv, Shape, HeldUntilClosed
<1>1. ASSUME UNCHANGED <<mode, made, http_client>>, closed \subseteq closed',
             \A c \in Calls : pc[c] \in {"rebind", "check_loop", "close_here"} =>
               \/ old_client[c] \in closed' \/ mode # "alternating"
               \/ /\ pc'[c] \in {"rebind", "check_loop", "close_here"}
                  /\ old_client'[c] = old_client[c]
      PROVE  HeldUntilClosed'
  BY <1>1
<1>2. CASE UNCHANGED vars
  BY <1>1, <1>2 DEF vars, provider, locals
<1>3. ASSUME NEW c \in Calls,
             \/ EnterFast(c) \/ EnterLocked(c) \/ EnterWaiting(c) \/ GetLock(c) \/ FoundBound(c)
             \/ FoundUnbound(c) \/ FoundOther(c) \/ Stamp(c) \/ TakeOld(c)
      PROVE  HeldUntilClosed'
  <2>1. UNCHANGED <<mode, made, http_client, closed>>
    BY <1>3 DEF EnterFast, EnterLocked, EnterWaiting, GetLock, FoundBound, FoundUnbound,
                FoundOther, Stamp, TakeOld, GoOn, Wake, provider
  <2>2. \A d \in Calls : pc[d] \in {"rebind", "check_loop", "close_here"} =>
                           pc'[d] = pc[d] /\ old_client'[d] = old_client[d]
    BY <1>3 DEF EnterFast, EnterLocked, EnterWaiting, GetLock, FoundBound, FoundUnbound,
                FoundOther, Stamp, TakeOld, Arrives, GoOn, Wake, locals
  <2>3. QED BY <1>1, <2>1, <2>2
<1>4. ASSUME NEW c \in Calls, Swap(c)
      PROVE  HeldUntilClosed'
  <2>1. /\ UNCHANGED <<mode, closed, old_client>> /\ made' = made + 1 /\ http_client' = made + 1
        /\ pc[c] = "swap" /\ pc' = [pc EXCEPT ![c] = "rebind"]
    BY <1>4 DEF Swap, GoOn, locals
  <2>2. mode = "alternating" => old_client'[c] = http_client
    BY <2>1 DEF SwitchAlone
  <2>3. \A k \in 0..made' : k = http_client' \/ k \in 0..made
    BY <2>1
  <2>4. \A d \in Calls : pc[d] \in {"rebind", "check_loop", "close_here"} => pc'[d] = pc[d]
    BY <2>1
  <2>5. pc'[c] = "rebind"
    BY <2>1
  <2>6. QED BY <2>1, <2>2, <2>3, <2>4, <2>5
<1>5. ASSUME NEW c \in Calls, Rebind(c) \/ CheckLoop(c) \/ SubmitRaises(c)
      PROVE  HeldUntilClosed'
  <2>1. UNCHANGED <<mode, made, http_client, closed, old_client>>
    BY <1>5 DEF Rebind, CheckLoop, SubmitRaises, GoOn, provider, locals
  <2>2. mode = "alternating" => pc'[c] # "submit"
    BY <2>1, AloneStep DEF SwitchAlone
  <2>3. /\ pc'[c] \in {"check_loop", "submit", "close_here"}
        /\ \A d \in Calls : d # c => pc'[d] = pc[d]
    BY <1>5 DEF Rebind, CheckLoop, SubmitRaises, GoOn
  <2>4. QED BY <1>1, <2>1, <2>2, <2>3
<1>6. ASSUME NEW c \in Calls, CloseHere(c)
      PROVE  HeldUntilClosed'
  <2>1. /\ UNCHANGED <<mode, made, http_client, old_client>> /\ closed' = closed \cup {old_client[c]}
        /\ \A d \in Calls : d # c => pc'[d] = pc[d]
    BY <1>6 DEF CloseHere, GoOn, locals
  <2>2. QED BY <1>1, <2>1
<1>7. ASSUME NEW c \in Calls,
             \/ Return(c) \/ Submit(c) \/ Awaited(c) \/ NotAwaited(c) \/ ClosedHere(c)
             \/ Cancel(c) \/ OldLoopCloses(c)
      PROVE  HeldUntilClosed'
  <2>1. UNCHANGED <<mode, made, http_client>> /\ closed \subseteq closed'
    BY <1>7 DEF Return, Submit, Awaited, NotAwaited, ClosedHere, Cancel, OldLoopCloses,
                GoOn, Wake, provider
  <2>2. \A d \in Calls : pc[d] \in {"rebind", "check_loop", "close_here"} =>
                           pc'[d] = pc[d] /\ old_client'[d] = old_client[d]
    BY <1>7 DEF Return, Submit, Awaited, NotAwaited, ClosedHere, Cancel, OldLoopCloses,
                GoOn, Wake, Forget, Suspended, locals
  <2>3. QED BY <1>1, <2>1, <2>2
<1>8. ASSUME NEW l \in Loops, Start(l) \/ Stop(l) \/ Close(l)
      PROVE  HeldUntilClosed'
  BY <1>1, <1>8 DEF Start, Stop, Close, provider, locals
<1>9. QED
  BY <1>2, <1>3, <1>4, <1>5, <1>6, <1>7, <1>8 DEF Next, CallStep

(***************************************************************************)
(* With the accounting the invariant is inductive again.                   *)
(***************************************************************************)
THEOREM AccountingInvariant == Spec => [](IInv /\ Accounting)
<1>1. Init => Accounting
  <2> SUFFICES ASSUME Init PROVE Accounting
    OBVIOUS
  <2>1. MadeBySwaps
    <3>1. SwapBehind = {}
      BY DEF Init, SwapBehind
    <3>2. QED BY <3>1, FS_EmptySet DEF Init, MadeBySwaps
  <2>2. LocalsOK
    BY DEF Init, LocalsOK, Rebuilding, Closing
  <2>3. SwitchAlone
    BY DEF Init, SwitchAlone
  <2>4. BoundToMaker /\ HeldUntilClosed
    BY DEF Init, BoundToMaker, HeldUntilClosed
  <2>5. QED BY <2>1, <2>2, <2>3, <2>4 DEF Accounting
<1>2. IInv /\ Accounting /\ [Next]_vars => Accounting'
  BY SwapsCounted, LocalsStep, AloneStep, MakerStep, HeldStep DEF Accounting, IInv
<1>3. QED
  BY <1>1, <1>2, HttpClientInvariant, PTL DEF Spec

\* The calls bound the clients: every client ever made has its entry in touched.
THEOREM HttpClientTypeOK == Spec => []TypeOK
<1>1. IInv /\ Accounting => TypeOK
  <2> SUFFICES ASSUME IInv, Accounting PROVE TypeOK
    OBVIOUS
  <2> USE DEF IInv, Accounting, Shape
  <2>1. Cardinality(SwapBehind) <= Cardinality(Calls) /\ Cardinality(SwapBehind) \in Nat
        /\ Cardinality(Calls) \in Nat
    BY HttpClientAssumption, FS_Subset, FS_CardinalityType DEF SwapBehind
  <2>2. made \in Clients /\ 0..made \subseteq Clients
    BY <2>1 DEF MadeBySwaps, Clients
  <2>3. http_client \in Clients /\ closed \subseteq Clients /\ old_client \in [Calls -> Clients]
    BY <2>2
  <2>4. QED BY <2>2, <2>3 DEF TypeOK, LocalsOK
<1>2. QED
  BY <1>1, AccountingInvariant, PTL

\* No client leaks when loops run one after another (issue #234): what a call has
\* replaced it closes, whatever is cancelled around it.
THEOREM NoneLeaks == Spec => []NoClientLeaks
<1>1. IInv /\ Accounting => NoClientLeaks
  BY DEF Accounting, HeldUntilClosed, NoClientLeaks, Rebuilding, Closing
<1>2. QED
  BY <1>1, AccountingInvariant, PTL

\* One new client per switch (issue #234): a loop never throws away a client that
\* one of its calls has made, or that it has used.
THEOREM SwitchOnce == Spec => OneClientPerSwitch
<1>1. IInv /\ Accounting =>
        [\A c \in Calls : mode = "alternating" /\ pc[c] = "swap" /\ pc'[c] = "rebind" =>
           maker # Home(c) /\ Home(c) \notin touched[http_client]]_vars
  <2> SUFFICES ASSUME IInv, Accounting, NEW c \in Calls, mode = "alternating", pc[c] = "swap"
               PROVE  maker # Home(c) /\ Home(c) \notin touched[http_client]
    OBVIOUS
  <2>1. bound_to # Home(c)
    BY DEF Accounting, SwitchAlone
  <2>2. Cardinality(SwapBehind) <= Cardinality(Calls) /\ Cardinality(SwapBehind) \in Nat
        /\ Cardinality(Calls) \in Nat
    BY HttpClientAssumption, FS_Subset, FS_CardinalityType DEF SwapBehind
  <2>3. http_client \in Clients
    BY <2>2 DEF IInv, Shape, Accounting, MadeBySwaps, Clients
  <2>4. touched[http_client] \subseteq {bound_to}
    BY <2>3 DEF IInv, UsedWhereBound
  <2>5. maker # Home(c)
    <3>1. \A d \in Calls : pc[d] # "rebind"
      <4>1. "swap" \in Synchronous /\ "rebind" \in Synchronous
        BY DEF Synchronous
      <4>2. QED BY <4>1, OneSynchronousCall
    <3>2. maker \in {None, bound_to}
      BY <3>1 DEF Accounting, BoundToMaker
    <3>3. Home(c) # None
      BY HomeIsLoop, HttpClientAssumption
    <3>4. QED BY <2>1, <3>2, <3>3
  <2>6. QED BY <2>1, <2>4, <2>5
<1>2. QED
  BY <1>1, AccountingInvariant, PTL DEF Spec, OneClientPerSwitch

=============================================================================
