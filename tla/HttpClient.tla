------------------------------ MODULE HttpClient ------------------------------
(***************************************************************************)
(* OllamaGemmaProvider._get_http_client and _aclose_stale_client: the one  *)
(* httpx.AsyncClient of a provider that is used on several event loops,    *)
(* each in a thread of its own.  A call that finds the client bound to     *)
(* another loop makes a new one, binds it to its loop and closes the old   *)
(* one, on the old loop if that still runs.                                *)
(*                                                                         *)
(* Calls on one loop interleave at their awaits only, and an asyncio.Lock  *)
(* per loop keeps two of them from rebuilding.  Calls on two loops that    *)
(* run at the same time interleave at every access to the provider, so     *)
(* each access is a step.                                                  *)
(***************************************************************************)
EXTENDS Integers, FiniteSets

CONSTANTS
  Loops,  \* the event loops the provider is used on
  Calls,  \* the calls of _get_http_client, as pairs of a loop and a number
  None

ASSUME HttpClientAssumption ==
  IsFiniteSet(Calls) /\ Calls \subseteq Loops \X Nat /\ None \notin Loops \cup Calls

VARIABLES
  mode,       \* whether loops run one after another or in parallel threads
  loop,       \* what each event loop does
  executing,  \* per loop, the call it is in the middle of
  http_client, bound_to,  \* provider.http_client and ._http_client_loop
  made,       \* how many clients there are so far
  maker,      \* history: the loop whose call made the current one, if any did
  touched,    \* per client, the loops a request was sent from with it
  closed,     \* the clients on which aclose has begun
  lock,       \* per loop, the call that holds its rebuild lock
  pc, old_loop, old_client,  \* per call, its place and local variables
  submitted   \* per call, the aclose it has put on the old loop

provider == <<http_client, bound_to, made, maker, closed>>
locals == <<old_loop, old_client>>
vars == <<mode, loop, executing, provider, touched, lock, pc, locals, submitted>>

Home(c) == c[1]
Clients == 0..Cardinality(Calls)

Over == {"new", "done", "cancelled"}
Suspended == {"waiting", "awaiting", "closing"}
Synchronous == {"recheck", "stamp", "read", "take_old", "swap", "rebind", "check_loop",
                "submit", "close_here"}
Closing == {"check_loop", "submit", "close_here", "awaiting", "closing"}
Rebuilding == {"take_old", "swap", "rebind"} \cup Closing

TypeOK ==
  /\ mode \in {"alternating", "threads"}
  /\ loop \in [Loops -> {"fresh", "running", "stopped", "closed"}]
  /\ executing \in [Loops -> Calls \cup {None}]
  /\ http_client \in Clients /\ bound_to \in Loops \cup {None}
  /\ made \in Clients /\ maker \in Loops \cup {None}
  /\ touched \in [Clients -> SUBSET Loops] /\ closed \subseteq Clients
  /\ lock \in [Loops -> Calls \cup {None}]
  /\ pc \in [Calls -> Over \cup Suspended \cup Synchronous]
  /\ old_loop \in [Calls -> Loops \cup {None}]
  /\ \A c \in Calls : pc[c] \in Rebuilding => old_loop[c] \in Loops \ {Home(c)}
  /\ old_client \in [Calls -> Clients]
  /\ submitted \in [Calls -> {"none", "posted", "returned", "raised", "dropped"}]

\* A provider with the client its __init__ made, which no loop has used.
Init ==
  /\ mode \in {"alternating", "threads"}
  /\ loop = [l \in Loops |-> "fresh"]
  /\ executing = [l \in Loops |-> None]
  /\ http_client = 0 /\ bound_to = None /\ made = 0 /\ maker = None
  /\ touched = [k \in Clients |-> {}] /\ closed = {}
  /\ lock = [l \in Loops |-> None]
  /\ pc = [c \in Calls |-> "new"]
  /\ old_loop = [c \in Calls |-> None] /\ old_client = [c \in Calls |-> 0]
  /\ submitted = [c \in Calls |-> "none"]

-----------------------------------------------------------------------------
(* The control of a call                                                   *)

\* The call goes on with the synchronous piece of code it is in.
GoOn(c, from, to) ==
  /\ executing[Home(c)] = c /\ pc[c] = from
  /\ loop[Home(c)] = "running"
  /\ pc' = [pc EXCEPT ![c] = to]
  /\ UNCHANGED <<mode, loop>>

\* Its loop runs the call, anew or after an await.
Wake(c, from, to) ==
  /\ executing[Home(c)] = None /\ pc[c] = from
  /\ loop[Home(c)] = "running"
  /\ pc' = [pc EXCEPT ![c] = to]
  /\ executing' = [executing EXCEPT ![Home(c)] = c]
  /\ UNCHANGED <<mode, loop>>

\* Calls are numbered in the order in which they come.
Arrives(c) ==
  /\ pc[c] = "new"
  /\ \A d \in Calls : Home(d) = Home(c) /\ d[2] < c[2] => pc[d] # "new"

\* The call is over, and its local variables with it.
Forget(c) ==
  /\ old_loop' = [old_loop EXCEPT ![c] = None]
  /\ old_client' = [old_client EXCEPT ![c] = 0]
  /\ submitted' = [submitted EXCEPT ![c] = "none"]

Stay == UNCHANGED executing
Suspend(c) == executing' = [executing EXCEPT ![Home(c)] = None]
Unlock(c) == lock' = [lock EXCEPT ![Home(c)] = IF @ = c THEN None ELSE @]

-----------------------------------------------------------------------------
(* _get_http_client                                                        *)

\* Mutant of IsBound: a client that is bound is taken to be bound to this loop.
IsBoundAnywhere(c) == bound_to # None

\* self._http_client_loop is current_loop.
IsBound(c) == bound_to = Home(c)

\* The fast path.
EnterFast(c) ==
  /\ Arrives(c) /\ IsBound(c)
  /\ Wake(c, "new", "read")
  /\ UNCHANGED <<provider, touched, lock, locals, submitted>>

\* The lock is free.
EnterLocked(c) ==
  /\ Arrives(c) /\ ~IsBound(c) /\ lock[Home(c)] = None
  /\ Wake(c, "new", "recheck")
  /\ lock' = [lock EXCEPT ![Home(c)] = c]
  /\ UNCHANGED <<provider, touched, locals, submitted>>

EnterWaiting(c) ==
  /\ Arrives(c) /\ ~IsBound(c) /\ lock[Home(c)] # None
  /\ executing[Home(c)] = None /\ loop[Home(c)] = "running"
  /\ pc' = [pc EXCEPT ![c] = "waiting"]
  /\ UNCHANGED <<mode, loop, executing, provider, touched, lock, locals, submitted>>

\* The order among those who wait is left open.
GetLock(c) ==
  /\ lock[Home(c)] = None
  /\ Wake(c, "waiting", "recheck")
  /\ lock' = [lock EXCEPT ![Home(c)] = c]
  /\ UNCHANGED <<provider, touched, locals, submitted>>

\* Another call on this loop has rebuilt the client in the meantime.
FoundBound(c) ==
  /\ IsBound(c)
  /\ GoOn(c, "recheck", "read") /\ Stay
  /\ UNCHANGED <<provider, touched, lock, locals, submitted>>

FoundUnbound(c) ==
  /\ bound_to = None
  /\ GoOn(c, "recheck", "stamp") /\ Stay
  /\ UNCHANGED <<provider, touched, lock, locals, submitted>>

\* The client is bound to another loop.
FoundOther(c) ==
  /\ ~IsBound(c) /\ bound_to # None
  /\ GoOn(c, "recheck", "take_old") /\ Stay
  /\ old_loop' = [old_loop EXCEPT ![c] = bound_to]
  /\ UNCHANGED <<provider, touched, lock, old_client, submitted>>

\* The first binding.
Stamp(c) ==
  /\ GoOn(c, "stamp", "read") /\ Stay
  /\ bound_to' = Home(c)
  /\ UNCHANGED <<http_client, made, maker, closed, touched, lock, locals, submitted>>

TakeOld(c) ==
  /\ GoOn(c, "take_old", "swap") /\ Stay
  /\ old_client' = [old_client EXCEPT ![c] = http_client]
  /\ UNCHANGED <<provider, touched, lock, old_loop, submitted>>

\* Mutant of Swap: the old client is looked up after the new one is in place.
SwapFirst(c) ==
  /\ GoOn(c, "swap", "rebind") /\ Stay
  /\ made' = made + 1 /\ http_client' = made' /\ maker' = Home(c)
  /\ old_client' = [old_client EXCEPT ![c] = http_client']
  /\ UNCHANGED <<bound_to, closed, touched, lock, old_loop, submitted>>

\* self.http_client = httpx.AsyncClient(...).
Swap(c) ==
  /\ GoOn(c, "swap", "rebind") /\ Stay
  /\ made' = made + 1 /\ http_client' = made' /\ maker' = Home(c)
  /\ UNCHANGED <<bound_to, closed, touched, lock, locals, submitted>>

\* Mutant of Rebind: the new client is not bound.
LeaveUnbound(c) ==
  /\ GoOn(c, "rebind", "check_loop") /\ Stay
  /\ UNCHANGED <<provider, touched, lock, locals, submitted>>

\* Before the first await, so that the fast path holds for the calls that come
\* while the old client is being closed.
Rebind(c) ==
  /\ GoOn(c, "rebind", "check_loop") /\ Stay
  /\ bound_to' = Home(c)
  /\ UNCHANGED <<http_client, made, maker, closed, touched, lock, locals, submitted>>

\* The call returns self.http_client, and generate sends a request with it.
Return(c) ==
  /\ GoOn(c, "read", "done") /\ Suspend(c)
  /\ touched' = [touched EXCEPT ![http_client] = @ \cup {Home(c)}]
  /\ Unlock(c) /\ Forget(c)
  /\ UNCHANGED provider

-----------------------------------------------------------------------------
(* _aclose_stale_client                                                    *)

\* Mutant of CheckLoop: the client of a loop that does not run is left alone.
LeaveToDeadLoop(c) ==
  /\ pc[c] = "check_loop"
  /\ GoOn(c, "check_loop", IF loop[old_loop[c]] = "running" THEN "submit" ELSE "read") /\ Stay
  /\ UNCHANGED <<provider, touched, lock, locals, submitted>>

\* not old_loop.is_closed() and old_loop.is_running().
CheckLoop(c) ==
  /\ pc[c] = "check_loop"
  /\ GoOn(c, "check_loop", IF loop[old_loop[c]] = "running" THEN "submit" ELSE "close_here")
  /\ Stay
  /\ UNCHANGED <<provider, touched, lock, locals, submitted>>

\* run_coroutine_threadsafe, and the wait for its future begins.
Submit(c) ==
  /\ GoOn(c, "submit", "awaiting") /\ Suspend(c)
  /\ loop[old_loop[c]] # "closed"
  /\ submitted' = [submitted EXCEPT ![c] = "posted"]
  /\ UNCHANGED <<provider, touched, lock, locals>>

\* It raises RuntimeError when the old loop has been closed since.
SubmitRaises(c) ==
  /\ GoOn(c, "submit", "close_here") /\ Stay
  /\ loop[old_loop[c]] = "closed"
  /\ UNCHANGED <<provider, touched, lock, locals, submitted>>

\* The old loop runs aclose, which may raise.
OldLoopCloses(c) ==
  /\ submitted[c] = "posted"
  /\ loop[old_loop[c]] = "running" /\ executing[old_loop[c]] = None
  /\ closed' = closed \cup {old_client[c]}
  /\ \E end \in {"returned", "raised"} : submitted' = [submitted EXCEPT ![c] = end]
  /\ UNCHANGED <<mode, loop, executing, http_client, bound_to, made, maker, touched, lock, pc, locals>>

\* The old loop has closed it.
Awaited(c) ==
  /\ submitted[c] = "returned" /\ Wake(c, "awaiting", "read")
  /\ UNCHANGED <<provider, touched, lock, locals, submitted>>

\* Mutant of NotAwaited: no timeout on the wait.
OnlyRaised(c) ==
  /\ submitted[c] = "raised" /\ Wake(c, "awaiting", "close_here")
  /\ UNCHANGED <<provider, touched, lock, locals, submitted>>

\* aclose raised; or the wait timed out, and an aclose that the old loop has not
\* begun yet is cancelled with it.
NotAwaited(c) ==
  /\ submitted[c] \in {"posted", "raised"} /\ Wake(c, "awaiting", "close_here")
  /\ submitted' = [submitted EXCEPT ![c] = IF @ = "posted" THEN "dropped" ELSE @]
  /\ UNCHANGED <<provider, touched, lock, locals>>

\* await old_client.aclose() on this loop; whether it raises does not matter.
CloseHere(c) ==
  /\ GoOn(c, "close_here", "closing") /\ Suspend(c)
  /\ closed' = closed \cup {old_client[c]}
  /\ UNCHANGED <<http_client, bound_to, made, maker, touched, lock, locals, submitted>>

ClosedHere(c) ==
  /\ Wake(c, "closing", "read")
  /\ UNCHANGED <<provider, touched, lock, locals, submitted>>

\* The call's task is cancelled at an await (the adapter has given it up).
Cancel(c) ==
  /\ pc[c] \in Suspended
  /\ executing[Home(c)] = None /\ loop[Home(c)] = "running"
  /\ pc' = [pc EXCEPT ![c] = "cancelled"]
  /\ Unlock(c) /\ Forget(c)
  /\ UNCHANGED <<mode, loop, executing, provider, touched>>

-----------------------------------------------------------------------------
(* The event loops                                                         *)

\* asyncio.run one after another: a loop starts when no other runs, and stops
\* when its tasks are over.
Start(l) ==
  /\ loop[l] \in {"fresh", "stopped"}
  /\ mode = "alternating" => \A k \in Loops : loop[k] # "running"
  /\ loop' = [loop EXCEPT ![l] = "running"]
  /\ UNCHANGED <<mode, executing, provider, touched, lock, pc, locals, submitted>>

Stop(l) ==
  /\ loop[l] = "running" /\ executing[l] = None
  /\ mode = "alternating" => \A c \in Calls : Home(c) = l => pc[c] \in Over
  /\ loop' = [loop EXCEPT ![l] = "stopped"]
  /\ UNCHANGED <<mode, executing, provider, touched, lock, pc, locals, submitted>>

Close(l) ==
  /\ loop[l] = "stopped"
  /\ loop' = [loop EXCEPT ![l] = "closed"]
  /\ UNCHANGED <<mode, executing, provider, touched, lock, pc, locals, submitted>>

CallStep(c) ==
  \/ GetLock(c) \/ FoundBound(c) \/ FoundUnbound(c) \/ FoundOther(c) \/ Stamp(c)
  \/ TakeOld(c) \/ Swap(c) \/ Rebind(c) \/ Return(c)
  \/ CheckLoop(c) \/ Submit(c) \/ SubmitRaises(c) \/ Awaited(c) \/ NotAwaited(c)
  \/ CloseHere(c) \/ ClosedHere(c)

Next ==
  \/ \E c \in Calls :
       EnterFast(c) \/ EnterLocked(c) \/ EnterWaiting(c) \/ CallStep(c)
         \/ OldLoopCloses(c) \/ Cancel(c)
  \/ \E l \in Loops : Start(l) \/ Stop(l) \/ Close(l)

UnderWay(c) == pc[c] \notin Over /\ loop[Home(c)] = "running"

\* A loop that runs runs its tasks and timers.  Nothing is assumed of the loops
\* themselves: they may stop at any time and never start again.
Fairness == \A c \in Calls : WF_vars(UnderWay(c) /\ CallStep(c))

Spec == Init /\ [][Next]_vars /\ Fairness

-----------------------------------------------------------------------------
(* The inductive invariants of HttpClientProofs                            *)

\* What the proofs need of the types; TypeOK also bounds the clients.
Shape ==
  /\ executing \in [Loops -> Calls \cup {None}]
  /\ made \in Nat /\ maker \in Loops \cup {None}
  /\ http_client \in 0..made /\ closed \subseteq 0..made
  /\ touched \in [Clients -> SUBSET Loops]
  /\ loop \in [Loops -> {"fresh", "running", "stopped", "closed"}]
  /\ pc \in [Calls -> Over \cup Suspended \cup Synchronous]
  /\ old_client \in [Calls -> 0..made]
  /\ submitted \in [Calls -> {"none", "posted", "returned", "raised", "dropped"}]

\* Once a call has put its new client in place, the client it is to close is not
\* the current one, whoever has replaced that meanwhile.
StaleIsNotCurrent ==
  \A c \in Calls :
    /\ pc[c] \in {"rebind"} \cup Closing => old_client[c] # http_client
    /\ submitted[c] = "posted" => pc[c] = "awaiting"

\* A loop is in the middle of one call at most.
OneAtATime == \A c \in Calls : pc[c] \in Synchronous => executing[Home(c)] = c

\* Without threads the calls under way are all on one loop, and the client is
\* bound to it from Stamp or Rebind until they are over.
BoundWhileRunning ==
  mode = "alternating" =>
    /\ \A l, m \in Loops : loop[l] = "running" /\ loop[m] = "running" => l = m
    /\ \A c \in Calls : pc[c] \notin Over => loop[Home(c)] = "running"
    /\ \A c \in Calls : pc[c] \in {"read"} \cup Closing => bound_to = Home(c)
    /\ \A c \in Calls : pc[c] = "stamp" => bound_to = None

\* Without threads the current client has been used on the loop it is bound to
\* at most, a new one not at all.
UsedWhereBound ==
  mode = "alternating" =>
    /\ \A k \in Clients : k > made => touched[k] = {}
    /\ http_client \in Clients => touched[http_client] \subseteq {bound_to}
    /\ \A c \in Calls : pc[c] = "rebind" /\ http_client \in Clients => touched[http_client] = {}

-----------------------------------------------------------------------------
(* Properties                                                              *)

\* The client of _get_http_client is "bound to the currently-running event loop"
\* of its caller: no client is ever used on two loops.
BoundToCallersLoop == \A k \in Clients : \A l, m \in touched[k] : l = m

\* A provider can be reused across asyncio.run scopes (issue #132): it holds as
\* long as the loops run one after another, whatever is cancelled meanwhile.
ReusableAcrossRuns == mode = "alternating" => BoundToCallersLoop

\* A rebuild never closes the client the provider hands out, not even when two
\* loops rebuild at the same time and overwrite each other's client.
CurrentStaysOpen == http_client \notin closed

\* What TLAPS proves inductive.
IInv ==
  /\ Shape /\ StaleIsNotCurrent /\ OneAtATime
  /\ BoundWhileRunning /\ UsedWhereBound
  /\ CurrentStaysOpen /\ ReusableAcrossRuns

\* Issue #234, without threads: every client that was replaced is closed, unless
\* the call that replaces it is still on its way to do so.
NoClientLeaks ==
  mode = "alternating" =>
    \A k \in 0..made :
      k = http_client \/ k \in closed
        \/ \E c \in Calls : pc[c] \in Rebuilding /\ old_client[c] = k

\* Issue #234: calls that meet a switch of loops together share one new client.
\* A loop never throws away a client that one of its calls has made, used yet or
\* not and whatever was cancelled meanwhile, nor one that it has used.
OneClientPerSwitch ==
  [][\A c \in Calls : mode = "alternating" /\ pc[c] = "swap" /\ pc'[c] = "rebind" =>
       maker # Home(c) /\ Home(c) \notin touched[http_client]]_vars

\* A call comes back although the old loop stopped with the aclose in its queue,
\* or another call on its loop was cancelled with the lock.
RebuildEnds == \A c \in Calls : UnderWay(c) ~> ~UnderWay(c)

=============================================================================
