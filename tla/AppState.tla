------------------------------ MODULE AppState ------------------------------
(***************************************************************************)
(* The dependencies of the application on app.state: created on first use  *)
(* by the request threads (api/deps.py, features/extraction/deps.py),      *)
(* eagerly by the lifespan's start-up, and closed and deleted by its       *)
(* clean-up (main.py).                                                     *)
(*                                                                         *)
(* A synchronous dependency runs in a worker thread, so the factories of   *)
(* several requests interleave at every access to app.state.  The lifespan *)
(* runs on the event loop's thread and calls the same factories.  The      *)
(* lifespan may be entered again on the same app, and requests may come    *)
(* without one, as the tests do.  An instance is named by its version: the *)
(* first one of a dependency is 1, and 0 is none.                          *)
(***************************************************************************)
EXTENDS Naturals, Sequences

CONSTANTS
  Workers,      \* the threads that run the dependencies of requests
  Loop,         \* the thread of the event loop, which runs the lifespan
  MaxStarts,    \* bound: how often the lifespan is entered
  MaxRequests   \* bound: how many requests come

ASSUME AppStateAssumption ==
  Loop \notin Workers /\ MaxStarts \in Nat /\ MaxRequests \in Nat

Threads == Workers \cup {Loop}

ApiDeps == {"validator", "provider", "parser", "service", "probe", "probe_cache"}
FeatureDeps == {"concatenator", "engine", "resolver", "annotator"}
Deps == ApiDeps \cup FeatureDeps

VARIABLES
  state,     \* app.state: the version of each dependency, or 0
  built,     \* how many instances of each dependency were ever created
  uses,      \* the versions of its collaborators an instance on app.state holds
  clients,   \* the providers whose httpx client is open
  broken,    \* the providers whose aclose has failed
  frames,    \* the factory calls that hold each of the two re-entrant locks
  pc,        \* where a thread is in a factory
  cur,       \* the dependency it resolves
  outer,     \* the factories that have called this one
  plan, at,  \* the dependencies of the request, and which of them it is at
  got,       \* the versions a thread has resolved for its request
  seeded,    \* a test has put a probe of its own on app.state (version 1)
  phase,     \* where the lifespan is
  snapshot,  \* to_clean: the attributes the clean-up still has before it
  primed,    \* the probe cache the lifespan has primed
  starts, cleanups, requests

wiring == <<state, built, uses, clients, broken>>
lifespan == <<phase, snapshot, primed, starts, cleanups, seeded>>
threads == <<pc, cur, outer, plan, at, got>>
vars == <<wiring, frames, threads, lifespan, requests>>

Nothing == [c \in Deps |-> 0]

\* What Depends() resolves before get_extraction_service, in order.
ExtractDeps == <<"parser", "concatenator", "engine", "resolver", "annotator", "provider", "service">>

\* GET /ready
ReadyDeps == <<"probe_cache">>

\* _install_provider_and_probe
StartDeps == <<"probe">>

TypeOK ==
  /\ state \in [Deps -> Nat] /\ built \in [Deps -> Nat]
  /\ uses \in [Deps -> [Deps -> Nat]]
  /\ clients \in SUBSET Nat /\ broken \in SUBSET Nat
  /\ frames \in [{"api", "features"} -> SUBSET (Threads \X Deps)]
  /\ pc \in [Threads -> {"idle", "check", "lock", "recheck", "build", "using"}]
  /\ cur \in [Threads -> Deps] /\ outer \in [Threads -> SUBSET Deps]
  /\ plan \in [Threads -> {ExtractDeps, ReadyDeps, StartDeps}]
  /\ at \in [Threads -> 1..7] /\ got \in [Threads -> [Deps -> Nat]]
  /\ phase \in {"down", "starting", "installing", "checking", "serving", "cleaning", "dead"}
  /\ snapshot \in SUBSET Deps /\ primed \in Nat /\ seeded \in BOOLEAN
  /\ starts \in 0..MaxStarts /\ cleanups \in 0..starts /\ requests \in 0..MaxRequests

-----------------------------------------------------------------------------
(* The dependency graph                                                    *)

\* Each module of factories has a lock of its own.
LockOf(d) == IF d \in FeatureDeps THEN "features" ELSE "api"

\* The factory a factory calls inside its critical section.
Inner == [provider |-> "validator", probe |-> "provider", probe_cache |-> "probe"]

ServiceParts == {"parser", "concatenator", "engine", "resolver", "annotator", "provider"}

\* The collaborators an instance is constructed with.  The probe holds the
\* client of the provider, the cache its probe.
Collaborators(d) ==
  IF d = "service" THEN ServiceParts ELSE IF d \in DOMAIN Inner THEN {Inner[d]} ELSE {}

\* httpx.AsyncClient() builds an SSL context and reads the environment; the
\* other constructors only store what they are given.
Fallible == {"provider"}

-----------------------------------------------------------------------------
(* A call of a factory                                                     *)

\* Mutant of Available: threading.Lock in the place of RLock.
AvailableOnce(t, d) == frames[LockOf(d)] = {}

\* RLock.acquire does not wait.
Available(t, d) == \A f \in frames[LockOf(d)] : f[1] = t

Enter(t, d) == [frames EXCEPT ![LockOf(d)] = @ \cup {<<t, d>>}]
Leave(t, d) == [frames EXCEPT ![LockOf(d)] = @ \ {<<t, d>>}]
LeaveAll(t) == [l \in DOMAIN frames |-> {f \in frames[l] : f[1] # t}]

Goto(t, where) == pc' = [pc EXCEPT ![t] = where]

\* The thread has no request any more.
Rest(t) ==
  /\ cur' = [cur EXCEPT ![t] = "probe"] /\ outer' = [outer EXCEPT ![t] = {}]
  /\ plan' = [plan EXCEPT ![t] = StartDeps] /\ at' = [at EXCEPT ![t] = 1]
  /\ got' = [got EXCEPT ![t] = Nothing]

\* The factory of d returns version v: to the factory that called it, to the
\* next dependency of the request, or to the request itself.
Return(t, d, v) ==
  /\ got' = [got EXCEPT ![t][d] = v]
  /\ \/ \E o \in outer[t] :
          /\ o \in DOMAIN Inner /\ Inner[o] = d
          /\ Goto(t, "build")
          /\ cur' = [cur EXCEPT ![t] = o]
          /\ outer' = [outer EXCEPT ![t] = @ \ {o}]
          /\ UNCHANGED <<at, phase>>
     \/ /\ outer[t] = {} /\ at[t] < Len(plan[t])
        /\ Goto(t, "check")
        /\ at' = [at EXCEPT ![t] = @ + 1]
        /\ cur' = [cur EXCEPT ![t] = plan[t][at[t] + 1]]
        /\ UNCHANGED <<outer, phase>>
     \/ /\ outer[t] = {} /\ at[t] = Len(plan[t]) /\ t # Loop
        /\ Goto(t, "using")
        /\ UNCHANGED <<cur, outer, at, phase>>
     \/ /\ outer[t] = {} /\ at[t] = Len(plan[t]) /\ t = Loop
        /\ Goto(t, "idle") /\ phase' = "installing"
        /\ UNCHANGED <<cur, outer, at>>
  /\ UNCHANGED plan

\* The look at app.state without the lock.
Check(t) ==
  /\ pc[t] = "check"
  /\ \/ state[cur[t]] # 0 /\ Return(t, cur[t], state[cur[t]])
     \/ state[cur[t]] = 0 /\ Goto(t, "lock") /\ UNCHANGED <<cur, outer, plan, at, got, phase>>
  /\ UNCHANGED <<wiring, frames, snapshot, primed, starts, cleanups, seeded, requests>>

Acquire(t) ==
  /\ pc[t] = "lock" /\ Available(t, cur[t])
  /\ frames' = Enter(t, cur[t])
  /\ Goto(t, "recheck")
  /\ UNCHANGED <<wiring, cur, outer, plan, at, got, lifespan, requests>>

\* The second look was not taken: the factory calls its inner one, or builds.
Construct(t) ==
  /\ \/ /\ cur[t] \in DOMAIN Inner
        /\ outer' = [outer EXCEPT ![t] = @ \cup {cur[t]}]
        /\ cur' = [cur EXCEPT ![t] = Inner[cur[t]]]
        /\ Goto(t, "check")
     \/ cur[t] \notin DOMAIN Inner /\ Goto(t, "build") /\ UNCHANGED <<cur, outer>>
  /\ UNCHANGED <<wiring, frames, plan, at, got, lifespan, requests>>

\* Mutant of Recheck: no second look under the lock.
RecheckNot(t) == pc[t] = "recheck" /\ Construct(t)

\* The second look, under the lock.
Recheck(t) ==
  /\ pc[t] = "recheck"
  /\ \/ /\ state[cur[t]] # 0
        /\ frames' = Leave(t, cur[t])
        /\ Return(t, cur[t], state[cur[t]])
        /\ UNCHANGED <<wiring, snapshot, primed, starts, cleanups, seeded, requests>>
     \/ state[cur[t]] = 0 /\ Construct(t)

\* A new instance of d with the collaborators in held is put on app.state.
Store(d, held) ==
  /\ state' = [state EXCEPT ![d] = built[d] + 1]
  /\ built' = [built EXCEPT ![d] = @ + 1]
  /\ uses' = [uses EXCEPT ![d] = [c \in Deps |-> IF c \in Collaborators(d) THEN held[c] ELSE 0]]
  /\ clients' = IF d = "provider" THEN clients \cup {built[d] + 1} ELSE clients
  /\ UNCHANGED broken

\* The constructor, the assignment to app.state, and the end of the with.
Build(t) ==
  /\ pc[t] = "build"
  /\ Store(cur[t], got[t])
  /\ frames' = Leave(t, cur[t])
  /\ Return(t, cur[t], built[cur[t]] + 1)
  /\ UNCHANGED <<snapshot, primed, starts, cleanups, seeded, requests>>

\* Mutant of Unwind: the exception leaves the locks taken.
UnwindLocked(t) == UNCHANGED frames

\* Each with on the way of the exception releases its lock.
Unwind(t) == frames' = LeaveAll(t)

\* The constructor raises: the request ends with a 500, the start-up fails.
BuildFails(t) ==
  /\ pc[t] = "build" /\ cur[t] \in Fallible
  /\ Unwind(t)
  /\ Goto(t, "idle")
  /\ Rest(t)
  /\ phase' = IF t = Loop THEN "down" ELSE phase
  /\ UNCHANGED <<wiring, snapshot, primed, starts, cleanups, seeded, requests>>

-----------------------------------------------------------------------------
(* Requests                                                                *)

Quiet == \A t \in Threads : pc[t] = "idle"

\* A request comes: POST /extract or GET /ready.  The server serves none
\* while the lifespan starts or cleans up.
Arrive(t) ==
  /\ t \in Workers /\ pc[t] = "idle"
  /\ phase \in {"down", "serving"} /\ requests < MaxRequests
  /\ requests' = requests + 1
  /\ \E deps \in {ExtractDeps, ReadyDeps} :
       /\ cur' = [cur EXCEPT ![t] = deps[1]]
       /\ plan' = [plan EXCEPT ![t] = deps] /\ at' = [at EXCEPT ![t] = 1]
  /\ Goto(t, "check")
  /\ UNCHANGED <<wiring, frames, outer, got, lifespan>>

\* The request has been answered.
Finish(t) ==
  /\ pc[t] = "using"
  /\ Goto(t, "idle")
  /\ Rest(t)
  /\ UNCHANGED <<wiring, frames, lifespan, requests>>

-----------------------------------------------------------------------------
(* The lifespan                                                            *)

\* Start-up begins with _install_provider_and_probe: a probe that is there
\* is taken as it is, otherwise the factory builds the chain.
Startup ==
  /\ phase = "down" /\ Quiet /\ starts < MaxStarts
  /\ starts' = starts + 1
  /\ \/ /\ state["probe"] # 0
        /\ phase' = "installing"
        /\ got' = [got EXCEPT ![Loop]["probe"] = state["probe"]]
        /\ UNCHANGED pc
     \/ /\ state["probe"] = 0
        /\ phase' = "starting"
        /\ Goto(Loop, "check")
        /\ UNCHANGED got
  /\ UNCHANGED <<wiring, frames, cur, outer, plan, at, snapshot, primed, cleanups, seeded, requests>>

\* The probe cache: the one on app.state, or a new one for this probe.
InstallCache ==
  /\ phase = "installing"
  /\ \/ state["probe_cache"] # 0 /\ UNCHANGED wiring
     \/ state["probe_cache"] = 0 /\ Store("probe_cache", got[Loop])
  /\ phase' = "checking"
  /\ got' = [got EXCEPT ![Loop] = Nothing]
  /\ UNCHANGED <<frames, pc, cur, outer, plan, at, snapshot, primed, starts, cleanups, seeded, requests>>

\* probe.check() has answered or has raised: the cache is primed either way.
Prime ==
  /\ phase = "checking"
  /\ primed' = state["probe_cache"]
  /\ phase' = "serving"
  /\ UNCHANGED <<wiring, frames, threads, snapshot, starts, cleanups, seeded, requests>>

\* CancelledError passes the except Exception of start-up, and no clean-up
\* runs before the yield.  The server exits.
CancelStartup ==
  /\ phase = "checking" /\ phase' = "dead"
  /\ UNCHANGED <<wiring, frames, threads, snapshot, primed, starts, cleanups, seeded, requests>>

\* Mutant of ToClean: a list of attributes that has forgotten one (#381).
ToCleanListed == {d \in Deps : state[d] # 0} \ {"service"}

\* The attributes on app.state but for settings and skill_manifest.
ToClean == {d \in Deps : state[d] # 0}

\* The server has drained its requests before it shuts the lifespan down.
Shutdown ==
  /\ phase = "serving" /\ Quiet
  /\ phase' = "cleaning" /\ snapshot' = ToClean
  /\ UNCHANGED <<wiring, frames, threads, primed, starts, cleanups, seeded, requests>>

\* delattr of the attributes ds.
Remove(ds) ==
  /\ state' = [d \in Deps |-> IF d \in ds THEN 0 ELSE state[d]]
  /\ uses' = [d \in Deps |-> IF d \in ds THEN Nothing ELSE uses[d]]
  /\ primed' = IF "probe_cache" \in ds THEN 0 ELSE primed
  /\ snapshot' = snapshot \ ds
  /\ UNCHANGED built

\* The attributes without an aclose, and the probe, which does not own the
\* client it was given.  The loop over them does not suspend.
CleanInert ==
  /\ phase = "cleaning" /\ snapshot \ {"provider"} # {}
  /\ Remove(snapshot \ {"provider"})
  /\ UNCHANGED <<clients, broken, frames, threads, phase, starts, cleanups, seeded, requests>>

\* Mutant of CloseProvider: the attribute is deleted, the client stays open.
ForgetProvider ==
  /\ phase = "cleaning" /\ "provider" \in snapshot
  /\ Remove({"provider"})
  /\ UNCHANGED <<clients, broken, frames, threads, phase, starts, cleanups, seeded, requests>>

\* aclose() of the provider closes its client.
CloseProvider ==
  /\ phase = "cleaning" /\ "provider" \in snapshot
  /\ clients' = clients \ {state["provider"]}
  /\ Remove({"provider"})
  /\ UNCHANGED <<broken, frames, threads, phase, starts, cleanups, seeded, requests>>

\* aclose() raises: logged, and the attribute is deleted all the same.
CloseFails ==
  /\ phase = "cleaning" /\ "provider" \in snapshot
  /\ broken' = broken \cup {state["provider"]}
  /\ Remove({"provider"})
  /\ UNCHANGED <<clients, frames, threads, phase, starts, cleanups, seeded, requests>>

\* aclose() is cancelled: the finally deletes this attribute, the loop over
\* the others ends.  The server exits.
CancelCleanup ==
  /\ phase = "cleaning" /\ "provider" \in snapshot
  /\ broken' = broken \cup {state["provider"]}
  /\ Remove({"provider"})
  /\ phase' = "dead"
  /\ UNCHANGED <<clients, frames, threads, starts, cleanups, seeded, requests>>

\* The lifespan is over; it may be entered again.
EndCleanup ==
  /\ phase = "cleaning" /\ snapshot = {}
  /\ phase' = "down" /\ cleanups' = cleanups + 1
  /\ UNCHANGED <<wiring, frames, threads, snapshot, primed, starts, seeded, requests>>

-----------------------------------------------------------------------------

\* create_app has bound settings and the manifest, and nothing else.  A test
\* may have put a probe of its own on app.state.
Init ==
  /\ seeded \in BOOLEAN
  /\ state = [d \in Deps |-> IF d = "probe" /\ seeded THEN 1 ELSE 0] /\ built = state
  /\ uses = [d \in Deps |-> Nothing] /\ clients = {} /\ broken = {}
  /\ frames = [l \in {"api", "features"} |-> {}]
  /\ pc = [t \in Threads |-> "idle"] /\ cur = [t \in Threads |-> "probe"]
  /\ outer = [t \in Threads |-> {}]
  /\ plan = [t \in Threads |-> StartDeps] /\ at = [t \in Threads |-> 1]
  /\ got = [t \in Threads |-> Nothing]
  /\ phase = "down" /\ snapshot = {} /\ primed = 0
  /\ starts = 0 /\ cleanups = 0 /\ requests = 0

ThreadStep(t) == Check(t) \/ Acquire(t) \/ Recheck(t) \/ Build(t) \/ BuildFails(t) \/ Finish(t)

CleanupStep == CleanInert \/ CloseProvider \/ CloseFails \/ CancelCleanup \/ EndCleanup

Next ==
  \/ \E t \in Threads : Arrive(t) \/ ThreadStep(t)
  \/ Startup \/ InstallCache \/ Prime \/ CancelStartup \/ Shutdown \/ CleanupStep

\* Threads are scheduled, requests end, the probe's request has a timeout,
\* and aclose comes back.  Nobody has to send a request or to stop the app.
Fairness ==
  /\ \A t \in Threads : WF_vars(ThreadStep(t))
  /\ WF_vars(InstallCache) /\ WF_vars(Prime) /\ WF_vars(CleanupStep)

Spec == Init /\ [][Next]_vars /\ Fairness

-----------------------------------------------------------------------------
(* Properties                                                              *)

\* Between two clean-ups every dependency is created at most once, whatever
\* threads ask for it first (the double-checked creation of api/deps.py).
OneInstance == phase # "dead" => \A d \in Deps : built[d] <= cleanups + 1

\* What an instance on app.state holds of its collaborators, and what a
\* request has resolved, are the instances on app.state: no provider with
\* another validator, no probe with another provider's client, no service
\* of an earlier lifespan (the drift of PR #488, the stale service of the
\* lifespan test).  Nobody holds nothing, but for the probe of a test.  A
\* cache that serves is the one the lifespan has primed.
NoDrift ==
  phase \notin {"cleaning", "dead"} =>
    /\ \A d \in Deps : state[d] # 0 /\ ~(seeded /\ d = "probe" /\ state[d] = 1) =>
         \A c \in Collaborators(d) : uses[d][c] = state[c] /\ state[c] # 0
    /\ \A t \in Threads, c \in Deps : got[t][c] \in {0, state[c]}
    /\ phase = "serving" => primed = state["probe_cache"] /\ primed # 0

\* The open clients are that of the provider on app.state and those whose
\* aclose has failed: none is leaked, and no request is given a closed one.
ClientsMatchState ==
  clients = broken \cup (IF state["provider"] = 0 THEN {} ELSE {state["provider"]})

\* A thread that enters a factory leaves it, whoever holds the locks and
\* whichever constructor raises; a clean-up comes to its end.
CreationEnds ==
  /\ \A t \in Threads : pc[t] # "idle" ~> pc[t] = "idle"
  /\ phase = "cleaning" ~> phase # "cleaning"

=============================================================================
