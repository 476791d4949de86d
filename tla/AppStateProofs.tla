---------------------------- MODULE AppStateProofs ----------------------------
(***************************************************************************)
(* Theorems about AppState, for every set of worker threads and every      *)
(* number of starts and requests.                                          *)
(***************************************************************************)
EXTENDS AppState, TLAPS

\* A thread is in a factory.
Busy(t) == pc[t] \in {"check", "lock", "recheck", "build"}

\* The factories that call another one, by how many calls are below them.
Chain == {"provider", "probe", "probe_cache"}
Depth == [d \in Deps |-> CASE d = "probe_cache" -> 3 [] d = "probe" -> 2 [] d = "provider" -> 1 [] OTHER -> 0]

\* A thread that resolves root is in the factory of d, which above have called.
Place(root, d, above) ==
  /\ d = root \/ (d \in {"validator", "provider", "probe"} /\ Depth[d] < Depth[root])
  /\ above = {o \in Chain : Depth[d] < Depth[o] /\ Depth[o] <= Depth[root]}

Types == TypeOK /\ \A t \in Threads : at[t] <= Len(plan[t])

Nested ==
  \A t \in Threads :
    /\ Busy(t) => Place(plan[t][at[t]], cur[t], outer[t])
    /\ ~Busy(t) => outer[t] = {}

\* One thread at a time is inside each lock, and it is where its frames are.
Locked ==
  /\ \A l \in {"api", "features"} : \A f, g \in frames[l] : f[1] = g[1]
  /\ \A t \in Threads :
       /\ pc[t] \in {"recheck", "build"} => <<t, cur[t]>> \in frames[LockOf(cur[t])]
       /\ \A o \in outer[t] : <<t, o>> \in frames[LockOf(o)]

\* What the second look has not found is still not there.
Absent ==
  \A t \in Threads :
    /\ pc[t] = "build" => state[cur[t]] = 0
    /\ \A o \in outer[t] : state[o] = 0

\* What a thread has resolved.
Resolved ==
  \A t \in Threads :
    /\ \A c \in Deps : got[t][c] \in {0, state[c]}
    /\ Busy(t) => \A j \in 1..at[t] : j < at[t] => got[t][plan[t][j]] # 0
    /\ (pc[t] = "build" /\ cur[t] \in DOMAIN Inner) => got[t][Inner[cur[t]]] # 0
    /\ (pc[t] = "idle" /\ ~(t = Loop /\ phase = "installing")) => got[t] = Nothing

\* Who runs when, and what the lifespan has done.
Phases ==
  /\ \A t \in Workers : pc[t] # "idle" => phase \in {"down", "serving"}
  /\ pc[Loop] # "using" /\ (pc[Loop] = "idle" <=> phase # "starting")
  /\ plan[Loop] = StartDeps /\ at[Loop] = 1 /\ (pc[Loop] = "idle" => cur[Loop] = "probe")
  /\ phase = "installing" => got[Loop]["probe"] # 0
  /\ phase = "checking" => state["probe_cache"] # 0
  /\ phase = "serving" => primed = state["probe_cache"] /\ primed # 0
  /\ phase = "cleaning" => snapshot = ToClean
  /\ phase # "down" => cleanups < starts

\* The instance on app.state is the newest one.
Versions ==
  /\ \A d \in Deps : state[d] \in {0, built[d]}
  /\ phase \notin {"cleaning", "dead"} =>
       \A d \in Deps : built[d] <= cleanups + (IF state[d] = 0 THEN 0 ELSE 1)
  /\ phase = "cleaning" => \A d \in Deps : built[d] <= cleanups + 1

\* It holds the others on app.state.
Wired ==
  phase \notin {"cleaning", "dead"} =>
    \A d \in Deps : state[d] # 0 /\ ~(seeded /\ d = "probe" /\ state[d] = 1) =>
      \A c \in Collaborators(d) : uses[d][c] = state[c] /\ state[c] # 0

ClientsKnown ==
  /\ ClientsMatchState
  /\ \A b \in broken : b <= built["provider"]
  /\ state["provider"] # 0 => state["provider"] \notin broken

\* The inductive invariant.
IInv ==
  /\ Types /\ Nested /\ Locked /\ Absent /\ Resolved /\ Phases
  /\ Versions /\ Wired /\ ClientsKnown

-----------------------------------------------------------------------------
(* Facts about the dependency graph                                        *)

(***************************************************************************)
(* The dependencies, their locks and the factories below them.             *)
(***************************************************************************)
LEMMA Graph ==
  /\ Chain \subseteq Deps /\ DOMAIN Inner = Chain
  /\ Inner["provider"] = "validator" /\ Inner["probe"] = "provider" /\ Inner["probe_cache"] = "probe"
  /\ {"validator", "service"} \subseteq Deps /\ ServiceParts \subseteq Deps
  /\ \A d \in Deps : LockOf(d) \in {"api", "features"} /\ Collaborators(d) \subseteq Deps \ {d}
  /\ \A d \in Chain : Inner[d] \in Deps /\ Collaborators(d) = {Inner[d]}
  /\ Collaborators("service") = ServiceParts
  /\ \A d \in Deps \ (Chain \cup {"service"}) : Collaborators(d) = {}
BY DEF Chain, Deps, ApiDeps, FeatureDeps, Inner, ServiceParts, LockOf, Collaborators

(***************************************************************************)
(* How many factories each factory has below it.                           *)
(***************************************************************************)
LEMMA Depths ==
  /\ Depth["probe_cache"] = 3 /\ Depth["probe"] = 2 /\ Depth["provider"] = 1
  /\ \A d \in Deps \ Chain : Depth[d] = 0
BY Graph DEF Depth, Chain

(***************************************************************************)
(* The dependencies of a request.                                          *)
(***************************************************************************)
LEMMA Plans ==
  ASSUME NEW p \in {ExtractDeps, ReadyDeps, StartDeps}
  PROVE  /\ Len(p) \in 1..7
         /\ \A j \in 1..Len(p) : p[j] \in Deps /\ (p[j] = "service" => p = ExtractDeps /\ j = 7)
         /\ p[1] # "service"
<1>1. CASE p = ExtractDeps
  BY <1>1 DEF ExtractDeps, Deps, ApiDeps, FeatureDeps
<1>2. CASE p = ReadyDeps
  BY <1>2 DEF ReadyDeps, Deps, ApiDeps, FeatureDeps
<1>3. CASE p = StartDeps
  BY <1>3 DEF StartDeps, Deps, ApiDeps, FeatureDeps
<1>4. QED BY <1>1, <1>2, <1>3

(***************************************************************************)
(* A request resolves the parts of the service before the service itself.  *)
(***************************************************************************)
LEMMA PartsFirst == \A c \in ServiceParts : \E j \in 1..6 : ExtractDeps[j] = c
<1> SUFFICES ASSUME NEW c \in ServiceParts PROVE \E j \in 1..6 : ExtractDeps[j] = c
  OBVIOUS
<1>1. /\ ExtractDeps[1] = "parser" /\ ExtractDeps[2] = "concatenator" /\ ExtractDeps[3] = "engine"
      /\ ExtractDeps[4] = "resolver" /\ ExtractDeps[5] = "annotator" /\ ExtractDeps[6] = "provider"
  BY DEF ExtractDeps
<1>2. QED BY <1>1 DEF ServiceParts

(***************************************************************************)
(* The places a thread may be at below the dependency it resolves.         *)
(***************************************************************************)
LEMMA PlaceTop == ASSUME NEW root \in Deps PROVE Place(root, root, {})
BY Graph, Depths DEF Place, Chain

(***************************************************************************)
(* What is known of such a place.                                          *)
(***************************************************************************)
LEMMA PlaceFacts ==
  ASSUME NEW root \in Deps, NEW d, NEW above, Place(root, d, above)
  PROVE  /\ d \in Deps /\ above \subseteq Chain /\ d \notin above
         /\ above = {} => d = root
         /\ d = "service" => root = "service"
<1>1. Depth[root] \in 0..3 /\ (Depth[root] > 0 => root \in Chain)
  BY Graph, Depths DEF Chain
<1>2. d \in Deps /\ Depth[d] \in 0..3
  BY Graph, Depths DEF Place, Chain
<1>3. above \subseteq Chain /\ d \notin above
  BY <1>2 DEF Place
<1>4. above = {} => d = root
  BY <1>1, <1>2 DEF Place
<1>5. QED BY <1>2, <1>3, <1>4 DEF Place

(***************************************************************************)
(* A factory calls its inner one: the place is one further down.           *)
(***************************************************************************)
LEMMA PlaceCall ==
  ASSUME NEW root \in Deps, NEW d \in Chain, NEW above, Place(root, d, above)
  PROVE  Place(root, Inner[d], above \cup {d})
<1>1. Depth[root] \in 0..3 /\ Depth[d] \in 1..3 /\ Depth[Inner[d]] = Depth[d] - 1
  BY Graph, Depths DEF Chain
<1>2. Inner[d] \in {"validator", "provider", "probe"}
  BY Graph DEF Chain
<1>3. Depth[d] <= Depth[root]
  BY <1>1 DEF Place
<1>4. \A o \in Chain : Depth[o] \in 1..3 /\ (Depth[o] = Depth[d] => o = d)
  BY Graph, Depths DEF Chain
<1>5. above \cup {d} = {o \in Chain : Depth[Inner[d]] < Depth[o] /\ Depth[o] <= Depth[root]}
  BY <1>1, <1>3, <1>4 DEF Place
<1>6. QED BY <1>1, <1>2, <1>3, <1>5 DEF Place

(***************************************************************************)
(* The inner factory returns: the place is one further up.                 *)
(***************************************************************************)
LEMMA PlaceReturn ==
  ASSUME NEW root \in Deps, NEW d, NEW above, Place(root, d, above),
         NEW o \in above, o \in DOMAIN Inner, Inner[o] = d
  PROVE  Place(root, o, above \ {o})
<1>1. o \in Chain /\ d \in Deps
  BY Graph, PlaceFacts
<1>2. Depth[root] \in 0..3 /\ Depth[o] \in 1..3 /\ Depth[d] = Depth[o] - 1 /\ Depth[o] <= Depth[root]
  BY <1>1, Graph, Depths DEF Chain, Place
<1>3. \A x \in Chain : Depth[x] \in 1..3 /\ (Depth[x] = Depth[o] => x = o)
  BY <1>1, Graph, Depths DEF Chain
<1>4. above \ {o} = {x \in Chain : Depth[o] < Depth[x] /\ Depth[x] <= Depth[root]}
  BY <1>2, <1>3 DEF Place
<1>5. o = root \/ (o \in {"validator", "provider", "probe"} /\ Depth[o] < Depth[root])
  BY <1>1, <1>2, Graph, Depths DEF Chain
<1>6. QED BY <1>4, <1>5 DEF Place

-----------------------------------------------------------------------------
(* How a factory returns                                                   *)

Others(t) ==
  \A u \in Threads \ {t} :
    pc'[u] = pc[u] /\ cur'[u] = cur[u] /\ outer'[u] = outer[u] /\ plan'[u] = plan[u]
    /\ at'[u] = at[u] /\ got'[u] = got[u]

ToCaller(t) ==
  /\ pc'[t] = "build" /\ at'[t] = at[t] /\ phase' = phase
  /\ cur'[t] \in outer[t] /\ cur'[t] \in Chain /\ Inner[cur'[t]] = cur[t]
  /\ outer'[t] = outer[t] \ {cur'[t]}

ToNext(t) ==
  /\ pc'[t] = "check" /\ outer'[t] = {} /\ phase' = phase
  /\ at[t] < Len(plan[t]) /\ at'[t] = at[t] + 1 /\ cur'[t] = plan[t][at'[t]]
  /\ outer[t] = {} /\ cur[t] = plan[t][at[t]]

ToUser(t) ==
  /\ outer'[t] = {} /\ at'[t] = at[t] /\ cur'[t] = cur[t]
  /\ outer[t] = {} /\ cur[t] = plan[t][at[t]]
  /\ \/ t # Loop /\ pc'[t] = "using" /\ phase' = phase
     \/ t = Loop /\ pc'[t] = "idle" /\ phase' = "installing"

ThreadTypes ==
  /\ pc \in [Threads -> {"idle", "check", "lock", "recheck", "build", "using"}]
  /\ cur \in [Threads -> Deps] /\ outer \in [Threads -> SUBSET Deps]
  /\ plan \in [Threads -> {ExtractDeps, ReadyDeps, StartDeps}]
  /\ at \in [Threads -> 1..7] /\ got \in [Threads -> [Deps -> Nat]]
  /\ \A t \in Threads : at[t] <= Len(plan[t])

(***************************************************************************)
(* Return is one of the three, and changes nothing of another thread.      *)
(***************************************************************************)
LEMMA ReturnStep ==
  ASSUME ThreadTypes, Nested, NEW t \in Threads, Busy(t), NEW v \in Nat, Return(t, cur[t], v)
  PROVE  /\ Others(t)
         /\ got'[t] = [got[t] EXCEPT ![cur[t]] = v] /\ plan'[t] = plan[t]
         /\ ToCaller(t) \/ ToNext(t) \/ ToUser(t)
         /\ ThreadTypes'
<1>1. plan' = plan /\ got' = [got EXCEPT ![t][cur[t]] = v]
  BY DEF Return
<1>2. plan[t] \in {ExtractDeps, ReadyDeps, StartDeps} /\ at[t] \in 1..7 /\ at[t] <= Len(plan[t])
      /\ cur[t] \in Deps /\ outer[t] \subseteq Deps /\ got[t] \in [Deps -> Nat]
  BY DEF ThreadTypes
<1>3. Len(plan[t]) \in 1..7 /\ \A j \in 1..Len(plan[t]) : plan[t][j] \in Deps
  BY <1>2, Plans
<1>4. plan[t][at[t]] \in Deps
  BY <1>2, <1>3
<1>5. Place(plan[t][at[t]], cur[t], outer[t])
  BY DEF Nested
<1>6. outer[t] = {} => cur[t] = plan[t][at[t]]
  BY <1>4, <1>5, PlaceFacts
<1>7. got'[t] = [got[t] EXCEPT ![cur[t]] = v] /\ got' \in [Threads -> [Deps -> Nat]]
      /\ \A u \in Threads \ {t} : got'[u] = got[u]
  BY <1>1, <1>2 DEF ThreadTypes
<1>8. CASE \E o \in outer[t] :
             /\ o \in DOMAIN Inner /\ Inner[o] = cur[t]
             /\ Goto(t, "build") /\ cur' = [cur EXCEPT ![t] = o]
             /\ outer' = [outer EXCEPT ![t] = @ \ {o}] /\ UNCHANGED <<at, phase>>
  <2>1. PICK o \in outer[t] :
             /\ o \in DOMAIN Inner /\ Inner[o] = cur[t]
             /\ Goto(t, "build") /\ cur' = [cur EXCEPT ![t] = o]
             /\ outer' = [outer EXCEPT ![t] = @ \ {o}] /\ UNCHANGED <<at, phase>>
    BY <1>8
  <2>2. ToCaller(t) /\ Others(t)
    BY <1>1, <1>2, <1>7, <2>1, Graph DEF Goto, ToCaller, Others, ThreadTypes
  <2>3. ThreadTypes'
    BY <1>1, <1>2, <1>7, <2>1, Graph DEF Goto, ThreadTypes
  <2>4. QED BY <1>1, <1>7, <2>2, <2>3
<1>9. CASE /\ outer[t] = {} /\ at[t] < Len(plan[t]) /\ Goto(t, "check")
           /\ at' = [at EXCEPT ![t] = @ + 1] /\ cur' = [cur EXCEPT ![t] = plan[t][at[t] + 1]]
           /\ UNCHANGED <<outer, phase>>
  <2> DEFINE n == Len(plan[t])
             j == at[t] + 1
  <2>0. j \in 1..n /\ j \in 1..7
    <3>1. n \in 1..7 /\ at[t] \in 1..7 /\ at[t] < n
      BY <1>2, <1>3, <1>9
    <3> HIDE DEF n
    <3>2. QED BY <3>1
  <2>1. plan[t][at[t] + 1] \in Deps /\ at[t] + 1 \in 1..7
    BY <1>3, <2>0
  <2>2. at'[t] = at[t] + 1 /\ cur'[t] = plan[t][at'[t]]
    BY <1>2, <1>9 DEF ThreadTypes
  <2>3. ToNext(t) /\ Others(t)
    BY <1>1, <1>6, <1>7, <1>9, <2>2 DEF Goto, ToNext, Others, ThreadTypes
  <2>4. ThreadTypes'
    <3>1. at' \in [Threads -> 1..7] /\ cur' \in [Threads -> Deps] /\ pc'[t] = "check"
      BY <1>9, <2>1 DEF Goto, ThreadTypes
    <3>2. pc' \in [Threads -> {"idle", "check", "lock", "recheck", "build", "using"}]
      BY <1>9 DEF Goto, ThreadTypes
    <3>3. \A u \in Threads : at'[u] <= Len(plan'[u])
      BY <1>1, <1>2, <1>3, <1>9 DEF ThreadTypes
    <3>4. QED BY <1>1, <1>7, <1>9, <3>1, <3>2, <3>3 DEF ThreadTypes
  <2>5. QED BY <1>1, <1>7, <2>3, <2>4
<1>10. CASE /\ outer[t] = {} /\ at[t] = Len(plan[t])
            /\ \/ t # Loop /\ Goto(t, "using") /\ UNCHANGED phase
               \/ t = Loop /\ Goto(t, "idle") /\ phase' = "installing"
            /\ UNCHANGED <<cur, outer, at>>
  <2>1. ToUser(t) /\ Others(t)
    BY <1>1, <1>6, <1>7, <1>10 DEF Goto, ToUser, Others, ThreadTypes
  <2>2. ThreadTypes'
    BY <1>1, <1>7, <1>10 DEF Goto, ThreadTypes
  <2>3. QED BY <1>1, <1>7, <2>1, <2>2
<1>11. QED BY <1>8, <1>9, <1>10 DEF Return

-----------------------------------------------------------------------------
(* The steps, by what happens in them                                      *)

CheckFound(t) ==
  /\ pc[t] = "check" /\ state[cur[t]] # 0 /\ Return(t, cur[t], state[cur[t]])
  /\ UNCHANGED <<wiring, frames, snapshot, primed, starts, cleanups, seeded, requests>>

CheckMissed(t) ==
  /\ pc[t] = "check" /\ state[cur[t]] = 0 /\ Goto(t, "lock")
  /\ UNCHANGED <<wiring, frames, cur, outer, plan, at, got, lifespan, requests>>

RecheckFound(t) ==
  /\ pc[t] = "recheck" /\ state[cur[t]] # 0
  /\ frames' = Leave(t, cur[t]) /\ Return(t, cur[t], state[cur[t]])
  /\ UNCHANGED <<wiring, snapshot, primed, starts, cleanups, seeded, requests>>

Call(t) ==
  /\ pc[t] = "recheck" /\ state[cur[t]] = 0 /\ cur[t] \in DOMAIN Inner
  /\ outer' = [outer EXCEPT ![t] = @ \cup {cur[t]}]
  /\ cur' = [cur EXCEPT ![t] = Inner[cur[t]]]
  /\ Goto(t, "check")
  /\ UNCHANGED <<wiring, frames, plan, at, got, lifespan, requests>>

Begin(t) ==
  /\ pc[t] = "recheck" /\ state[cur[t]] = 0 /\ cur[t] \notin DOMAIN Inner /\ Goto(t, "build")
  /\ UNCHANGED <<wiring, frames, cur, outer, plan, at, got, lifespan, requests>>

(***************************************************************************)
(* Every step of Next is one of these.                                     *)
(***************************************************************************)
LEMMA Cases ==
  ASSUME [Next]_vars
  PROVE  \/ UNCHANGED vars
         \/ \E t \in Threads :
              \/ Arrive(t) \/ CheckFound(t) \/ CheckMissed(t) \/ Acquire(t) \/ RecheckFound(t)
              \/ Call(t) \/ Begin(t) \/ Build(t) \/ BuildFails(t) \/ Finish(t)
         \/ Startup \/ InstallCache \/ Prime \/ CancelStartup \/ Shutdown
         \/ CleanInert \/ CloseProvider \/ CloseFails \/ CancelCleanup \/ EndCleanup
<1>1. ASSUME NEW t \in Threads, Check(t) PROVE CheckFound(t) \/ CheckMissed(t)
  BY <1>1 DEF Check, CheckFound, CheckMissed, lifespan
<1>2. ASSUME NEW t \in Threads, Recheck(t) PROVE RecheckFound(t) \/ Call(t) \/ Begin(t)
  BY <1>2 DEF Recheck, Construct, RecheckFound, Call, Begin
<1>3. QED BY <1>1, <1>2 DEF Next, ThreadStep, CleanupStep

(***************************************************************************)
(* Every step keeps the types.                                             *)
(***************************************************************************)
LEMMA TypeStep == IInv /\ [Next]_vars => Types'
<1> SUFFICES ASSUME IInv, [Next]_vars PROVE Types'
  OBVIOUS
<1>0. /\ Types /\ Nested /\ Locked /\ Absent /\ Resolved /\ Phases
      /\ Versions /\ Wired /\ ClientsKnown
  BY DEF IInv
<1>T. ThreadTypes
  BY <1>0 DEF Types, TypeOK, ThreadTypes
<1>D. Loop \in Threads /\ "probe" \in Deps /\ "probe_cache" \in Deps /\ "provider" \in Deps
  BY DEF Threads, Deps, ApiDeps
<1>S. StartDeps[1] = "probe" /\ Len(StartDeps) = 1 /\ StartDeps \in {ExtractDeps, ReadyDeps, StartDeps}
  BY DEF StartDeps
<1>E. Nothing \in [Deps -> Nat]
  BY DEF Nothing
<1>R. ASSUME NEW t \in Threads, Rest(t)
      PROVE  /\ \A u \in Threads : at'[u] <= Len(plan'[u])
             /\ cur' \in [Threads -> Deps] /\ outer' \in [Threads -> SUBSET Deps] /\ at' \in [Threads -> 1..7]
             /\ plan' \in [Threads -> {ExtractDeps, ReadyDeps, StartDeps}] /\ got' \in [Threads -> [Deps -> Nat]]
  <2>1. /\ at'[t] = 1 /\ plan'[t] = StartDeps
        /\ \A u \in Threads \ {t} : at'[u] = at[u] /\ plan'[u] = plan[u]
    BY <1>R, <1>T DEF Rest, ThreadTypes
  <2>2. \A u \in Threads : at'[u] <= Len(plan'[u])
    <3>1. ASSUME NEW u \in Threads \ {t} PROVE at'[u] <= Len(plan'[u])
      BY <1>T, <2>1, <3>1 DEF ThreadTypes
    <3>2. at'[t] <= Len(plan'[t])
      <4> HIDE DEF StartDeps
      <4>1. Len(plan'[t]) = 1
        BY <1>S, <2>1
      <4>2. QED BY <2>1, <4>1
    <3>3. QED BY <3>1, <3>2
  <2>3. QED
    BY <1>R, <1>T, <1>D, <1>S, <1>E, <2>2 DEF Rest, ThreadTypes
<1>M. MaxStarts \in Nat /\ MaxRequests \in Nat
  BY AppStateAssumption
<1>1. CASE UNCHANGED vars
  BY <1>0, <1>1 DEF vars, wiring, lifespan, threads, Types, TypeOK
<1>2. ASSUME NEW t \in Threads, Arrive(t) PROVE Types'
  <2>1. \E deps \in {ExtractDeps, ReadyDeps} :
           plan' = [plan EXCEPT ![t] = deps] /\ at' = [at EXCEPT ![t] = 1] /\ cur' = [cur EXCEPT ![t] = deps[1]]
           /\ deps[1] \in Deps /\ Len(deps) \in 1..7
    <3>1. \A p \in {ExtractDeps, ReadyDeps, StartDeps} : Len(p) \in 1..7 /\ \A j \in 1..Len(p) : p[j] \in Deps
      BY Plans
    <3>2. \A p \in {ExtractDeps, ReadyDeps} : p[1] \in Deps /\ Len(p) \in 1..7
      BY <3>1
    <3>3. QED BY <1>2, <3>2 DEF Arrive
  <2>2. /\ cur' \in [Threads -> Deps] /\ at' \in [Threads -> 1..7]
        /\ plan' \in [Threads -> {ExtractDeps, ReadyDeps, StartDeps}]
        /\ \A u \in Threads : at'[u] <= Len(plan'[u])
    BY <1>0, <2>1 DEF Types, TypeOK
  <2>3. requests' \in 0..MaxRequests
    BY <1>0, <1>M, <1>2 DEF Arrive, Types, TypeOK
  <2>4. QED
    BY <1>0, <1>2, <2>2, <2>3 DEF Arrive, Goto, wiring, lifespan, Types, TypeOK
<1>3. ASSUME NEW t \in Threads, CheckFound(t) PROVE Types'
  <2>1. ThreadTypes'
    BY <1>0, <1>T, <1>3, ReturnStep DEF CheckFound, Busy, Types, TypeOK
  <2>2. phase' \in {"down", "starting", "installing", "checking", "serving", "cleaning", "dead"}
    BY <1>0, <1>3 DEF CheckFound, Return, Types, TypeOK
  <2>3. QED
    BY <1>0, <1>3, <2>1, <2>2 DEF CheckFound, wiring, Types, TypeOK, ThreadTypes
<1>4. ASSUME NEW t \in Threads, CheckMissed(t) PROVE Types'
  BY <1>0, <1>4 DEF CheckMissed, Goto, wiring, lifespan, Types, TypeOK
<1>5. ASSUME NEW t \in Threads, Acquire(t) PROVE Types'
  <2>1. cur[t] \in Deps /\ LockOf(cur[t]) \in {"api", "features"}
    BY <1>0, Graph DEF Types, TypeOK
  <2>2. frames' \in [{"api", "features"} -> SUBSET (Threads \X Deps)]
    BY <1>0, <1>5, <2>1 DEF Acquire, Enter, Types, TypeOK
  <2>3. QED
    BY <1>0, <1>5, <2>2 DEF Acquire, Goto, wiring, lifespan, Types, TypeOK
<1>6. ASSUME NEW t \in Threads, RecheckFound(t) PROVE Types'
  <2>1. ThreadTypes'
    BY <1>0, <1>T, <1>6, ReturnStep DEF RecheckFound, Busy, Types, TypeOK
  <2>2. phase' \in {"down", "starting", "installing", "checking", "serving", "cleaning", "dead"}
    BY <1>0, <1>6 DEF RecheckFound, Return, Types, TypeOK
  <2>3. frames' \in [{"api", "features"} -> SUBSET (Threads \X Deps)]
    BY <1>0, <1>6 DEF RecheckFound, Leave, Types, TypeOK
  <2>4. QED
    BY <1>0, <1>6, <2>1, <2>2, <2>3 DEF RecheckFound, wiring, Types, TypeOK, ThreadTypes
<1>7. ASSUME NEW t \in Threads, Call(t) PROVE Types'
  <2>1. cur[t] \in Deps /\ Inner[cur[t]] \in Deps
    BY <1>0, <1>7, Graph DEF Call, Types, TypeOK
  <2>2. cur' \in [Threads -> Deps] /\ outer' \in [Threads -> SUBSET Deps]
    BY <1>0, <1>7, <2>1 DEF Call, Types, TypeOK
  <2>3. QED
    BY <1>0, <1>7, <2>2 DEF Call, Goto, wiring, lifespan, Types, TypeOK
<1>8. ASSUME NEW t \in Threads, Begin(t) PROVE Types'
  BY <1>0, <1>8 DEF Begin, Goto, wiring, lifespan, Types, TypeOK
<1>9. ASSUME NEW t \in Threads, Build(t) PROVE Types'
  <2>1. cur[t] \in Deps /\ got[t] \in [Deps -> Nat] /\ built[cur[t]] + 1 \in Nat
    BY <1>0 DEF Types, TypeOK
  <2>2. ThreadTypes'
    BY <1>0, <1>T, <1>9, <2>1, ReturnStep DEF Build, Busy
  <2>3. phase' \in {"down", "starting", "installing", "checking", "serving", "cleaning", "dead"}
    BY <1>0, <1>9 DEF Build, Return, Types, TypeOK
  <2>4. frames' \in [{"api", "features"} -> SUBSET (Threads \X Deps)]
    BY <1>0, <1>9 DEF Build, Leave, Types, TypeOK
  <2>5. state' \in [Deps -> Nat] /\ built' \in [Deps -> Nat] /\ uses' \in [Deps -> [Deps -> Nat]]
    BY <1>0, <1>9, <2>1 DEF Build, Store, Types, TypeOK
  <2>6. clients' \in SUBSET Nat /\ broken' \in SUBSET Nat
    BY <1>0, <1>9, <2>1 DEF Build, Store, Types, TypeOK
  <2>7. QED
    BY <1>0, <1>9, <2>2, <2>3, <2>4, <2>5, <2>6 DEF Build, Types, TypeOK, ThreadTypes
<1>10. ASSUME NEW t \in Threads, BuildFails(t) PROVE Types'
  <2>1. frames' \in [{"api", "features"} -> SUBSET (Threads \X Deps)]
    BY <1>0, <1>10 DEF BuildFails, Unwind, LeaveAll, Types, TypeOK
  <2>2. /\ pc' = [pc EXCEPT ![t] = "idle"] /\ Rest(t) /\ phase' \in {"down", phase}
        /\ UNCHANGED <<wiring, snapshot, primed, starts, cleanups, seeded, requests>>
    BY <1>10 DEF BuildFails, Goto
  <2>3. \A u \in Threads : at'[u] <= Len(plan'[u])
    BY <1>R, <2>2
  <2>4. QED
    BY <1>0, <1>R, <2>1, <2>2, <2>3 DEF wiring, Types, TypeOK
<1>11. ASSUME NEW t \in Threads, Finish(t) PROVE Types'
  <2>1. \A u \in Threads : at'[u] <= Len(plan'[u])
    <3>1. Rest(t)
      BY <1>11 DEF Finish
    <3>2. QED BY <1>R, <3>1
  <2>2. QED
    BY <1>0, <1>R, <1>11, <2>1 DEF Finish, Goto, wiring, lifespan, Types, TypeOK
<1>12. CASE Startup
  <2>0. got[Loop] \in [Deps -> Nat] /\ state["probe"] \in Nat
    BY <1>0, <1>D DEF Types, TypeOK
  <2>1. /\ phase' \in {"installing", "starting"} /\ starts' = starts + 1 /\ starts' \in 0..MaxStarts
        /\ pc' \in [Threads -> {"idle", "check", "lock", "recheck", "build", "using"}]
    BY <1>0, <1>M, <1>12 DEF Startup, Goto, Types, TypeOK
  <2>4. got' \in [Threads -> [Deps -> Nat]]
    <3>1. CASE UNCHANGED got
      BY <1>T, <3>1 DEF ThreadTypes
    <3>2. CASE got' = [got EXCEPT ![Loop]["probe"] = state["probe"]]
      BY <1>T, <1>D, <2>0, <3>2 DEF ThreadTypes
    <3>3. QED BY <1>12, <3>1, <3>2 DEF Startup
  <2>2. cleanups' \in 0..starts'
    BY <1>0, <1>12, <2>1 DEF Startup, Types, TypeOK
  <2>3. QED
    BY <1>0, <1>12, <2>1, <2>2, <2>4 DEF Startup, wiring, Types, TypeOK
<1>13. CASE InstallCache
  <2>0. got[Loop] \in [Deps -> Nat] /\ built["probe_cache"] \in Nat
    BY <1>0, <1>D DEF Types, TypeOK
  <2>1. got[Loop] \in [Deps -> Nat] /\ built["probe_cache"] + 1 \in Nat
    BY <2>0
  <2>2. state' \in [Deps -> Nat] /\ built' \in [Deps -> Nat] /\ uses' \in [Deps -> [Deps -> Nat]]
        /\ clients' = clients /\ broken' = broken
    <3>1. CASE UNCHANGED wiring
      BY <1>0, <3>1 DEF wiring, Types, TypeOK
    <3>2. CASE Store("probe_cache", got[Loop])
      BY <1>0, <1>D, <2>1, <3>2 DEF Store, Types, TypeOK
    <3>3. QED BY <1>13, <3>1, <3>2 DEF InstallCache
  <2>3. got' \in [Threads -> [Deps -> Nat]]
    BY <1>0, <1>E, <1>13 DEF InstallCache, Types, TypeOK
  <2>4. QED
    BY <1>0, <1>13, <2>2, <2>3 DEF InstallCache, Types, TypeOK
<1>14. CASE Prime
  BY <1>0, <1>D, <1>14 DEF Prime, ToClean, wiring, lifespan, threads, Types, TypeOK
<1>15. CASE CancelStartup
  BY <1>0, <1>D, <1>15 DEF CancelStartup, ToClean, wiring, lifespan, threads, Types, TypeOK
<1>16. CASE Shutdown
  BY <1>0, <1>D, <1>16 DEF Shutdown, ToClean, wiring, lifespan, threads, Types, TypeOK
<1>17. CASE CleanInert
  <2>1. /\ state' \in [Deps -> Nat] /\ uses' \in [Deps -> [Deps -> Nat]] /\ built' = built
        /\ primed' \in Nat /\ snapshot' \in SUBSET Deps
    BY <1>0, <1>D, <1>E, <1>17 DEF CleanInert, Remove, Types, TypeOK
  <2>2. clients' \in SUBSET Nat /\ broken' \in SUBSET Nat
    BY <1>0, <1>D, <1>17 DEF CleanInert, Types, TypeOK
  <2>3. QED
    BY <1>0, <1>17, <2>1, <2>2 DEF CleanInert, threads, Types, TypeOK
<1>18. CASE CloseProvider
  <2>1. /\ state' \in [Deps -> Nat] /\ uses' \in [Deps -> [Deps -> Nat]] /\ built' = built
        /\ primed' \in Nat /\ snapshot' \in SUBSET Deps
    BY <1>0, <1>D, <1>E, <1>18 DEF CloseProvider, Remove, Types, TypeOK
  <2>2. clients' \in SUBSET Nat /\ broken' \in SUBSET Nat
    BY <1>0, <1>D, <1>18 DEF CloseProvider, Types, TypeOK
  <2>3. QED
    BY <1>0, <1>18, <2>1, <2>2 DEF CloseProvider, threads, Types, TypeOK
<1>19. CASE CloseFails
  <2>1. /\ state' \in [Deps -> Nat] /\ uses' \in [Deps -> [Deps -> Nat]] /\ built' = built
        /\ primed' \in Nat /\ snapshot' \in SUBSET Deps
    BY <1>0, <1>D, <1>E, <1>19 DEF CloseFails, Remove, Types, TypeOK
  <2>2. clients' \in SUBSET Nat /\ broken' \in SUBSET Nat
    BY <1>0, <1>D, <1>19 DEF CloseFails, Types, TypeOK
  <2>3. QED
    BY <1>0, <1>19, <2>1, <2>2 DEF CloseFails, threads, Types, TypeOK
<1>20. CASE CancelCleanup
  <2>1. /\ state' \in [Deps -> Nat] /\ uses' \in [Deps -> [Deps -> Nat]] /\ built' = built
        /\ primed' \in Nat /\ snapshot' \in SUBSET Deps
    BY <1>0, <1>D, <1>E, <1>20 DEF CancelCleanup, Remove, Types, TypeOK
  <2>2. clients' \in SUBSET Nat /\ broken' \in SUBSET Nat
    BY <1>0, <1>D, <1>20 DEF CancelCleanup, Types, TypeOK
  <2>3. QED
    BY <1>0, <1>20, <2>1, <2>2 DEF CancelCleanup, threads, Types, TypeOK
<1>21. CASE EndCleanup
  <2>1. cleanups' \in 0..starts'
    BY <1>0, <1>21 DEF EndCleanup, Types, TypeOK, Phases
  <2>2. QED
    BY <1>0, <1>21, <2>1 DEF EndCleanup, wiring, threads, Types, TypeOK
<1>22. QED
  BY Cases, <1>1, <1>2, <1>3, <1>4, <1>5, <1>6, <1>7, <1>8, <1>9, <1>10, <1>11,
     <1>12, <1>13, <1>14, <1>15, <1>16, <1>17, <1>18, <1>19, <1>20, <1>21

(***************************************************************************)
(* The steps in which a factory returns.                                   *)
(***************************************************************************)
LEMMA Returning ==
  ASSUME IInv, NEW t \in Threads, CheckFound(t) \/ RecheckFound(t) \/ Build(t)
  PROVE  /\ Others(t) /\ plan'[t] = plan[t] /\ (ToCaller(t) \/ ToNext(t) \/ ToUser(t))
         /\ pc[t] \in {"check", "recheck", "build"} /\ cur[t] \in Deps
         /\ Place(plan[t][at[t]], cur[t], outer[t]) /\ plan[t][at[t]] \in Deps
         /\ plan[t] \in {ExtractDeps, ReadyDeps, StartDeps} /\ at[t] \in 1..7
         /\ \E v \in Nat : v # 0 /\ got'[t] = [got[t] EXCEPT ![cur[t]] = v] /\ v = state'[cur[t]]
         /\ \A d \in Deps : (d # cur[t] \/ pc[t] # "build") => state'[d] = state[d]
<1>1. ThreadTypes /\ Nested /\ cur[t] \in Deps /\ state \in [Deps -> Nat] /\ built[cur[t]] + 1 \in Nat
  BY DEF IInv, Types, TypeOK, ThreadTypes
<1>2. Busy(t) /\ pc[t] \in {"check", "recheck", "build"}
  BY DEF Busy, CheckFound, RecheckFound, Build
<1>3. Place(plan[t][at[t]], cur[t], outer[t])
  BY <1>1, <1>2 DEF Nested
<1>4. plan[t] \in {ExtractDeps, ReadyDeps, StartDeps} /\ at[t] \in 1..7 /\ at[t] <= Len(plan[t])
  BY <1>1 DEF ThreadTypes
<1>5. plan[t][at[t]] \in Deps
  BY <1>4, Plans
<1>6. PICK v \in Nat : v # 0 /\ Return(t, cur[t], v) /\ v = state'[cur[t]]
                      /\ \A d \in Deps : (d # cur[t] \/ pc[t] # "build") => state'[d] = state[d]
  <2>1. CASE CheckFound(t)
    BY <1>1, <2>1 DEF CheckFound, wiring
  <2>2. CASE RecheckFound(t)
    BY <1>1, <2>2 DEF RecheckFound, wiring
  <2>3. CASE Build(t)
    <3>1. built[cur[t]] + 1 # 0
      BY <1>1 DEF IInv, Types, TypeOK
    <3>2. QED BY <1>1, <2>3, <3>1 DEF Build, Store
  <2>4. QED BY <2>1, <2>2, <2>3
<1>7. QED BY <1>1, <1>2, <1>3, <1>4, <1>5, <1>6, ReturnStep

(***************************************************************************)
(* While the lifespan starts, installs or cleans up, no request runs.      *)
(***************************************************************************)
LEMMA NobodyRuns ==
  ASSUME Types, Phases, Nested, Resolved, phase \in {"installing", "checking", "cleaning", "dead"}
  PROVE  \A t \in Threads : pc[t] = "idle" /\ outer[t] = {} /\ (phase # "installing" => got[t] = Nothing)
<1>1. ASSUME NEW t \in Threads PROVE pc[t] = "idle"
  BY DEF Phases, Threads
<1>2. QED BY <1>1 DEF Nested, Busy, Resolved

(***************************************************************************)
(* A thread stays at a place of the dependency graph.                      *)
(***************************************************************************)
LEMMA NestedStep == IInv /\ [Next]_vars => Nested'
<1> SUFFICES ASSUME IInv, [Next]_vars PROVE Nested'
  OBVIOUS
<1>0. /\ Types /\ Nested /\ Locked /\ Absent /\ Resolved /\ Phases
      /\ Versions /\ Wired /\ ClientsKnown
  BY DEF IInv
<1>1. CASE UNCHANGED vars
  BY <1>0, <1>1 DEF vars, threads, Nested, Busy
<1>2. ASSUME NEW t \in Threads, Arrive(t) PROVE Nested'
  <2>1. PICK deps \in {ExtractDeps, ReadyDeps} :
           plan' = [plan EXCEPT ![t] = deps] /\ at' = [at EXCEPT ![t] = 1] /\ cur' = [cur EXCEPT ![t] = deps[1]]
    BY <1>2 DEF Arrive
  <2>2. plan'[t] = deps /\ at'[t] = 1 /\ cur'[t] = deps[1] /\ pc'[t] = "check" /\ outer'[t] = {}
    BY <1>0, <1>2, <2>1 DEF Arrive, Goto, Types, TypeOK, Nested, Busy
  <2>3. cur'[t] \in Deps
    BY <1>0, TypeStep DEF Types, TypeOK, IInv
  <2>4. Place(plan'[t][at'[t]], cur'[t], outer'[t])
    BY <2>2, <2>3, PlaceTop
  <2>5. QED BY <1>0, <1>2, <2>1, <2>2, <2>4 DEF Arrive, Goto, Types, TypeOK, Nested, Busy
<1>3. ASSUME NEW t \in Threads, CheckFound(t) PROVE Nested'
  <2>1. /\ Others(t) /\ plan'[t] = plan[t] /\ (ToCaller(t) \/ ToNext(t) \/ ToUser(t))
        /\ Place(plan[t][at[t]], cur[t], outer[t]) /\ plan[t][at[t]] \in Deps
    BY <1>3, Returning
  <2>2. CASE ToCaller(t)
    <3>1. Place(plan[t][at[t]], cur'[t], outer[t] \ {cur'[t]})
      BY <2>1, <2>2, PlaceReturn, Graph DEF ToCaller
    <3>2. QED BY <1>0, <2>1, <2>2, <3>1 DEF ToCaller, Others, Nested, Busy
  <2>3. CASE ToNext(t)
    <3>1. cur'[t] \in Deps
      BY <1>0, TypeStep DEF Types, TypeOK, IInv
    <3>2. Place(cur'[t], cur'[t], {})
      BY <3>1, PlaceTop
    <3>3. Place(plan'[t][at'[t]], cur'[t], outer'[t]) /\ pc'[t] = "check"
      BY <2>1, <2>3, <3>2 DEF ToNext
    <3>4. QED BY <1>0, <2>1, <3>3 DEF Others, Nested, Busy
  <2>4. CASE ToUser(t)
    BY <1>0, <2>1, <2>4 DEF ToUser, Others, Nested, Busy
  <2>5. QED BY <2>1, <2>2, <2>3, <2>4
<1>4. ASSUME NEW t \in Threads, CheckMissed(t) PROVE Nested'
  BY <1>0, <1>4 DEF CheckMissed, Goto, Types, TypeOK, Nested, Busy
<1>5. ASSUME NEW t \in Threads, Acquire(t) PROVE Nested'
  BY <1>0, <1>5 DEF Acquire, Goto, Types, TypeOK, Nested, Busy
<1>6. ASSUME NEW t \in Threads, RecheckFound(t) PROVE Nested'
  <2>1. /\ Others(t) /\ plan'[t] = plan[t] /\ (ToCaller(t) \/ ToNext(t) \/ ToUser(t))
        /\ Place(plan[t][at[t]], cur[t], outer[t]) /\ plan[t][at[t]] \in Deps
    BY <1>6, Returning
  <2>2. CASE ToCaller(t)
    <3>1. Place(plan[t][at[t]], cur'[t], outer[t] \ {cur'[t]})
      BY <2>1, <2>2, PlaceReturn, Graph DEF ToCaller
    <3>2. QED BY <1>0, <2>1, <2>2, <3>1 DEF ToCaller, Others, Nested, Busy
  <2>3. CASE ToNext(t)
    <3>1. cur'[t] \in Deps
      BY <1>0, TypeStep DEF Types, TypeOK, IInv
    <3>2. Place(cur'[t], cur'[t], {})
      BY <3>1, PlaceTop
    <3>3. Place(plan'[t][at'[t]], cur'[t], outer'[t]) /\ pc'[t] = "check"
      BY <2>1, <2>3, <3>2 DEF ToNext
    <3>4. QED BY <1>0, <2>1, <3>3 DEF Others, Nested, Busy
  <2>4. CASE ToUser(t)
    BY <1>0, <2>1, <2>4 DEF ToUser, Others, Nested, Busy
  <2>5. QED BY <2>1, <2>2, <2>3, <2>4
<1>7. ASSUME NEW t \in Threads, Call(t) PROVE Nested'
  <2>1. cur[t] \in Chain /\ Place(plan[t][at[t]], cur[t], outer[t]) /\ plan[t][at[t]] \in Deps
    <3>1. plan[t] \in {ExtractDeps, ReadyDeps, StartDeps} /\ at[t] \in 1..7 /\ at[t] <= Len(plan[t])
      BY <1>0 DEF Types, TypeOK
    <3>2. QED BY <1>0, <1>7, <3>1, Graph, Plans DEF Call, Nested, Busy
  <2>2. Place(plan[t][at[t]], Inner[cur[t]], outer[t] \cup {cur[t]})
    BY <2>1, PlaceCall
  <2>3. QED BY <1>0, <1>7, <2>2 DEF Call, Goto, Types, TypeOK, Nested, Busy
<1>8. ASSUME NEW t \in Threads, Begin(t) PROVE Nested'
  BY <1>0, <1>8 DEF Begin, Goto, Types, TypeOK, Nested, Busy
<1>9. ASSUME NEW t \in Threads, Build(t) PROVE Nested'
  <2>1. /\ Others(t) /\ plan'[t] = plan[t] /\ (ToCaller(t) \/ ToNext(t) \/ ToUser(t))
        /\ Place(plan[t][at[t]], cur[t], outer[t]) /\ plan[t][at[t]] \in Deps
    BY <1>9, Returning
  <2>2. CASE ToCaller(t)
    <3>1. Place(plan[t][at[t]], cur'[t], outer[t] \ {cur'[t]})
      BY <2>1, <2>2, PlaceReturn, Graph DEF ToCaller
    <3>2. QED BY <1>0, <2>1, <2>2, <3>1 DEF ToCaller, Others, Nested, Busy
  <2>3. CASE ToNext(t)
    <3>1. cur'[t] \in Deps
      BY <1>0, TypeStep DEF Types, TypeOK, IInv
    <3>2. Place(cur'[t], cur'[t], {})
      BY <3>1, PlaceTop
    <3>3. Place(plan'[t][at'[t]], cur'[t], outer'[t]) /\ pc'[t] = "check"
      BY <2>1, <2>3, <3>2 DEF ToNext
    <3>4. QED BY <1>0, <2>1, <3>3 DEF Others, Nested, Busy
  <2>4. CASE ToUser(t)
    BY <1>0, <2>1, <2>4 DEF ToUser, Others, Nested, Busy
  <2>5. QED BY <2>1, <2>2, <2>3, <2>4
<1>10. ASSUME NEW t \in Threads, BuildFails(t) PROVE Nested'
  BY <1>0, <1>10 DEF BuildFails, Goto, Rest, Types, TypeOK, Nested, Busy
<1>11. ASSUME NEW t \in Threads, Finish(t) PROVE Nested'
  BY <1>0, <1>11 DEF Finish, Goto, Rest, Types, TypeOK, Nested, Busy
<1>12. CASE Startup
  <2>1. Loop \in Threads /\ plan[Loop][at[Loop]] = "probe" /\ cur[Loop] = "probe" /\ outer[Loop] = {} /\ "probe" \in Deps
    BY <1>0, <1>12 DEF Startup, Quiet, Threads, Phases, StartDeps, Nested, Busy, Deps, ApiDeps
  <2>2. Place(plan[Loop][at[Loop]], cur[Loop], outer[Loop])
    BY <2>1, PlaceTop
  <2>3. QED BY <1>0, <1>12, <2>1, <2>2 DEF Startup, Goto, Types, TypeOK, Nested, Busy
<1>13. CASE InstallCache
  BY <1>0, <1>13 DEF InstallCache, threads, Nested, Busy
<1>14. CASE Prime
  BY <1>0, <1>14 DEF Prime, threads, Nested, Busy
<1>15. CASE CancelStartup
  BY <1>0, <1>15 DEF CancelStartup, threads, Nested, Busy
<1>16. CASE Shutdown
  BY <1>0, <1>16 DEF Shutdown, threads, Nested, Busy
<1>17. CASE CleanInert
  BY <1>0, <1>17 DEF CleanInert, threads, Nested, Busy
<1>18. CASE CloseProvider
  BY <1>0, <1>18 DEF CloseProvider, threads, Nested, Busy
<1>19. CASE CloseFails
  BY <1>0, <1>19 DEF CloseFails, threads, Nested, Busy
<1>20. CASE CancelCleanup
  BY <1>0, <1>20 DEF CancelCleanup, threads, Nested, Busy
<1>21. CASE EndCleanup
  BY <1>0, <1>21 DEF EndCleanup, threads, Nested, Busy
<1>22. QED
  BY Cases, <1>1, <1>2, <1>3, <1>4, <1>5, <1>6, <1>7, <1>8, <1>9, <1>10, <1>11,
     <1>12, <1>13, <1>14, <1>15, <1>16, <1>17, <1>18, <1>19, <1>20, <1>21

(***************************************************************************)
(* One thread at a time is inside a lock, and it is where its frames are.  *)
(***************************************************************************)
LEMMA LockedStep == IInv /\ [Next]_vars => Locked'
<1> SUFFICES ASSUME IInv, [Next]_vars PROVE Locked'
  OBVIOUS
<1>0. /\ Types /\ Nested /\ Locked /\ Absent /\ Resolved /\ Phases
      /\ Versions /\ Wired /\ ClientsKnown
  BY DEF IInv
<1>1. CASE UNCHANGED vars
  BY <1>0, <1>1 DEF vars, threads, Locked
<1>2. ASSUME NEW t \in Threads, Arrive(t) PROVE Locked'
  BY <1>0, <1>2 DEF Arrive, Goto, Types, TypeOK, Nested, Busy, Locked
<1>3. ASSUME NEW t \in Threads, CheckFound(t) PROVE Locked'
  <2>1. /\ Others(t) /\ (ToCaller(t) \/ ToNext(t) \/ ToUser(t)) /\ cur[t] \in Deps
        /\ Place(plan[t][at[t]], cur[t], outer[t]) /\ plan[t][at[t]] \in Deps
    BY <1>3, Returning
  <2>2. cur[t] \notin outer[t] /\ outer[t] \subseteq Deps
    BY <2>1, PlaceFacts, Graph
  <2>3. frames' = frames
    BY <1>3 DEF CheckFound
  <2>4. QED BY <1>0, <2>1, <2>2, <2>3 DEF Others, ToCaller, ToNext, ToUser, Locked
<1>4. ASSUME NEW t \in Threads, CheckMissed(t) PROVE Locked'
  BY <1>0, <1>4 DEF CheckMissed, Goto, Types, TypeOK, Locked
<1>5. ASSUME NEW t \in Threads, Acquire(t) PROVE Locked'
  <2>1. cur[t] \in Deps /\ LockOf(cur[t]) \in {"api", "features"}
    BY <1>0, Graph DEF Types, TypeOK
  <2>2. \A l \in {"api", "features"} : \A f, g \in frames'[l] : f[1] = g[1]
    <3>1. ASSUME NEW l \in {"api", "features"}, NEW f \in frames'[l], NEW g \in frames'[l] PROVE f[1] = g[1]
      <4>1. CASE l # LockOf(cur[t])
        BY <1>0, <1>5, <2>1, <3>1, <4>1 DEF Acquire, Enter, Types, TypeOK, Locked
      <4>2. CASE l = LockOf(cur[t])
        <5>1. f \in frames[l] \cup {<<t, cur[t]>>} /\ g \in frames[l] \cup {<<t, cur[t]>>}
          BY <1>0, <1>5, <2>1, <3>1, <4>2 DEF Acquire, Enter, Types, TypeOK
        <5>2. \A h \in frames[l] : h[1] = t
          BY <1>5, <4>2 DEF Acquire, Available
        <5>3. QED BY <5>1, <5>2
      <4>3. QED BY <4>1, <4>2
    <3>2. QED BY <3>1
  <2>3. \A l \in {"api", "features"} : frames[l] \subseteq frames'[l]
    BY <1>0, <1>5 DEF Acquire, Enter, Types, TypeOK
  <2>4. <<t, cur[t]>> \in frames'[LockOf(cur[t])]
    BY <1>0, <1>5, <2>1 DEF Acquire, Enter, Types, TypeOK
  <2>5. \A u \in Threads : cur[u] \in Deps /\ outer[u] \subseteq Deps
    BY <1>0 DEF Types, TypeOK
  <2>6. /\ pc'[t] = "recheck" /\ cur' = cur /\ outer' = outer
        /\ \A u \in Threads \ {t} : pc'[u] = pc[u]
    BY <1>0, <1>5 DEF Acquire, Goto, Types, TypeOK
  <2>7. ASSUME NEW u \in Threads
        PROVE  /\ pc'[u] \in {"recheck", "build"} => <<u, cur[u]>> \in frames'[LockOf(cur[u])]
               /\ \A o \in outer[u] : <<u, o>> \in frames'[LockOf(o)]
    <3>1. \A d \in Deps : <<u, d>> \in frames[LockOf(d)] => <<u, d>> \in frames'[LockOf(d)]
      BY <2>3, Graph
    <3>2. CASE u = t
      BY <1>0, <2>4, <2>5, <3>1, <3>2 DEF Locked
    <3>3. CASE u # t
      BY <1>0, <2>5, <2>6, <3>1, <3>3 DEF Locked
    <3>4. QED BY <3>2, <3>3
  <2>8. QED BY <2>2, <2>6, <2>7 DEF Locked
<1>6. ASSUME NEW t \in Threads, RecheckFound(t) PROVE Locked'
  <2>1. /\ Others(t) /\ (ToCaller(t) \/ ToNext(t) \/ ToUser(t)) /\ cur[t] \in Deps
        /\ Place(plan[t][at[t]], cur[t], outer[t]) /\ plan[t][at[t]] \in Deps
    BY <1>6, Returning
  <2>2. cur[t] \notin outer[t] /\ outer[t] \subseteq Deps
    BY <2>1, PlaceFacts, Graph
  <2>3. frames' = Leave(t, cur[t]) /\ LockOf(cur[t]) \in {"api", "features"}
    BY <1>6, <2>1, Graph DEF RecheckFound
  <2>4. /\ \A l \in {"api", "features"} : frames'[l] \subseteq frames[l]
        /\ \A l \in {"api", "features"}, u \in Threads, d \in Deps :
             (<<u, d>> \in frames[l] /\ <<u, d>> # <<t, cur[t]>>) => <<u, d>> \in frames'[l]
    BY <1>0, <2>3 DEF Leave, Types, TypeOK
  <2>5. ASSUME NEW u \in Threads
        PROVE  /\ pc'[u] \in {"recheck", "build"} => <<u, cur'[u]>> \in frames'[LockOf(cur'[u])]
               /\ \A o \in outer'[u] : <<u, o>> \in frames'[LockOf(o)]
    <3>1. CASE u = t
      <4>1. /\ outer'[t] \subseteq outer[t]
            /\ pc'[t] \in {"recheck", "build"} => cur'[t] \in outer[t]
        BY <2>1 DEF ToCaller, ToNext, ToUser
      <4>2. \A o \in outer[t] : <<t, o>> \in frames'[LockOf(o)]
        BY <1>0, <2>2, <2>4, Graph DEF Locked
      <4>3. QED BY <3>1, <4>1, <4>2
    <3>2. CASE u # t
      <4>1. pc'[u] = pc[u] /\ cur'[u] = cur[u] /\ outer'[u] = outer[u] /\ cur[u] \in Deps /\ outer[u] \subseteq Deps
        BY <1>0, <2>1, <3>2 DEF Others, Types, TypeOK
      <4>2. QED BY <1>0, <2>4, <3>2, <4>1, Graph DEF Locked
    <3>3. QED BY <3>1, <3>2
  <2>6. QED BY <1>0, <2>4, <2>5 DEF Locked
<1>7. ASSUME NEW t \in Threads, Call(t) PROVE Locked'
  BY <1>0, <1>7 DEF Call, Goto, Types, TypeOK, Locked
<1>8. ASSUME NEW t \in Threads, Begin(t) PROVE Locked'
  BY <1>0, <1>8 DEF Begin, Goto, Types, TypeOK, Locked
<1>9. ASSUME NEW t \in Threads, Build(t) PROVE Locked'
  <2>1. /\ Others(t) /\ (ToCaller(t) \/ ToNext(t) \/ ToUser(t)) /\ cur[t] \in Deps
        /\ Place(plan[t][at[t]], cur[t], outer[t]) /\ plan[t][at[t]] \in Deps
    BY <1>9, Returning
  <2>2. cur[t] \notin outer[t] /\ outer[t] \subseteq Deps
    BY <2>1, PlaceFacts, Graph
  <2>3. frames' = Leave(t, cur[t]) /\ LockOf(cur[t]) \in {"api", "features"}
    BY <1>9, <2>1, Graph DEF Build
  <2>4. /\ \A l \in {"api", "features"} : frames'[l] \subseteq frames[l]
        /\ \A l \in {"api", "features"}, u \in Threads, d \in Deps :
             (<<u, d>> \in frames[l] /\ <<u, d>> # <<t, cur[t]>>) => <<u, d>> \in frames'[l]
    BY <1>0, <2>3 DEF Leave, Types, TypeOK
  <2>5. ASSUME NEW u \in Threads
        PROVE  /\ pc'[u] \in {"recheck", "build"} => <<u, cur'[u]>> \in frames'[LockOf(cur'[u])]
               /\ \A o \in outer'[u] : <<u, o>> \in frames'[LockOf(o)]
    <3>1. CASE u = t
      <4>1. /\ outer'[t] \subseteq outer[t]
            /\ pc'[t] \in {"recheck", "build"} => cur'[t] \in outer[t]
        BY <2>1 DEF ToCaller, ToNext, ToUser
      <4>2. \A o \in outer[t] : <<t, o>> \in frames'[LockOf(o)]
        BY <1>0, <2>2, <2>4, Graph DEF Locked
      <4>3. QED BY <3>1, <4>1, <4>2
    <3>2. CASE u # t
      <4>1. pc'[u] = pc[u] /\ cur'[u] = cur[u] /\ outer'[u] = outer[u] /\ cur[u] \in Deps /\ outer[u] \subseteq Deps
        BY <1>0, <2>1, <3>2 DEF Others, Types, TypeOK
      <4>2. QED BY <1>0, <2>4, <3>2, <4>1, Graph DEF Locked
    <3>3. QED BY <3>1, <3>2
  <2>6. QED BY <1>0, <2>4, <2>5 DEF Locked
<1>10. ASSUME NEW t \in Threads, BuildFails(t) PROVE Locked'
  <2>1. /\ pc' = [pc EXCEPT ![t] = "idle"] /\ cur' = [cur EXCEPT ![t] = "probe"] /\ outer' = [outer EXCEPT ![t] = {}]
        /\ frames' = LeaveAll(t)
    BY <1>10 DEF BuildFails, Goto, Rest, Unwind
  <2>2. \A u \in Threads : cur[u] \in Deps /\ outer[u] \subseteq Deps
    BY <1>0 DEF Types, TypeOK
  <2>3. /\ \A l \in {"api", "features"} : frames'[l] \subseteq frames[l]
        /\ \A l \in {"api", "features"}, u \in Threads \ {t}, d \in Deps :
             <<u, d>> \in frames[l] => <<u, d>> \in frames'[l]
    BY <1>0, <2>1 DEF LeaveAll, Types, TypeOK
  <2>4. \A l \in {"api", "features"} : \A f, g \in frames'[l] : f[1] = g[1]
    BY <1>0, <2>3 DEF Locked
  <2>5. \A u \in Threads \ {t} : pc'[u] = pc[u] /\ cur'[u] = cur[u] /\ outer'[u] = outer[u]
    BY <1>0, <2>1 DEF Types, TypeOK
  <2>6. pc'[t] = "idle" /\ outer'[t] = {}
    BY <1>0, <2>1 DEF Types, TypeOK
  <2>7. ASSUME NEW u \in Threads
        PROVE  /\ pc'[u] \in {"recheck", "build"} => <<u, cur'[u]>> \in frames'[LockOf(cur'[u])]
               /\ \A o \in outer'[u] : <<u, o>> \in frames'[LockOf(o)]
    BY <1>0, <2>2, <2>3, <2>5, <2>6, Graph DEF Locked
  <2>8. QED BY <2>4, <2>7 DEF Locked
<1>11. ASSUME NEW t \in Threads, Finish(t) PROVE Locked'
  BY <1>0, <1>11 DEF Finish, Goto, Rest, Types, TypeOK, Locked
<1>12. CASE Startup
  BY <1>0, <1>12 DEF Startup, Goto, Types, TypeOK, Locked
<1>13. CASE InstallCache
  BY <1>0, <1>13 DEF InstallCache, threads, Locked
<1>14. CASE Prime
  BY <1>0, <1>14 DEF Prime, threads, Locked
<1>15. CASE CancelStartup
  BY <1>0, <1>15 DEF CancelStartup, threads, Locked
<1>16. CASE Shutdown
  BY <1>0, <1>16 DEF Shutdown, threads, Locked
<1>17. CASE CleanInert
  BY <1>0, <1>17 DEF CleanInert, threads, Locked
<1>18. CASE CloseProvider
  BY <1>0, <1>18 DEF CloseProvider, threads, Locked
<1>19. CASE CloseFails
  BY <1>0, <1>19 DEF CloseFails, threads, Locked
<1>20. CASE CancelCleanup
  BY <1>0, <1>20 DEF CancelCleanup, threads, Locked
<1>21. CASE EndCleanup
  BY <1>0, <1>21 DEF EndCleanup, threads, Locked
<1>22. QED
  BY Cases, <1>1, <1>2, <1>3, <1>4, <1>5, <1>6, <1>7, <1>8, <1>9, <1>10, <1>11,
     <1>12, <1>13, <1>14, <1>15, <1>16, <1>17, <1>18, <1>19, <1>20, <1>21

(***************************************************************************)
(* What the second look has not found nobody else creates.                 *)
(***************************************************************************)
LEMMA AbsentStep == IInv /\ [Next]_vars => Absent'
<1> SUFFICES ASSUME IInv, [Next]_vars PROVE Absent'
  OBVIOUS
<1>0. /\ Types /\ Nested /\ Locked /\ Absent /\ Resolved /\ Phases
      /\ Versions /\ Wired /\ ClientsKnown
  BY DEF IInv
<1>1. CASE UNCHANGED vars
  BY <1>0, <1>1 DEF vars, threads, wiring, Absent
<1>2. ASSUME NEW t \in Threads, Arrive(t) PROVE Absent'
  BY <1>0, <1>2 DEF Arrive, Goto, wiring, Types, TypeOK, Absent
<1>3. ASSUME NEW t \in Threads, CheckFound(t) PROVE Absent'
  <2>1. Others(t) /\ (ToCaller(t) \/ ToNext(t) \/ ToUser(t)) /\ state' = state
    BY <1>3, Returning DEF CheckFound, wiring
  <2>2. QED BY <1>0, <2>1 DEF Others, ToCaller, ToNext, ToUser, Absent
<1>4. ASSUME NEW t \in Threads, CheckMissed(t) PROVE Absent'
  BY <1>0, <1>4 DEF CheckMissed, Goto, wiring, Types, TypeOK, Absent
<1>5. ASSUME NEW t \in Threads, Acquire(t) PROVE Absent'
  BY <1>0, <1>5 DEF Acquire, Goto, wiring, Types, TypeOK, Absent
<1>6. ASSUME NEW t \in Threads, RecheckFound(t) PROVE Absent'
  <2>1. Others(t) /\ (ToCaller(t) \/ ToNext(t) \/ ToUser(t)) /\ state' = state
    BY <1>6, Returning DEF RecheckFound, wiring
  <2>2. QED BY <1>0, <2>1 DEF Others, ToCaller, ToNext, ToUser, Absent
<1>7. ASSUME NEW t \in Threads, Call(t) PROVE Absent'
  BY <1>0, <1>7 DEF Call, Goto, wiring, Types, TypeOK, Absent
<1>8. ASSUME NEW t \in Threads, Begin(t) PROVE Absent'
  BY <1>0, <1>8 DEF Begin, Goto, wiring, Types, TypeOK, Absent
<1>9. ASSUME NEW t \in Threads, Build(t) PROVE Absent'
  <2>1. /\ Others(t) /\ (ToCaller(t) \/ ToNext(t) \/ ToUser(t)) /\ cur[t] \in Deps
        /\ Place(plan[t][at[t]], cur[t], outer[t]) /\ plan[t][at[t]] \in Deps
    BY <1>9, Returning
  <2>2. cur[t] \notin outer[t] /\ outer[t] \subseteq Deps
    BY <2>1, PlaceFacts, Graph
  <2>3. /\ \A d \in Deps : d # cur[t] => state'[d] = state[d]
        /\ <<t, cur[t]>> \in frames[LockOf(cur[t])]
    BY <1>0, <1>9, Returning DEF Build, Locked
  <2>4. ASSUME NEW u \in Threads \ {t}
        PROVE  /\ pc[u] = "build" => cur[u] # cur[t]
               /\ cur[t] \notin outer[u]
    <3>1. LockOf(cur[t]) \in {"api", "features"}
      BY <2>1, Graph
    <3>2. <<u, cur[t]>> \notin frames[LockOf(cur[t])]
      BY <1>0, <2>3, <2>4, <3>1 DEF Locked
    <3>3. QED BY <1>0, <3>2 DEF Locked
  <2>5. \A u \in Threads : cur[u] \in Deps /\ outer[u] \subseteq Deps
    BY <1>0 DEF Types, TypeOK
  <2>6. QED BY <1>0, <2>1, <2>2, <2>3, <2>4, <2>5 DEF Others, ToCaller, ToNext, ToUser, Absent
<1>10. ASSUME NEW t \in Threads, BuildFails(t) PROVE Absent'
  BY <1>0, <1>10 DEF BuildFails, Goto, Rest, wiring, Types, TypeOK, Absent
<1>11. ASSUME NEW t \in Threads, Finish(t) PROVE Absent'
  BY <1>0, <1>11 DEF Finish, Goto, Rest, wiring, Types, TypeOK, Absent
<1>12. CASE Startup
  BY <1>0, <1>12 DEF Startup, Goto, wiring, Types, TypeOK, Absent
<1>13. CASE InstallCache
  <2>1. \A t \in Threads : pc[t] = "idle" /\ outer[t] = {}
    BY <1>0, <1>13, NobodyRuns DEF InstallCache
  <2>2. QED BY <1>13, <2>1 DEF InstallCache, Absent
<1>14. CASE Prime
  BY <1>0, <1>14 DEF Prime, threads, wiring, Absent
<1>15. CASE CancelStartup
  BY <1>0, <1>15 DEF CancelStartup, threads, wiring, Absent
<1>16. CASE Shutdown
  BY <1>0, <1>16 DEF Shutdown, threads, wiring, Absent
<1>17. CASE CleanInert
  <2>1. \A t \in Threads : pc[t] = "idle" /\ outer[t] = {}
    BY <1>0, <1>17, NobodyRuns DEF CleanInert
  <2>2. QED BY <1>17, <2>1 DEF CleanInert, threads, Absent
<1>18. CASE CloseProvider
  <2>1. \A t \in Threads : pc[t] = "idle" /\ outer[t] = {}
    BY <1>0, <1>18, NobodyRuns DEF CloseProvider
  <2>2. QED BY <1>18, <2>1 DEF CloseProvider, threads, Absent
<1>19. CASE CloseFails
  <2>1. \A t \in Threads : pc[t] = "idle" /\ outer[t] = {}
    BY <1>0, <1>19, NobodyRuns DEF CloseFails
  <2>2. QED BY <1>19, <2>1 DEF CloseFails, threads, Absent
<1>20. CASE CancelCleanup
  <2>1. \A t \in Threads : pc[t] = "idle" /\ outer[t] = {}
    BY <1>0, <1>20, NobodyRuns DEF CancelCleanup
  <2>2. QED BY <1>20, <2>1 DEF CancelCleanup, threads, Absent
<1>21. CASE EndCleanup
  BY <1>0, <1>21 DEF EndCleanup, threads, wiring, Absent
<1>22. QED
  BY Cases, <1>1, <1>2, <1>3, <1>4, <1>5, <1>6, <1>7, <1>8, <1>9, <1>10, <1>11,
     <1>12, <1>13, <1>14, <1>15, <1>16, <1>17, <1>18, <1>19, <1>20, <1>21

(***************************************************************************)
(* What a thread has resolved stays on app.state until it is done.         *)
(***************************************************************************)
LEMMA ResolvedStep == IInv /\ [Next]_vars => Resolved'
<1> SUFFICES ASSUME IInv, [Next]_vars PROVE Resolved'
  OBVIOUS
<1>0. /\ Types /\ Nested /\ Locked /\ Absent /\ Resolved /\ Phases
      /\ Versions /\ Wired /\ ClientsKnown
  BY DEF IInv
<1>1. CASE UNCHANGED vars
  BY <1>0, <1>1 DEF vars, threads, wiring, lifespan, Busy, Resolved
<1>2. ASSUME NEW t \in Threads, Arrive(t) PROVE Resolved'
  <2>1. got[t] = Nothing /\ at'[t] = 1 /\ pc'[t] = "check"
    BY <1>0, <1>2, AppStateAssumption DEF Arrive, Goto, Types, TypeOK, Resolved
  <2>2. \A u \in Threads \ {t} : pc'[u] = pc[u] /\ cur'[u] = cur[u] /\ plan'[u] = plan[u] /\ at'[u] = at[u]
    BY <1>0, <1>2 DEF Arrive, Goto, Types, TypeOK
  <2>3. got' = got /\ state' = state /\ phase' = phase
    BY <1>2 DEF Arrive, wiring, lifespan
  <2>4. QED BY <1>0, <2>1, <2>2, <2>3 DEF Busy, Resolved
<1>3. ASSUME NEW t \in Threads, CheckFound(t) PROVE Resolved'
  <2>1. /\ Others(t) /\ plan'[t] = plan[t] /\ (ToCaller(t) \/ ToNext(t) \/ ToUser(t)) /\ cur[t] \in Deps
        /\ plan[t] \in {ExtractDeps, ReadyDeps, StartDeps} /\ at[t] \in 1..7 /\ Busy(t)
    BY <1>3, Returning DEF Busy
  <2>2. PICK v \in Nat : v # 0 /\ got'[t] = [got[t] EXCEPT ![cur[t]] = v] /\ v = state'[cur[t]]
    BY <1>3, Returning
  <2>3. \A d \in Deps : state'[d] = state[d] \/ (d = cur[t] /\ state[d] = 0)
    BY <1>0, <1>3, Returning DEF CheckFound, Absent
  <2>4. \A u \in Threads : got[u] \in [Deps -> Nat]
    BY <1>0 DEF Types, TypeOK
  <2>5. got'[t][cur[t]] = v /\ \A d \in Deps : d # cur[t] => got'[t][d] = got[t][d]
    BY <2>1, <2>2, <2>4
  <2>6. phase' # phase => t = Loop
    BY <2>1 DEF ToCaller, ToNext, ToUser
  <2>7. ASSUME NEW u \in Threads, NEW c \in Deps PROVE got'[u][c] \in {0, state'[c]}
    <3>1. got[u][c] \in {0, state[c]}
      BY <1>0 DEF Resolved
    <3>2. CASE u = t
      BY <2>2, <2>3, <2>5, <3>1, <3>2
    <3>3. CASE u # t
      BY <2>1, <2>3, <3>1, <3>3 DEF Others
    <3>4. QED BY <3>2, <3>3
  <2>8. ASSUME NEW u \in Threads, Busy(u)' PROVE \A j \in 1..at'[u] : j < at'[u] => got'[u][plan'[u][j]] # 0
    <3>1. CASE u # t
      BY <1>0, <2>1, <2>8, <3>1 DEF Others, Busy, Resolved
    <3>2. CASE u = t
      <4>1. ASSUME NEW j \in 1..at[t], j < at[t] PROVE got'[t][plan[t][j]] # 0
        <5>1. got[t][plan[t][j]] # 0
          BY <1>0, <2>1, <4>1 DEF Resolved
        <5>2. plan[t][j] \in Deps
          <6>1. at[t] <= Len(plan[t]) /\ Len(plan[t]) \in 1..7
            BY <1>0, <2>1, Plans DEF Types
          <6>2. j \in 1..Len(plan[t])
            <7> DEFINE n == Len(plan[t])
            <7>1. n \in 1..7 /\ at[t] <= n /\ at[t] \in 1..7
              BY <2>1, <6>1
            <7> HIDE DEF n
            <7>2. j \in 1..n
              BY <7>1
            <7>3. QED BY <7>2 DEF n
          <6>3. QED BY <2>1, <6>2, Plans
        <5>3. QED BY <2>2, <2>5, <5>1, <5>2
      <4>2. CASE ToCaller(t)
        BY <2>1, <3>2, <4>1, <4>2 DEF ToCaller
      <4>3. CASE ToNext(t)
        <5>1. at'[t] = at[t] + 1 /\ cur[t] = plan[t][at[t]]
          BY <4>3 DEF ToNext
        <5>2. got'[t][plan[t][at[t]]] # 0
          BY <2>2, <2>5, <5>1
        <5>3. \A j \in 1..at'[t] : j < at'[t] => j = at[t] \/ (j \in 1..at[t] /\ j < at[t])
          BY <2>1, <5>1
        <5>4. QED BY <2>1, <3>2, <4>1, <5>2, <5>3
      <4>4. CASE ToUser(t)
        BY <2>8, <3>2, <4>4 DEF ToUser, Busy
      <4>5. QED BY <2>1, <4>2, <4>3, <4>4
    <3>3. QED BY <3>1, <3>2
  <2>9. ASSUME NEW u \in Threads, pc'[u] = "build", cur'[u] \in DOMAIN Inner PROVE got'[u][Inner[cur'[u]]] # 0
    <3>1. CASE u # t
      BY <1>0, <2>1, <2>9, <3>1 DEF Others, Resolved
    <3>2. CASE u = t
      BY <2>1, <2>2, <2>5, <2>9, <3>2 DEF ToCaller, ToNext, ToUser
    <3>3. QED BY <3>1, <3>2
  <2>10. ASSUME NEW u \in Threads, pc'[u] = "idle", ~(u = Loop /\ phase' = "installing") PROVE got'[u] = Nothing
    <3>1. CASE u # t
      <4>1. pc[u] = "idle" /\ got'[u] = got[u]
        BY <2>1, <2>10, <3>1 DEF Others
      <4>2. ~(u = Loop /\ phase = "installing")
        BY <2>6, <2>10, <3>1
      <4>3. QED BY <1>0, <4>1, <4>2 DEF Resolved
    <3>2. CASE u = t
      BY <2>1, <2>10, <3>2 DEF ToCaller, ToNext, ToUser
    <3>3. QED BY <3>1, <3>2
  <2>11. QED BY <2>7, <2>8, <2>9, <2>10 DEF Resolved
<1>4. ASSUME NEW t \in Threads, CheckMissed(t) PROVE Resolved'
  BY <1>0, <1>4 DEF CheckMissed, Goto, wiring, lifespan, Types, TypeOK, Busy, Resolved
<1>5. ASSUME NEW t \in Threads, Acquire(t) PROVE Resolved'
  BY <1>0, <1>5 DEF Acquire, Goto, wiring, lifespan, Types, TypeOK, Busy, Resolved
<1>6. ASSUME NEW t \in Threads, RecheckFound(t) PROVE Resolved'
  <2>1. /\ Others(t) /\ plan'[t] = plan[t] /\ (ToCaller(t) \/ ToNext(t) \/ ToUser(t)) /\ cur[t] \in Deps
        /\ plan[t] \in {ExtractDeps, ReadyDeps, StartDeps} /\ at[t] \in 1..7 /\ Busy(t)
    BY <1>6, Returning DEF Busy
  <2>2. PICK v \in Nat : v # 0 /\ got'[t] = [got[t] EXCEPT ![cur[t]] = v] /\ v = state'[cur[t]]
    BY <1>6, Returning
  <2>3. \A d \in Deps : state'[d] = state[d] \/ (d = cur[t] /\ state[d] = 0)
    BY <1>0, <1>6, Returning DEF RecheckFound, Absent
  <2>4. \A u \in Threads : got[u] \in [Deps -> Nat]
    BY <1>0 DEF Types, TypeOK
  <2>5. got'[t][cur[t]] = v /\ \A d \in Deps : d # cur[t] => got'[t][d] = got[t][d]
    BY <2>1, <2>2, <2>4
  <2>6. phase' # phase => t = Loop
    BY <2>1 DEF ToCaller, ToNext, ToUser
  <2>7. ASSUME NEW u \in Threads, NEW c \in Deps PROVE got'[u][c] \in {0, state'[c]}
    <3>1. got[u][c] \in {0, state[c]}
      BY <1>0 DEF Resolved
    <3>2. CASE u = t
      BY <2>2, <2>3, <2>5, <3>1, <3>2
    <3>3. CASE u # t
      BY <2>1, <2>3, <3>1, <3>3 DEF Others
    <3>4. QED BY <3>2, <3>3
  <2>8. ASSUME NEW u \in Threads, Busy(u)' PROVE \A j \in 1..at'[u] : j < at'[u] => got'[u][plan'[u][j]] # 0
    <3>1. CASE u # t
      BY <1>0, <2>1, <2>8, <3>1 DEF Others, Busy, Resolved
    <3>2. CASE u = t
      <4>1. ASSUME NEW j \in 1..at[t], j < at[t] PROVE got'[t][plan[t][j]] # 0
        <5>1. got[t][plan[t][j]] # 0
          BY <1>0, <2>1, <4>1 DEF Resolved
        <5>2. plan[t][j] \in Deps
          <6>1. at[t] <= Len(plan[t]) /\ Len(plan[t]) \in 1..7
            BY <1>0, <2>1, Plans DEF Types
          <6>2. j \in 1..Len(plan[t])
            <7> DEFINE n == Len(plan[t])
            <7>1. n \in 1..7 /\ at[t] <= n /\ at[t] \in 1..7
              BY <2>1, <6>1
            <7> HIDE DEF n
            <7>2. j \in 1..n
              BY <7>1
            <7>3. QED BY <7>2 DEF n
          <6>3. QED BY <2>1, <6>2, Plans
        <5>3. QED BY <2>2, <2>5, <5>1, <5>2
      <4>2. CASE ToCaller(t)
        BY <2>1, <3>2, <4>1, <4>2 DEF ToCaller
      <4>3. CASE ToNext(t)
        <5>1. at'[t] = at[t] + 1 /\ cur[t] = plan[t][at[t]]
          BY <4>3 DEF ToNext
        <5>2. got'[t][plan[t][at[t]]] # 0
          BY <2>2, <2>5, <5>1
        <5>3. \A j \in 1..at'[t] : j < at'[t] => j = at[t] \/ (j \in 1..at[t] /\ j < at[t])
          BY <2>1, <5>1
        <5>4. QED BY <2>1, <3>2, <4>1, <5>2, <5>3
      <4>4. CASE ToUser(t)
        BY <2>8, <3>2, <4>4 DEF ToUser, Busy
      <4>5. QED BY <2>1, <4>2, <4>3, <4>4
    <3>3. QED BY <3>1, <3>2
  <2>9. ASSUME NEW u \in Threads, pc'[u] = "build", cur'[u] \in DOMAIN Inner PROVE got'[u][Inner[cur'[u]]] # 0
    <3>1. CASE u # t
      BY <1>0, <2>1, <2>9, <3>1 DEF Others, Resolved
    <3>2. CASE u = t
      BY <2>1, <2>2, <2>5, <2>9, <3>2 DEF ToCaller, ToNext, ToUser
    <3>3. QED BY <3>1, <3>2
  <2>10. ASSUME NEW u \in Threads, pc'[u] = "idle", ~(u = Loop /\ phase' = "installing") PROVE got'[u] = Nothing
    <3>1. CASE u # t
      <4>1. pc[u] = "idle" /\ got'[u] = got[u]
        BY <2>1, <2>10, <3>1 DEF Others
      <4>2. ~(u = Loop /\ phase = "installing")
        BY <2>6, <2>10, <3>1
      <4>3. QED BY <1>0, <4>1, <4>2 DEF Resolved
    <3>2. CASE u = t
      BY <2>1, <2>10, <3>2 DEF ToCaller, ToNext, ToUser
    <3>3. QED BY <3>1, <3>2
  <2>11. QED BY <2>7, <2>8, <2>9, <2>10 DEF Resolved
<1>7. ASSUME NEW t \in Threads, Call(t) PROVE Resolved'
  BY <1>0, <1>7 DEF Call, Goto, wiring, lifespan, Types, TypeOK, Busy, Resolved
<1>8. ASSUME NEW t \in Threads, Begin(t) PROVE Resolved'
  <2>1. /\ pc[t] = "recheck" /\ pc'[t] = "build" /\ cur[t] \notin DOMAIN Inner
        /\ \A u \in Threads \ {t} : pc'[u] = pc[u]
        /\ UNCHANGED <<state, phase, cur, plan, at, got>>
    BY <1>0, <1>8 DEF Begin, Goto, wiring, lifespan, Types, TypeOK
  <2>2. \A u \in Threads : Busy(u)' => Busy(u)
    BY <2>1 DEF Busy
  <2>3. QED BY <1>0, <2>1, <2>2 DEF Resolved
<1>9. ASSUME NEW t \in Threads, Build(t) PROVE Resolved'
  <2>1. /\ Others(t) /\ plan'[t] = plan[t] /\ (ToCaller(t) \/ ToNext(t) \/ ToUser(t)) /\ cur[t] \in Deps
        /\ plan[t] \in {ExtractDeps, ReadyDeps, StartDeps} /\ at[t] \in 1..7 /\ Busy(t)
    BY <1>9, Returning DEF Busy
  <2>2. PICK v \in Nat : v # 0 /\ got'[t] = [got[t] EXCEPT ![cur[t]] = v] /\ v = state'[cur[t]]
    BY <1>9, Returning
  <2>3. \A d \in Deps : state'[d] = state[d] \/ (d = cur[t] /\ state[d] = 0)
    BY <1>0, <1>9, Returning DEF Build, Absent
  <2>4. \A u \in Threads : got[u] \in [Deps -> Nat]
    BY <1>0 DEF Types, TypeOK
  <2>5. got'[t][cur[t]] = v /\ \A d \in Deps : d # cur[t] => got'[t][d] = got[t][d]
    BY <2>1, <2>2, <2>4
  <2>6. phase' # phase => t = Loop
    BY <2>1 DEF ToCaller, ToNext, ToUser
  <2>7. ASSUME NEW u \in Threads, NEW c \in Deps PROVE got'[u][c] \in {0, state'[c]}
    <3>1. got[u][c] \in {0, state[c]}
      BY <1>0 DEF Resolved
    <3>2. CASE u = t
      BY <2>2, <2>3, <2>5, <3>1, <3>2
    <3>3. CASE u # t
      BY <2>1, <2>3, <3>1, <3>3 DEF Others
    <3>4. QED BY <3>2, <3>3
  <2>8. ASSUME NEW u \in Threads, Busy(u)' PROVE \A j \in 1..at'[u] : j < at'[u] => got'[u][plan'[u][j]] # 0
    <3>1. CASE u # t
      BY <1>0, <2>1, <2>8, <3>1 DEF Others, Busy, Resolved
    <3>2. CASE u = t
      <4>1. ASSUME NEW j \in 1..at[t], j < at[t] PROVE got'[t][plan[t][j]] # 0
        <5>1. got[t][plan[t][j]] # 0
          BY <1>0, <2>1, <4>1 DEF Resolved
        <5>2. plan[t][j] \in Deps
          <6>1. at[t] <= Len(plan[t]) /\ Len(plan[t]) \in 1..7
            BY <1>0, <2>1, Plans DEF Types
          <6>2. j \in 1..Len(plan[t])
            <7> DEFINE n == Len(plan[t])
            <7>1. n \in 1..7 /\ at[t] <= n /\ at[t] \in 1..7
              BY <2>1, <6>1
            <7> HIDE DEF n
            <7>2. j \in 1..n
              BY <7>1
            <7>3. QED BY <7>2 DEF n
          <6>3. QED BY <2>1, <6>2, Plans
        <5>3. QED BY <2>2, <2>5, <5>1, <5>2
      <4>2. CASE ToCaller(t)
        BY <2>1, <3>2, <4>1, <4>2 DEF ToCaller
      <4>3. CASE ToNext(t)
        <5>1. at'[t] = at[t] + 1 /\ cur[t] = plan[t][at[t]]
          BY <4>3 DEF ToNext
        <5>2. got'[t][plan[t][at[t]]] # 0
          BY <2>2, <2>5, <5>1
        <5>3. \A j \in 1..at'[t] : j < at'[t] => j = at[t] \/ (j \in 1..at[t] /\ j < at[t])
          BY <2>1, <5>1
        <5>4. QED BY <2>1, <3>2, <4>1, <5>2, <5>3
      <4>4. CASE ToUser(t)
        BY <2>8, <3>2, <4>4 DEF ToUser, Busy
      <4>5. QED BY <2>1, <4>2, <4>3, <4>4
    <3>3. QED BY <3>1, <3>2
  <2>9. ASSUME NEW u \in Threads, pc'[u] = "build", cur'[u] \in DOMAIN Inner PROVE got'[u][Inner[cur'[u]]] # 0
    <3>1. CASE u # t
      BY <1>0, <2>1, <2>9, <3>1 DEF Others, Resolved
    <3>2. CASE u = t
      BY <2>1, <2>2, <2>5, <2>9, <3>2 DEF ToCaller, ToNext, ToUser
    <3>3. QED BY <3>1, <3>2
  <2>10. ASSUME NEW u \in Threads, pc'[u] = "idle", ~(u = Loop /\ phase' = "installing") PROVE got'[u] = Nothing
    <3>1. CASE u # t
      <4>1. pc[u] = "idle" /\ got'[u] = got[u]
        BY <2>1, <2>10, <3>1 DEF Others
      <4>2. ~(u = Loop /\ phase = "installing")
        BY <2>6, <2>10, <3>1
      <4>3. QED BY <1>0, <4>1, <4>2 DEF Resolved
    <3>2. CASE u = t
      BY <2>1, <2>10, <3>2 DEF ToCaller, ToNext, ToUser
    <3>3. QED BY <3>1, <3>2
  <2>11. QED BY <2>7, <2>8, <2>9, <2>10 DEF Resolved
<1>10. ASSUME NEW t \in Threads, BuildFails(t) PROVE Resolved'
  <2>1. /\ pc'[t] = "idle" /\ got'[t] = Nothing /\ state' = state
        /\ \A u \in Threads \ {t} :
             /\ pc'[u] = pc[u] /\ cur'[u] = cur[u] /\ plan'[u] = plan[u]
             /\ at'[u] = at[u] /\ got'[u] = got[u]
    BY <1>0, <1>10 DEF BuildFails, Goto, Rest, wiring, Types, TypeOK
  <2>2. phase' # "installing" \/ phase' = phase
    BY <1>10 DEF BuildFails, lifespan
  <2>3. \A c \in Deps : Nothing[c] = 0
    BY DEF Nothing
  <2>4. (\E u \in Threads : u = Loop /\ u # t /\ phase = "installing") => phase' = phase
    <3>1. CASE t = Loop
      BY <3>1
    <3>2. CASE t # Loop
      BY <1>10, <3>2 DEF BuildFails, lifespan
    <3>3. QED BY <3>1, <3>2
  <2>5. QED BY <1>0, <2>1, <2>2, <2>3, <2>4 DEF Busy, Resolved
<1>11. ASSUME NEW t \in Threads, Finish(t) PROVE Resolved'
  <2>1. /\ pc'[t] = "idle" /\ got'[t] = Nothing /\ state' = state
        /\ \A u \in Threads \ {t} :
             /\ pc'[u] = pc[u] /\ cur'[u] = cur[u] /\ plan'[u] = plan[u]
             /\ at'[u] = at[u] /\ got'[u] = got[u]
    BY <1>0, <1>11 DEF Finish, Goto, Rest, wiring, Types, TypeOK
  <2>2. phase' # "installing" \/ phase' = phase
    BY <1>11 DEF Finish, lifespan
  <2>3. \A c \in Deps : Nothing[c] = 0
    BY DEF Nothing
  <2>4. (\E u \in Threads : u = Loop /\ u # t /\ phase = "installing") => phase' = phase
    <3>1. CASE t = Loop
      BY <3>1
    <3>2. CASE t # Loop
      BY <1>11, <3>2 DEF Finish, lifespan
    <3>3. QED BY <3>1, <3>2
  <2>5. QED BY <1>0, <2>1, <2>2, <2>3, <2>4 DEF Busy, Resolved
<1>12. CASE Startup
  <2>1. /\ \A u \in Threads : u # Loop => pc'[u] = pc[u] /\ got'[u] = got[u]
        /\ UNCHANGED <<cur, plan, at, state>> /\ phase = "down"
    BY <1>0, <1>12 DEF Startup, Goto, wiring, Types, TypeOK
  <2>2. Loop \in Threads /\ at[Loop] = 1 /\ pc[Loop] = "idle" /\ got[Loop] = Nothing /\ "probe" \in Deps
    BY <1>0, <2>1 DEF Phases, Threads, Resolved, Deps, ApiDeps
  <2>3. \A c \in Deps : Nothing[c] = 0
    BY DEF Nothing
  <2>4. got[Loop] \in [Deps -> Nat]
    BY <1>0, <2>2 DEF Types, TypeOK
  <2>5. CASE phase' = "installing" /\ got' = [got EXCEPT ![Loop]["probe"] = state["probe"]] /\ UNCHANGED pc
    <3>1. \A c \in Deps : got'[Loop][c] \in {0, state[c]}
      BY <1>0, <2>2, <2>3, <2>4, <2>5 DEF Types, TypeOK
    <3>2. QED BY <1>0, <2>1, <2>2, <2>5, <3>1 DEF Busy, Resolved
  <2>6. CASE phase' = "starting" /\ pc' = [pc EXCEPT ![Loop] = "check"] /\ UNCHANGED got
    <3>1. pc'[Loop] = "check"
      BY <1>0, <2>2, <2>6 DEF Types, TypeOK
    <3>2. ASSUME NEW u \in Threads
          PROVE  /\ \A c \in Deps : got'[u][c] \in {0, state'[c]}
                 /\ (pc'[u] = "build" /\ cur'[u] \in DOMAIN Inner) => got'[u][Inner[cur'[u]]] # 0
                 /\ (pc'[u] = "idle" /\ ~(u = Loop /\ phase' = "installing")) => got'[u] = Nothing
      BY <1>0, <2>1, <2>2, <2>6, <3>1 DEF Resolved
    <3>3. ASSUME NEW u \in Threads, Busy(u)', NEW j \in 1..at'[u], j < at'[u] PROVE got'[u][plan'[u][j]] # 0
      <4>1. CASE u = Loop
        BY <2>1, <2>2, <3>3, <4>1
      <4>2. CASE u # Loop
        BY <1>0, <2>1, <3>3, <4>2 DEF Busy, Resolved
      <4>3. QED BY <4>1, <4>2
    <3>4. QED BY <3>2, <3>3 DEF Resolved
  <2>7. QED BY <1>12, <2>5, <2>6 DEF Startup, Goto
<1>13. CASE InstallCache
  <2>1. \A t \in Threads : pc[t] = "idle"
    BY <1>0, <1>13, NobodyRuns DEF InstallCache
  <2>2. /\ pc' = pc /\ phase' = "checking"
        /\ \A t \in Threads : got'[t] = IF t = Loop THEN Nothing ELSE got[t]
    BY <1>0, <1>13 DEF InstallCache, Types, TypeOK
  <2>3. \A t \in Threads : got'[t] = Nothing
    BY <1>0, <1>13, <2>1, <2>2 DEF Resolved
  <2>4. \A c \in Deps : Nothing[c] = 0
    BY DEF Nothing
  <2>5. QED BY <2>1, <2>2, <2>3, <2>4 DEF Busy, Resolved
<1>14. CASE Prime
  BY <1>0, <1>14 DEF Prime, threads, wiring, Busy, Resolved
<1>15. CASE CancelStartup
  BY <1>0, <1>15 DEF CancelStartup, threads, wiring, Busy, Resolved
<1>16. CASE Shutdown
  BY <1>0, <1>16 DEF Shutdown, threads, wiring, Busy, Resolved
<1>17. CASE CleanInert
  <2>1. \A t \in Threads : pc[t] = "idle" /\ got[t] = Nothing
    BY <1>0, <1>17, NobodyRuns DEF CleanInert
  <2>2. \A c \in Deps : Nothing[c] = 0
    BY DEF Nothing
  <2>3. QED BY <1>17, <2>1, <2>2 DEF CleanInert, threads, Busy, Resolved
<1>18. CASE CloseProvider
  <2>1. \A t \in Threads : pc[t] = "idle" /\ got[t] = Nothing
    BY <1>0, <1>18, NobodyRuns DEF CloseProvider
  <2>2. \A c \in Deps : Nothing[c] = 0
    BY DEF Nothing
  <2>3. QED BY <1>18, <2>1, <2>2 DEF CloseProvider, threads, Busy, Resolved
<1>19. CASE CloseFails
  <2>1. \A t \in Threads : pc[t] = "idle" /\ got[t] = Nothing
    BY <1>0, <1>19, NobodyRuns DEF CloseFails
  <2>2. \A c \in Deps : Nothing[c] = 0
    BY DEF Nothing
  <2>3. QED BY <1>19, <2>1, <2>2 DEF CloseFails, threads, Busy, Resolved
<1>20. CASE CancelCleanup
  <2>1. \A t \in Threads : pc[t] = "idle" /\ got[t] = Nothing
    BY <1>0, <1>20, NobodyRuns DEF CancelCleanup
  <2>2. \A c \in Deps : Nothing[c] = 0
    BY DEF Nothing
  <2>3. QED BY <1>20, <2>1, <2>2 DEF CancelCleanup, threads, Busy, Resolved
<1>21. CASE EndCleanup
  BY <1>0, <1>21 DEF EndCleanup, threads, wiring, Busy, Resolved
<1>22. QED
  BY Cases, <1>1, <1>2, <1>3, <1>4, <1>5, <1>6, <1>7, <1>8, <1>9, <1>10, <1>11,
     <1>12, <1>13, <1>14, <1>15, <1>16, <1>17, <1>18, <1>19, <1>20, <1>21

(***************************************************************************)
(* The lifespan and the requests keep out of each other's way.             *)
(***************************************************************************)
LEMMA PhasesStep == IInv /\ [Next]_vars => Phases'
<1> SUFFICES ASSUME IInv, [Next]_vars PROVE Phases'
  OBVIOUS
<1>0. /\ Types /\ Nested /\ Locked /\ Absent /\ Resolved /\ Phases
      /\ Versions /\ Wired /\ ClientsKnown
  BY DEF IInv
<1>1. CASE UNCHANGED vars
  BY <1>0, <1>1 DEF vars, threads, wiring, lifespan, ToClean, Phases
<1>2. ASSUME NEW t \in Threads, Arrive(t) PROVE Phases'
  <2>1. /\ t \in Workers /\ t # Loop /\ phase \in {"down", "serving"} /\ UNCHANGED <<wiring, lifespan, got>>
    BY <1>2, AppStateAssumption DEF Arrive
  <2>2. \A u \in Threads \ {t} : pc'[u] = pc[u] /\ cur'[u] = cur[u] /\ plan'[u] = plan[u] /\ at'[u] = at[u]
    BY <1>0, <1>2 DEF Arrive, Goto, Types, TypeOK
  <2>3. QED BY <1>0, <2>1, <2>2 DEF wiring, lifespan, Threads, ToClean, Phases
<1>3. ASSUME NEW t \in Threads, CheckFound(t) PROVE Phases'
  <2>1. /\ Others(t) /\ plan'[t] = plan[t] /\ (ToCaller(t) \/ ToNext(t) \/ ToUser(t)) /\ cur[t] \in Deps
        /\ got[t] \in [Deps -> Nat] /\ pc[t] # "idle" /\ Loop \in Threads
    BY <1>0, <1>3, Returning DEF Types, TypeOK, Threads
  <2>2. PICK v \in Nat : v # 0 /\ got'[t] = [got[t] EXCEPT ![cur[t]] = v]
    BY <1>3, Returning
  <2>3. UNCHANGED <<snapshot, primed, starts, cleanups>>
    BY <1>3 DEF CheckFound
  <2>4. /\ t = Loop => phase = "starting" /\ \A u \in Workers : pc[u] = "idle"
        /\ t # Loop => t \in Workers /\ phase \in {"down", "serving"} /\ phase' = phase
    BY <1>0, <2>1 DEF Phases, Threads, ToCaller, ToNext, ToUser
  <2>5. state["probe_cache"] # 0 => state'["probe_cache"] = state["probe_cache"]
    <3>1. "probe_cache" \in Deps
      BY Graph DEF Chain
    <3>2. QED BY <1>0, <3>1, <1>3, Returning DEF CheckFound, Absent
  <2>6. CASE t = Loop
    <3>1. plan[Loop] = StartDeps /\ at[Loop] = 1 /\ Len(StartDeps) = 1 /\ StartDeps[1] = "probe" /\ "probe" \in Deps
      BY <1>0 DEF Phases, StartDeps, Deps, ApiDeps
    <3>2. ~ToNext(t)
      BY <2>6, <3>1 DEF ToNext
    <3>3. CASE ToCaller(t)
      BY <1>0, <2>1, <2>3, <2>4, <2>6, <3>3, AppStateAssumption DEF ToCaller, Others, Threads, Phases
    <3>4. CASE ToUser(t)
      <4>1. got'[Loop]["probe"] # 0 /\ cur[Loop] = "probe"
        BY <2>1, <2>2, <2>6, <3>1, <3>4 DEF ToUser
      <4>2. \A u \in Workers : pc'[u] = "idle"
        BY <2>1, <2>4, <2>6, AppStateAssumption DEF Others, Threads
      <4>3. /\ phase = "starting" /\ phase' = "installing" /\ pc'[Loop] = "idle" /\ plan'[Loop] = plan[Loop]
            /\ at'[Loop] = at[Loop] /\ cur'[Loop] = cur[Loop]
        BY <2>1, <2>4, <2>6, <3>4 DEF ToUser
      <4>4. QED BY <1>0, <2>3, <3>1, <4>1, <4>2, <4>3 DEF Phases
    <3>5. QED BY <2>1, <3>2, <3>3, <3>4
  <2>7. CASE t # Loop
    <3>1. /\ pc'[Loop] = pc[Loop] /\ plan'[Loop] = plan[Loop] /\ at'[Loop] = at[Loop] /\ cur'[Loop] = cur[Loop]
          /\ got'[Loop] = got[Loop] /\ phase' = phase /\ phase \in {"down", "serving"}
      BY <2>1, <2>4, <2>7 DEF Others
    <3>2. phase = "serving" => primed' = state'["probe_cache"] /\ primed' # 0
      BY <1>0, <2>3, <2>5 DEF Phases
    <3>3. QED BY <1>0, <2>3, <3>1, <3>2 DEF Phases
  <2>8. QED BY <2>6, <2>7
<1>4. ASSUME NEW t \in Threads, CheckMissed(t) PROVE Phases'
  <2>1. /\ pc[t] # "idle" /\ pc'[t] \in {"check", "lock", "recheck", "build"}
        /\ \A u \in Threads \ {t} : pc'[u] = pc[u] /\ cur'[u] = cur[u]
        /\ UNCHANGED <<wiring, lifespan, plan, at, got>>
    BY <1>0, <1>4 DEF CheckMissed, Goto, Types, TypeOK
  <2>2. QED BY <1>0, <2>1 DEF wiring, lifespan, Threads, ToClean, Phases
<1>5. ASSUME NEW t \in Threads, Acquire(t) PROVE Phases'
  <2>1. /\ pc[t] # "idle" /\ pc'[t] \in {"check", "lock", "recheck", "build"}
        /\ \A u \in Threads \ {t} : pc'[u] = pc[u] /\ cur'[u] = cur[u]
        /\ UNCHANGED <<wiring, lifespan, plan, at, got>>
    BY <1>0, <1>5 DEF Acquire, Goto, Types, TypeOK
  <2>2. QED BY <1>0, <2>1 DEF wiring, lifespan, Threads, ToClean, Phases
<1>6. ASSUME NEW t \in Threads, RecheckFound(t) PROVE Phases'
  <2>1. /\ Others(t) /\ plan'[t] = plan[t] /\ (ToCaller(t) \/ ToNext(t) \/ ToUser(t)) /\ cur[t] \in Deps
        /\ got[t] \in [Deps -> Nat] /\ pc[t] # "idle" /\ Loop \in Threads
    BY <1>0, <1>6, Returning DEF Types, TypeOK, Threads
  <2>2. PICK v \in Nat : v # 0 /\ got'[t] = [got[t] EXCEPT ![cur[t]] = v]
    BY <1>6, Returning
  <2>3. UNCHANGED <<snapshot, primed, starts, cleanups>>
    BY <1>6 DEF RecheckFound
  <2>4. /\ t = Loop => phase = "starting" /\ \A u \in Workers : pc[u] = "idle"
        /\ t # Loop => t \in Workers /\ phase \in {"down", "serving"} /\ phase' = phase
    BY <1>0, <2>1 DEF Phases, Threads, ToCaller, ToNext, ToUser
  <2>5. state["probe_cache"] # 0 => state'["probe_cache"] = state["probe_cache"]
    <3>1. "probe_cache" \in Deps
      BY Graph DEF Chain
    <3>2. QED BY <1>0, <3>1, <1>6, Returning DEF RecheckFound, Absent
  <2>6. CASE t = Loop
    <3>1. plan[Loop] = StartDeps /\ at[Loop] = 1 /\ Len(StartDeps) = 1 /\ StartDeps[1] = "probe" /\ "probe" \in Deps
      BY <1>0 DEF Phases, StartDeps, Deps, ApiDeps
    <3>2. ~ToNext(t)
      BY <2>6, <3>1 DEF ToNext
    <3>3. CASE ToCaller(t)
      BY <1>0, <2>1, <2>3, <2>4, <2>6, <3>3, AppStateAssumption DEF ToCaller, Others, Threads, Phases
    <3>4. CASE ToUser(t)
      <4>1. got'[Loop]["probe"] # 0 /\ cur[Loop] = "probe"
        BY <2>1, <2>2, <2>6, <3>1, <3>4 DEF ToUser
      <4>2. \A u \in Workers : pc'[u] = "idle"
        BY <2>1, <2>4, <2>6, AppStateAssumption DEF Others, Threads
      <4>3. /\ phase = "starting" /\ phase' = "installing" /\ pc'[Loop] = "idle" /\ plan'[Loop] = plan[Loop]
            /\ at'[Loop] = at[Loop] /\ cur'[Loop] = cur[Loop]
        BY <2>1, <2>4, <2>6, <3>4 DEF ToUser
      <4>4. QED BY <1>0, <2>3, <3>1, <4>1, <4>2, <4>3 DEF Phases
    <3>5. QED BY <2>1, <3>2, <3>3, <3>4
  <2>7. CASE t # Loop
    <3>1. /\ pc'[Loop] = pc[Loop] /\ plan'[Loop] = plan[Loop] /\ at'[Loop] = at[Loop] /\ cur'[Loop] = cur[Loop]
          /\ got'[Loop] = got[Loop] /\ phase' = phase /\ phase \in {"down", "serving"}
      BY <2>1, <2>4, <2>7 DEF Others
    <3>2. phase = "serving" => primed' = state'["probe_cache"] /\ primed' # 0
      BY <1>0, <2>3, <2>5 DEF Phases
    <3>3. QED BY <1>0, <2>3, <3>1, <3>2 DEF Phases
  <2>8. QED BY <2>6, <2>7
<1>7. ASSUME NEW t \in Threads, Call(t) PROVE Phases'
  <2>1. /\ pc[t] # "idle" /\ pc'[t] \in {"check", "lock", "recheck", "build"}
        /\ \A u \in Threads \ {t} : pc'[u] = pc[u] /\ cur'[u] = cur[u]
        /\ UNCHANGED <<wiring, lifespan, plan, at, got>>
    BY <1>0, <1>7 DEF Call, Goto, Types, TypeOK
  <2>2. QED BY <1>0, <2>1 DEF wiring, lifespan, Threads, ToClean, Phases
<1>8. ASSUME NEW t \in Threads, Begin(t) PROVE Phases'
  <2>1. /\ pc[t] # "idle" /\ pc'[t] \in {"check", "lock", "recheck", "build"}
        /\ \A u \in Threads \ {t} : pc'[u] = pc[u] /\ cur'[u] = cur[u]
        /\ UNCHANGED <<wiring, lifespan, plan, at, got>>
    BY <1>0, <1>8 DEF Begin, Goto, Types, TypeOK
  <2>2. QED BY <1>0, <2>1 DEF wiring, lifespan, Threads, ToClean, Phases
<1>9. ASSUME NEW t \in Threads, Build(t) PROVE Phases'
  <2>1. /\ Others(t) /\ plan'[t] = plan[t] /\ (ToCaller(t) \/ ToNext(t) \/ ToUser(t)) /\ cur[t] \in Deps
        /\ got[t] \in [Deps -> Nat] /\ pc[t] # "idle" /\ Loop \in Threads
    BY <1>0, <1>9, Returning DEF Types, TypeOK, Threads
  <2>2. PICK v \in Nat : v # 0 /\ got'[t] = [got[t] EXCEPT ![cur[t]] = v]
    BY <1>9, Returning
  <2>3. UNCHANGED <<snapshot, primed, starts, cleanups>>
    BY <1>9 DEF Build
  <2>4. /\ t = Loop => phase = "starting" /\ \A u \in Workers : pc[u] = "idle"
        /\ t # Loop => t \in Workers /\ phase \in {"down", "serving"} /\ phase' = phase
    BY <1>0, <2>1 DEF Phases, Threads, ToCaller, ToNext, ToUser
  <2>5. state["probe_cache"] # 0 => state'["probe_cache"] = state["probe_cache"]
    <3>1. "probe_cache" \in Deps
      BY Graph DEF Chain
    <3>2. QED BY <1>0, <3>1, <1>9, Returning DEF Build, Absent
  <2>6. CASE t = Loop
    <3>1. plan[Loop] = StartDeps /\ at[Loop] = 1 /\ Len(StartDeps) = 1 /\ StartDeps[1] = "probe" /\ "probe" \in Deps
      BY <1>0 DEF Phases, StartDeps, Deps, ApiDeps
    <3>2. ~ToNext(t)
      BY <2>6, <3>1 DEF ToNext
    <3>3. CASE ToCaller(t)
      BY <1>0, <2>1, <2>3, <2>4, <2>6, <3>3, AppStateAssumption DEF ToCaller, Others, Threads, Phases
    <3>4. CASE ToUser(t)
      <4>1. got'[Loop]["probe"] # 0 /\ cur[Loop] = "probe"
        BY <2>1, <2>2, <2>6, <3>1, <3>4 DEF ToUser
      <4>2. \A u \in Workers : pc'[u] = "idle"
        BY <2>1, <2>4, <2>6, AppStateAssumption DEF Others, Threads
      <4>3. /\ phase = "starting" /\ phase' = "installing" /\ pc'[Loop] = "idle" /\ plan'[Loop] = plan[Loop]
            /\ at'[Loop] = at[Loop] /\ cur'[Loop] = cur[Loop]
        BY <2>1, <2>4, <2>6, <3>4 DEF ToUser
      <4>4. QED BY <1>0, <2>3, <3>1, <4>1, <4>2, <4>3 DEF Phases
    <3>5. QED BY <2>1, <3>2, <3>3, <3>4
  <2>7. CASE t # Loop
    <3>1. /\ pc'[Loop] = pc[Loop] /\ plan'[Loop] = plan[Loop] /\ at'[Loop] = at[Loop] /\ cur'[Loop] = cur[Loop]
          /\ got'[Loop] = got[Loop] /\ phase' = phase /\ phase \in {"down", "serving"}
      BY <2>1, <2>4, <2>7 DEF Others
    <3>2. phase = "serving" => primed' = state'["probe_cache"] /\ primed' # 0
      BY <1>0, <2>3, <2>5 DEF Phases
    <3>3. QED BY <1>0, <2>3, <3>1, <3>2 DEF Phases
  <2>8. QED BY <2>6, <2>7
<1>10. ASSUME NEW t \in Threads, BuildFails(t) PROVE Phases'
  <2>1. /\ pc[t] # "idle" /\ pc'[t] = "idle" /\ cur'[t] = "probe" /\ plan'[t] = StartDeps /\ at'[t] = 1
        /\ \A u \in Threads \ {t} :
             /\ pc'[u] = pc[u] /\ cur'[u] = cur[u] /\ plan'[u] = plan[u]
             /\ at'[u] = at[u] /\ got'[u] = got[u]
        /\ UNCHANGED <<wiring, snapshot, primed, starts, cleanups>>
    BY <1>0, <1>10 DEF BuildFails, Goto, Rest, lifespan, Types, TypeOK
  <2>2. \/ t # Loop /\ phase' = phase
        \/ t = Loop /\ phase = "starting" /\ phase' = "down"
    BY <1>0, <1>10, <2>1 DEF BuildFails, lifespan, Phases
  <2>3. Loop \in Threads
    BY DEF Threads
  <2>4. QED BY <1>0, <2>1, <2>2, <2>3 DEF wiring, Threads, ToClean, Phases
<1>11. ASSUME NEW t \in Threads, Finish(t) PROVE Phases'
  <2>1. /\ pc[t] # "idle" /\ pc'[t] = "idle" /\ cur'[t] = "probe" /\ plan'[t] = StartDeps /\ at'[t] = 1
        /\ \A u \in Threads \ {t} :
             /\ pc'[u] = pc[u] /\ cur'[u] = cur[u] /\ plan'[u] = plan[u]
             /\ at'[u] = at[u] /\ got'[u] = got[u]
        /\ UNCHANGED <<wiring, snapshot, primed, starts, cleanups>>
    BY <1>0, <1>11 DEF Finish, Goto, Rest, lifespan, Types, TypeOK
  <2>2. \/ t # Loop /\ phase' = phase
        \/ t = Loop /\ phase = "starting" /\ phase' = "down"
    BY <1>0, <1>11, <2>1 DEF Finish, lifespan, Phases
  <2>3. Loop \in Threads
    BY DEF Threads
  <2>4. QED BY <1>0, <2>1, <2>2, <2>3 DEF wiring, Threads, ToClean, Phases
<1>12. CASE Startup
  <2>1. /\ \A u \in Threads : pc[u] = "idle"
        /\ \A u \in Threads : u # Loop => pc'[u] = pc[u]
        /\ UNCHANGED <<wiring, cur, plan, at, snapshot, primed, cleanups>> /\ phase = "down"
    BY <1>0, <1>12 DEF Startup, Quiet, Goto, Types, TypeOK
  <2>2. Loop \in Threads /\ "probe" \in Deps
    BY DEF Threads, Deps, ApiDeps
  <2>3. cleanups < starts'
    BY <1>0, <1>12 DEF Startup, Types, TypeOK
  <2>4. \/ /\ phase' = "installing" /\ got'[Loop]["probe"] # 0 /\ pc'[Loop] = "idle"
        \/ phase' = "starting" /\ pc'[Loop] = "check"
    BY <1>0, <1>12, <2>1, <2>2 DEF Startup, Goto, Types, TypeOK
  <2>5. \A u \in Workers : pc'[u] = "idle"
    BY <2>1, AppStateAssumption DEF Threads
  <2>6. QED BY <1>0, <2>1, <2>3, <2>4, <2>5 DEF Phases
<1>13. CASE InstallCache
  <2>1. state'["probe_cache"] # 0
    <3>1. "probe_cache" \in Deps /\ built["probe_cache"] \in Nat
      BY <1>0, Graph DEF Chain, Types, TypeOK
    <3>2. CASE state["probe_cache"] # 0 /\ UNCHANGED wiring
      BY <3>2 DEF wiring
    <3>3. CASE Store("probe_cache", got[Loop])
      BY <1>0, <3>1, <3>3 DEF Store, Types, TypeOK
    <3>4. QED BY <1>13, <3>2, <3>3 DEF InstallCache
  <2>2. QED BY <1>0, <1>13, <2>1 DEF InstallCache, Phases
<1>14. CASE Prime
  BY <1>0, <1>14 DEF Prime, threads, wiring, Phases
<1>15. CASE CancelStartup
  BY <1>0, <1>15 DEF CancelStartup, threads, wiring, Phases
<1>16. CASE Shutdown
  BY <1>0, <1>16 DEF Shutdown, Quiet, ToClean, threads, wiring, Threads, Phases
<1>17. CASE CleanInert
  <2>1. \A u \in Threads : pc[u] = "idle"
    BY <1>0, <1>17, NobodyRuns DEF CleanInert
  <2>2. snapshot' = ToClean'
    BY <1>0, <1>17 DEF CleanInert, Remove, ToClean, Phases, Types, TypeOK
  <2>3. QED BY <1>0, <1>17, <2>1, <2>2 DEF CleanInert, Remove, threads, Phases
<1>18. CASE CloseProvider
  <2>1. \A u \in Threads : pc[u] = "idle"
    BY <1>0, <1>18, NobodyRuns DEF CloseProvider
  <2>2. snapshot' = ToClean'
    BY <1>0, <1>18 DEF CloseProvider, Remove, ToClean, Phases, Types, TypeOK
  <2>3. QED BY <1>0, <1>18, <2>1, <2>2 DEF CloseProvider, Remove, threads, Phases
<1>19. CASE CloseFails
  <2>1. \A u \in Threads : pc[u] = "idle"
    BY <1>0, <1>19, NobodyRuns DEF CloseFails
  <2>2. snapshot' = ToClean'
    BY <1>0, <1>19 DEF CloseFails, Remove, ToClean, Phases, Types, TypeOK
  <2>3. QED BY <1>0, <1>19, <2>1, <2>2 DEF CloseFails, Remove, threads, Phases
<1>20. CASE CancelCleanup
  <2>1. \A u \in Threads : pc[u] = "idle"
    BY <1>0, <1>20, NobodyRuns DEF CancelCleanup
  <2>2. snapshot' = ToClean'
    BY <1>0, <1>20 DEF CancelCleanup, Remove, ToClean, Phases, Types, TypeOK
  <2>3. QED BY <1>0, <1>20, <2>1, <2>2 DEF CancelCleanup, Remove, threads, Phases
<1>21. CASE EndCleanup
  BY <1>0, <1>21, AppStateAssumption DEF EndCleanup, threads, wiring, Threads, Phases
<1>22. QED
  BY Cases, <1>1, <1>2, <1>3, <1>4, <1>5, <1>6, <1>7, <1>8, <1>9, <1>10, <1>11,
     <1>12, <1>13, <1>14, <1>15, <1>16, <1>17, <1>18, <1>19, <1>20, <1>21

(***************************************************************************)
(* Between two clean-ups no dependency is built twice.                     *)
(***************************************************************************)
LEMMA VersionsStep == IInv /\ [Next]_vars => Versions'
<1> SUFFICES ASSUME IInv, [Next]_vars PROVE Versions'
  OBVIOUS
<1>0. /\ Types /\ Nested /\ Locked /\ Absent /\ Resolved /\ Phases
      /\ Versions /\ Wired /\ ClientsKnown
  BY DEF IInv
<1>1. CASE UNCHANGED vars
  BY <1>0, <1>1 DEF vars, wiring, lifespan, Versions
<1>2. ASSUME NEW t \in Threads, Arrive(t) PROVE Versions'
  BY <1>0, <1>2 DEF Arrive, wiring, lifespan, threads, Versions
<1>3. ASSUME NEW t \in Threads, CheckFound(t) PROVE Versions'
  <2>1. phase' \in {phase, "installing"} /\ (phase' # phase => phase = "starting")
    BY <1>0, <1>3, Returning DEF ToCaller, ToNext, ToUser, Phases
  <2>2. UNCHANGED <<state, built, cleanups>>
    BY <1>3 DEF CheckFound, wiring
  <2>3. QED BY <1>0, <2>1, <2>2 DEF Versions
<1>4. ASSUME NEW t \in Threads, CheckMissed(t) PROVE Versions'
  BY <1>0, <1>4 DEF CheckMissed, wiring, lifespan, threads, Versions
<1>5. ASSUME NEW t \in Threads, Acquire(t) PROVE Versions'
  BY <1>0, <1>5 DEF Acquire, wiring, lifespan, threads, Versions
<1>6. ASSUME NEW t \in Threads, RecheckFound(t) PROVE Versions'
  <2>1. phase' \in {phase, "installing"} /\ (phase' # phase => phase = "starting")
    BY <1>0, <1>6, Returning DEF ToCaller, ToNext, ToUser, Phases
  <2>2. UNCHANGED <<state, built, cleanups>>
    BY <1>6 DEF RecheckFound, wiring
  <2>3. QED BY <1>0, <2>1, <2>2 DEF Versions
<1>7. ASSUME NEW t \in Threads, Call(t) PROVE Versions'
  BY <1>0, <1>7 DEF Call, wiring, lifespan, threads, Versions
<1>8. ASSUME NEW t \in Threads, Begin(t) PROVE Versions'
  BY <1>0, <1>8 DEF Begin, wiring, lifespan, threads, Versions
<1>9. ASSUME NEW t \in Threads, Build(t) PROVE Versions'
  <2>1. phase' \in {phase, "installing"} /\ phase \in {"starting", "down", "serving"}
    BY <1>0, <1>9, Returning DEF Build, Phases, Threads, ToCaller, ToNext, ToUser
  <2>2. cur[t] \in Deps /\ state[cur[t]] = 0 /\ built[cur[t]] \in Nat /\ cleanups \in Nat
    BY <1>0, <1>9 DEF Build, Absent, Types, TypeOK
  <2>3. Store(cur[t], got[t]) /\ cleanups' = cleanups
    BY <1>9 DEF Build
  <2>4. /\ built'[cur[t]] = built[cur[t]] + 1 /\ state'[cur[t]] = built[cur[t]] + 1
        /\ \A d \in Deps \ {cur[t]} : built'[d] = built[d] /\ state'[d] = state[d]
    BY <1>0, <2>3 DEF Store, Types, TypeOK
  <2>5. built[cur[t]] <= cleanups
    BY <1>0, <2>1, <2>2 DEF Versions
  <2>6. \A d \in Deps : built[d] \in Nat /\ state[d] \in Nat
    BY <1>0 DEF Types, TypeOK
  <2>7. QED BY <1>0, <2>1, <2>2, <2>3, <2>4, <2>5, <2>6 DEF Versions
<1>10. ASSUME NEW t \in Threads, BuildFails(t) PROVE Versions'
  <2>1. phase' \in {phase, "down"} /\ (phase' # phase => phase = "starting")
    BY <1>0, <1>10 DEF BuildFails, Phases
  <2>2. QED BY <1>0, <1>10, <2>1 DEF BuildFails, wiring, Versions
<1>11. ASSUME NEW t \in Threads, Finish(t) PROVE Versions'
  BY <1>0, <1>11 DEF Finish, wiring, lifespan, threads, Versions
<1>12. CASE Startup
  BY <1>0, <1>12 DEF Startup, wiring, lifespan, threads, Versions
<1>13. CASE InstallCache
  <2>1. phase' = "checking" /\ phase = "installing" /\ cleanups' = cleanups /\ "probe_cache" \in Deps
    BY <1>13, Graph DEF InstallCache, Chain
  <2>2. CASE state["probe_cache"] # 0 /\ UNCHANGED wiring
    BY <1>0, <2>1, <2>2 DEF wiring, Versions
  <2>3. CASE state["probe_cache"] = 0 /\ Store("probe_cache", got[Loop])
    <3>1. /\ built["probe_cache"] \in Nat /\ cleanups \in Nat /\ built["probe_cache"] <= cleanups
          /\ \A d \in Deps : built[d] \in Nat /\ state[d] \in Nat
      BY <1>0, <2>1, <2>3 DEF Versions, Types, TypeOK
    <3>2. /\ built'["probe_cache"] = built["probe_cache"] + 1 /\ state'["probe_cache"] = built["probe_cache"] + 1
          /\ \A d \in Deps \ {"probe_cache"} : built'[d] = built[d] /\ state'[d] = state[d]
      BY <1>0, <2>1, <2>3 DEF Store, Types, TypeOK
    <3>3. QED BY <1>0, <2>1, <3>1, <3>2 DEF Versions
  <2>4. QED BY <1>13, <2>2, <2>3 DEF InstallCache
<1>14. CASE Prime
  BY <1>0, <1>14 DEF Prime, wiring, lifespan, threads, Versions
<1>15. CASE CancelStartup
  BY <1>0, <1>15 DEF CancelStartup, wiring, lifespan, threads, Versions
<1>16. CASE Shutdown
  <2>1. \A d \in Deps : built[d] \in Nat /\ cleanups \in Nat
    BY <1>0 DEF Types, TypeOK
  <2>2. QED BY <1>0, <1>16, <2>1 DEF Shutdown, wiring, Versions
<1>17. CASE CleanInert
  BY <1>0, <1>17 DEF CleanInert, Remove, Versions
<1>18. CASE CloseProvider
  BY <1>0, <1>18 DEF CloseProvider, Remove, Versions
<1>19. CASE CloseFails
  BY <1>0, <1>19 DEF CloseFails, Remove, Versions
<1>20. CASE CancelCleanup
  BY <1>0, <1>20 DEF CancelCleanup, Remove, Versions
<1>21. CASE EndCleanup
  <2>1. \A d \in Deps : state[d] = 0 /\ built[d] \in Nat /\ cleanups \in Nat
    BY <1>0, <1>21 DEF EndCleanup, Phases, ToClean, Types, TypeOK
  <2>2. QED BY <1>0, <1>21, <2>1 DEF EndCleanup, wiring, Versions
<1>22. QED
  BY Cases, <1>1, <1>2, <1>3, <1>4, <1>5, <1>6, <1>7, <1>8, <1>9, <1>10, <1>11,
     <1>12, <1>13, <1>14, <1>15, <1>16, <1>17, <1>18, <1>19, <1>20, <1>21

(***************************************************************************)
(* What is put on app.state holds what is on app.state.                    *)
(***************************************************************************)
LEMMA WiredStep == IInv /\ [Next]_vars => Wired'
<1> SUFFICES ASSUME IInv, [Next]_vars PROVE Wired'
  OBVIOUS
<1>0. /\ Types /\ Nested /\ Locked /\ Absent /\ Resolved /\ Phases
      /\ Versions /\ Wired /\ ClientsKnown
  BY DEF IInv
<1>1. CASE UNCHANGED vars
  BY <1>0, <1>1 DEF vars, wiring, lifespan, Wired
<1>2. ASSUME NEW t \in Threads, Arrive(t) PROVE Wired'
  BY <1>0, <1>2 DEF Arrive, wiring, lifespan, threads, Wired
<1>3. ASSUME NEW t \in Threads, CheckFound(t) PROVE Wired'
  <2>1. phase' \in {phase, "installing"} /\ (phase' # phase => phase = "starting")
    BY <1>0, <1>3, Returning DEF ToCaller, ToNext, ToUser, Phases
  <2>2. UNCHANGED <<state, uses, seeded>>
    BY <1>3 DEF CheckFound, wiring
  <2>3. QED BY <1>0, <2>1, <2>2 DEF Wired
<1>4. ASSUME NEW t \in Threads, CheckMissed(t) PROVE Wired'
  BY <1>0, <1>4 DEF CheckMissed, wiring, lifespan, threads, Wired
<1>5. ASSUME NEW t \in Threads, Acquire(t) PROVE Wired'
  BY <1>0, <1>5 DEF Acquire, wiring, lifespan, threads, Wired
<1>6. ASSUME NEW t \in Threads, RecheckFound(t) PROVE Wired'
  <2>1. phase' \in {phase, "installing"} /\ (phase' # phase => phase = "starting")
    BY <1>0, <1>6, Returning DEF ToCaller, ToNext, ToUser, Phases
  <2>2. UNCHANGED <<state, uses, seeded>>
    BY <1>6 DEF RecheckFound, wiring
  <2>3. QED BY <1>0, <2>1, <2>2 DEF Wired
<1>7. ASSUME NEW t \in Threads, Call(t) PROVE Wired'
  BY <1>0, <1>7 DEF Call, wiring, lifespan, threads, Wired
<1>8. ASSUME NEW t \in Threads, Begin(t) PROVE Wired'
  BY <1>0, <1>8 DEF Begin, wiring, lifespan, threads, Wired
<1>9. ASSUME NEW t \in Threads, Build(t) PROVE Wired'
  <2>1. phase \in {"starting", "down", "serving"} /\ seeded' = seeded
    BY <1>0, <1>9 DEF Build, Phases, Threads
  <2>2. cur[t] \in Deps /\ state[cur[t]] = 0 /\ Store(cur[t], got[t]) /\ got[t] \in [Deps -> Nat]
    BY <1>0, <1>9 DEF Build, Absent, Types, TypeOK
  <2>3. ASSUME NEW c \in Collaborators(cur[t]) PROVE got[t][c] = state[c] /\ state[c] # 0
    <3>1. c \in Deps
      BY <2>2, Graph
    <3>2. CASE cur[t] \in Chain
      BY <1>0, <1>9, <2>2, <3>1, <3>2, Graph DEF Build, Resolved
    <3>3. CASE cur[t] = "service"
      <4>1. /\ Place(plan[t][at[t]], cur[t], outer[t]) /\ plan[t][at[t]] \in Deps
            /\ plan[t] \in {ExtractDeps, ReadyDeps, StartDeps} /\ at[t] \in 1..7 /\ Busy(t)
        BY <1>9, Returning DEF Build, Busy
      <4>2. plan[t][at[t]] = "service"
        BY <3>3, <4>1, PlaceFacts
      <4>3. at[t] \in 1..Len(plan[t])
        <5> DEFINE n == Len(plan[t])
        <5>1. n \in 1..7 /\ at[t] <= n /\ at[t] \in 1..7
          BY <1>0, <4>1, Plans DEF Types
        <5> HIDE DEF n
        <5>2. at[t] \in 1..n
          BY <5>1
        <5>3. QED BY <5>2 DEF n
      <4>4. plan[t] = ExtractDeps /\ at[t] = 7
        BY <4>1, <4>2, <4>3, Plans
      <4>5. PICK j \in 1..6 : ExtractDeps[j] = c
        BY <3>3, PartsFirst, Graph
      <4>6. j \in 1..at[t] /\ j < at[t]
        BY <4>4
      <4>7. got[t][plan[t][j]] # 0
        BY <1>0, <4>1, <4>6 DEF Resolved
      <4>8. QED BY <1>0, <3>1, <4>4, <4>5, <4>7 DEF Resolved
    <3>4. QED BY <2>2, <3>2, <3>3, Graph
  <2>4. /\ state'[cur[t]] # 0 /\ \A d \in Deps : d # cur[t] => state'[d] = state[d] /\ uses'[d] = uses[d]
        /\ uses'[cur[t]] = [c \in Deps |-> IF c \in Collaborators(cur[t]) THEN got[t][c] ELSE 0]
    <3>1. built[cur[t]] \in Nat
      BY <1>0, <2>2 DEF Types, TypeOK
    <3>2. QED BY <1>0, <2>2, <3>1 DEF Store, Types, TypeOK
  <2>5. ASSUME NEW d \in Deps, state'[d] # 0, ~(seeded' /\ d = "probe" /\ state'[d] = 1), NEW c \in Collaborators(d)
        PROVE  uses'[d][c] = state'[c] /\ state'[c] # 0
    <3>1. c \in Deps /\ c # d
      BY Graph
    <3>2. CASE d = cur[t]
      BY <2>3, <2>4, <2>5, <3>1, <3>2
    <3>3. CASE d # cur[t]
      <4>1. uses[d][c] = state[c] /\ state[c] # 0
        BY <1>0, <2>1, <2>4, <2>5, <3>3 DEF Wired
      <4>2. c # cur[t]
        BY <2>2, <4>1
      <4>3. QED BY <2>4, <3>1, <3>3, <4>1, <4>2
    <3>4. QED BY <3>2, <3>3
  <2>6. QED BY <2>5 DEF Wired
<1>10. ASSUME NEW t \in Threads, BuildFails(t) PROVE Wired'
  <2>1. phase' \in {phase, "down"} /\ (phase' # phase => phase = "starting")
    BY <1>0, <1>10 DEF BuildFails, Phases
  <2>2. QED BY <1>0, <1>10, <2>1 DEF BuildFails, wiring, Wired
<1>11. ASSUME NEW t \in Threads, Finish(t) PROVE Wired'
  BY <1>0, <1>11 DEF Finish, wiring, lifespan, threads, Wired
<1>12. CASE Startup
  BY <1>0, <1>12 DEF Startup, wiring, lifespan, threads, Wired
<1>13. CASE InstallCache
  <2>1. phase = "installing" /\ seeded' = seeded /\ Loop \in Threads
    BY <1>13 DEF InstallCache, Threads
  <2>2. CASE UNCHANGED wiring
    BY <1>0, <2>1, <2>2 DEF wiring, Wired
  <2>3. CASE state["probe_cache"] = 0 /\ Store("probe_cache", got[Loop])
    <3>1. /\ "probe_cache" \in Deps /\ "probe" \in Deps /\ Collaborators("probe_cache") = {"probe"}
          /\ got[Loop]["probe"] = state["probe"] /\ state["probe"] # 0 /\ built["probe_cache"] \in Nat
      BY <1>0, <2>1, Graph DEF Chain, Phases, Resolved, Types, TypeOK
    <3>2. /\ state'["probe_cache"] # 0 /\ uses'["probe_cache"]["probe"] = got[Loop]["probe"]
          /\ \A d \in Deps : d # "probe_cache" => state'[d] = state[d] /\ uses'[d] = uses[d]
      BY <1>0, <2>3, <3>1 DEF Store, Types, TypeOK
    <3>3. ASSUME NEW d \in Deps, state'[d] # 0, ~(seeded' /\ d = "probe" /\ state'[d] = 1), NEW c \in Collaborators(d)
          PROVE  uses'[d][c] = state'[c] /\ state'[c] # 0
      <4>1. CASE d = "probe_cache"
        BY <3>1, <3>2, <3>3, <4>1
      <4>2. CASE d # "probe_cache"
        <5>1. c \in Deps /\ uses[d][c] = state[c] /\ state[c] # 0
          BY <1>0, <2>1, <3>2, <3>3, <4>2, Graph DEF Wired
        <5>2. QED BY <2>3, <3>2, <4>2, <5>1
      <4>3. QED BY <4>1, <4>2
    <3>4. QED BY <3>3 DEF Wired
  <2>4. QED BY <1>13, <2>2, <2>3 DEF InstallCache
<1>14. CASE Prime
  BY <1>0, <1>14 DEF Prime, wiring, lifespan, threads, Wired
<1>15. CASE CancelStartup
  BY <1>0, <1>15 DEF CancelStartup, wiring, lifespan, threads, Wired
<1>16. CASE Shutdown
  BY <1>0, <1>16 DEF Shutdown, wiring, lifespan, threads, Wired
<1>17. CASE CleanInert
  BY <1>0, <1>17 DEF CleanInert, wiring, lifespan, threads, Wired
<1>18. CASE CloseProvider
  BY <1>0, <1>18 DEF CloseProvider, wiring, lifespan, threads, Wired
<1>19. CASE CloseFails
  BY <1>0, <1>19 DEF CloseFails, wiring, lifespan, threads, Wired
<1>20. CASE CancelCleanup
  BY <1>0, <1>20 DEF CancelCleanup, wiring, lifespan, threads, Wired
<1>21. CASE EndCleanup
  <2>1. \A d \in Deps : state'[d] = 0
    BY <1>0, <1>21 DEF EndCleanup, Phases, ToClean, wiring
  <2>2. QED BY <2>1 DEF Wired
<1>22. QED
  BY Cases, <1>1, <1>2, <1>3, <1>4, <1>5, <1>6, <1>7, <1>8, <1>9, <1>10, <1>11,
     <1>12, <1>13, <1>14, <1>15, <1>16, <1>17, <1>18, <1>19, <1>20, <1>21

(***************************************************************************)
(* The open clients stay known.                                            *)
(***************************************************************************)
LEMMA ClientsStep == IInv /\ [Next]_vars => ClientsKnown'
<1> SUFFICES ASSUME IInv, [Next]_vars PROVE ClientsKnown'
  OBVIOUS
<1>0. /\ Types /\ Nested /\ Locked /\ Absent /\ Resolved /\ Phases
      /\ Versions /\ Wired /\ ClientsKnown
  BY DEF IInv
<1>1. CASE UNCHANGED vars
  BY <1>0, <1>1 DEF vars, wiring, ClientsMatchState, ClientsKnown
<1>2. ASSUME NEW t \in Threads, Arrive(t) PROVE ClientsKnown'
  BY <1>0, <1>2 DEF Arrive, wiring, ClientsMatchState, ClientsKnown
<1>3. ASSUME NEW t \in Threads, CheckFound(t) PROVE ClientsKnown'
  BY <1>0, <1>3 DEF CheckFound, wiring, ClientsMatchState, ClientsKnown
<1>4. ASSUME NEW t \in Threads, CheckMissed(t) PROVE ClientsKnown'
  BY <1>0, <1>4 DEF CheckMissed, wiring, ClientsMatchState, ClientsKnown
<1>5. ASSUME NEW t \in Threads, Acquire(t) PROVE ClientsKnown'
  BY <1>0, <1>5 DEF Acquire, wiring, ClientsMatchState, ClientsKnown
<1>6. ASSUME NEW t \in Threads, RecheckFound(t) PROVE ClientsKnown'
  BY <1>0, <1>6 DEF RecheckFound, wiring, ClientsMatchState, ClientsKnown
<1>7. ASSUME NEW t \in Threads, Call(t) PROVE ClientsKnown'
  BY <1>0, <1>7 DEF Call, wiring, ClientsMatchState, ClientsKnown
<1>8. ASSUME NEW t \in Threads, Begin(t) PROVE ClientsKnown'
  BY <1>0, <1>8 DEF Begin, wiring, ClientsMatchState, ClientsKnown
<1>9. ASSUME NEW t \in Threads, Build(t) PROVE ClientsKnown'
  <2>1. cur[t] \in Deps /\ state[cur[t]] = 0 /\ Store(cur[t], got[t])
    BY <1>0, <1>9 DEF Build, Absent, Types, TypeOK
  <2>2. CASE cur[t] = "provider"
    <3>1. /\ state["provider"] = 0 /\ state'["provider"] = built["provider"] + 1
          /\ built'["provider"] = built["provider"] + 1 /\ broken' = broken
          /\ clients' = clients \cup {built["provider"] + 1} /\ built["provider"] \in Nat
      BY <1>0, <2>1, <2>2 DEF Store, Types, TypeOK
    <3>2. \A b \in broken : b \in Nat
      BY <1>0 DEF Types, TypeOK
    <3>3. QED BY <1>0, <3>1, <3>2 DEF ClientsMatchState, ClientsKnown
  <2>3. CASE cur[t] # "provider"
    <3>1. "provider" \in Deps
      BY Graph DEF Chain
    <3>2. /\ state'["provider"] = state["provider"] /\ built'["provider"] = built["provider"]
          /\ broken' = broken /\ clients' = clients
      BY <1>0, <2>1, <2>3, <3>1 DEF Store, Types, TypeOK
    <3>3. QED BY <1>0, <3>2 DEF ClientsMatchState, ClientsKnown
  <2>4. QED BY <2>2, <2>3
<1>10. ASSUME NEW t \in Threads, BuildFails(t) PROVE ClientsKnown'
  BY <1>0, <1>10 DEF BuildFails, wiring, ClientsMatchState, ClientsKnown
<1>11. ASSUME NEW t \in Threads, Finish(t) PROVE ClientsKnown'
  BY <1>0, <1>11 DEF Finish, wiring, ClientsMatchState, ClientsKnown
<1>12. CASE Startup
  BY <1>0, <1>12 DEF Startup, wiring, ClientsMatchState, ClientsKnown
<1>13. CASE InstallCache
  <2>1. CASE UNCHANGED wiring
    BY <1>0, <2>1 DEF wiring, ClientsMatchState, ClientsKnown
  <2>2. CASE Store("probe_cache", got[Loop])
    <3>1. "provider" \in Deps /\ "provider" # "probe_cache"
      BY Graph DEF Chain
    <3>2. /\ state'["provider"] = state["provider"] /\ built'["provider"] = built["provider"]
          /\ broken' = broken /\ clients' = clients
      BY <1>0, <2>2, <3>1 DEF Store, Types, TypeOK
    <3>3. QED BY <1>0, <3>2 DEF ClientsMatchState, ClientsKnown
  <2>3. QED BY <1>13, <2>1, <2>2 DEF InstallCache
<1>14. CASE Prime
  BY <1>0, <1>14 DEF Prime, wiring, ClientsMatchState, ClientsKnown
<1>15. CASE CancelStartup
  BY <1>0, <1>15 DEF CancelStartup, wiring, ClientsMatchState, ClientsKnown
<1>16. CASE Shutdown
  BY <1>0, <1>16 DEF Shutdown, wiring, ClientsMatchState, ClientsKnown
<1>17. CASE CleanInert
  <2>1. state'["provider"] = state["provider"] /\ UNCHANGED <<built, clients, broken>>
    BY <1>17, Graph DEF CleanInert, Remove, Chain
  <2>2. QED BY <1>0, <2>1 DEF ClientsMatchState, ClientsKnown
<1>18. CASE CloseProvider
  <2>1. state["provider"] # 0 /\ state["provider"] = built["provider"] /\ built["provider"] \in Nat
    BY <1>0, <1>18 DEF CloseProvider, Phases, ToClean, Versions, Types, TypeOK
  <2>2. state'["provider"] = 0 /\ built' = built
    BY <2>1, <1>18, Graph DEF CloseProvider, Remove, Chain
  <2>3. QED BY <1>0, <1>18, <2>1, <2>2 DEF CloseProvider, ClientsMatchState, ClientsKnown
<1>19. CASE CloseFails
  <2>1. state["provider"] # 0 /\ state["provider"] = built["provider"] /\ built["provider"] \in Nat
    BY <1>0, <1>19 DEF CloseFails, Phases, ToClean, Versions, Types, TypeOK
  <2>2. state'["provider"] = 0 /\ built' = built
    BY <2>1, <1>19, Graph DEF CloseFails, Remove, Chain
  <2>3. QED BY <1>0, <1>19, <2>1, <2>2 DEF CloseFails, ClientsMatchState, ClientsKnown
<1>20. CASE CancelCleanup
  <2>1. state["provider"] # 0 /\ state["provider"] = built["provider"] /\ built["provider"] \in Nat
    BY <1>0, <1>20 DEF CancelCleanup, Phases, ToClean, Versions, Types, TypeOK
  <2>2. state'["provider"] = 0 /\ built' = built
    BY <2>1, <1>20, Graph DEF CancelCleanup, Remove, Chain
  <2>3. QED BY <1>0, <1>20, <2>1, <2>2 DEF CancelCleanup, ClientsMatchState, ClientsKnown
<1>21. CASE EndCleanup
  BY <1>0, <1>21 DEF EndCleanup, wiring, ClientsMatchState, ClientsKnown
<1>22. QED
  BY Cases, <1>1, <1>2, <1>3, <1>4, <1>5, <1>6, <1>7, <1>8, <1>9, <1>10, <1>11,
     <1>12, <1>13, <1>14, <1>15, <1>16, <1>17, <1>18, <1>19, <1>20, <1>21

-----------------------------------------------------------------------------
(* The theorems                                                            *)

(***************************************************************************)
(* The invariant holds before the first thread runs.                       *)
(***************************************************************************)
THEOREM AppStateInit == Init => IInv
<1> SUFFICES ASSUME Init PROVE IInv
  OBVIOUS
<1>1. /\ Loop \in Threads /\ "probe" \in Deps /\ "provider" \in Deps /\ Nothing \in [Deps -> Nat]
      /\ Len(StartDeps) = 1 /\ StartDeps[1] = "probe" /\ \A d \in Deps : Nothing[d] = 0
  BY DEF Threads, Deps, ApiDeps, Nothing, StartDeps
<1>2. state \in [Deps -> Nat] /\ \A d \in Deps : state[d] = IF d = "probe" /\ seeded THEN 1 ELSE 0
  BY DEF Init
<1>3. Types
  <2>1. state \in [Deps -> Nat] /\ built \in [Deps -> Nat] /\ uses \in [Deps -> [Deps -> Nat]]
    BY <1>1, <1>2 DEF Init
  <2>2. /\ cur \in [Threads -> Deps] /\ plan \in [Threads -> {ExtractDeps, ReadyDeps, StartDeps}]
        /\ at \in [Threads -> 1..7] /\ got \in [Threads -> [Deps -> Nat]]
    BY <1>1 DEF Init
  <2>3. \A t \in Threads : at[t] <= Len(plan[t])
    <3>1. \A t \in Threads : at[t] = 1 /\ plan[t] = StartDeps
      BY DEF Init
    <3> HIDE DEF StartDeps
    <3>2. \A t \in Threads : Len(plan[t]) = 1
      BY <1>1, <3>1
    <3>3. QED BY <3>1, <3>2
  <2>4. QED BY <2>1, <2>2, <2>3, AppStateAssumption DEF Init, Types, TypeOK
<1>4. Nested /\ Locked /\ Absent
  BY DEF Init, Nested, Busy, Locked, Absent
<1>5. Resolved /\ Phases
  <2>1. \A t \in Threads : pc[t] = "idle" /\ got[t] = Nothing
    BY DEF Init
  <2>2. QED BY <1>1, <2>1 DEF Init, Busy, Resolved, Phases, Threads
<1>6. Versions
  BY <1>2 DEF Init, Versions
<1>7. Wired
  <2>1. \A d \in Deps : state[d] # 0 => seeded /\ d = "probe" /\ state[d] = 1
    BY <1>2
  <2>2. QED BY <2>1 DEF Wired
<1>8. ClientsKnown
  <2>1. state["provider"] = 0 /\ clients = {} /\ broken = {}
    BY <1>1, <1>2 DEF Init
  <2>2. QED BY <2>1 DEF ClientsKnown, ClientsMatchState
<1>9. QED BY <1>3, <1>4, <1>5, <1>6, <1>7, <1>8 DEF IInv

(***************************************************************************)
(* Every step keeps it: locks stay with the thread that is inside their    *)
(* factories (Locked), what such a thread has seen to be absent stays absent *)
(* until it stores it (Absent), and instances hold each other (Wired).     *)
(***************************************************************************)
THEOREM AppStateInvariant == Spec => []IInv
<1>1. IInv /\ [Next]_vars => IInv'
  BY TypeStep, NestedStep, LockedStep, AbsentStep, ResolvedStep, PhasesStep, VersionsStep, WiredStep, ClientsStep
  DEF IInv
<1>2. QED BY AppStateInit, <1>1, PTL DEF Spec

(***************************************************************************)
(* The types of AppState.                                                  *)
(***************************************************************************)
THEOREM AppStateTypes == Spec => []TypeOK
<1>1. IInv => TypeOK
  BY DEF IInv, Types
<1>2. QED BY AppStateInvariant, <1>1, PTL

(***************************************************************************)
(* Between two clean-ups every dependency is created at most once.         *)
(***************************************************************************)
THEOREM CreatedOnce == Spec => []OneInstance
<1>1. IInv => OneInstance
  <2> SUFFICES ASSUME IInv, phase # "dead", NEW d \in Deps PROVE built[d] <= cleanups + 1
    BY DEF OneInstance
  <2>1. built[d] \in Nat /\ cleanups \in Nat
    BY DEF IInv, Types, TypeOK
  <2>2. QED BY <2>1 DEF IInv, Versions
<1>2. QED BY AppStateInvariant, <1>1, PTL

(***************************************************************************)
(* Instances and requests hold what is on app.state.                       *)
(***************************************************************************)
THEOREM Undrifted == Spec => []NoDrift
<1>1. IInv => NoDrift
  BY DEF IInv, Wired, Resolved, Phases, NoDrift
<1>2. QED BY AppStateInvariant, <1>1, PTL

(***************************************************************************)
(* No client is leaked, and none that is in use is closed.                 *)
(***************************************************************************)
THEOREM ClientsMatch == Spec => []ClientsMatchState
<1>1. IInv => ClientsMatchState
  BY DEF IInv, ClientsKnown
<1>2. QED BY AppStateInvariant, <1>1, PTL

=============================================================================
