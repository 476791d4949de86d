-------------------------- MODULE WithTimeoutProofs --------------------------
(***************************************************************************)
(* Proofs about WithTimeout, for any number of helpers and of signals: a   *)
(* wrapper that ends by its deadline or by a handler has seen the command  *)
(* end, and the exit code is that of the last signal that was handled.     *)
(***************************************************************************)
EXTENDS WithTimeout, TLAPS

Frames ==
  [why : {"main", "124"} \cup SignalSet, lock : {"free", "held", "taken"},
   at : {"wait", "expired", "poll", "term", "grace", "kill", "last", "done"}]

\* What is known of an open call: the body's wait is the only one that is not a
\* termination; whoever is past the kill, or has been told of the child's end,
\* has seen it end.
FrameOK(f) ==
  /\ f.at \in {"wait", "expired"} <=> f.why = "main"
  /\ f.at \in {"last", "done"} => proc["root"] = "dead"
  /\ f.lock = "taken" => reaped

\* The life of the child and of the wrapper.
ChildInv ==
  /\ reaped => proc["root"] = "dead"
  /\ known => reaped
  /\ stage \in {"parse", "popen"} => proc["root"] = "unborn" /\ swept = "none"
  /\ stage \in {"arming", "body", "restoring"} => proc["root"] # "unborn"
  /\ stage \in {"parse", "popen", "exited"} => stack = <<>>
  /\ stage # "exited" => code = "none"

\* Whom the signals to the group have left.
SweptInv ==
  /\ swept # "none" => Running \subseteq stubborn \cup late
  /\ swept = "kill" => Running = {}

\* The reason for which the wrapper ends is that of the last signal handled, if
\* there was one; a reason of the wrapper's own has seen the child end.
Decided(reason) ==
  /\ reason \in SignalSet => handled # <<>> /\ reason = handled[Len(handled)]
  /\ reason \in {"main", "child", "124"} => handled = <<>>

Ended(reason) ==
  /\ reason \in SignalSet \cup {"124"} => proc["root"] = "dead"
  /\ reason = "child" => known

\* No call below the running one goes on: what runs decides.
ReasonInv ==
  /\ stack # <<>> => Decided(Top.why)
  /\ stack = <<>> /\ stage \in {"parse", "popen", "arming"} => handled = <<>>
  /\ stage = "restoring" => Ended(result) /\ (stack = <<>> => Decided(result))
  /\ stage = "body" => stack # <<>>
  /\ Ended(code) /\ Decided(code)

IInv ==
  /\ TypeOK /\ (\A i \in DOMAIN stack : FrameOK(stack[i]))
  /\ ChildInv /\ SweptInv /\ ReasonInv

-----------------------------------------------------------------------------
(* The stack                                                               *)

(***************************************************************************)
(* Another last frame in the place of the running one.                     *)
(***************************************************************************)
LEMMA SetLast ==
  ASSUME NEW S, NEW s \in Seq(S), s # <<>>, NEW f \in S
  PROVE  LET t == [s EXCEPT ![Len(s)] = f]
         IN  /\ t \in Seq(S) /\ t # <<>> /\ t[Len(t)] = f
             /\ \A i \in DOMAIN t : t[i] = f \/ (i \in DOMAIN s /\ t[i] = s[i])
<1> DEFINE t == [s EXCEPT ![Len(s)] = f]
<1>1. Len(s) \in Nat /\ Len(s) >= 1 /\ DOMAIN s = 1..Len(s)
  OBVIOUS
<1>2. t \in Seq(S) /\ Len(t) = Len(s) /\ DOMAIN t = 1..Len(s)
  BY <1>1
<1>3. t[Len(s)] = f
  BY <1>1
<1>4. ASSUME NEW i \in 1..Len(s), i # Len(s)
      PROVE  t[i] = s[i]
  BY <1>1, <1>4
<1> HIDE DEF t
<1>5. t # <<>>
  BY <1>1, <1>2
<1>6. QED BY <1>1, <1>2, <1>3, <1>4, <1>5 DEF t

(***************************************************************************)
(* A call on top of those that are open.                                   *)
(***************************************************************************)
LEMMA Pushed ==
  ASSUME NEW S, NEW s \in Seq(S), NEW f \in S
  PROVE  /\ Append(s, f) \in Seq(S) /\ Append(s, f) # <<>>
         /\ Append(s, f)[Len(Append(s, f))] = f
         /\ \A i \in DOMAIN Append(s, f) :
              Append(s, f)[i] = f \/ (i \in DOMAIN s /\ Append(s, f)[i] = s[i])
<1>1. Len(s) \in Nat /\ DOMAIN s = 1..Len(s)
  OBVIOUS
<1>2. /\ Append(s, f) \in Seq(S) /\ Len(Append(s, f)) = Len(s) + 1
      /\ DOMAIN Append(s, f) = 1..(Len(s) + 1) /\ Append(s, f)[Len(s) + 1] = f
      /\ \A i \in 1..Len(s) : Append(s, f)[i] = s[i]
  BY <1>1
<1>3. \A i \in 1..(Len(s) + 1) : i = Len(s) + 1 \/ i \in 1..Len(s)
  BY <1>1
<1>4. Append(s, f) # <<>>
  BY <1>1, <1>2
<1>5. QED BY <1>1, <1>2, <1>3, <1>4

(***************************************************************************)
(* The running call is one of the frames.                                  *)
(***************************************************************************)
LEMMA TopIsFrame ==
  ASSUME IInv, stack # <<>>
  PROVE  /\ stack \in Seq(Frames) /\ Top \in Frames /\ FrameOK(Top)
         /\ [stack EXCEPT ![Len(stack)] = Top] = stack
<1>1. stack \in Seq(Frames)
  BY DEF IInv, TypeOK, Frames
<1>2. Len(stack) \in DOMAIN stack /\ stack[Len(stack)] \in Frames
  BY <1>1
<1>3. FrameOK(stack[Len(stack)])
  BY <1>2 DEF IInv
<1>4. [stack EXCEPT ![Len(stack)] = stack[Len(stack)]] = stack
  BY <1>1
<1>5. QED BY <1>1, <1>2, <1>3, <1>4 DEF Top

\* The running call becomes f, or f is called on top of it.
LastBecomes(f) ==
  /\ stack' \in Seq(Frames) /\ stack' # <<>> /\ stack'[Len(stack')] = f
  /\ \A i \in DOMAIN stack' : stack'[i] = f \/ (i \in DOMAIN stack /\ stack'[i] = stack[i])

\* SetLock and Goto.
LEMMA RunningCallMoves ==
  ASSUME IInv, stack # <<>>, NEW f \in Frames, stack' = [stack EXCEPT ![Len(stack)] = f]
  PROVE  LastBecomes(f)
<1>1. stack \in Seq(Frames)
  BY TopIsFrame
<1>2. QED BY <1>1, SetLast, Zenon DEF LastBecomes

\* SetReturncode, of a call that is a termination.
LEMMA LastIsExchanged ==
  ASSUME IInv, stack # <<>>, NEW f \in Frames, stack' = Append(Below, f)
  PROVE  LastBecomes(f)
<1>1. stack \in Seq(Frames)
  BY TopIsFrame
<1>2. Len(stack) \in Nat /\ Len(stack) >= 1 /\ DOMAIN stack = 1..Len(stack)
  BY <1>1
<1>3. /\ Below \in Seq(Frames) /\ Len(Below) = Len(stack) - 1
      /\ \A i \in 1..(Len(stack) - 1) : Below[i] = stack[i]
  BY <1>1, <1>2 DEF Below
<1>4. \A i \in DOMAIN Below : i \in DOMAIN stack /\ Below[i] = stack[i]
  BY <1>2, <1>3
<1>5. /\ stack' \in Seq(Frames) /\ stack' # <<>> /\ stack'[Len(stack')] = f
      /\ \A i \in DOMAIN stack' : stack'[i] = f \/ (i \in DOMAIN Below /\ stack'[i] = Below[i])
  BY <1>3, Pushed
<1>6. QED BY <1>4, <1>5 DEF LastBecomes

\* Signal.
LEMMA CallIsPushed ==
  ASSUME IInv, NEW f \in Frames, stack' = Append(stack, f)
  PROVE  LastBecomes(f)
<1>1. stack \in Seq(Frames)
  BY DEF IInv, TypeOK, Frames
<1> DEFINE t == Append(stack, f)
<1>2. /\ t \in Seq(Frames) /\ t # <<>> /\ t[Len(t)] = f
      /\ \A i \in DOMAIN t : t[i] = f \/ (i \in DOMAIN stack /\ t[i] = stack[i])
  BY <1>1, Pushed
<1>3. stack' = t
  OBVIOUS
<1> HIDE DEF t
<1>4. QED BY <1>2, <1>3, Zenon DEF LastBecomes

-----------------------------------------------------------------------------
(* The steps                                                               *)

(***************************************************************************)
(* What a step of the running call, or a call on top of it, has to keep.   *)
(***************************************************************************)
LEMMA CallGoesOn ==
  ASSUME IInv, stage \in {"arming", "body", "restoring"}, NEW f \in Frames, LastBecomes(f),
         UNCHANGED <<stage, armed, result, code, stubborn, late>>,
         proc' \in [Members -> {"unborn", "running", "dead"}],
         proc["root"] = "dead" => proc'["root"] = "dead", proc'["root"] # "unborn",
         reaped' \in BOOLEAN, known' \in BOOLEAN, reaped => reaped', known => known',
         reaped' => proc'["root"] = "dead", known' => reaped',
         swept' \in {"none", "term", "kill"}, SweptInv',
         handled' \in Seq(SignalSet), Decided(f.why)', FrameOK(f)'
  PROVE  IInv'
<1>1. TypeOK'
  BY DEF IInv, TypeOK, LastBecomes, Frames
<1>2. (\A i \in DOMAIN stack : FrameOK(stack[i]))'
  <2> SUFFICES ASSUME NEW i \in DOMAIN stack' PROVE FrameOK(stack[i])'
    OBVIOUS
  <2>1. CASE stack'[i] = f
    BY <2>1 DEF FrameOK
  <2>2. CASE i \in DOMAIN stack /\ stack'[i] = stack[i]
    <3>1. FrameOK(stack[i])
      BY <2>2 DEF IInv
    <3>2. QED BY <2>2, <3>1 DEF FrameOK
  <2>3. QED BY <2>1, <2>2 DEF LastBecomes
<1>3. ChildInv'
  BY DEF IInv, ChildInv, LastBecomes
<1>4. ReasonInv'
  <2>1. stack' # <<>> /\ Top' = f
    BY DEF LastBecomes, Top
  <2>2. Decided(Top.why)'
    BY <2>1 DEF Decided
  <2>3. code = "none" /\ (stage = "restoring" => Ended(result))
    BY DEF IInv, ChildInv, ReasonInv
  <2>4. Ended(code)' /\ Decided(code)' /\ (stage = "restoring" => Ended(result)')
    BY <2>3 DEF Ended, Decided, SignalSet
  <2>5. QED BY <2>1, <2>2, <2>4 DEF ReasonInv
<1>5. QED BY <1>1, <1>2, <1>3, <1>4 DEF IInv

(***************************************************************************)
(* The calls that are open end together, with the reason of the running    *)
(* one.                                                                    *)
(***************************************************************************)
LEMMA CallsEnd ==
  ASSUME IInv, stack # <<>>, NEW reason \in Codes, Leave(reason),
         UNCHANGED <<group, reaped, armed, swept, handled>>,
         known' \in BOOLEAN, known => known', known' => reaped,
         Decided(reason), Ended(reason)'
  PROVE  IInv'
<1>1. stack' = <<>> /\ stage \in {"arming", "body", "restoring"} /\ code = "none"
  BY DEF IInv, TypeOK, ChildInv, Leave
<1>2. TypeOK'
  <2>1. stack' \in Seq([why : {"main", "124"} \cup SignalSet, lock : {"free", "held", "taken"},
                        at : {"wait", "expired", "poll", "term", "grace", "kill", "last", "done"}])
    BY <1>1
  <2>2. stage' \in {"restoring", "exited"} /\ result' \in Codes /\ code' \in Codes
    BY DEF Leave, IInv, TypeOK
  <2>3. QED BY <2>1, <2>2 DEF IInv, TypeOK, group
<1>3. (\A i \in DOMAIN stack : FrameOK(stack[i]))'
  BY <1>1
<1>4. ChildInv'
  BY <1>1 DEF IInv, ChildInv, Leave, group
<1>5. SweptInv'
  BY DEF IInv, SweptInv, Running, group
<1>6. ReasonInv'
  <2>1. Decided(reason)'
    BY DEF Decided
  <2>2. CASE stage = "body"
    BY <1>1, <2>1, <2>2 DEF Leave, ReasonInv, Ended, Decided, SignalSet
  <2>3. CASE stage # "body"
    BY <1>1, <2>1, <2>3 DEF Leave, ReasonInv, Ended, Decided, SignalSet
  <2>4. QED BY <2>2, <2>3
<1>7. QED BY <1>2, <1>3, <1>4, <1>5, <1>6 DEF IInv

(***************************************************************************)
(* The command and its helpers: the root never comes back, and who is      *)
(* forked after the first signal to the group is late.                     *)
(***************************************************************************)
LEMMA GroupKept ==
  ASSUME IInv, stage # "exited",
         UNCHANGED <<stubborn, child, stage, armed, stack, result, code, swept, handled>>,
         proc' \in [Members -> {"unborn", "running", "dead"}], late' \in SUBSET Members,
         proc["root"] = "dead" => proc'["root"] = "dead",
         proc["root"] = "unborn" <=> proc'["root"] = "unborn",
         SweptInv'
  PROVE  IInv'
<1> USE DEF IInv, child
<1>1. TypeOK'
  BY DEF TypeOK
<1>2. (\A i \in DOMAIN stack : FrameOK(stack[i]))'
  BY DEF FrameOK
<1>3. ChildInv'
  BY DEF ChildInv
<1>4. ReasonInv'
  BY DEF ReasonInv, Decided, Ended, Top
<1>5. QED BY <1>1, <1>2, <1>3, <1>4

\* A helper is forked by a member that runs: none is after SIGKILL.
LEMMA ForkStep ==
  ASSUME IInv, Fork
  PROVE  IInv'
<1>1. PICK m \in Running, h \in Helpers :
        /\ proc[h] = "unborn" /\ proc' = [proc EXCEPT ![h] = "running"]
        /\ late' = IF swept = "none" THEN late ELSE late \cup {h}
  BY DEF Fork
<1>2. h # "root" /\ h \in Members /\ "root" \in Members
  BY WithTimeoutAssumption DEF Members
<1>3. Running' = Running \cup {h}
  BY <1>1, <1>2 DEF Running, IInv, TypeOK
<1>4. SweptInv'
  BY <1>1, <1>3 DEF Fork, IInv, SweptInv
<1>5. QED BY <1>1, <1>2, <1>4, GroupKept DEF Fork, IInv, TypeOK

\* A member of the group ends by itself.
LEMMA ExitStep ==
  ASSUME IInv, NEW m \in Members, Exit(m)
  PROVE  IInv'
<1>1. proc' = [proc EXCEPT ![m] = "dead"] /\ m \in Running
  BY DEF Exit
<1>2. Running' \subseteq Running
  BY <1>1 DEF Running, IInv, TypeOK
<1>3. SweptInv'
  BY <1>2 DEF Exit, IInv, SweptInv
<1>4. "root" \in Members
  BY DEF Members
<1>5. QED BY <1>1, <1>3, <1>4, GroupKept DEF Exit, Running, IInv, TypeOK

(***************************************************************************)
(* The start and the end of the wrapper: once a signal has been handled    *)
(* the with statement is left before the next handler could be installed.  *)
(***************************************************************************)
LEMMA StartStep ==
  ASSUME IInv, Parse \/ Popen
  PROVE  IInv'
<1> USE DEF IInv
<1>1. /\ UNCHANGED <<stubborn, late, child, armed, stack, result, swept, handled>>
      /\ stack = <<>> /\ handled = <<>> /\ proc["root"] = "unborn" /\ swept = "none"
      /\ ~reaped /\ ~known
  BY DEF Parse, Popen, group, child, ChildInv, ReasonInv, TypeOK
<1>2. CASE Parse
  <2>1. proc' = proc /\ \/ stage' = "popen" /\ code' = code
                        \/ stage' = "exited" /\ code' = "2"
    BY <1>2 DEF Parse, group
  <2>2. TypeOK'
    BY <1>1, <2>1 DEF TypeOK, Codes, child
  <2>3. ChildInv' /\ SweptInv'
    BY <1>1, <1>2, <2>1 DEF Parse, ChildInv, SweptInv, child
  <2>4. ReasonInv'
    BY <1>1, <1>2, <2>1 DEF Parse, ChildInv, ReasonInv, Decided, Ended, SignalSet, child
  <2>5. QED BY <1>1, <2>2, <2>3, <2>4
<1>3. CASE Popen
  <2>1. /\ "root" \in Members /\ code = "none"
        /\ \/ /\ proc' = [proc EXCEPT !["root"] = "running"]
              /\ stage' = "arming" /\ code' = code
           \/ stage' = "exited" /\ code' = "1" /\ proc' = proc
    BY <1>3 DEF Popen, Members, ChildInv
  <2>2. TypeOK'
    BY <1>1, <2>1 DEF TypeOK, Codes, child
  <2>3. ChildInv' /\ SweptInv'
    BY <1>1, <2>1 DEF ChildInv, SweptInv, TypeOK, child
  <2>4. ReasonInv'
    BY <1>1, <2>1 DEF ReasonInv, Decided, Ended, SignalSet, child
  <2>5. QED BY <1>1, <2>2, <2>3, <2>4
<1>4. QED BY <1>2, <1>3

\* Between two handlers that are installed, or put back, nothing is open.
LEMMA HandlersStep ==
  ASSUME IInv, Install \/ Restore
  PROVE  IInv'
<1> USE DEF IInv
<1>1. /\ UNCHANGED <<group, child, result, swept, handled>>
      /\ stack = <<>> /\ stage \in {"arming", "restoring"}
  BY DEF Install, Restore
<1>2. SweptInv'
  BY <1>1 DEF SweptInv, Running, group
<1>3. CASE Install
  <2>1. \/ armed < 3 /\ armed' = armed + 1 /\ UNCHANGED <<stage, stack, code>>
        \/ /\ stage' = "body" /\ stack' = <<Call("main", "wait")>> /\ UNCHANGED <<armed, code>>
    BY <1>3 DEF Install
  <2>2. handled = <<>> /\ code = "none" /\ proc["root"] # "unborn"
    BY <1>3 DEF Install, ReasonInv, ChildInv
  <2>3. CASE armed < 3 /\ armed' = armed + 1 /\ UNCHANGED <<stage, stack, code>>
    BY <1>1, <1>2, <2>3 DEF TypeOK, FrameOK, ChildInv, ReasonInv, Decided, Ended, Top, group, child
  <2>4. CASE stage' = "body" /\ stack' = <<Call("main", "wait")>> /\ UNCHANGED <<armed, code>>
    <3>1. Call("main", "wait") \in Frames
      BY DEF Call, Frames
    <3>2. /\ stack' \in Seq(Frames) /\ stack' # <<>> /\ Len(stack') = 1 /\ DOMAIN stack' = {1}
          /\ stack'[1] = Call("main", "wait")
      BY <2>4, <3>1
    <3>3. TypeOK'
      BY <1>1, <2>4, <3>2 DEF TypeOK, Frames, group, child
    <3>4. (\A i \in DOMAIN stack : FrameOK(stack[i]))'
      BY <3>2 DEF FrameOK, Call
    <3>5. ChildInv'
      BY <1>1, <2>2, <2>4 DEF ChildInv, group, child
    <3>6. ReasonInv'
      BY <1>1, <2>2, <2>4, <3>2 DEF ReasonInv, Decided, Ended, Top, Call, SignalSet, child
    <3>7. QED BY <1>2, <3>3, <3>4, <3>5, <3>6
  <2>5. QED BY <2>1, <2>3, <2>4
<1>4. CASE Restore
  <2>1. \/ armed > 0 /\ armed' = armed - 1 /\ UNCHANGED <<stage, stack, code>>
        \/ armed = 0 /\ stage' = "exited" /\ code' = result /\ UNCHANGED <<stack, armed>>
    BY <1>4 DEF Restore
  <2>2. Ended(result) /\ Decided(result) /\ code = "none" /\ result \in Codes
    BY <1>4 DEF Restore, ReasonInv, ChildInv, TypeOK
  <2>3. TypeOK'
    <3>1. armed' \in 0..3 /\ stage' \in {"parse", "popen", "arming", "body", "restoring", "exited"}
      BY <1>1, <2>1 DEF TypeOK
    <3>2. stack' = stack /\ code' \in Codes
      BY <2>1, <2>2 DEF TypeOK
    <3>3. QED BY <1>1, <3>1, <3>2 DEF TypeOK, group, child
  <2>4. (\A i \in DOMAIN stack : FrameOK(stack[i]))' /\ ChildInv'
    BY <1>1, <2>1 DEF ChildInv, group, child
  <2>5. ReasonInv'
    BY <1>1, <1>4, <2>1, <2>2 DEF Restore, ReasonInv, Decided, Ended, SignalSet, group, child
  <2>6. QED BY <1>2, <2>3, <2>4, <2>5
<1>5. QED BY <1>3, <1>4

(***************************************************************************)
(* Popen.wait: who is told of the child's end by waitpid has it dead.      *)
(***************************************************************************)
LEMMA WaitSteps ==
  ASSUME IInv, Look \/ StillRuns \/ Reap \/ SetReturncode
  PROVE  IInv'
<1>1. stack # <<>> /\ stack \in Seq(Frames) /\ Top \in Frames /\ FrameOK(Top)
  BY TopIsFrame DEF Look, StillRuns, Reap, SetReturncode, At
<1>2. /\ stage \in {"arming", "body", "restoring"} /\ proc["root"] # "unborn" /\ Decided(Top.why)
      /\ code = "none" /\ (reaped => proc["root"] = "dead") /\ (known => reaped)
  BY <1>1 DEF IInv, ChildInv, ReasonInv, TypeOK
<1>3. /\ proc \in [Members -> {"unborn", "running", "dead"}] /\ handled \in Seq(SignalSet)
      /\ swept \in {"none", "term", "kill"} /\ reaped \in BOOLEAN /\ known \in BOOLEAN
  BY DEF IInv, TypeOK
<1>4. UNCHANGED <<group, armed, handled, swept>>
  BY DEF Look, StillRuns, Reap, SetReturncode, group
<1>5. SweptInv'
  BY <1>4 DEF IInv, SweptInv, Running, group
<1>6. ASSUME NEW what \in {"free", "held", "taken"}, SetLock(what),
             UNCHANGED <<known, stage, result, code>>,
             reaped' \in BOOLEAN, reaped => reaped', reaped' => proc["root"] = "dead",
             what = "taken" => reaped'
      PROVE  IInv'
  <2>1. PICK f \in Frames : f = [Top EXCEPT !.lock = what]
    BY <1>1 DEF Frames
  <2>2. f.why = Top.why /\ f.at = Top.at /\ f.lock = what
    BY <1>1, <2>1 DEF Frames
  <2>3. stack' = [stack EXCEPT ![Len(stack)] = f]
    BY <1>6, <2>1 DEF SetLock, Top
  <2>4. LastBecomes(f)
    BY <1>1, <2>3, RunningCallMoves
  <2>5. FrameOK(f)'
    BY <1>1, <1>4, <1>6, <2>2 DEF FrameOK, group
  <2>6. Decided(f.why)'
    BY <1>2, <1>4, <2>2 DEF Decided
  <2>7. known' => reaped'
    BY <1>2, <1>6
  <2>8. UNCHANGED <<proc, stubborn, late>>
    BY <1>4 DEF group
  <2>9. QED BY <1>2, <1>3, <1>4, <1>5, <1>6, <2>4, <2>5, <2>6, <2>7, <2>8, CallGoesOn
<1>7. CASE Look \/ StillRuns
  BY <1>2, <1>3, <1>6, <1>7 DEF Look, StillRuns, child
<1>8. CASE Reap
  BY <1>2, <1>3, <1>6, <1>8 DEF Reap
<1>9. CASE SetReturncode
  <2>1. known' = TRUE /\ reaped' = reaped /\ reaped /\ proc["root"] = "dead"
    BY <1>1, <1>2, <1>9 DEF SetReturncode, FrameOK
  <2>2. CASE Top.why = "main"
    <3>1. Leave("child")
      BY <1>9, <2>2 DEF SetReturncode
    <3>2. Decided("child") /\ Ended("child")' /\ "child" \in Codes
      BY <1>2, <2>1, <2>2 DEF Decided, Ended, SignalSet, Codes
    <3>3. QED BY <1>1, <1>4, <2>1, <3>1, <3>2, CallsEnd
  <2>3. CASE Top.why # "main"
    <3>1. PICK f \in Frames : f = Call(Top.why, "done")
      BY <1>1 DEF Call, Frames
    <3>2. f.why = Top.why /\ f.at = "done" /\ f.lock = "free"
      BY <3>1 DEF Call
    <3>3. stack' = Append(Below, f) /\ UNCHANGED <<stage, result, code>>
      BY <1>9, <2>3, <3>1 DEF SetReturncode
    <3>4. LastBecomes(f)
      BY <1>1, <3>3, LastIsExchanged
    <3>5. FrameOK(f)'
      BY <1>4, <2>1, <2>3, <3>2 DEF FrameOK, group
    <3>6. Decided(f.why)'
      BY <1>2, <1>4, <3>2 DEF Decided
    <3>7. UNCHANGED <<proc, stubborn, late>>
      BY <1>4 DEF group
    <3>8. QED BY <1>2, <1>3, <1>4, <1>5, <2>1, <3>3, <3>4, <3>5, <3>6, <3>7, CallGoesOn
  <2>4. QED BY <2>2, <2>3
<1>10. QED BY <1>7, <1>8, <1>9

(***************************************************************************)
(* The deadline or a signal with a handler: a termination begins, on top   *)
(* of what runs.  Only the body's wait has a deadline, so that a handler   *)
(* keeps it from passing.                                                  *)
(***************************************************************************)
LEMMA TerminationBegins ==
  ASSUME IInv, DeadlinePasses \/ \E i \in 1..3 : Signal(i)
  PROVE  IInv'
<1> USE DEF IInv
<1>1. CASE DeadlinePasses
  <2> DEFINE f == [Top EXCEPT !.at = "expired"]
             g == Call("124", "poll")
             s == [stack EXCEPT ![Len(stack)] = f]
  <2>1. stack # <<>> /\ stack \in Seq(Frames) /\ Top \in Frames /\ FrameOK(Top) /\ Top.at = "wait"
    BY <1>1, TopIsFrame DEF DeadlinePasses, At
  <2>2. /\ f \in Frames /\ f.why = "main" /\ f.at = "expired" /\ f.lock = Top.lock
        /\ g \in Frames /\ g.why = "124" /\ g.at = "poll" /\ g.lock = "free"
    BY <2>1 DEF Frames, FrameOK, Call
  <2>3. stack' = Append(s, g)
    BY <1>1 DEF DeadlinePasses, Top
  <2>4. /\ s \in Seq(Frames)
        /\ \A i \in DOMAIN s : s[i] = f \/ (i \in DOMAIN stack /\ s[i] = stack[i])
    BY <2>1, <2>2, SetLast, Zenon
  <2>5. UNCHANGED <<group, child, stage, armed, result, code, swept, handled>>
    BY <1>1 DEF DeadlinePasses
  <2> HIDE DEF f, g, s
  <2>6. /\ stack' \in Seq(Frames) /\ stack' # <<>> /\ stack'[Len(stack')] = g
        /\ \A i \in DOMAIN stack' : stack'[i] = g \/ (i \in DOMAIN s /\ stack'[i] = s[i])
    BY <2>2, <2>3, <2>4, Pushed
  <2>7. \A i \in DOMAIN stack' :
          stack'[i] = g \/ stack'[i] = f \/ (i \in DOMAIN stack /\ stack'[i] = stack[i])
    BY <2>4, <2>6
  <2>8. /\ stage \in {"arming", "body", "restoring"} /\ handled = <<>> /\ code = "none"
    BY <2>1 DEF ChildInv, ReasonInv, TypeOK, Decided, FrameOK
  <2>9. TypeOK'
    BY <2>5, <2>6 DEF TypeOK, Frames, group, child
  <2>10. (\A i \in DOMAIN stack : FrameOK(stack[i]))'
    BY <2>1, <2>2, <2>5, <2>7 DEF FrameOK, group, child
  <2>11. ChildInv' /\ SweptInv'
    BY <2>5, <2>6, <2>8 DEF ChildInv, SweptInv, Running, group, child
  <2>12. ReasonInv'
    BY <2>2, <2>5, <2>6, <2>8 DEF ReasonInv, Decided, Ended, Top, SignalSet, group, child
  <2>13. QED BY <2>9, <2>10, <2>11, <2>12
<1>2. ASSUME NEW i \in 1..3, Signal(i)
      PROVE  IInv'
  <2>1. Signals[i] \in SignalSet
    BY DEF Signals, SignalSet
  <2>2. /\ UNCHANGED <<group, child, armed, result, swept>>
        /\ stage \in {"arming", "body", "restoring"} /\ code = "none" /\ proc["root"] # "unborn"
    BY <1>2 DEF Signal, ChildInv
  <2>3. SweptInv'
    BY <2>2 DEF SweptInv, Running, group
  <2>4. CASE /\ stack' = Append(stack, Call(Signals[i], "poll"))
             /\ handled' = Append(handled, Signals[i]) /\ UNCHANGED <<stage, code>>
    <3> DEFINE f == Call(Signals[i], "poll")
    <3>1. f \in Frames /\ f.why = Signals[i] /\ f.at = "poll" /\ f.lock = "free"
      BY <2>1 DEF Call, Frames
    <3>2. LastBecomes(f)
      BY <2>4, <3>1, CallIsPushed
    <3> HIDE DEF f
    <3>3. handled' \in Seq(SignalSet) /\ handled' # <<>> /\ handled'[Len(handled')] = Signals[i]
      BY <2>1, <2>4, Pushed DEF TypeOK
    <3>4. Decided(f.why)' /\ FrameOK(f)'
      BY <2>1, <2>2, <3>1, <3>3 DEF Decided, FrameOK, SignalSet, group, child
    <3>5. QED BY <2>2, <2>3, <2>4, <3>1, <3>2, <3>3, <3>4, CallGoesOn
              DEF TypeOK, ChildInv, group, child
  <2>5. CASE stage' = "exited" /\ code' = "killed" /\ stack' = <<>> /\ UNCHANGED handled
    <3>1. TypeOK'
      <4>1. stack' \in Seq([why : {"main", "124"} \cup SignalSet, lock : {"free", "held", "taken"},
                            at : {"wait", "expired", "poll", "term", "grace", "kill", "last", "done"}])
        BY <2>5
      <4>2. QED BY <2>2, <2>5, <4>1 DEF TypeOK, Codes, group, child
    <3>2. (\A j \in DOMAIN stack : FrameOK(stack[j]))'
      BY <2>5
    <3>3. ChildInv' /\ ReasonInv'
      BY <2>2, <2>5 DEF ChildInv, ReasonInv, Decided, Ended, SignalSet, group, child
    <3>4. QED BY <2>3, <3>1, <3>2, <3>3
  <2>6. QED BY <1>2, <2>4, <2>5 DEF Signal
<1>3. QED BY <1>1, <1>2

(***************************************************************************)
(* _terminate_process_tree: nobody passes the kill, or is told that the    *)
(* group or the child has gone, while the root runs.                       *)
(***************************************************************************)
LEMMA TerminationSteps ==
  ASSUME IInv,
         PollGone \/ PollNone \/ NoGroup \/ Terminate \/ GraceOver \/ Kill \/ LastOver \/ Terminated
  PROVE  IInv'
<1>1. stack # <<>> /\ stack \in Seq(Frames) /\ Top \in Frames /\ FrameOK(Top)
  BY TopIsFrame DEF PollGone, PollNone, NoGroup, Terminate, GraceOver, Kill, LastOver,
                    Terminated, At
<1>2. /\ stage \in {"arming", "body", "restoring"} /\ proc["root"] # "unborn" /\ Decided(Top.why)
      /\ code = "none" /\ (reaped => proc["root"] = "dead") /\ (known => reaped)
  BY <1>1 DEF IInv, ChildInv, ReasonInv, TypeOK
<1>3. /\ proc \in [Members -> {"unborn", "running", "dead"}] /\ handled \in Seq(SignalSet)
      /\ swept \in {"none", "term", "kill"} /\ reaped \in BOOLEAN /\ known \in BOOLEAN
      /\ "root" \in Members
  BY DEF IInv, TypeOK, Members
<1>4. CASE Terminated
  <2>1. Leave(Top.why) /\ UNCHANGED <<group, child, armed, swept, handled>> /\ Top.at = "done"
    BY <1>4 DEF Terminated, At
  <2>2. Top.why \in Codes /\ Top.why # "child" /\ proc["root"] = "dead"
    BY <1>1, <2>1 DEF Frames, FrameOK, Codes, SignalSet
  <2>3. PICK reason \in Codes : reason = Top.why
    BY <2>2
  <2>4. Leave(reason) /\ Decided(reason) /\ Ended(reason)'
    BY <1>1, <1>2, <2>1, <2>2, <2>3 DEF Ended, FrameOK, group, child, SignalSet, Frames
  <2>5. QED BY <1>1, <1>2, <1>3, <2>1, <2>4, CallsEnd DEF child
<1>5. ASSUME NEW place \in {"term", "grace", "kill", "last", "done"}, Goto(place),
             Top.at \notin {"wait", "expired"},
             UNCHANGED <<stubborn, late, stage, armed, result, code, handled>>,
             proc' \in [Members -> {"unborn", "running", "dead"}],
             proc["root"] = "dead" => proc'["root"] = "dead", proc'["root"] # "unborn",
             reaped' \in BOOLEAN, known' \in BOOLEAN, reaped => reaped', known => known',
             reaped' => proc["root"] = "dead", known' => reaped',
             swept' \in {"none", "term", "kill"}, SweptInv',
             place \in {"last", "done"} => proc'["root"] = "dead"
      PROVE  IInv'
  <2>1. PICK f \in Frames : f = [Top EXCEPT !.at = place]
    BY <1>1 DEF Frames
  <2>2. f.why = Top.why /\ f.at = place /\ f.lock = Top.lock
    BY <1>1, <2>1 DEF Frames
  <2>3. stack' = [stack EXCEPT ![Len(stack)] = f]
    BY <1>5, <2>1 DEF Goto, Top
  <2>4. LastBecomes(f)
    BY <1>1, <2>3, RunningCallMoves
  <2>5. FrameOK(f)'
    BY <1>1, <1>5, <2>2 DEF FrameOK
  <2>6. Decided(f.why)'
    BY <1>2, <1>5, <2>2 DEF Decided
  <2>7. QED BY <1>2, <1>3, <1>5, <2>4, <2>5, <2>6, CallGoesOn
<1>6. CASE PollGone \/ PollNone \/ NoGroup \/ GraceOver \/ LastOver
  <2>1. /\ UNCHANGED <<group, stage, armed, result, code, swept, handled>>
        /\ Top.at \notin {"wait", "expired"}
    BY <1>6 DEF PollGone, PollNone, NoGroup, GraceOver, LastOver, At
  <2>2. SweptInv'
    BY <2>1 DEF IInv, SweptInv, Running, group
  <2>3. proc' = proc /\ stubborn' = stubborn /\ late' = late
    BY <2>1 DEF group
  <2>4. CASE PollGone
    <3>1. Goto("done") /\ reaped' /\ known' /\ reaped' \in BOOLEAN /\ known' \in BOOLEAN
          /\ proc["root"] = "dead"
      BY <1>2, <2>4 DEF PollGone
    <3>2. QED BY <1>2, <1>3, <1>5, <2>1, <2>2, <2>3, <3>1
  <2>5. CASE PollNone \/ NoGroup \/ GraceOver \/ LastOver
    <3>1. reaped' = reaped /\ known' = known
      BY <2>5 DEF PollNone, NoGroup, GraceOver, LastOver, child
    <3>2. PICK place \in {"term", "kill", "done"} :
            Goto(place) /\ (place = "done" => proc["root"] = "dead")
      BY <1>1, <1>2, <2>5 DEF PollNone, NoGroup, GraceOver, LastOver, At, FrameOK
    <3>3. QED BY <1>2, <1>3, <1>5, <2>1, <2>2, <2>3, <3>1, <3>2
  <2>6. QED BY <1>6, <2>4, <2>5
<1>7. CASE Terminate
  <2>1. /\ proc' = [m \in Members |-> IF m \in Running \ stubborn THEN "dead" ELSE proc[m]]
        /\ swept' = "term" /\ Goto("grace") /\ Top.at = "term"
        /\ UNCHANGED <<stubborn, late, child, stage, armed, result, code, handled>>
    BY <1>7 DEF Terminate, At
  <2>2. Running' \subseteq stubborn
    BY <1>3, <2>1 DEF Running
  <2>3. SweptInv'
    BY <2>1, <2>2 DEF SweptInv
  <2>4. /\ proc' \in [Members -> {"unborn", "running", "dead"}] /\ proc'["root"] # "unborn"
        /\ proc["root"] = "dead" => proc'["root"] = "dead"
    BY <1>2, <1>3, <2>1
  <2>5. reaped' = reaped /\ known' = known
    BY <2>1 DEF child
  <2>6. QED BY <1>2, <1>3, <1>5, <2>1, <2>3, <2>4, <2>5
<1>8. CASE Kill
  <2>1. /\ proc' = [m \in Members |-> IF m \in Running THEN "dead" ELSE proc[m]]
        /\ swept' = "kill" /\ Goto("last") /\ Top.at = "kill"
        /\ UNCHANGED <<stubborn, late, child, stage, armed, result, code, handled>>
    BY <1>8 DEF Kill, At
  <2>2. Running' = {}
    BY <1>3, <2>1 DEF Running
  <2>3. SweptInv'
    BY <2>1, <2>2 DEF SweptInv
  <2>4. /\ proc' \in [Members -> {"unborn", "running", "dead"}] /\ proc'["root"] = "dead"
    BY <1>2, <1>3, <2>1 DEF Running
  <2>5. reaped' = reaped /\ known' = known
    BY <2>1 DEF child
  <2>6. QED BY <1>2, <1>3, <1>5, <2>1, <2>3, <2>4, <2>5
<1>9. QED BY <1>4, <1>6, <1>7, <1>8

-----------------------------------------------------------------------------
(* The theorems                                                            *)

(***************************************************************************)
(* The invariant holds of a wrapper that has not started the command, and  *)
(* every step keeps it.                                                    *)
(***************************************************************************)
THEOREM WithTimeoutInvariant == Spec => []IInv
<1>1. Init => IInv
  <2> SUFFICES ASSUME Init PROVE IInv
    OBVIOUS
  <2>1. TypeOK
    <3>1. stack \in Seq([why : {"main", "124"} \cup SignalSet, lock : {"free", "held", "taken"},
                         at : {"wait", "expired", "poll", "term", "grace", "kill", "last", "done"}])
      BY DEF Init
    <3>2. handled \in Seq(SignalSet)
      BY DEF Init
    <3>3. armed \in 0..3 /\ proc \in [Members -> {"unborn", "running", "dead"}]
      BY DEF Init
    <3>4. QED BY <3>1, <3>2, <3>3, Zenon DEF Init, TypeOK, Codes
  <2>2. (\A i \in DOMAIN stack : FrameOK(stack[i])) /\ ChildInv
    BY DEF Init, ChildInv, Members
  <2>3. SweptInv /\ ReasonInv
    BY DEF Init, SweptInv, ReasonInv, Decided, Ended, SignalSet
  <2>4. QED BY <2>1, <2>2, <2>3 DEF IInv
<1>2. IInv /\ [Next]_vars => IInv'
  <2> SUFFICES ASSUME IInv, [Next]_vars PROVE IInv'
    OBVIOUS
  <2>1. CASE UNCHANGED vars
    BY <2>1 DEF IInv, TypeOK, FrameOK, ChildInv, SweptInv, ReasonInv, Decided, Ended, Running, Top,
                vars, group, child
  <2>2. CASE WrapperStep
    BY <2>2, StartStep, HandlersStep, WaitSteps, TerminationBegins, TerminationSteps
       DEF WrapperStep, WaitStep, TimeoutStep, KillStep
  <2>3. CASE Fork \/ \E m \in Members : Exit(m)
    BY <2>3, ForkStep, ExitStep
  <2>4. CASE \E i \in 1..3 : Signal(i)
    BY <2>4, TerminationBegins
  <2>5. QED BY <2>1, <2>2, <2>3, <2>4 DEF Next
<1>3. QED
  BY <1>1, <1>2, PTL DEF Spec

\* The model's variables keep their types.
THEOREM WrapperTypes == Spec => []TypeOK
<1>1. IInv => TypeOK
  BY DEF IInv
<1>2. QED BY <1>1, WithTimeoutInvariant, PTL

\* A wrapper that ends by its deadline or by a handler has seen the end of the
\* command, and SIGKILL spares nobody of its group.
THEOREM RootIsGone == Spec => []RootGone
<1>1. IInv => RootGone
  BY DEF IInv, ReasonInv, SweptInv, Ended, RootGone
<1>2. QED BY <1>1, WithTimeoutInvariant, PTL

\* A handled signal decides the exit code, the last one if there were several.
THEOREM SignalDecides == Spec => []HandledSignalDecides
<1>1. IInv => HandledSignalDecides
  BY DEF IInv, ReasonInv, Decided, Ended, HandledSignalDecides
<1>2. QED BY <1>1, WithTimeoutInvariant, PTL

=============================================================================
