----------------------------- MODULE WithTimeout -----------------------------
(***************************************************************************)
(* src/infra/taskfile/with_timeout.py: run a command in a session of its   *)
(* own with a deadline, and take its process group along when the deadline *)
(* passes or the wrapper is told to stop.                                  *)
(*                                                                         *)
(* The wrapper is one thread.  A signal handler runs on top of whatever it *)
(* interrupts, also on top of another handler, and ends by raising         *)
(* SystemExit, so that nothing below it ever goes on: stack holds the      *)
(* calls that are open, the last of which runs.  Popen.wait and Popen.poll *)
(* share a lock that is not re-entrant; a handler that interrupts wait     *)
(* inside it learns nothing of the child (subprocess.py).                  *)
(***************************************************************************)
EXTENDS Naturals, Sequences

CONSTANTS
  Helpers,     \* the processes the command may fork, in its process group
  MaxSignals   \* bound: signals the wrapper gets

ASSUME WithTimeoutAssumption == "root" \notin Helpers /\ MaxSignals \in Nat

\* The child of the wrapper, the leader of the group, and its helpers.
Members == {"root"} \cup Helpers

\* _TERMINATING_SIGNALS, in the order of their installation.
Signals == <<"INT", "TERM", "HUP">>
SignalSet == {"INT", "TERM", "HUP"}

VARIABLES
  proc,      \* "unborn", "running" or "dead" for each member of the group
  stubborn,  \* the members SIGTERM does not end
  reaped,    \* waitpid has returned the root
  known,     \* Popen.returncode is set
  stage,     \* where main and _run_with_deadline are
  armed,     \* how many of Signals have their handler
  stack,     \* the open calls: _run_with_deadline's wait and _terminate_process_tree's
  result,    \* what the with statement is being left with
  code,      \* the exit code of the wrapper
  swept,     \* the last signal sent to the group
  late,      \* the members forked after the first
  handled    \* the signals that found a handler

group == <<proc, stubborn, late>>
child == <<reaped, known>>
vars == <<group, child, stage, armed, stack, result, code, swept, handled>>

Codes == {"none", "child", "124", "1", "2", "killed"} \cup SignalSet

TypeOK ==
  /\ proc \in [Members -> {"unborn", "running", "dead"}]
  /\ stubborn \in SUBSET Members /\ late \in SUBSET Members
  /\ reaped \in BOOLEAN /\ known \in BOOLEAN
  /\ stage \in {"parse", "popen", "arming", "body", "restoring", "exited"}
  /\ armed \in 0..3
  /\ stack \in Seq([why : {"main", "124"} \cup SignalSet, lock : {"free", "held", "taken"},
                     at : {"wait", "expired", "poll", "term", "grace", "kill", "last", "done"}])
  /\ result \in Codes /\ code \in Codes
  /\ swept \in {"none", "term", "kill"} /\ handled \in Seq(SignalSet)

Running == {m \in Members : proc[m] = "running"}

Top == stack[Len(stack)]
At(place) == stack # <<>> /\ Top.at = place /\ Top.lock = "free"
Goto(place) == stack' = [stack EXCEPT ![Len(stack)].at = place]
SetLock(what) == stack' = [stack EXCEPT ![Len(stack)].lock = what]
Below == SubSeq(stack, 1, Len(stack) - 1)
Call(reason, place) == [why |-> reason, at |-> place, lock |-> "free"]

\* Popen._waitpid_lock is held by a call the running one has interrupted.
LockHeld == \E i \in 1..(Len(stack) - 1) : stack[i].lock # "free"

-----------------------------------------------------------------------------
(* The command and its helpers, as long as the wrapper lives                *)

Fork ==
  /\ stage # "exited"
  /\ \E m \in Running, h \in Helpers :
       /\ proc[h] = "unborn"
       /\ proc' = [proc EXCEPT ![h] = "running"]
       /\ late' = IF swept = "none" THEN late ELSE late \cup {h}
  /\ UNCHANGED <<stubborn, child, stage, armed, stack, result, code, swept, handled>>

Exit(m) ==
  /\ stage # "exited" /\ m \in Running
  /\ proc' = [proc EXCEPT ![m] = "dead"]
  /\ UNCHANGED <<stubborn, late, child, stage, armed, stack, result, code, swept, handled>>

-----------------------------------------------------------------------------
(* Start and end of the wrapper                                            *)

\* What _parse_args accepts: a positive number of seconds (0 stands for
\* what is none) and, behind at most one "--", a command.
Accepts(seconds, words) ==
  /\ words # <<>> /\ seconds \in Nat \ {0}
  /\ words # <<"--">>

Parse ==
  /\ stage = "parse"
  /\ \E seconds \in {0, 1}, words \in {<<>>, <<"--">>, <<"cmd">>, <<"--", "cmd">>} :
       \/ Accepts(seconds, words) /\ stage' = "popen" /\ UNCHANGED code
       \/ ~Accepts(seconds, words) /\ stage' = "exited" /\ code' = "2"
  /\ UNCHANGED <<group, child, armed, stack, result, swept, handled>>

\* Popen with setsid: the child runs in a group of its own.  Or Popen raises (no
\* such command), and the wrapper ends with the traceback.
Popen ==
  /\ stage = "popen"
  /\ \/ /\ proc' = [proc EXCEPT !["root"] = "running"]
        /\ stage' = "arming" /\ UNCHANGED code
     \/ stage' = "exited" /\ code' = "1" /\ UNCHANGED proc
  /\ UNCHANGED <<stubborn, late, child, armed, stack, result, swept, handled>>

\* The next handler is installed; after the last one, the body of the with.
Install ==
  /\ stage = "arming" /\ stack = <<>>
  /\ \/ armed < 3 /\ armed' = armed + 1 /\ UNCHANGED <<stage, stack>>
     \/ armed = 3 /\ stage' = "body" /\ stack' = <<Call("main", "wait")>>
        /\ UNCHANGED armed
  /\ UNCHANGED <<group, child, result, code, swept, handled>>

\* The with statement is left with a return value or a SystemExit.
Leave(with) ==
  /\ stack' = <<>>
  /\ \/ stage = "body" /\ stage' = "restoring" /\ result' = with /\ UNCHANGED code
     \/ stage # "body" /\ stage' = "exited" /\ code' = with /\ UNCHANGED result

\* The finally puts the handlers back, in the same order, and main returns.
Restore ==
  /\ stage = "restoring" /\ stack = <<>>
  /\ \/ armed > 0 /\ armed' = armed - 1 /\ UNCHANGED <<stage, code>>
     \/ armed = 0 /\ stage' = "exited" /\ code' = result /\ UNCHANGED armed
  /\ UNCHANGED <<group, child, stack, result, swept, handled>>

-----------------------------------------------------------------------------
(* Popen.wait, in the body and in _terminate_process_tree                  *)

\* A round of the loop of wait takes the lock ...
Look ==
  /\ At("wait") \/ At("grace") \/ At("last")
  /\ ~LockHeld
  /\ SetLock("held")
  /\ UNCHANGED <<group, child, stage, armed, result, code, swept, handled>>

\* ... waitpid says that the root still runs, the lock is released and wait
\* sleeps ...
StillRuns ==
  /\ stack # <<>> /\ Top.lock = "held" /\ proc["root"] = "running"
  /\ SetLock("free")
  /\ UNCHANGED <<group, child, stage, armed, result, code, swept, handled>>

\* ... or waitpid returns the root ...
Reap ==
  /\ stack # <<>> /\ Top.lock = "held" /\ proc["root"] = "dead"
  /\ reaped' = TRUE /\ SetLock("taken")
  /\ UNCHANGED <<group, known, stage, armed, result, code, swept, handled>>

\* ... returncode is set, the lock is released, and wait returns.
SetReturncode ==
  /\ stack # <<>> /\ Top.lock = "taken"
  /\ known' = TRUE
  /\ IF Top.why = "main"
     THEN Leave("child")
     ELSE stack' = Append(Below, Call(Top.why, "done")) /\ UNCHANGED <<stage, result, code>>
  /\ UNCHANGED <<group, reaped, armed, swept, handled>>

\* The deadline passes.
DeadlinePasses ==
  /\ At("wait")
  /\ stack' = Append([stack EXCEPT ![Len(stack)].at = "expired"], Call("124", "poll"))
  /\ UNCHANGED <<group, child, stage, armed, result, code, swept, handled>>

-----------------------------------------------------------------------------
(* _terminate_process_tree                                                 *)

\* poll() says that the child has gone; it reaps it if need be.
PollGone ==
  /\ At("poll") /\ ~LockHeld /\ (known \/ proc["root"] = "dead")
  /\ reaped' = TRUE /\ known' = TRUE
  /\ Goto("done")
  /\ UNCHANGED <<group, stage, armed, result, code, swept, handled>>

\* poll() says None: the child runs, or the lock is held further down.
PollNone ==
  /\ At("poll") /\ (LockHeld \/ (~known /\ proc["root"] # "dead"))
  /\ Goto("term")
  /\ UNCHANGED <<group, child, stage, armed, result, code, swept, handled>>

\* killpg finds no group: every member is gone and the root reaped.
NoGroup ==
  /\ At("term") \/ At("kill")
  /\ Running = {} /\ reaped
  /\ Goto("done")
  /\ UNCHANGED <<group, child, stage, armed, result, code, swept, handled>>

GroupThere == Running # {} \/ ~reaped

\* killpg(SIGTERM)
Terminate ==
  /\ At("term") /\ GroupThere
  /\ proc' = [m \in Members |-> IF m \in Running \ stubborn THEN "dead" ELSE proc[m]]
  /\ swept' = "term" /\ Goto("grace")
  /\ UNCHANGED <<stubborn, late, child, stage, armed, result, code, handled>>

\* Mutant of GraceOver: no second phase.
GraceOverGiveUp ==
  /\ At("grace") /\ Goto("done")
  /\ UNCHANGED <<group, child, stage, armed, result, code, swept, handled>>

GraceOver ==
  /\ At("grace") /\ Goto("kill")
  /\ UNCHANGED <<group, child, stage, armed, result, code, swept, handled>>

\* killpg(SIGKILL)
Kill ==
  /\ At("kill") /\ GroupThere
  /\ proc' = [m \in Members |-> IF m \in Running THEN "dead" ELSE proc[m]]
  /\ swept' = "kill" /\ Goto("last")
  /\ UNCHANGED <<stubborn, late, child, stage, armed, result, code, handled>>

\* Mutant of LastOver: the last wait has no timeout.
LastForever == FALSE /\ UNCHANGED vars

\* The second wait runs out, too: the lock is held by a call below.
LastOver ==
  /\ At("last") /\ Goto("done")
  /\ UNCHANGED <<group, child, stage, armed, result, code, swept, handled>>

\* Mutant of Terminated: a handler returns instead of raising SystemExit.
TerminatedReturns ==
  /\ At("done")
  /\ \/ Top.why = "124" /\ Leave("124")
     \/ Top.why # "124" /\ Below # <<>> /\ stack' = Below /\ UNCHANGED <<stage, result, code>>
     \/ Top.why # "124" /\ Below = <<>> /\ stack' = <<>> /\ UNCHANGED <<stage, result, code>>
  /\ UNCHANGED <<group, child, armed, swept, handled>>

\* _terminate_process_tree returns: after the deadline the wrapper returns
\* 124, a handler raises SystemExit through every call below it.
Terminated ==
  /\ At("done") /\ Leave(Top.why)
  /\ UNCHANGED <<group, child, armed, swept, handled>>

-----------------------------------------------------------------------------

\* A signal comes.  With a handler it is served on top of what runs; without,
\* before the handlers are in place or after, it ends the wrapper.
Signal(i) ==
  /\ stage \in {"arming", "body", "restoring"} /\ Len(handled) < MaxSignals
  /\ \/ /\ IF stage = "restoring" THEN i > 3 - armed ELSE i <= armed
        /\ stack' = Append(stack, Call(Signals[i], "poll"))
        /\ handled' = Append(handled, Signals[i])
        /\ UNCHANGED <<stage, code>>
     \/ /\ ~(IF stage = "restoring" THEN i > 3 - armed ELSE i <= armed)
        /\ stage' = "exited" /\ code' = "killed" /\ stack' = <<>>
        /\ UNCHANGED handled
  /\ UNCHANGED <<group, child, armed, result, swept>>

Init ==
  /\ proc = [m \in Members |-> "unborn"] /\ stubborn \in SUBSET Members
  /\ reaped = FALSE /\ known = FALSE
  /\ stage = "parse" /\ armed = 0 /\ stack = <<>>
  /\ result = "none" /\ code = "none" /\ swept = "none"
  /\ late = {} /\ handled = <<>>

WaitStep == Look \/ StillRuns \/ Reap \/ SetReturncode
TimeoutStep == DeadlinePasses \/ GraceOver \/ LastOver
KillStep == PollGone \/ PollNone \/ NoGroup \/ Terminate \/ Kill \/ Terminated
WrapperStep == Parse \/ Popen \/ Install \/ Restore \/ WaitStep \/ TimeoutStep \/ KillStep

Next ==
  \/ WrapperStep \/ Fork
  \/ (\E m \in Members : Exit(m)) \/ (\E i \in 1..3 : Signal(i))

\* The wrapper is scheduled, and however often it has looked, its deadlines
\* pass at last.  Nothing is assumed of the command.
Fairness == WF_vars(WrapperStep) /\ SF_vars(TimeoutStep)

Spec == Init /\ [][Next]_vars /\ Fairness

-----------------------------------------------------------------------------
(* Properties                                                              *)

\* A wrapper that ends by its deadline or by a handler has seen the end of
\* the command, and whoever of the group still runs ignores SIGTERM, was
\* forked after it, or was left alone because the command had ended by itself;
\* SIGKILL spares nobody (_terminate_process_tree).
RootGone ==
  code \in SignalSet \cup {"124"} =>
    /\ proc["root"] = "dead"
    /\ swept # "none" => Running \subseteq stubborn \cup late
    /\ swept = "kill" => Running = {}

\* A signal that was handled decides the exit code, the last one if there
\* were several, also over a deadline that had passed and over a command that
\* had ended (exit codes 124 and 128 + signum of the header).
HandledSignalDecides ==
  /\ code \in SignalSet => handled # <<>> /\ code = handled[Len(handled)]
  /\ code \in {"child", "124"} => handled = <<>>
  /\ code = "child" => known

\* The wrapper comes to its end, whatever the command does and however
\* signals fall.
WrapperEnds == <>(stage = "exited")

\* Of a signal, the header (with_timeout.py:16-17) says that the wrapper has
\* "reaped the child process tree" when it exits, and _run_with_deadline
\* (84-87) that the subtree does not outlive the deadline: once the group has
\* been signalled, nobody of it runs at the exit.
TreeReaped == code \in SignalSet \cup {"124"} /\ swept # "none" => Running = {}

=============================================================================
