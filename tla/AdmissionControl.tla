--------------------------- MODULE AdmissionControl ---------------------------
(***************************************************************************)
(* What ExtractionService.extract promises its callers about capacity,     *)
(* without the semaphore, the zero timeout and the event loop that         *)
(* provide it (module Admission shows that they do).                       *)
(*                                                                         *)
(* A request is answered in one step when it asks: it is admitted while    *)
(* fewer than MaxConcurrent pipelines run, or it is refused.  A refusal is *)
(* final; it is delivered to the caller a little later.  It has a cause:   *)
(* either the cap is reached, or another refusal is still on its way.      *)
(***************************************************************************)
EXTENDS Integers, FiniteSets

CONSTANTS
  Requests,       \* the calls of ExtractionService.extract
  MaxConcurrent   \* Settings.max_concurrent_extractions

VARIABLE
  phase           \* how far each request has come

Phases == {"new", "running", "refused", "rejected", "ended"}

In(ph) == {r \in Requests : phase[r] = ph}

AtCap == Cardinality(In("running")) >= MaxConcurrent

Move(r, from, to) == phase[r] = from /\ phase' = [phase EXCEPT ![r] = to]

-----------------------------------------------------------------------------

Init == phase = [r \in Requests |-> "new"]

\* The semaphore is acquired without suspending; the pipeline starts.
Admit(r) == ~AtCap /\ Move(r, "new", "running")

\* The acquire would block: from here on the request cannot be admitted.
Refuse(r) == (AtCap \/ In("refused") # {}) /\ Move(r, "new", "refused")

\* ExtractionOverloadedError reaches the caller.
Deliver(r) == Move(r, "refused", "rejected")

\* The pipeline returned, raised or was cancelled; or the caller went away
\* before it was answered.
End(r) == \E from \in {"new", "running", "refused"} : Move(r, from, "ended")

Next == \E r \in Requests : Admit(r) \/ Refuse(r) \/ Deliver(r) \/ End(r)

Spec == Init /\ [][Next]_phase

=============================================================================
