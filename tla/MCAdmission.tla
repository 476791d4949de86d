----------------------------- MODULE MCAdmission -----------------------------
(* Instances of Admission for TLC. *)
EXTENDS Admission

\* With no request left that could arrive, the loop is idle for good.
Terminated == ready = <<>> /\ \A r \in Requests : pc[r] \in Answers

MCNext == Next \/ (Terminated /\ UNCHANGED vars)

MCSpec == Init /\ [][MCNext]_vars /\ Fairness

=============================================================================
