------------------------------ MODULE MCPipeline ------------------------------
(* Instances of ExtractionPipeline for TLC. *)
EXTENDS ExtractionPipeline

\* Every request has been answered and every thread is idle.
Terminated ==
  /\ \A r \in Requests : phase[r] \in {"rejected", "ended"}
  /\ Busy = {}

MCNext == Next \/ (Terminated /\ UNCHANGED vars)

MCSpec == Init /\ [][MCNext]_vars /\ Fairness

=============================================================================
