------------------------------ MODULE MCAppState ------------------------------
(* Instances of AppState for TLC. *)
EXTENDS AppState

\* The server has exited, or the bounds on starts and requests are reached.
Terminated ==
  \/ phase = "dead"
  \/ Quiet /\ phase = "down" /\ starts = MaxStarts /\ requests = MaxRequests

MCNext == Next \/ (Terminated /\ UNCHANGED vars)

MCSpec == Init /\ [][MCNext]_vars /\ Fairness

=============================================================================
