----------------------------- MODULE MCGeneration -----------------------------
(* Instances of Generation for TLC. *)
EXTENDS Generation

\* The thread has ended and no coroutine is left.
Terminated ==
  thread = "ended" /\ \A p \in Prompts : task[p] \in {"none", "done"} /\ cancel[p] = "none"

MCNext == Next \/ (Terminated /\ UNCHANGED vars)

MCSpec == Init /\ [][MCNext]_vars /\ Fairness

=============================================================================
