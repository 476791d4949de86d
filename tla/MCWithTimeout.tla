---------------------------- MODULE MCWithTimeout ----------------------------
(* Instances of WithTimeout for TLC. *)
EXTENDS WithTimeout

MCNext == Next \/ (stage = "exited" /\ UNCHANGED vars)

MCSpec == Init /\ [][MCNext]_vars /\ Fairness

=============================================================================
