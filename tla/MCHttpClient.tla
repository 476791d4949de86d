----------------------------- MODULE MCHttpClient -----------------------------
(* Instances of HttpClient for TLC. *)
EXTENDS HttpClient

First == CHOOSE l \in Loops : TRUE
Third == CHOOSE l \in Loops \ {First} : TRUE

\* Two calls on each of two loops, and on one of them a third: the least with
\* which a call that has waited for the lock can find the client bound
\* (FoundBound).  One call on a third loop.
MCCalls ==
  (Loops \X {1}) \cup ((Loops \ {Third}) \X {2}) \cup {<<First, 3>>}

\* Bound: the third loop is used in threads only, when each loop has one call and
\* none stops.  It is the least with which two loops rebuild at the same time,
\* both away from the third.
ThirdLoopApart ==
  loop[Third] # "fresh" =>
    /\ mode = "threads"
    /\ \A l \in Loops : loop[l] \in {"fresh", "running"}
    /\ \A c \in Calls : c[2] > 1 => pc[c] = "new"

\* The loops with calls are closed (what was suspended on one stays suspended),
\* or all three run on without a call.
Terminated ==
  \/ \A l \in Loops : loop[l] = "closed" \/ (l = Third /\ loop[l] = "fresh")
  \/ loop[Third] = "running" /\ \A c \in Calls : c[2] = 1 => pc[c] \in Over

MCNext == (Next /\ ThirdLoopApart') \/ (Terminated /\ UNCHANGED vars)

MCSpec == Init /\ [][MCNext]_vars /\ Fairness

=============================================================================
