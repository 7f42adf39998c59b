-------------------------- MODULE SessionLifecycle --------------------------
(***************************************************************************)
(* What the duel server promises about a duel session, seen from outside:  *)
(* its duels, their end, the rematches and the release of the session,      *)
(* and the one worker thread each duel of the session may have.            *)
(***************************************************************************)
EXTENDS Naturals

VARIABLES
    status,     \* where the session is; "gone" once it has left activeDuels
    round,      \* the duel being played: 1, then one more for every rematch
    thread      \* the worker of this round

lvars == <<status, round, thread>>

LiveStatus == {"preDuel", "duel", "ended"}

LInit ==
    /\ status \in {"preDuel", "duel"} /\ round = 1
    /\ thread = IF status = "duel" THEN "running" ELSE "unborn"

\* The duel of this round starts and its worker with it.  The session may have been ended
\* meanwhile: the start is not undone.
Start ==
    /\ status \in {"preDuel", "ended"} /\ thread = "unborn"
    /\ status' = IF status = "ended" THEN "ended" ELSE "duel"
    /\ thread' = "running" /\ UNCHANGED round

\* A duel may also end before it starts, and an error ends it together with its worker.
End ==
    /\ status \in {"preDuel", "duel"} /\ status' = "ended"
    /\ thread' = thread \/ (thread = "running" /\ thread' = "done")
    /\ UNCHANGED round

ThreadEnds ==
    /\ status # "gone" /\ thread = "running" /\ thread' = "done"
    /\ UNCHANGED <<status, round>>

Rematch ==
    /\ status = "ended" /\ status' = "preDuel"
    /\ round' = round + 1 /\ thread' = "unborn"

\* Whatever happened, a session that leaves the server takes its worker with it, for good.
Release ==
    /\ status # "gone" /\ status' = "gone"
    /\ thread' = IF thread = "running" THEN "done" ELSE thread
    /\ UNCHANGED round

LNext == Start \/ End \/ ThreadEnds \/ Rematch \/ Release

LSpec == LInit /\ [][LNext]_lvars

\* A session that is gone has no thread left running.
NothingRunsAfterRelease == status = "gone" => thread # "running"

=============================================================================
