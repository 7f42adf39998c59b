--------------------------- MODULE MCDuelSession ---------------------------
(***************************************************************************)
(* DuelSession for TLC, with the statements of the repository's documents  *)
(* and comments that the code does not keep.  DisconnectedPlayerHasGrace   *)
(* has a run of its own; TLC refutes each of the others when it is added   *)
(* to Pvp.cfg.                                                             *)
(***************************************************************************)
EXTENDS DuelSession

\* session-orchestrator.ts:245 ("Reset all per-duel session state"): what a duel asked to be
\* recorded as its result never applies to a later duel.  resetSessionForRematch keeps
\* pendingReplayResult.
ReplayResultIsOfThisDuel == override \in {0, duel}

\* prd-pvp.md:258, NFR5: when both players are lost in the middle of the duel, its result is kept
\* for up to 4 hours, so no shorter deadline is armed on the session with it.  handleDuelEnd arms
\* the 5-minute rematch expiry just before the preservation timer is armed.
PreservedResultHasOnlyItsTimer ==
    [][stored' /\ ~stored /\ worker = "waiting" => "rematchTimeout" \notin timers']_vars

\* epics-pvp.md:634, story 3.3: the turn timer pauses for the disconnected player.  A parked clock
\* is not paused by the close: its 30 s fallback, or the opponent's reconnection, starts it for
\* the absent player.
ClockWaitsForTheAbsent == clock = "running" => connected[active]

\* epics-pvp.md:633, story 3.3: during the duel, a player whose opponent is there and who is not
\* has a grace period running that will find that player.  startDuelWithOrder swaps the players
\* after the timer of the dice phase captured the index.
DisconnectedPlayerHasGrace ==
    registered /\ ~ended /\ ~SoloMode /\ phase = "DUELING" =>
        \A p \in Slots : ~connected[p] /\ connected[Other(p)] => <<p, p>> \in grace

\* prd-pvp.md:237, FR21: inactivity forfeits a player of whom a response is required, so while the
\* engine waits for one player no inactivity timer runs against the other.  A timer armed in the
\* dice phase is not cleared by the roll and goes on during the duel.
OnlyPromptedPlayersAreTimed ==
    registered /\ ~ended /\ worker = "waiting" => \A t \in idle : awaiting[t[1]]

\* duel-end-coordinator.ts:122: handleDuelEnd clears all duel timers, grace included.
EndClearsGrace == [][~ended /\ ended' => grace' = {}]_vars

\* timer-management.ts:446: the ANIMATIONS_READY deadline cannot fire into an ended session.
NoReadyDeadlineAfterTheEnd == "animationsReady" \in timers => ~ended

=============================================================================
