------------------------------ MODULE MCModes -------------------------------
(***************************************************************************)
(* A session in its three modes, for TLC, under fairness: each behaviour   *)
(* has one mode, chosen at the start and kept.                             *)
(***************************************************************************)
EXTENDS Integers

VARIABLES
    registered, tokens, phase, started, ended, connected, ready, awaiting, timers, grace, idle,
    bothGone, stored, rolled, pick, clock, active, rematch, worker, asked, emitted, threads,
    served, duel, override, persisting,
    mode        \* the Mode of this behaviour

Pvp  == INSTANCE DuelSession WITH Mode <- "pvp", MaxDuels <- 1
Solo == INSTANCE DuelSession WITH Mode <- "solo", MaxDuels <- 2
Fork == INSTANCE DuelSession WITH Mode <- "fork", MaxDuels <- 1

vars == <<mode, Pvp!vars>>

Init ==
    \/ mode = "pvp" /\ Pvp!Init
    \/ mode = "solo" /\ Solo!Init
    \/ mode = "fork" /\ Fork!Init

Next ==
    /\ UNCHANGED mode
    /\ \/ mode = "pvp" /\ Pvp!Next
       \/ mode = "solo" /\ Solo!Next
       \/ mode = "fork" /\ Fork!Next

\* The timers that Fairness of DuelSession names, in the modes where they are armed.
ConnectionTimeout ==
    /\ UNCHANGED mode
    /\ (mode = "pvp" /\ Pvp!ConnectionTimeout) \/ (mode = "solo" /\ Solo!ConnectionTimeout)
ForkConnectionTimeout == mode = "fork" /\ UNCHANGED mode /\ Fork!ForkConnectionTimeout
SoloOrphanTimeout ==
    /\ UNCHANGED mode
    /\ (mode = "solo" /\ Solo!SoloOrphanTimeout) \/ (mode = "fork" /\ Fork!SoloOrphanTimeout)
CombinedGraceTimeout == mode = "pvp" /\ UNCHANGED mode /\ Pvp!CombinedGraceTimeout
RematchTimeout ==
    /\ UNCHANGED mode
    /\ \/ mode = "pvp" /\ Pvp!RematchTimeout
       \/ mode = "solo" /\ Solo!RematchTimeout
       \/ mode = "fork" /\ Fork!RematchTimeout
WinnerPicks == mode = "pvp" /\ UNCHANGED mode /\ Pvp!PromoteToChooseFirstPlayer
FirstPlayerTimeout == mode = "pvp" /\ UNCHANGED mode /\ Pvp!FirstPlayerTimeout
BannerElapsed == mode = "pvp" /\ UNCHANGED mode /\ Pvp!BannerElapsed

Fairness ==
    /\ WF_vars(ConnectionTimeout) /\ WF_vars(ForkConnectionTimeout)
    /\ WF_vars(SoloOrphanTimeout) /\ WF_vars(CombinedGraceTimeout) /\ WF_vars(RematchTimeout)
    /\ WF_vars(WinnerPicks) /\ WF_vars(FirstPlayerTimeout) /\ WF_vars(BannerElapsed)

FairSpec == Init /\ [][Next]_vars /\ Fairness

\* In every mode, a session everybody has left for good is released, with its worker thread.
AbandonedIsReleased ==
    <>[](IF mode = "pvp" THEN Pvp!FullyDisconnected(connected)
                         ELSE Solo!FullyDisconnected(connected))
        => <>(~registered /\ threads = 0)

\* Once the dice have a winner the worker gets spawned, or the session is released or rematched,
\* even if both players stay silent.
DiceWinnerStartsDuel == Pvp!DiceWinnerStartsDuel

=============================================================================
