--------------------------- MODULE SessionAccess ---------------------------
(***************************************************************************)
(* Who may enter which seat of which duel: DuelSessionManager's three maps *)
(* (activeDuels, pendingTokens, reconnectTokens), the PlayerSession        *)
(* objects that the start of a duel swaps between the seats, and the       *)
(* sockets that handlePvpConnection binds to them.  All the sessions of    *)
(* the server share the maps, so here, unlike in DuelSession, there are    *)
(* several; what a session does besides is reduced to its phase.           *)
(*                                                                         *)
(* A socket is "unused", "open", "dying" (lost, its close event not yet    *)
(* handled) or "closed".  A refused handshake changes nothing and is left  *)
(* out; so is what a user does with a token it no longer has.              *)
(***************************************************************************)
EXTENDS Integers

CONSTANTS
    Duels,      \* duel ids
    NoTarget,   \* what a map returns for a token it does not hold
    MaxTokens,  \* bound: how many tokens are ever issued
    MaxSockets  \* bound: how many sockets are ever opened

ASSUME AccessAssumption ==
    /\ MaxTokens \in Nat /\ MaxSockets \in Nat
    /\ \A d \in Duels, p \in {0, 1} :
         NoTarget # [duel |-> d, seat |-> p] /\ NoTarget # [duel |-> d, user |-> p]

VARIABLES
    activeDuels,        \* the sessions of the manager
    created,            \* history: the duels created so far
    soloDuels,          \* session.soloMode
    stage,              \* [Duels -> "waiting", "dueling", "ended" or "stored"]
    players,            \* [Duels -> [Seats -> PlayerSession]]
    pendingTokens,      \* [Tokens -> Targets or NoTarget]
    reconnectTokens,    \* the same
    issued, opened,     \* how many tokens and sockets there have been: the next one's name
    socketState,        \* [Sockets -> SocketStates]
    owner,              \* history: the user a token was given to
    holder,             \* history: the user that opened a socket
    spent               \* history: the tokens that a handshake has consumed

serverMaps == <<activeDuels, pendingTokens, reconnectTokens>>
accessVars == <<serverMaps, created, soloDuels, stage, players, issued, opened,
                socketState, owner, holder, spent>>

Tokens        == 0..(MaxTokens - 1)      \* randomUUID: no value comes twice
Sockets       == 0..(MaxSockets - 1)
NoToken       == -1
NoSocket      == -1
Seats         == {0, 1}
Opposite(p)   == 1 - p
Targets       == [duel : Duels, seat : Seats]
Users         == [duel : Duels, user : Seats]       \* the user first seated there
SocketStates  == {"unused", "open", "dying", "closed"}
PlayerSession == [user : Seats, reconnectToken : Tokens \cup {NoToken},
                  ws : Sockets \cup {NoSocket}, connected : BOOLEAN]

Seat(d, p)   == [duel |-> d, seat |-> p]
UserAt(d, p) == [duel |-> d, user |-> players[d][p].user]

AccessInit ==
    /\ activeDuels = {} /\ created = {} /\ soloDuels = {} /\ spent = {}
    /\ issued = 0 /\ opened = 0
    /\ stage = [d \in Duels |-> "waiting"]
    /\ players = [d \in Duels |-> [p \in Seats |->
            [user |-> p, reconnectToken |-> NoToken, ws |-> NoSocket, connected |-> FALSE]]]
    /\ pendingTokens = [t \in Tokens |-> NoTarget]
    /\ reconnectTokens = [t \in Tokens |-> NoTarget]
    /\ socketState = [s \in Sockets |-> "unused"]
    /\ owner = [t \in Tokens |-> NoTarget]
    /\ holder = [s \in Sockets |-> NoTarget]

-----------------------------------------------------------------------------
(* DuelSessionManager.                                                     *)

\* rotateReconnectToken and the write of the new token to the player
Rotated(map, d, p, t) ==
    [u \in Tokens |->
        IF u = t THEN Seat(d, p) ELSE IF u = players[d][p].reconnectToken THEN NoTarget ELSE map[u]]

\* remapReconnectTokensAfterSwap, where q are the players after the swap
\* Wrong variant: the tokens keep their seat.
RemappedNot(map, d, q) == map
Remapped(map, d, q) ==
    [t \in Tokens |->
        IF t = q[0].reconnectToken THEN Seat(d, 0)
        ELSE IF t = q[1].reconnectToken THEN Seat(d, 1) ELSE map[t]]

\* isFullyDisconnected, of the players q of duel d
AllGone(d, q) == ~q[0].connected /\ (d \notin soloDuels => ~q[1].connected)

\* cleanupDuelSession with terminate, on the players q that the handler has already changed
\* Wrong variant: terminate leaves the pending tokens of the duel.
TerminateKeepsPending(d, q, map) ==
    /\ activeDuels' = activeDuels \ {d}
    /\ pendingTokens' = pendingTokens
    /\ reconnectTokens' = [t \in Tokens |->
            IF t \in {q[0].reconnectToken, q[1].reconnectToken} THEN NoTarget ELSE map[t]]
    /\ players' = [players EXCEPT ![d] = [p \in Seats |->
            [user |-> q[p].user, reconnectToken |-> NoToken, ws |-> NoSocket,
             connected |-> FALSE]]]

Terminate(d, q, map) ==
    /\ activeDuels' = activeDuels \ {d}
    /\ pendingTokens' = [t \in Tokens |->
            IF pendingTokens[t] # NoTarget /\ pendingTokens[t].duel = d THEN NoTarget
            ELSE pendingTokens[t]]
    /\ reconnectTokens' = [t \in Tokens |->
            IF t \in {q[0].reconnectToken, q[1].reconnectToken} THEN NoTarget ELSE map[t]]
    /\ players' = [players EXCEPT ![d] = [p \in Seats |->
            [user |-> q[p].user, reconnectToken |-> NoToken, ws |-> NoSocket,
             connected |-> FALSE]]]

\* The sockets of players q are closed by the server.
Hangup(q) ==
    [s \in Sockets |-> IF s \in {q[0].ws, q[1].ws} /\ socketState[s] = "open"
                       THEN "dying" ELSE socketState[s]]

\* POST /api/duels and createForkSoloSession: register, with one token for a solo session.  (A
\* fork is in its duel at once; what a solo session may do does not depend on the stage here.)
Register(d) ==
    /\ d \notin created
    /\ created' = created \cup {d} /\ activeDuels' = activeDuels \cup {d}
    /\ \/ /\ issued < MaxTokens
          /\ soloDuels' = soloDuels \cup {d}
          /\ issued' = issued + 1
          /\ pendingTokens' = [pendingTokens EXCEPT ![issued] = Seat(d, 0)]
          /\ owner' = [owner EXCEPT ![issued] = UserAt(d, 0)]
       \/ /\ issued + 1 < MaxTokens
          /\ issued' = issued + 2
          /\ pendingTokens' = [pendingTokens EXCEPT ![issued] = Seat(d, 0),
                                                   ![issued + 1] = Seat(d, 1)]
          /\ owner' = [owner EXCEPT ![issued] = UserAt(d, 0), ![issued + 1] = UserAt(d, 1)]
          /\ UNCHANGED soloDuels
    /\ UNCHANGED <<stage, players, reconnectTokens, opened, socketState, holder, spent>>

-----------------------------------------------------------------------------
(* handlePvpConnection.                                                    *)

\* The players of d when p has the new socket and the new token.
Entered(d, p) ==
    [players[d] EXCEPT ![p] = [user |-> players[d][p].user, reconnectToken |-> issued,
                               ws |-> opened, connected |-> TRUE]]

\* Wrong variant: the initial token is not deleted.
EnterKeepsPending(d, p, t, collects) ==
    LET new == issued
        s   == opened
        q   == Entered(d, p)
        map == Rotated([reconnectTokens EXCEPT ![t] = NoTarget], d, p, new)
    IN
    /\ issued < MaxTokens /\ issued' = issued + 1
    /\ opened < MaxSockets /\ opened' = opened + 1
    /\ spent' = spent \cup {t}
    /\ owner' = [owner EXCEPT ![new] = UserAt(d, p)]
    /\ holder' = [holder EXCEPT ![s] = owner[t]]
    /\ \/ /\ collects
          /\ Terminate(d, q, map)
          /\ socketState' = [Hangup(q) EXCEPT ![s] = "dying"]
       \/ /\ ~collects
          /\ players' = [players EXCEPT ![d] = q]
          /\ reconnectTokens' = map
          /\ UNCHANGED pendingTokens
          /\ socketState' = [socketState EXCEPT ![s] = "open"]
          /\ UNCHANGED activeDuels
    /\ UNCHANGED <<created, soloDuels, stage>>

\* The token is consumed, the socket bound to the seat, and a new reconnect token issued.  A
\* returning player who finds a stored result and the opponent already back ends the session
\* in the same handler.
Enter(d, p, t, collects) ==
    LET new == issued
        s   == opened
        q   == Entered(d, p)
        map == Rotated([reconnectTokens EXCEPT ![t] = NoTarget], d, p, new)
    IN
    /\ issued < MaxTokens /\ issued' = issued + 1
    /\ opened < MaxSockets /\ opened' = opened + 1
    /\ spent' = spent \cup {t}
    /\ owner' = [owner EXCEPT ![new] = UserAt(d, p)]
    /\ holder' = [holder EXCEPT ![s] = owner[t]]
    /\ \/ /\ collects
          /\ Terminate(d, q, map)
          /\ socketState' = [Hangup(q) EXCEPT ![s] = "dying"]
       \/ /\ ~collects
          /\ players' = [players EXCEPT ![d] = q]
          /\ reconnectTokens' = map
          /\ pendingTokens' = [pendingTokens EXCEPT ![t] = NoTarget]
          /\ socketState' = [socketState EXCEPT ![s] = "open"]
          /\ UNCHANGED activeDuels
    /\ UNCHANGED <<created, soloDuels, stage>>

\* consumePendingToken
ConnectInitial(t) ==
    LET x == pendingTokens[t] IN
    /\ x # NoTarget /\ x.duel \in activeDuels
    /\ Enter(x.duel, x.seat, t, FALSE)

\* consumeReconnectToken
ConnectAgain(t) ==
    LET x == reconnectTokens[t] IN
    /\ x # NoTarget /\ x.duel \in activeDuels
    /\ Enter(x.duel, x.seat, t,
             stage[x.duel] = "stored" /\ players[x.duel][Opposite(x.seat)].connected)

-----------------------------------------------------------------------------
(* The end of a socket.                                                    *)

\* The client or the network drops the socket; the server learns of it with the close event.
SocketLost(s) ==
    /\ socketState[s] = "open"
    /\ socketState' = [socketState EXCEPT ![s] = "dying"]
    /\ UNCHANGED <<serverMaps, created, soloDuels, stage, players, issued, opened, owner, holder,
                   spent>>

\* Wrong variant: the close of a replaced socket counts for the user's seat.
HolderSeats(s) == {x \in Targets : x.duel \in activeDuels /\ UserAt(x.duel, x.seat) = holder[s]}

\* resolveLivePlayerIndex: the seat whose player has this socket
SeatsOf(s) == {x \in Targets : x.duel \in created /\ players[x.duel][x.seat].ws = s}

\* ws.on('close'), ignored when the socket is no longer bound to a seat
CloseEvent(s) ==
    /\ socketState[s] = "dying"
    /\ socketState' = [socketState EXCEPT ![s] = "closed"]
    /\ \/ /\ SeatsOf(s) = {}
          /\ UNCHANGED <<serverMaps, players>>
       \/ \E x \in SeatsOf(s) :
            LET d == x.duel
                q == [players[d] EXCEPT ![x.seat].connected = FALSE]
            IN
            \/ /\ stage[d] \in {"ended", "stored"} /\ d \notin soloDuels /\ AllGone(d, q)
               /\ Terminate(d, q, reconnectTokens)
            \/ /\ ~(stage[d] \in {"ended", "stored"} /\ d \notin soloDuels /\ AllGone(d, q))
               /\ players' = [players EXCEPT ![d] = q]
               /\ UNCHANGED serverMaps
    /\ UNCHANGED <<created, soloDuels, stage, issued, opened, owner, holder, spent>>

-----------------------------------------------------------------------------
(* What the session does.                                                  *)

\* Wrong variant: one player suffices.
ReadyWithOne(d) == \E p \in Seats : players[d][p].connected

\* isReadyToStart, and the dice when there are two players: the session leaves WAITING_PLAYERS
Ready(d) == players[d][0].connected /\ (d \notin soloDuels => players[d][1].connected)

Begin(d) ==
    /\ d \in activeDuels /\ stage[d] = "waiting" /\ Ready(d)
    /\ stage' = [stage EXCEPT ![d] = "dueling"]
    /\ UNCHANGED <<serverMaps, created, soloDuels, players, issued, opened, socketState, owner,
                   holder, spent>>

\* Wrong variant: the second assignment reads what the first one wrote.
SwapPlayersOneWay(d) ==
    LET q == [p \in Seats |-> players[d][1]] IN
    /\ d \in activeDuels \ soloDuels /\ stage[d] = "dueling"
    /\ players' = [players EXCEPT ![d] = q]
    /\ reconnectTokens' = Remapped(reconnectTokens, d, q)
    /\ UNCHANGED <<activeDuels, pendingTokens, created, soloDuels, stage, issued, opened,
                   socketState, owner, holder, spent>>

\* startDuelWithOrder when the second player begins: at the start, of a rematch too, and here at
\* any moment of the duel
SwapPlayers(d) ==
    LET q == [p \in Seats |-> players[d][Opposite(p)]] IN
    /\ d \in activeDuels \ soloDuels /\ stage[d] = "dueling"
    /\ players' = [players EXCEPT ![d] = q]
    /\ reconnectTokens' = Remapped(reconnectTokens, d, q)
    /\ UNCHANGED <<activeDuels, pendingTokens, created, soloDuels, stage, issued, opened,
                   socketState, owner, holder, spent>>

\* handleDuelEnd; the combined grace of two absent players stores the result for them
EndOfDuel(d) ==
    /\ d \in activeDuels /\ stage[d] \in {"waiting", "dueling"}
    /\ \/ stage' = [stage EXCEPT ![d] = "ended"]
       \/ d \notin soloDuels /\ AllGone(d, players[d]) /\ stage' = [stage EXCEPT ![d] = "stored"]
    /\ UNCHANGED <<serverMaps, created, soloDuels, players, issued, opened, socketState, owner,
                   holder, spent>>

\* startRematch: WAITING_PLAYERS again, on the same sockets
Rematch(d) ==
    /\ d \in activeDuels /\ stage[d] = "ended"
    /\ stage' = [stage EXCEPT ![d] = "waiting"]
    /\ UNCHANGED <<serverMaps, created, soloDuels, players, issued, opened, socketState, owner,
                   holder, spent>>

\* DELETE, a deadline or the exit of the worker: cleanupDuelSession at any moment
Remove(d) ==
    /\ d \in activeDuels
    /\ Terminate(d, players[d], reconnectTokens)
    /\ socketState' = Hangup(players[d])
    /\ UNCHANGED <<created, soloDuels, stage, issued, opened, owner, holder, spent>>

AccessNext ==
    \/ \E d \in Duels :
         Register(d) \/ Begin(d) \/ SwapPlayers(d) \/ EndOfDuel(d) \/ Rematch(d) \/ Remove(d)
    \/ \E t \in Tokens : ConnectInitial(t) \/ ConnectAgain(t)
    \/ \E s \in Sockets : SocketLost(s) \/ CloseEvent(s)

AccessSpec == AccessInit /\ [][AccessNext]_accessVars

-----------------------------------------------------------------------------
(* What the server promises.                                               *)

AccessTypeOK ==
    /\ activeDuels \subseteq created /\ created \subseteq Duels /\ soloDuels \subseteq created
    /\ stage \in [Duels -> {"waiting", "dueling", "ended", "stored"}]
    /\ players \in [Duels -> [Seats -> PlayerSession]]
    /\ \A d \in Duels : players[d][0].user # players[d][1].user
    /\ pendingTokens \in [Tokens -> Targets \cup {NoTarget}]
    /\ reconnectTokens \in [Tokens -> Targets \cup {NoTarget}]
    /\ issued \in 0..MaxTokens /\ opened \in 0..MaxSockets
    /\ socketState \in [Sockets -> SocketStates]
    /\ owner \in [Tokens -> Users \cup {NoTarget}]
    /\ holder \in [Sockets -> Users \cup {NoTarget}]
    /\ spent \subseteq Tokens

\* Whatever the swaps, rotations and removals in between, a token that some map accepts leads to
\* a session that exists and to the seat where the user sits that it was given to.
TokensResolve ==
    \A t \in Tokens : \A x \in {pendingTokens[t], reconnectTokens[t]} \ {NoTarget} :
        x.duel \in activeDuels /\ owner[t] = UserAt(x.duel, x.seat)

\* A user who has been in a duel that still exists can always come back: the manager knows the
\* last token given to that user, and it knows no other.
LastTokenWorks ==
    /\ \A d \in activeDuels, p \in Seats :
         players[d][p].ws # NoSocket => players[d][p].reconnectToken # NoToken
    /\ \A t \in Tokens, x \in Targets :
         reconnectTokens[t] = x <=> x.duel \in activeDuels
                                    /\ players[x.duel][x.seat].reconnectToken = t

\* Each token lets one socket in.
TokensAreSpentOnce ==
    \A t \in spent : pendingTokens[t] = NoTarget /\ reconnectTokens[t] = NoTarget

\* A seat follows the last socket of its own user: it counts as connected until that socket, and
\* no older one, has closed.
SeatFollowsSocket ==
    \A d \in Duels, p \in Seats :
        LET x == players[d][p] IN
        /\ x.connected <=> x.ws # NoSocket /\ socketState[x.ws] \in {"open", "dying"}
        /\ x.ws # NoSocket => holder[x.ws] = UserAt(d, p)

=============================================================================
