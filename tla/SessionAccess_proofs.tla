------------------------ MODULE SessionAccess_proofs ------------------------
(***************************************************************************)
(* Proofs about SessionAccess for any set of duels, any number of tokens   *)
(* and any number of sockets: its type invariant and its four promises,    *)
(* from the inductive invariant AccessInv.                                 *)
(*                                                                         *)
(* What carries the argument is Linked: the map of reconnect tokens and    *)
(* the tokens written in the PlayerSession objects are inverse to each     *)
(* other.  It is stated of any players and any map, since a handler may    *)
(* rotate a token and then remove the session before anyone looks.         *)
(***************************************************************************)
EXTENDS SessionAccess, TLAPS

\* The token maps and the players tell the same story.
Linked(active, pl, map) ==
    \A t \in Tokens, d \in Duels, p \in Seats :
        map[t] = Seat(d, p) <=> d \in active /\ pl[d][p].reconnectToken = t

\* A token or a socket that has not been handed out is nowhere.
Fresh ==
    /\ \A t \in Tokens : t >= issued => pendingTokens[t] = NoTarget /\ t \notin spent
    /\ \A d \in Duels, p \in Seats : players[d][p].reconnectToken < issued /\ players[d][p].ws < opened

\* A session that is not in the manager has let go of its tokens and its sockets.
Idle ==
    \A d \in Duels \ activeDuels, p \in Seats :
        /\ players[d][p].reconnectToken = NoToken
        /\ players[d][p].ws = NoSocket
        /\ ~players[d][p].connected

\* A session that was never created has not begun.
Unbegun == \A d \in Duels \ created : stage[d] = "waiting"

\* An initial token leads to a seat where nobody has been yet, in a session that has therefore
\* not begun its duel and cannot have swapped its players.
Pending ==
    \A t \in Tokens, d \in Duels, p \in Seats : pendingTokens[t] = Seat(d, p) =>
        /\ d \in activeDuels /\ stage[d] # "dueling"
        /\ d \in soloDuels => p = 0
        /\ owner[t] = UserAt(d, p)
        /\ players[d][p].reconnectToken = NoToken
        /\ players[d][p].ws = NoSocket
        /\ ~players[d][p].connected

\* Two initial tokens do not lead to the same seat.
Apart ==
    \A t, u \in Tokens, d \in Duels, p \in Seats :
        pendingTokens[t] = Seat(d, p) /\ pendingTokens[u] = Seat(d, p) => t = u

Links == Linked(activeDuels, players, reconnectTokens)

\* The token in a PlayerSession was given to its user, and so was its socket opened by it.
Owned ==
    \A d \in Duels, p \in Seats :
        /\ players[d][p].reconnectToken # NoToken => owner[players[d][p].reconnectToken] = UserAt(d, p)
        /\ players[d][p].ws # NoSocket => holder[players[d][p].ws] = UserAt(d, p)
        /\ players[d][p].ws # NoSocket => players[d][p].reconnectToken # NoToken

\* No token that a handshake consumed is left.
Unspent ==
    /\ \A t \in spent : pendingTokens[t] = NoTarget
    /\ \A d \in Duels, p \in Seats : players[d][p].reconnectToken \notin spent

\* A seat is connected as long as its socket is not closed.
Live ==
    \A d \in Duels, p \in Seats :
        players[d][p].connected <=>
            players[d][p].ws # NoSocket /\ socketState[players[d][p].ws] \in {"open", "dying"}

AccessInv ==
    /\ AccessTypeOK /\ Fresh /\ Idle /\ Unbegun /\ Pending /\ Apart
    /\ Links /\ Owned /\ Unspent /\ Live

-----------------------------------------------------------------------------
(* Seats and targets.                                                      *)

\* A seat of a duel is a target, and tells its duel and its place.
LEMMA SeatIsTarget ==
    ASSUME NEW d \in Duels, NEW p \in Seats
    PROVE  /\ Seat(d, p) \in Targets /\ Seat(d, p) # NoTarget
           /\ Seat(d, p).duel = d /\ Seat(d, p).seat = p
  BY AccessAssumption DEF Seat, Targets, Seats

\* Every target is a seat.
LEMMA TargetIsSeat ==
    ASSUME NEW x \in Targets
    PROVE  x.duel \in Duels /\ x.seat \in Seats /\ x = Seat(x.duel, x.seat)
  BY DEF Seat, Targets

\* Different seats are different targets.
LEMMA SeatsDiffer ==
    ASSUME NEW d \in Duels, NEW p \in Seats, NEW e \in Duels, NEW r \in Seats, Seat(d, p) = Seat(e, r)
    PROVE  d = e /\ p = r
  BY SeatIsTarget

\* A user is not NoTarget.
LEMMA UserIsUser ==
    ASSUME AccessTypeOK, NEW d \in Duels, NEW p \in Seats
    PROVE  UserAt(d, p) \in Users
  BY DEF UserAt, Users, AccessTypeOK, PlayerSession

\* The types of the fields of a player.
LEMMA PlayerFields ==
    ASSUME AccessTypeOK, NEW d \in Duels, NEW p \in Seats
    PROVE  /\ players[d][p].user \in Seats /\ players[d][p].connected \in BOOLEAN
           /\ players[d][p].reconnectToken \in Tokens \cup {NoToken}
           /\ players[d][p].ws \in Sockets \cup {NoSocket}
  BY DEF AccessTypeOK, PlayerSession

-----------------------------------------------------------------------------
(* The steps that leave the maps and the players alone.                    *)

\* Begin, the end of a duel, a rematch and the loss of a socket disturb neither tokens nor seats.
LEMMA QuietStep ==
    ASSUME AccessInv,
           UNCHANGED <<serverMaps, created, soloDuels, players, issued, opened, owner, holder, spent>>
    PROVE  Fresh' /\ Idle' /\ Apart' /\ Links' /\ Owned' /\ Unspent'
  <1> USE DEF AccessInv, serverMaps, Seat, UserAt, Seats, Tokens
  <1>1. Fresh'
    BY DEF Fresh
  <1>2. Idle'
    BY DEF Idle
  <1>3. Apart'
    BY DEF Apart
  <1>4. Links'
    BY DEF Links, Linked
  <1>5. Owned'
    BY DEF Owned
  <1>6. Unspent'
    BY DEF Unspent
  <1> QED BY <1>1, <1>2, <1>3, <1>4, <1>5, <1>6

\* A lost socket is dying; its seat stays connected until the close event.
LEMMA SocketLostStep ==
    ASSUME AccessInv, NEW s \in Sockets, SocketLost(s) PROVE AccessInv'
  <1> USE DEF SocketLost, serverMaps, AccessInv
  <1>1. AccessTypeOK'
    BY DEF AccessTypeOK, SocketStates, Users, Targets
  <1>2. Pending'
    BY DEF Pending, Seat, UserAt
  <1>3. Live'
    BY PlayerFields DEF Live, Sockets, AccessTypeOK, NoSocket
  <1>4. Unbegun'
    BY DEF Unbegun, AccessTypeOK
  <1> QED BY <1>1, <1>2, <1>3, <1>4, QuietStep

\* A duel begins with all its players there, so none of its initial tokens is left.
LEMMA BeginStep ==
    ASSUME AccessInv, NEW d \in Duels, Begin(d) PROVE AccessInv'
  <1> USE DEF Begin, serverMaps, AccessInv
  <1>1. AccessTypeOK'
    BY DEF AccessTypeOK, SocketStates, Users, Targets
  <1>2. Pending'
    BY DEF Pending, Seat, UserAt, Ready, Seats, AccessTypeOK
  <1>3. Live'
    BY DEF Live
  <1>4. Unbegun'
    BY DEF Unbegun, AccessTypeOK
  <1> QED BY <1>1, <1>2, <1>3, <1>4, QuietStep

\* The end of a duel changes its stage only.
LEMMA EndOfDuelStep ==
    ASSUME AccessInv, NEW d \in Duels, EndOfDuel(d) PROVE AccessInv'
  <1> USE DEF EndOfDuel, serverMaps, AccessInv
  <1>1. AccessTypeOK'
    BY DEF AccessTypeOK, SocketStates, Users, Targets
  <1>2. Pending'
    BY DEF Pending, Seat, UserAt, Seats, AccessTypeOK
  <1>3. Live'
    BY DEF Live
  <1>4. Unbegun'
    BY DEF Unbegun, AccessTypeOK
  <1> QED BY <1>1, <1>2, <1>3, <1>4, QuietStep

\* So does a rematch.
LEMMA RematchStep ==
    ASSUME AccessInv, NEW d \in Duels, Rematch(d) PROVE AccessInv'
  <1> USE DEF Rematch, serverMaps, AccessInv
  <1>1. AccessTypeOK'
    BY DEF AccessTypeOK, SocketStates, Users, Targets
  <1>2. Pending'
    BY DEF Pending, Seat, UserAt, Seats, AccessTypeOK
  <1>3. Live'
    BY DEF Live
  <1>4. Unbegun'
    BY DEF Unbegun, AccessTypeOK
  <1> QED BY <1>1, <1>2, <1>3, <1>4, QuietStep

-----------------------------------------------------------------------------
(* The swap of the players.                                                *)

\* The players and their tokens swap their seats together; no initial token is left to be misled.
LEMMA SwapPlayersStep ==
    ASSUME AccessInv, NEW d \in Duels, SwapPlayers(d) PROVE AccessInv'
  <1> DEFINE q == [p \in Seats |-> players[d][Opposite(p)]]
  <1> USE DEF AccessInv, SwapPlayers
  <1>0. activeDuels' = activeDuels
    OBVIOUS
  <1>1. players \in [Duels -> [Seats -> PlayerSession]]
    BY DEF AccessTypeOK
  <1>2. q \in [Seats -> PlayerSession] /\ q[0] = players[d][1] /\ q[1] = players[d][0]
    BY <1>1 DEF Seats, Opposite
  <1> HIDE DEF q
  <1>3. players' = [players EXCEPT ![d] = q] /\ reconnectTokens' = Remapped(reconnectTokens, d, q)
    BY DEF q
  <1>4. ASSUME NEW e \in Duels, NEW p \in Seats
        PROVE  \E r \in Seats :
                 /\ players'[e][p] = players[e][r]
                 /\ \/ e = d /\ p = 0 /\ r = 1
                    \/ e = d /\ p = 1 /\ r = 0
                    \/ e # d /\ p = r
    BY <1>1, <1>2, <1>3 DEF Seats
  <1>5. AccessTypeOK'
    <2>1. players' \in [Duels -> [Seats -> PlayerSession]]
      BY <1>1, <1>2, <1>3
    <2>2. \A e \in Duels : players'[e][0].user # players'[e][1].user
      BY <1>1, <1>2, <1>3 DEF AccessTypeOK
    <2>3. Seat(d, 0) \in Targets /\ Seat(d, 1) \in Targets
      BY SeatIsTarget DEF Seats
    <2>4. reconnectTokens' \in [Tokens -> Targets \cup {NoTarget}]
      BY <1>3, <2>3 DEF AccessTypeOK, Remapped
    <2> QED BY <2>1, <2>2, <2>4 DEF AccessTypeOK, SocketStates, Users, Targets
  <1>6. Fresh'
    BY <1>4 DEF Fresh
  <1>7. Idle'
    BY <1>4 DEF Idle
  <1>8. Pending' /\ Apart'
    <2>1. ASSUME NEW t \in Tokens, NEW p \in Seats PROVE pendingTokens[t] # Seat(d, p)
      BY DEF Pending
    <2>2. ASSUME NEW e \in Duels, e # d, NEW p \in Seats PROVE players'[e][p] = players[e][p]
      BY <1>3, <2>2
    <2>3. Pending'
      BY <2>1, <2>2 DEF Pending, UserAt, Seat
    <2> QED BY <2>3 DEF Apart, Seat
  <1>9. Links'
    <2> SUFFICES ASSUME NEW t \in Tokens, NEW e \in Duels, NEW p \in Seats
                 PROVE  reconnectTokens'[t] = Seat(e, p)
                          <=> e \in activeDuels /\ players'[e][p].reconnectToken = t
      BY <1>0 DEF Links, Linked
    <2>0. t # NoToken /\ 0 \in Seats /\ 1 \in Seats /\ d \in activeDuels
      BY DEF Tokens, NoToken, Seats
    <2>1. reconnectTokens'[t] = IF t = q[0].reconnectToken THEN Seat(d, 0)
                           ELSE IF t = q[1].reconnectToken THEN Seat(d, 1) ELSE reconnectTokens[t]
      BY <1>3 DEF Remapped
    <2>2. /\ reconnectTokens[t] = Seat(d, 0) <=> q[1].reconnectToken = t
          /\ reconnectTokens[t] = Seat(d, 1) <=> q[0].reconnectToken = t
          /\ reconnectTokens[t] = Seat(e, p) <=> e \in activeDuels /\ players[e][p].reconnectToken = t
      BY <1>2, <2>0 DEF Links, Linked
    <2>3. CASE e = d /\ p = 0
      <3>1. players'[e][p].reconnectToken = q[0].reconnectToken
        BY <1>1, <1>3, <2>3
      <3> QED BY <2>0, <2>1, <2>2, <2>3, <3>1, SeatsDiffer
    <2>4. CASE e = d /\ p = 1
      <3>1. players'[e][p].reconnectToken = q[1].reconnectToken
        BY <1>1, <1>3, <2>4
      <3> QED BY <2>0, <2>1, <2>2, <2>4, <3>1, SeatsDiffer
    <2>5. CASE e # d
      <3>1. players'[e][p] = players[e][p]
        BY <1>3, <2>5
      <3> QED BY <2>0, <2>1, <2>2, <2>5, <3>1, SeatsDiffer
    <2> QED BY <2>3, <2>4, <2>5 DEF Seats
  <1>10. ASSUME NEW e \in Duels, NEW p \in Seats
         PROVE  /\ players'[e][p].reconnectToken \notin spent'
                /\ players'[e][p].reconnectToken # NoToken
                     => owner'[players'[e][p].reconnectToken] = UserAt(e, p)'
                /\ players'[e][p].ws # NoSocket
                     => /\ holder'[players'[e][p].ws] = UserAt(e, p)'
                        /\ players'[e][p].reconnectToken # NoToken
                /\ players'[e][p].connected <=>
                     players'[e][p].ws # NoSocket /\ socketState'[players'[e][p].ws] \in {"open", "dying"}
    <2>1. PICK r \in Seats : players'[e][p] = players[e][r]
      BY <1>4, <1>10
    <2>2. UserAt(e, p)' = UserAt(e, r)
      BY <2>1 DEF UserAt
    <2>3. owner' = owner /\ holder' = holder /\ socketState' = socketState /\ spent' = spent
      OBVIOUS
    <2>4. players[e][r].reconnectToken \notin spent
      BY DEF Unspent
    <2>5. /\ players[e][r].reconnectToken # NoToken => owner[players[e][r].reconnectToken] = UserAt(e, r)
          /\ players[e][r].ws # NoSocket => holder[players[e][r].ws] = UserAt(e, r)
          /\ players[e][r].ws # NoSocket => players[e][r].reconnectToken # NoToken
      BY DEF Owned
    <2>6. players[e][r].connected <=>
            players[e][r].ws # NoSocket /\ socketState[players[e][r].ws] \in {"open", "dying"}
      BY DEF Live
    <2> QED BY <2>1, <2>2, <2>3, <2>4, <2>5, <2>6
  <1>11. Owned' /\ Live'
    BY <1>10 DEF Owned, Live
  <1>12. Unspent'
    BY <1>10 DEF Unspent
  <1>13. Unbegun'
    BY DEF Unbegun
  <1> QED BY <1>5, <1>6, <1>7, <1>8, <1>9, <1>10, <1>11, <1>12, <1>13

-----------------------------------------------------------------------------
(* A new session.                                                          *)

\* A new session gets fresh tokens for seats that nobody has had.
LEMMA RegisterStep ==
    ASSUME AccessInv, NEW d \in Duels, Register(d) PROVE AccessInv'
  <1> DEFINE n == issued
  <1> USE DEF AccessInv
  <1>1. /\ d \notin activeDuels /\ activeDuels' = activeDuels \cup {d} /\ d \notin soloDuels
        /\ created' = created \cup {d}
        /\ UNCHANGED <<stage, players, reconnectTokens, opened, socketState, holder, spent>>
    BY DEF AccessTypeOK, Register
  <1>2. 0 \in Seats /\ 1 \in Seats
    BY DEF Seats
  <1>3. n \in Nat /\ MaxTokens \in Nat /\ n <= MaxTokens
    BY AccessAssumption DEF AccessTypeOK
  <1>4. \/ /\ n \in Tokens /\ issued' = n + 1 /\ issued' <= MaxTokens
           /\ soloDuels' = soloDuels \cup {d}
           /\ pendingTokens' = [pendingTokens EXCEPT ![n] = Seat(d, 0)]
           /\ owner' = [owner EXCEPT ![n] = UserAt(d, 0)]
        \/ /\ n \in Tokens /\ n + 1 \in Tokens /\ issued' = n + 2 /\ issued' <= MaxTokens
           /\ soloDuels' = soloDuels
           /\ pendingTokens' = [pendingTokens EXCEPT ![n] = Seat(d, 0), ![n + 1] = Seat(d, 1)]
           /\ owner' = [owner EXCEPT ![n] = UserAt(d, 0), ![n + 1] = UserAt(d, 1)]
    BY <1>3 DEF Register, Tokens
  <1>5. pendingTokens \in [Tokens -> Targets \cup {NoTarget}] /\ owner \in [Tokens -> Users \cup {NoTarget}]
    BY DEF AccessTypeOK
  <1>6. ASSUME NEW t \in Tokens
        PROVE  \/ pendingTokens'[t] = pendingTokens[t] /\ owner'[t] = owner[t]
               \/ /\ t = n /\ t < issued' /\ pendingTokens[t] = NoTarget
                  /\ pendingTokens'[t] = Seat(d, 0) /\ owner'[t] = UserAt(d, 0)
               \/ /\ t = n + 1 /\ t < issued' /\ d \notin soloDuels' /\ pendingTokens[t] = NoTarget
                  /\ pendingTokens'[t] = Seat(d, 1) /\ owner'[t] = UserAt(d, 1)
    <2>1. t >= n => pendingTokens[t] = NoTarget
      BY DEF Fresh
    <2>2. t \in Int
      BY <1>3 DEF Tokens
    <2> QED BY <1>1, <1>3, <1>4, <1>5, <2>1, <2>2
  <1>7. AccessTypeOK'
    <2>1. /\ Seat(d, 0) \in Targets /\ Seat(d, 1) \in Targets
          /\ UserAt(d, 0) \in Users /\ UserAt(d, 1) \in Users
      BY <1>2, SeatIsTarget, UserIsUser
    <2>2. /\ pendingTokens' \in [Tokens -> Targets \cup {NoTarget}]
          /\ owner' \in [Tokens -> Users \cup {NoTarget}]
      BY <1>4, <1>5, <2>1
    <2>3. issued' \in 0..MaxTokens /\ soloDuels' \subseteq created'
      BY <1>1, <1>3, <1>4 DEF AccessTypeOK
    <2> QED BY <1>1, <2>2, <2>3 DEF AccessTypeOK, SocketStates, Users, Targets
  <1>8. issued' > n
    BY <1>3, <1>4
  <1>9. Fresh'
    <2>1. \A t \in Tokens : t >= issued' => pendingTokens'[t] = NoTarget /\ t \notin spent
      BY <1>3, <1>4, <1>6, <1>8 DEF Fresh, Tokens
    <2>2. \A e \in Duels, p \in Seats : players[e][p].reconnectToken < issued'
      BY <1>3, <1>4, <1>8, PlayerFields DEF Fresh, Tokens, NoToken
    <2> QED BY <1>1, <2>1, <2>2 DEF Fresh
  <1>10. Idle'
    BY <1>1 DEF Idle
  <1>11. \A t \in Tokens, p \in Seats : pendingTokens[t] # Seat(d, p)
    BY <1>1 DEF Pending
  <1>12. Pending'
    <2> SUFFICES ASSUME NEW t \in Tokens, NEW e \in Duels, NEW p \in Seats,
                        pendingTokens'[t] = Seat(e, p)
                 PROVE  /\ e \in activeDuels' /\ stage[e] # "dueling"
                        /\ e \in soloDuels' => p = 0
                        /\ owner'[t] = UserAt(e, p)
                        /\ players[e][p].reconnectToken = NoToken
                        /\ players[e][p].ws = NoSocket
                        /\ ~players[e][p].connected
      BY <1>1 DEF Pending, Seat, UserAt
    <2>1. CASE pendingTokens'[t] = pendingTokens[t] /\ owner'[t] = owner[t]
      <3>1. e # d
        BY <1>11, <2>1
      <3>2. e \in soloDuels' => e \in soloDuels
        BY <1>4, <3>1
      <3> QED BY <1>1, <2>1, <3>1, <3>2 DEF Pending
    <2>2. CASE e = d /\ owner'[t] = UserAt(e, p) /\ (e \in soloDuels' => p = 0)
      <3>1. d \notin created
        BY DEF Register
      <3> QED BY <1>1, <2>2, <3>1 DEF Idle, Unbegun
    <2> QED BY <1>2, <1>6, <2>1, <2>2, SeatsDiffer
  <1>13. Apart'
    BY <1>2, <1>3, <1>6, <1>11, SeatsDiffer DEF Apart, Seat
  <1>14. Links'
    <2> SUFFICES ASSUME NEW t \in Tokens, NEW e \in Duels, NEW p \in Seats
                 PROVE  reconnectTokens[t] = Seat(e, p)
                          <=> e \in activeDuels \cup {d} /\ players[e][p].reconnectToken = t
      BY <1>1 DEF Links, Linked
    <2>1. e = d => players[e][p].reconnectToken # t
      BY <1>1 DEF Idle, Tokens, NoToken
    <2> QED BY <2>1 DEF Links, Linked
  <1>15. Owned'
    <2>1. \A e \in Duels, p \in Seats : players[e][p].reconnectToken # NoToken =>
            /\ players[e][p].reconnectToken \in Tokens
            /\ players[e][p].reconnectToken < n
      BY PlayerFields DEF Fresh
    <2>2. \A t \in Tokens : t < n => owner'[t] = owner[t]
      BY <1>3, <1>6 DEF Tokens
    <2> QED BY <1>1, <2>1, <2>2 DEF Owned, UserAt
  <1>16. Unspent'
    <2>1. \A t \in spent : t \in Tokens /\ t < n
      BY <1>3 DEF Fresh, AccessTypeOK, Tokens
    <2>2. \A t \in Tokens : t < n => pendingTokens'[t] = pendingTokens[t]
      BY <1>3, <1>6 DEF Tokens
    <2> QED BY <1>1, <2>1, <2>2 DEF Unspent
  <1>17. Live'
    BY <1>1 DEF Live
  <1>18. Unbegun'
    BY <1>1 DEF Unbegun
  <1> QED BY <1>7, <1>9, <1>10, <1>12, <1>13, <1>14, <1>15, <1>16, <1>17, <1>18

-----------------------------------------------------------------------------
(* The end of a session, and of a socket.                                  *)

\* Two seats never share a socket: a socket has one holder.
LEMMA OneSeatPerSocket ==
    ASSUME AccessInv, NEW d \in Duels, NEW p \in Seats, NEW e \in Duels, NEW r \in Seats,
           players[d][p].ws # NoSocket, players[d][p].ws = players[e][r].ws
    PROVE  d = e /\ p = r
  <1>1. UserAt(d, p) = UserAt(e, r)
    BY DEF AccessInv, Owned
  <1>2. d = e /\ players[d][p].user = players[d][r].user
    BY <1>1 DEF UserAt
  <1> QED BY <1>2 DEF AccessInv, AccessTypeOK, Seats

\* Whatever the handler did to the players and the reconnect tokens of the session before it
\* removes it, provided they agreed, nothing of the session is left and no other one is touched.
LEMMA Removal ==
    ASSUME AccessInv, NEW d \in activeDuels, NEW q \in [Seats -> PlayerSession],
           NEW map \in [Tokens -> Targets \cup {NoTarget}],
           q[0].user # q[1].user,
           Linked(activeDuels, [players EXCEPT ![d] = q], map),
           Terminate(d, q, map)
    PROVE  /\ players' \in [Duels -> [Seats -> PlayerSession]]
           /\ \A e \in Duels : players'[e][0].user # players'[e][1].user
           /\ pendingTokens' \in [Tokens -> Targets \cup {NoTarget}]
           /\ reconnectTokens' \in [Tokens -> Targets \cup {NoTarget}]
           /\ \A e \in Duels \ {d} : players'[e] = players[e]
           /\ \A p \in Seats : /\ players'[d][p].reconnectToken = NoToken
                               /\ players'[d][p].ws = NoSocket /\ ~players'[d][p].connected
           /\ \A t \in Tokens : pendingTokens'[t] \in {pendingTokens[t], NoTarget}
           /\ \A t \in Tokens, p \in Seats : pendingTokens'[t] # Seat(d, p)
           /\ d \in Duels /\ activeDuels' = activeDuels \ {d} /\ Links' /\ Idle'
  <1> DEFINE gone == [p \in Seats |-> [user |-> q[p].user, reconnectToken |-> NoToken,
                                       ws |-> NoSocket, connected |-> FALSE]]
  <1>1. players' = [players EXCEPT ![d] = gone] /\ activeDuels' = activeDuels \ {d}
    BY DEF Terminate
  <1>2. d \in Duels /\ players \in [Duels -> [Seats -> PlayerSession]]
    BY DEF AccessInv, AccessTypeOK
  <1>3. gone \in [Seats -> PlayerSession] /\ gone[0].user # gone[1].user
    BY DEF PlayerSession, NoToken, NoSocket, Seats
  <1>4. /\ \A e \in Duels \ {d} : players'[e] = players[e]
        /\ \A p \in Seats : /\ players'[d][p].reconnectToken = NoToken
                            /\ players'[d][p].ws = NoSocket /\ ~players'[d][p].connected
    BY <1>1, <1>2
  <1>5. /\ players' \in [Duels -> [Seats -> PlayerSession]]
        /\ \A e \in Duels : players'[e][0].user # players'[e][1].user
    <2> HIDE DEF gone
    <2> QED BY <1>1, <1>2, <1>3 DEF AccessInv, AccessTypeOK
  <1>6. /\ pendingTokens' \in [Tokens -> Targets \cup {NoTarget}]
        /\ \A t \in Tokens : pendingTokens'[t] \in {pendingTokens[t], NoTarget}
        /\ \A t \in Tokens, p \in Seats : pendingTokens'[t] # Seat(d, p)
    BY <1>2, SeatIsTarget DEF Terminate, AccessInv, AccessTypeOK
  <1>7. reconnectTokens' = [t \in Tokens |->
            IF t \in {q[0].reconnectToken, q[1].reconnectToken} THEN NoTarget ELSE map[t]]
    BY DEF Terminate
  <1>8. Links'
    <2> SUFFICES ASSUME NEW t \in Tokens, NEW e \in Duels, NEW p \in Seats
                 PROVE  reconnectTokens'[t] = Seat(e, p)
                          <=> e \in activeDuels \ {d} /\ players'[e][p].reconnectToken = t
      BY <1>1 DEF Links, Linked
    <2>1. CASE e = d
      <3>1. map[t] = Seat(d, p) <=> q[p].reconnectToken = t
        BY <1>2, <2>1 DEF Linked
      <3>2. q[p] \in {q[0], q[1]}
        BY DEF Seats
      <3> QED BY <1>2, <1>7, <2>1, <3>1, <3>2, SeatIsTarget
    <2>2. CASE e # d
      <3>1. map[t] = Seat(e, p) <=> e \in activeDuels /\ players[e][p].reconnectToken = t
        BY <1>2, <2>2 DEF Linked
      <3>2. t \in {q[0].reconnectToken, q[1].reconnectToken} => map[t] # Seat(e, p)
        <4>1. ASSUME NEW r \in Seats, t = q[r].reconnectToken PROVE map[t] = Seat(d, r)
          BY <1>2, <4>1 DEF Linked
        <4> QED BY <1>2, <2>2, <4>1, SeatsDiffer DEF Seats
      <3> QED BY <1>2, <1>4, <1>7, <2>2, <3>1, <3>2, SeatIsTarget
    <2> QED BY <2>1, <2>2
  <1>9. Idle'
    BY <1>1, <1>2, <1>4 DEF Idle, AccessInv
  <1>10. reconnectTokens' \in [Tokens -> Targets \cup {NoTarget}]
    BY <1>7
  <1> QED BY <1>1, <1>2, <1>4, <1>5, <1>6, <1>8, <1>9, <1>10

\* The rest of the invariant after such a removal, whatever tokens were issued and consumed in
\* the same step.
LEMMA RemovalStep ==
    ASSUME AccessInv, NEW d \in activeDuels, NEW q \in [Seats -> PlayerSession],
           NEW map \in [Tokens -> Targets \cup {NoTarget}],
           q[0].user # q[1].user,
           Linked(activeDuels, [players EXCEPT ![d] = q], map),
           Terminate(d, q, map),
           UNCHANGED <<created, soloDuels, stage>>,
           issued' \in Nat, issued' >= issued, opened' \in Nat, opened' >= opened,
           \A t \in Tokens : t < issued => owner'[t] = owner[t],
           \A s \in Sockets : s < opened => holder'[s] = holder[s],
           \A t \in spent' : t \in spent \/ ( /\ t \in Tokens /\ t < issued
                                              /\ pendingTokens'[t] = NoTarget
                                              /\ reconnectTokens'[t] = NoTarget )
    PROVE  Fresh' /\ Idle' /\ Unbegun' /\ Pending' /\ Apart' /\ Links' /\ Owned' /\ Unspent'
  <1> USE DEF AccessInv
  <1>1. /\ d \in Duels
        /\ activeDuels' = activeDuels \ {d} /\ Links' /\ Idle'
        /\ \A e \in Duels \ {d} : players'[e] = players[e]
        /\ \A p \in Seats : /\ players'[d][p].reconnectToken = NoToken
                            /\ players'[d][p].ws = NoSocket /\ ~players'[d][p].connected
        /\ \A t \in Tokens : pendingTokens'[t] \in {pendingTokens[t], NoTarget}
        /\ \A t \in Tokens, p \in Seats : pendingTokens'[t] # Seat(d, p)
    BY Removal
  <1>2. issued \in Nat /\ opened \in Nat /\ Tokens \subseteq Nat /\ Sockets \subseteq Nat
    BY AccessAssumption DEF AccessTypeOK, Tokens, Sockets
  <1>3. /\ \A e \in Duels, p \in Seats :
             /\ players[e][p].reconnectToken \in Tokens \cup {NoToken}
             /\ players[e][p].ws \in Sockets \cup {NoSocket}
             /\ players[e][p].reconnectToken < issued /\ players[e][p].ws < opened
        /\ \A t \in Tokens : pendingTokens[t] # NoTarget => t < issued
    BY <1>2, PlayerFields DEF Fresh
  <1>4. Fresh'
    <2>1. \A t \in Tokens : t >= issued' => pendingTokens'[t] = NoTarget /\ t \notin spent'
      BY <1>1, <1>2 DEF Fresh
    <2>2. \A e \in Duels, p \in Seats : players'[e][p].reconnectToken < issued' /\ players'[e][p].ws < opened'
      <3> TAKE e \in Duels, p \in Seats
      <3>1. CASE e = d
        BY <1>1, <1>2, <3>1 DEF NoToken, NoSocket
      <3>2. CASE e # d
        <4>1. players'[e][p] = players[e][p]
          BY <1>1, <3>2
        <4>2. /\ players[e][p].reconnectToken \in Int /\ players[e][p].ws \in Int
              /\ players[e][p].reconnectToken < issued /\ players[e][p].ws < opened
          <5>1. Tokens \cup {NoToken} \subseteq Int /\ Sockets \cup {NoSocket} \subseteq Int
            BY <1>2 DEF NoToken, NoSocket
          <5> QED BY <1>3, <5>1
        <4> QED BY <1>2, <4>1, <4>2
      <3> QED BY <3>1, <3>2
    <2> QED BY <2>1, <2>2 DEF Fresh
  <1>5. Unbegun'
    BY DEF Unbegun
  <1>6. Pending'
    <2> SUFFICES ASSUME NEW t \in Tokens, NEW e \in Duels, NEW p \in Seats,
                        pendingTokens'[t] = Seat(e, p)
                 PROVE  /\ e \in activeDuels' /\ stage[e] # "dueling"
                        /\ e \in soloDuels => p = 0
                        /\ owner'[t] = UserAt(e, p)'
                        /\ players'[e][p].reconnectToken = NoToken
                        /\ players'[e][p].ws = NoSocket
                        /\ ~players'[e][p].connected
      BY DEF Pending
    <2>1. e # d /\ pendingTokens[t] = Seat(e, p)
      BY <1>1, SeatIsTarget
    <2>2. t < issued /\ owner'[t] = owner[t] /\ players'[e] = players[e]
      BY <1>1, <1>3, <2>1, SeatIsTarget
    <2> QED BY <1>1, <2>1, <2>2 DEF Pending, UserAt
  <1>7. Apart'
    BY <1>1, SeatIsTarget DEF Apart
  <1>8. Owned'
    <2> SUFFICES ASSUME NEW e \in Duels, NEW p \in Seats
                 PROVE  LET x == players'[e][p] IN
                        /\ x.reconnectToken # NoToken => owner'[x.reconnectToken] = UserAt(e, p)'
                        /\ x.ws # NoSocket => holder'[x.ws] = UserAt(e, p)'
                        /\ x.ws # NoSocket => x.reconnectToken # NoToken
      BY DEF Owned
    <2>1. CASE e = d
      BY <1>1, <2>1
    <2>2. CASE e # d
      BY <1>1, <1>3, <2>2 DEF Owned, UserAt
    <2> QED BY <2>1, <2>2
  <1>9. Unspent'
    <2>1. \A t \in spent' : pendingTokens'[t] = NoTarget
      BY <1>1 DEF Unspent, AccessTypeOK
    <2>2. ASSUME NEW e \in Duels, NEW p \in Seats, players'[e][p].reconnectToken \in spent'
          PROVE  FALSE
      <3> DEFINE u == players'[e][p].reconnectToken
      <3>0. u \in Tokens
        BY <2>2 DEF AccessTypeOK
      <3>1. u \in Tokens /\ u # NoToken
        BY <1>2, <3>0 DEF NoToken
      <3>2. e \in activeDuels' /\ e # d
        BY <1>1, <3>1 DEF Idle
      <3>3. u \notin spent
        BY <1>1, <3>2 DEF Unspent
      <3>4. reconnectTokens'[u] = Seat(e, p)
        BY <1>1, <3>1, <3>2 DEF Links, Linked
      <3> QED BY <2>2, <3>3, <3>4, SeatIsTarget
    <2> QED BY <2>1, <2>2 DEF Unspent
  <1> QED BY <1>1, <1>4, <1>5, <1>6, <1>7, <1>8, <1>9

\* A removal takes all the session's tokens with it.
LEMMA RemoveStep ==
    ASSUME AccessInv, NEW d \in Duels, Remove(d) PROVE AccessInv'
  <1> DEFINE q == players[d]
  <1>1. /\ d \in activeDuels /\ Terminate(d, q, reconnectTokens) /\ socketState' = Hangup(q)
        /\ UNCHANGED <<created, soloDuels, stage, issued, opened, owner, holder, spent>>
    BY DEF Remove
  <1>2. /\ q \in [Seats -> PlayerSession] /\ q[0].user # q[1].user
        /\ reconnectTokens \in [Tokens -> Targets \cup {NoTarget}]
        /\ issued \in Nat /\ opened \in Nat
    BY AccessAssumption DEF AccessInv, AccessTypeOK
  <1>3. Linked(activeDuels, [players EXCEPT ![d] = q], reconnectTokens)
    <2>1. [players EXCEPT ![d] = players[d]] = players
      BY DEF AccessInv, AccessTypeOK
    <2> QED BY <2>1 DEF AccessInv, Links
  <1> HIDE DEF q
  <1>4. /\ players' \in [Duels -> [Seats -> PlayerSession]]
        /\ \A e \in Duels : players'[e][0].user # players'[e][1].user
        /\ pendingTokens' \in [Tokens -> Targets \cup {NoTarget}]
        /\ reconnectTokens' \in [Tokens -> Targets \cup {NoTarget}]
        /\ activeDuels' = activeDuels \ {d}
        /\ \A e \in Duels \ {d} : players'[e] = players[e]
        /\ \A p \in Seats : players'[d][p].ws = NoSocket /\ ~players'[d][p].connected
    BY <1>1, <1>2, <1>3, Removal
  <1>5. Fresh' /\ Idle' /\ Unbegun' /\ Pending' /\ Apart' /\ Links' /\ Owned' /\ Unspent'
    BY <1>1, <1>2, <1>3, RemovalStep
  <1>6. AccessTypeOK'
    <2>1. socketState' \in [Sockets -> SocketStates]
      BY <1>1 DEF Hangup, AccessInv, AccessTypeOK, SocketStates
    <2> QED BY <1>1, <1>4, <2>1 DEF AccessInv, AccessTypeOK, Users
  <1>7. Live'
    <2> SUFFICES ASSUME NEW e \in Duels, NEW p \in Seats
                 PROVE  players'[e][p].connected <=>
                          /\ players'[e][p].ws # NoSocket
                          /\ socketState'[players'[e][p].ws] \in {"open", "dying"}
      BY DEF Live
    <2>1. CASE e = d
      BY <1>4, <2>1
    <2>2. CASE e # d
      <3>1. players[e][p].ws \in Sockets \cup {NoSocket}
        BY PlayerFields DEF AccessInv
      <3>2. \A s \in Sockets : socketState'[s] \in {"open", "dying"}
                                 <=> socketState[s] \in {"open", "dying"}
        BY <1>1 DEF Hangup
      <3> QED BY <1>4, <2>2, <3>1, <3>2 DEF AccessInv, Live
    <2> QED BY <2>1, <2>2
  <1> QED BY <1>5, <1>6, <1>7 DEF AccessInv

\* The close of a socket frees the one seat that has it, or none, and may remove the session.
LEMMA CloseEventStep ==
    ASSUME AccessInv, NEW s \in Sockets, CloseEvent(s) PROVE AccessInv'
  <1> USE DEF AccessInv
  <1>1. /\ socketState' = [socketState EXCEPT ![s] = "closed"]
        /\ UNCHANGED <<created, soloDuels, stage, issued, opened, owner, holder, spent>>
    BY DEF CloseEvent
  <1>2. /\ socketState' \in [Sockets -> SocketStates] /\ socketState'[s] = "closed"
        /\ \A r \in Sockets \ {s} : socketState'[r] = socketState[r]
    BY <1>1 DEF AccessTypeOK, SocketStates
  <1>3. s # NoSocket /\ issued \in Nat /\ opened \in Nat
    BY AccessAssumption DEF Sockets, NoSocket, AccessTypeOK
  <1>4. \A e \in Duels, p \in Seats : players[e][p].ws = s => Seat(e, p) \in SeatsOf(s)
    <2> TAKE e \in Duels, p \in Seats
    <2>1. players[e][p].ws = s => e \in activeDuels
      BY <1>3 DEF Idle
    <2> QED BY <2>1, SeatIsTarget DEF SeatsOf, AccessTypeOK
  <1>5. CASE SeatsOf(s) = {} /\ UNCHANGED <<serverMaps, players>>
    <2>1. AccessTypeOK'
      BY <1>1, <1>2, <1>5 DEF AccessTypeOK, serverMaps, Users, Targets
    <2>2. Pending' /\ Unbegun'
      BY <1>1, <1>5 DEF Pending, Unbegun, serverMaps, Seat, UserAt
    <2>3. \A e \in Duels, p \in Seats : players[e][p].ws # s
      BY <1>4, <1>5
    <2>4. Live'
      BY <1>2, <1>5, <2>3, PlayerFields DEF Live
    <2> QED BY <1>1, <1>5, <2>1, <2>2, <2>4, QuietStep DEF serverMaps
  <1>6. ASSUME NEW x \in SeatsOf(s),
               LET q == [players[x.duel] EXCEPT ![x.seat].connected = FALSE] IN
                 \/ Terminate(x.duel, q, reconnectTokens)
                 \/ players' = [players EXCEPT ![x.duel] = q] /\ UNCHANGED serverMaps
        PROVE  AccessInv'
    <2> DEFINE d == x.duel
               q == [players[d] EXCEPT ![x.seat].connected = FALSE]
    <2>1. /\ d \in Duels /\ x.seat \in Seats /\ x = Seat(d, x.seat) /\ players[d][x.seat].ws = s
      BY TargetIsSeat DEF SeatsOf
    <2>2. d \in activeDuels
      BY <1>3, <2>1 DEF Idle
    <2>3. players \in [Duels -> [Seats -> PlayerSession]] /\ players[d] \in [Seats -> PlayerSession]
      BY <2>1 DEF AccessTypeOK
    <2>4. /\ q \in [Seats -> PlayerSession] /\ q[0].user # q[1].user
          /\ \A p \in Seats : /\ q[p].reconnectToken = players[d][p].reconnectToken
                              /\ q[p].ws = players[d][p].ws /\ q[p].user = players[d][p].user
                              /\ p = x.seat => ~q[p].connected
                              /\ p # x.seat => q[p].connected = players[d][p].connected
      BY <2>1, <2>3 DEF AccessTypeOK, PlayerSession, Seats
    <2> HIDE DEF q
    <2>5. Linked(activeDuels, [players EXCEPT ![d] = q], reconnectTokens)
      BY <2>1, <2>3, <2>4 DEF Links, Linked
    <2>6. \A e \in Duels, p \in Seats :
            players[e][p].ws \in Sockets \cup {NoSocket} /\ (players[e][p].ws = s => e = d /\ p = x.seat)
      BY <1>3, <2>1, OneSeatPerSocket, PlayerFields
    <2>7. CASE Terminate(d, q, reconnectTokens)
      <3>1. reconnectTokens \in [Tokens -> Targets \cup {NoTarget}]
        BY DEF AccessTypeOK
      <3>2. /\ players' \in [Duels -> [Seats -> PlayerSession]]
            /\ \A e \in Duels : players'[e][0].user # players'[e][1].user
            /\ pendingTokens' \in [Tokens -> Targets \cup {NoTarget}]
            /\ reconnectTokens' \in [Tokens -> Targets \cup {NoTarget}]
            /\ activeDuels' = activeDuels \ {d}
            /\ \A e \in Duels \ {d} : players'[e] = players[e]
            /\ \A p \in Seats : players'[d][p].ws = NoSocket /\ ~players'[d][p].connected
        BY <2>2, <2>4, <2>5, <2>7, <3>1, Removal
      <3>3. Fresh' /\ Idle' /\ Unbegun' /\ Pending' /\ Apart' /\ Links' /\ Owned' /\ Unspent'
        BY <1>1, <1>3, <2>2, <2>4, <2>5, <2>7, <3>1, RemovalStep
      <3>4. AccessTypeOK'
        BY <1>1, <1>2, <3>2 DEF AccessTypeOK, Users
      <3>5. Live'
        BY <1>2, <2>6, <3>2 DEF Live
      <3> QED BY <3>3, <3>4, <3>5
    <2>8. CASE players' = [players EXCEPT ![d] = q] /\ UNCHANGED serverMaps
      <3>1. ASSUME NEW e \in Duels, NEW p \in Seats
            PROVE  /\ players'[e][p].reconnectToken = players[e][p].reconnectToken
                   /\ players'[e][p].ws = players[e][p].ws /\ players'[e][p].user = players[e][p].user
                   /\ e = d /\ p = x.seat => ~players'[e][p].connected
                   /\ ~(e = d /\ p = x.seat) => players'[e][p].connected = players[e][p].connected
        BY <2>1, <2>3, <2>4, <2>8
      <3>2. UNCHANGED <<activeDuels, pendingTokens, reconnectTokens>>
        BY <2>8 DEF serverMaps
      <3>3. AccessTypeOK'
        <4>1. players' \in [Duels -> [Seats -> PlayerSession]]
          BY <2>3, <2>4, <2>8
        <4>2. \A e \in Duels : players'[e][0].user # players'[e][1].user
          BY <3>1 DEF AccessTypeOK, Seats
        <4> QED BY <1>1, <1>2, <3>2, <4>1, <4>2 DEF AccessTypeOK, Users
      <3>4. Fresh' /\ Unspent'
        BY <1>1, <3>1, <3>2 DEF Fresh, Unspent
      <3>5. Idle' /\ Unbegun'
        BY <1>1, <2>2, <3>1, <3>2 DEF Idle, Unbegun
      <3>6. Pending' /\ Apart'
        <4>1. \A e \in Duels, p \in Seats : UserAt(e, p)' = UserAt(e, p)
          BY <3>1 DEF UserAt
        <4>2. Apart'
          BY <3>2 DEF Apart
        <4>3. Pending'
          <5> SUFFICES ASSUME NEW t \in Tokens, NEW e \in Duels, NEW p \in Seats,
                              pendingTokens[t] = Seat(e, p)
                       PROVE  /\ e \in activeDuels /\ stage[e] # "dueling"
                              /\ e \in soloDuels => p = 0
                              /\ owner[t] = UserAt(e, p)'
                              /\ players'[e][p].reconnectToken = NoToken
                              /\ players'[e][p].ws = NoSocket
                              /\ ~players'[e][p].connected
            BY <1>1, <3>2 DEF Pending
          <5> QED BY <1>3, <2>1, <3>1, <4>1 DEF Pending
        <4> QED BY <4>2, <4>3
      <3>7. Links'
        BY <3>1, <3>2 DEF Links, Linked
      <3>8. Owned'
        BY <1>1, <3>1 DEF Owned, UserAt
      <3>9. Live'
        BY <1>2, <2>1, <2>6, <3>1 DEF Live
      <3> QED BY <3>3, <3>4, <3>5, <3>6, <3>7, <3>8, <3>9
    <2> QED BY <1>6, <2>7, <2>8 DEF q
  <1> QED BY <1>5, <1>6 DEF CloseEvent

-----------------------------------------------------------------------------
(* A handshake.                                                            *)

\* Two seats that a token was given for are the same seat.
LEMMA OneUserPerSeat ==
    ASSUME AccessInv, NEW d \in Duels, NEW p \in Seats, NEW e \in Duels, NEW r \in Seats,
           UserAt(d, p) = UserAt(e, r)
    PROVE  d = e /\ p = r
  <1>1. d = e /\ players[d][p].user = players[d][r].user
    BY DEF UserAt
  <1> QED BY <1>1 DEF AccessInv, AccessTypeOK, Seats

\* The token that a handshake presents is either initial, and then the seat has no other, or the
\* seat's reconnect token, and then it is not initial; no other player has it.
LEMMA Presented ==
    ASSUME AccessInv, NEW d \in activeDuels, NEW p \in Seats, NEW t \in Tokens,
           Seat(d, p) \in {pendingTokens[t], reconnectTokens[t]}
    PROVE  /\ \/ /\ pendingTokens[t] = Seat(d, p)
                 /\ players[d][p].reconnectToken = NoToken
              \/ /\ pendingTokens[t] = NoTarget /\ reconnectTokens[t] = Seat(d, p)
                 /\ players[d][p].reconnectToken = t
           /\ t < issued /\ owner[t] = UserAt(d, p)
           /\ \A e \in Duels, r \in Seats : players[e][r].reconnectToken = t => e = d /\ r = p
           /\ \A e \in Duels, r \in Seats : pendingTokens[t] = Seat(e, r) => e = d /\ r = p
  <1> USE DEF AccessInv
  <1>1. d \in Duels /\ t # NoToken
    BY AccessAssumption DEF AccessTypeOK, Tokens, NoToken
  <1>2. reconnectTokens[t] = Seat(d, p) => players[d][p].reconnectToken = t
    BY <1>1 DEF Links, Linked
  <1>3. owner[t] = UserAt(d, p)
    BY <1>1, <1>2 DEF Pending, Owned
  <1>4. \A e \in Duels, r \in Seats : players[e][r].reconnectToken = t => e = d /\ r = p
    BY <1>1, <1>3, OneUserPerSeat DEF Owned
  <1>5. \A e \in Duels, r \in Seats : pendingTokens[t] = Seat(e, r) => e = d /\ r = p
    BY <1>1, <1>3, OneUserPerSeat DEF Pending
  <1>6. pendingTokens[t] = Seat(d, p) => players[d][p].reconnectToken = NoToken
    BY <1>1 DEF Pending
  <1>7. pendingTokens[t] = NoTarget \/ pendingTokens[t] = Seat(d, p)
    BY <1>5, TargetIsSeat DEF AccessTypeOK
  <1>8. t < issued
    <2>1. CASE pendingTokens[t] = Seat(d, p)
      BY <1>1, <2>1, SeatIsTarget, AccessAssumption DEF Fresh, AccessTypeOK, Tokens
    <2>2. CASE reconnectTokens[t] = Seat(d, p)
      BY <1>1, <1>2, <2>2 DEF Fresh
    <2> QED BY <2>1, <2>2
  <1> QED BY <1>1, <1>2, <1>3, <1>4, <1>5, <1>6, <1>7, <1>8

\* What the handshake does to the players, and that the rotated map goes with them.
LEMMA Rotation ==
    ASSUME AccessInv, NEW d \in activeDuels, NEW p \in Seats, NEW t \in Tokens,
           Seat(d, p) \in {pendingTokens[t], reconnectTokens[t]},
           issued < MaxTokens, opened < MaxSockets
    PROVE  LET q   == Entered(d, p)
               map == Rotated([reconnectTokens EXCEPT ![t] = NoTarget], d, p, issued)
           IN
           /\ issued \in Tokens /\ opened \in Sockets
           /\ q \in [Seats -> PlayerSession] /\ q[0].user # q[1].user
           /\ q[p] = [user |-> players[d][p].user, reconnectToken |-> issued, ws |-> opened,
                      connected |-> TRUE]
           /\ \A r \in Seats \ {p} : q[r] = players[d][r]
           /\ map \in [Tokens -> Targets \cup {NoTarget}] /\ map[t] = NoTarget
           /\ Linked(activeDuels, [players EXCEPT ![d] = q], map)
  <1> DEFINE q == Entered(d, p)
             map == Rotated([reconnectTokens EXCEPT ![t] = NoTarget], d, p, issued)
  <1> USE DEF AccessInv
  <1>1. /\ d \in Duels /\ players[d] \in [Seats -> PlayerSession]
        /\ players \in [Duels -> [Seats -> PlayerSession]]
        /\ reconnectTokens \in [Tokens -> Targets \cup {NoTarget}]
    BY DEF AccessTypeOK
  <1>2. issued \in Tokens /\ opened \in Sockets
    BY AccessAssumption DEF AccessTypeOK, Tokens, Sockets
  <1>3. /\ q[p] = [user |-> players[d][p].user, reconnectToken |-> issued, ws |-> opened,
                   connected |-> TRUE]
        /\ \A r \in Seats \ {p} : q[r] = players[d][r]
        /\ q \in [Seats -> PlayerSession]
    BY <1>1, <1>2 DEF Entered, PlayerSession
  <1>4. q[0].user # q[1].user
    <2>1. \A r \in Seats : q[r].user = players[d][r].user
      BY <1>3
    <2> QED BY <1>1, <2>1 DEF AccessTypeOK, Seats
  <1>5. Seat(d, p) \in Targets
    BY <1>1, SeatIsTarget
  <1>6. map \in [Tokens -> Targets \cup {NoTarget}]
    BY <1>1, <1>5 DEF Rotated
  <1>7. ASSUME NEW u \in Tokens
        PROVE  map[u] = IF u = issued THEN Seat(d, p)
                        ELSE IF u \in {players[d][p].reconnectToken, t} THEN NoTarget
                        ELSE reconnectTokens[u]
    BY <1>1 DEF Rotated
  <1>8. t < issued
    BY Presented
  <1>9. t # issued
    BY <1>2, <1>8, AccessAssumption DEF Tokens
  <1>10. ASSUME NEW e \in Duels, NEW r \in Seats PROVE players[e][r].reconnectToken # issued
    <2>1. players[e][r].reconnectToken < issued /\ issued \in Int
      BY <1>2, AccessAssumption DEF Fresh, Tokens
    <2> QED BY <2>1
  <1> HIDE DEF q, map
  <1>11. ASSUME NEW u \in Tokens, NEW e \in Duels, NEW r \in Seats
         PROVE  map[u] = Seat(e, r)
                  <=> e \in activeDuels /\ [players EXCEPT ![d] = q][e][r].reconnectToken = u
    <2> DEFINE x == [players EXCEPT ![d] = q][e][r].reconnectToken
    <2> SUFFICES map[u] = Seat(e, r) <=> e \in activeDuels /\ x = u
      OBVIOUS
    <2>1. x = IF e = d /\ r = p THEN issued ELSE players[e][r].reconnectToken
      BY <1>1, <1>3
    <2>2. reconnectTokens[u] = Seat(e, r) <=> e \in activeDuels /\ players[e][r].reconnectToken = u
      BY DEF Links, Linked
    <2>3. Seat(e, r) = Seat(d, p) <=> e = d /\ r = p
      BY <1>1, SeatsDiffer
    <2>4. Seat(e, r) # NoTarget
      BY SeatIsTarget
    <2> HIDE DEF x
    <2>5. CASE u = issued
      BY <1>7, <1>10, <2>1, <2>3, <2>5
    <2>6. CASE u # issued /\ u \in {players[d][p].reconnectToken, t}
      <3>1. map[u] # Seat(e, r)
        BY <1>7, <2>4, <2>6
      <3>2. players[e][r].reconnectToken = u => e = d /\ r = p
        <4>1. CASE u = t
          BY <4>1, Presented
        <4>2. CASE u = players[d][p].reconnectToken
          <5>1. players[e][r].reconnectToken = u => UserAt(e, r) = UserAt(d, p)
            BY <1>1, <4>2, AccessAssumption DEF Owned, Tokens, NoToken
          <5> QED BY <1>1, <5>1, OneUserPerSeat
        <4> QED BY <2>6, <4>1, <4>2
      <3> QED BY <2>1, <2>6, <3>1, <3>2
    <2>7. CASE u # issued /\ u \notin {players[d][p].reconnectToken, t}
      <3>1. map[u] = reconnectTokens[u]
        BY <1>7, <2>7
      <3> QED BY <2>1, <2>2, <2>7, <3>1
    <2> QED BY <2>5, <2>6, <2>7
  <1>12. Linked(activeDuels, [players EXCEPT ![d] = q], map)
    BY <1>11 DEF Linked
  <1>13. map[t] = NoTarget
    BY <1>7, <1>9
  <1> QED BY <1>2, <1>3, <1>4, <1>6, <1>12, <1>13 DEF q, map

\* A handshake moves the seat from one token and one socket to the next.
LEMMA EnterStep ==
    ASSUME AccessInv, NEW d \in activeDuels, NEW p \in Seats, NEW t \in Tokens, NEW collects \in BOOLEAN,
           Seat(d, p) \in {pendingTokens[t], reconnectTokens[t]},
           collects => reconnectTokens[t] = Seat(d, p),
           Enter(d, p, t, collects)
    PROVE  AccessInv'
  <1> DEFINE q   == Entered(d, p)
             map == Rotated([reconnectTokens EXCEPT ![t] = NoTarget], d, p, issued)
  <1> USE DEF AccessInv
  <1>1. /\ issued < MaxTokens /\ issued' = issued + 1 /\ opened < MaxSockets /\ opened' = opened + 1
        /\ spent' = spent \cup {t} /\ owner' = [owner EXCEPT ![issued] = UserAt(d, p)]
        /\ holder' = [holder EXCEPT ![opened] = owner[t]]
        /\ UNCHANGED <<created, soloDuels, stage>>
    BY DEF Enter
  <1>2. \/ /\ collects /\ Terminate(d, q, map)
           /\ socketState' = [Hangup(q) EXCEPT ![opened] = "dying"]
        \/ /\ players' = [players EXCEPT ![d] = q] /\ reconnectTokens' = map
           /\ pendingTokens' = [pendingTokens EXCEPT ![t] = NoTarget]
           /\ socketState' = [socketState EXCEPT ![opened] = "open"]
           /\ activeDuels' = activeDuels
    BY DEF Enter
  <1>3. /\ issued \in Tokens /\ opened \in Sockets
        /\ q \in [Seats -> PlayerSession] /\ q[0].user # q[1].user
        /\ q[p] = [user |-> players[d][p].user, reconnectToken |-> issued, ws |-> opened,
                   connected |-> TRUE]
        /\ \A r \in Seats \ {p} : q[r] = players[d][r]
        /\ map \in [Tokens -> Targets \cup {NoTarget}] /\ map[t] = NoTarget
        /\ Linked(activeDuels, [players EXCEPT ![d] = q], map)
    BY <1>1, Rotation
  <1> HIDE DEF q, map
  <1>4. /\ t < issued /\ owner[t] = UserAt(d, p) /\ d \in Duels
        /\ \A e \in Duels, r \in Seats : players[e][r].reconnectToken = t => e = d /\ r = p
        /\ \A e \in Duels, r \in Seats : pendingTokens[t] = Seat(e, r) => e = d /\ r = p
    BY Presented DEF AccessTypeOK
  <1>5. /\ issued \in Nat /\ opened \in Nat /\ Tokens \subseteq Nat /\ Sockets \subseteq Nat
        /\ issued' \in 0..MaxTokens /\ opened' \in 0..MaxSockets
    BY <1>1, <1>3, AccessAssumption DEF Tokens, Sockets
  <1>6. /\ \A u \in Tokens : u < issued => owner'[u] = owner[u]
        /\ \A r \in Sockets : r < opened => holder'[r] = holder[r]
        /\ owner'[issued] = UserAt(d, p) /\ holder'[opened] = UserAt(d, p)
        /\ owner' \in [Tokens -> Users \cup {NoTarget}]
        /\ holder' \in [Sockets -> Users \cup {NoTarget}]
    <2>1. UserAt(d, p) \in Users
      BY <1>4, UserIsUser
    <2> QED BY <1>1, <1>3, <1>4, <1>5, <2>1 DEF AccessTypeOK
  <1>7. ASSUME NEW e \in Duels, NEW r \in Seats
        PROVE  /\ players[e][r].reconnectToken \in Tokens \cup {NoToken}
               /\ players[e][r].ws \in Sockets \cup {NoSocket}
               /\ players[e][r].reconnectToken < issued /\ players[e][r].ws < opened
    BY PlayerFields DEF Fresh
  <1>8. CASE collects /\ Terminate(d, q, map) /\ socketState' = [Hangup(q) EXCEPT ![opened] = "dying"]
    <2>1. /\ players' \in [Duels -> [Seats -> PlayerSession]]
          /\ \A e \in Duels : players'[e][0].user # players'[e][1].user
          /\ pendingTokens' \in [Tokens -> Targets \cup {NoTarget}]
          /\ reconnectTokens' \in [Tokens -> Targets \cup {NoTarget}]
          /\ activeDuels' = activeDuels \ {d}
          /\ \A e \in Duels \ {d} : players'[e] = players[e]
          /\ \A r \in Seats : players'[d][r].ws = NoSocket /\ ~players'[d][r].connected
          /\ \A u \in Tokens : pendingTokens'[u] \in {pendingTokens[u], NoTarget}
      BY <1>3, <1>8, Removal
    <2>2. pendingTokens'[t] = NoTarget /\ reconnectTokens'[t] = NoTarget
      <3>1. reconnectTokens[t] = Seat(d, p)
        BY <1>8
      <3>2. pendingTokens[t] = NoTarget
        <4>1. players[d][p].reconnectToken = t /\ t # NoToken
          BY <1>4, <1>5, <3>1 DEF Links, Linked, NoToken
        <4> QED BY <4>1, Presented
      <3>3. reconnectTokens'[t] \in {map[t], NoTarget}
        BY <1>8 DEF Terminate
      <3> QED BY <1>3, <2>1, <3>2, <3>3
    <2>3. /\ issued' \in Nat /\ issued' >= issued /\ opened' \in Nat /\ opened' >= opened
      BY <1>1, <1>5
    <2>4. \A u \in spent' : u \in spent \/ ( /\ u \in Tokens /\ u < issued
                                             /\ pendingTokens'[u] = NoTarget
                                             /\ reconnectTokens'[u] = NoTarget )
      BY <1>1, <1>4, <2>2
    <2>5. Fresh' /\ Idle' /\ Unbegun' /\ Pending' /\ Apart' /\ Links' /\ Owned' /\ Unspent'
      BY <1>1, <1>3, <1>6, <1>8, <2>3, <2>4, RemovalStep
    <2>6. /\ socketState' \in [Sockets -> SocketStates]
          /\ \A r \in Sockets : r < opened => (socketState'[r] \in {"open", "dying"}
                                                <=> socketState[r] \in {"open", "dying"})
      BY <1>3, <1>5, <1>8 DEF Hangup, AccessTypeOK, SocketStates
    <2>7. AccessTypeOK'
      BY <1>1, <1>5, <1>6, <2>1, <2>6 DEF AccessTypeOK, Users
    <2>8. Live'
      BY <1>7, <2>1, <2>6 DEF Live
    <2> QED BY <2>5, <2>7, <2>8
  <1>9. CASE /\ players' = [players EXCEPT ![d] = q] /\ reconnectTokens' = map
             /\ pendingTokens' = [pendingTokens EXCEPT ![t] = NoTarget]
             /\ socketState' = [socketState EXCEPT ![opened] = "open"]
             /\ activeDuels' = activeDuels
    <2>1. players' \in [Duels -> [Seats -> PlayerSession]]
      BY <1>3, <1>9 DEF AccessTypeOK
    <2>2. ASSUME NEW e \in Duels, NEW r \in Seats
          PROVE  /\ e = d /\ r = p => /\ players'[e][r].reconnectToken = issued
                                      /\ players'[e][r].ws = opened /\ players'[e][r].connected
                 /\ ~(e = d /\ r = p) => players'[e][r] = players[e][r]
                 /\ players'[e][r].user = players[e][r].user
                 /\ UserAt(e, r)' = UserAt(e, r)
      <3>1. players'[e] = IF e = d THEN q ELSE players[e]
        BY <1>9 DEF AccessTypeOK
      <3>2. CASE e = d /\ r = p
        BY <1>3, <3>1, <3>2 DEF UserAt
      <3>3. CASE ~(e = d /\ r = p)
        BY <1>3, <3>1, <3>3 DEF UserAt
      <3> QED BY <3>2, <3>3
    <2>3. /\ pendingTokens' \in [Tokens -> Targets \cup {NoTarget}] /\ pendingTokens'[t] = NoTarget
          /\ \A u \in Tokens \ {t} : pendingTokens'[u] = pendingTokens[u]
      BY <1>9 DEF AccessTypeOK
    <2>4. /\ socketState' \in [Sockets -> SocketStates] /\ socketState'[opened] = "open"
          /\ \A r \in Sockets : r < opened => socketState'[r] = socketState[r]
      BY <1>3, <1>5, <1>9 DEF AccessTypeOK, SocketStates
    <2>5. AccessTypeOK'
      <3>1. \A e \in Duels : players'[e][0].user # players'[e][1].user
        BY <2>2 DEF AccessTypeOK, Seats
      <3>2. spent' \subseteq Tokens
        BY <1>1 DEF AccessTypeOK
      <3> QED BY <1>1, <1>3, <1>5, <1>6, <1>9, <2>1, <2>3, <2>4, <3>1, <3>2 DEF AccessTypeOK, Users
    <2>6. Fresh'
      <3>1. ASSUME NEW u \in Tokens, u >= issued' PROVE pendingTokens'[u] = NoTarget /\ u \notin spent'
        <4>1. u > issued /\ u # t
          BY <1>1, <1>4, <1>5, <3>1
        <4>2. pendingTokens[u] = NoTarget /\ u \notin spent
          BY <1>5, <4>1 DEF Fresh
        <4> QED BY <1>1, <2>3, <4>1, <4>2
      <3>2. ASSUME NEW e \in Duels, NEW r \in Seats
            PROVE  players'[e][r].reconnectToken < issued' /\ players'[e][r].ws < opened'
        <4>1. Tokens \cup {NoToken} \subseteq Int /\ Sockets \cup {NoSocket} \subseteq Int
          BY <1>5 DEF NoToken, NoSocket
        <4>2. players[e][r].reconnectToken < issued + 1 /\ players[e][r].ws < opened + 1
          BY <1>5, <1>7, <4>1
        <4> QED BY <1>1, <1>5, <2>2, <4>2
      <3> QED BY <3>1, <3>2 DEF Fresh
    <2>7. Idle' /\ Unbegun'
      BY <1>1, <1>9, <2>2 DEF Idle, Unbegun
    <2>8. Pending'
      <3> SUFFICES ASSUME NEW u \in Tokens, NEW e \in Duels, NEW r \in Seats, pendingTokens'[u] = Seat(e, r)
                   PROVE  /\ e \in activeDuels /\ stage[e] # "dueling"
                          /\ e \in soloDuels => r = 0
                          /\ owner'[u] = UserAt(e, r)'
                          /\ players'[e][r].reconnectToken = NoToken
                          /\ players'[e][r].ws = NoSocket
                          /\ ~players'[e][r].connected
        BY <1>1, <1>9 DEF Pending
      <3>1. u # t /\ pendingTokens[u] = Seat(e, r)
        BY <2>3, SeatIsTarget
      <3>2. ~(e = d /\ r = p)
        <4>1. CASE pendingTokens[t] = Seat(d, p)
          BY <3>1, <4>1 DEF Apart
        <4>2. CASE reconnectTokens[t] = Seat(d, p)
          <5>1. players[d][p].reconnectToken = t /\ t # NoToken
            BY <1>4, <1>5, <4>2 DEF Links, Linked, NoToken
          <5> QED BY <3>1, <5>1 DEF Pending
        <4> QED BY <4>1, <4>2
      <3>3. u < issued
        BY <1>5, <3>1, SeatIsTarget DEF Fresh
      <3> QED BY <1>6, <2>2, <3>1, <3>2, <3>3 DEF Pending
    <2>9. Apart'
      BY <2>3, SeatIsTarget DEF Apart
    <2>10. Links'
      BY <1>3, <1>9 DEF Links
    <2>11. Owned'
      <3> SUFFICES ASSUME NEW e \in Duels, NEW r \in Seats
                   PROVE  LET x == players'[e][r] IN
                          /\ x.reconnectToken # NoToken => owner'[x.reconnectToken] = UserAt(e, r)'
                          /\ x.ws # NoSocket => holder'[x.ws] = UserAt(e, r)'
                          /\ x.ws # NoSocket => x.reconnectToken # NoToken
        BY DEF Owned
      <3>1. CASE e = d /\ r = p
        BY <1>5, <1>6, <2>2, <3>1 DEF NoToken
      <3>2. CASE ~(e = d /\ r = p)
        BY <1>6, <1>7, <2>2, <3>2 DEF Owned
      <3> QED BY <3>1, <3>2
    <2>12. Unspent'
      <3>1. \A u \in spent' : pendingTokens'[u] = NoTarget
        BY <1>1, <2>3 DEF Unspent, AccessTypeOK
      <3>2. ASSUME NEW e \in Duels, NEW r \in Seats PROVE players'[e][r].reconnectToken \notin spent'
        <4>1. CASE e = d /\ r = p
          <5>1. issued \notin spent /\ issued # t
            BY <1>3, <1>4, <1>5 DEF Fresh
          <5> QED BY <1>1, <2>2, <4>1, <5>1
        <4>2. CASE ~(e = d /\ r = p)
          <5>1. players[e][r].reconnectToken # t
            BY <1>4, <4>2
          <5> QED BY <1>1, <2>2, <4>2, <5>1 DEF Unspent
        <4> QED BY <4>1, <4>2
      <3> QED BY <3>1, <3>2 DEF Unspent
    <2>13. Live'
      <3> SUFFICES ASSUME NEW e \in Duels, NEW r \in Seats
                   PROVE  players'[e][r].connected <=>
                            /\ players'[e][r].ws # NoSocket
                            /\ socketState'[players'[e][r].ws] \in {"open", "dying"}
        BY DEF Live
      <3>1. CASE e = d /\ r = p
        BY <1>5, <2>2, <2>4, <3>1 DEF NoSocket
      <3>2. CASE ~(e = d /\ r = p)
        BY <1>7, <2>2, <2>4, <3>2 DEF Live
      <3> QED BY <3>1, <3>2
    <2> QED BY <2>5, <2>6, <2>7, <2>8, <2>9, <2>10, <2>11, <2>12, <2>13
  <1> QED BY <1>2, <1>8, <1>9

-----------------------------------------------------------------------------
(* The theorems.                                                           *)

\* The invariant holds at the start, when there is no session.
LEMMA AccessInitially == AccessInit => AccessInv
  <1> SUFFICES ASSUME AccessInit PROVE AccessInv
    OBVIOUS
  <1> USE AccessAssumption DEF AccessInit
  <1>1. AccessTypeOK
    BY DEF AccessTypeOK, PlayerSession, Seats, NoToken, NoSocket, SocketStates
  <1>2. Fresh /\ Idle /\ Unbegun
    BY DEF Fresh, Idle, Unbegun, NoToken, NoSocket
  <1>3. Pending /\ Apart
    BY SeatIsTarget DEF Pending, Apart
  <1>4. Links
    BY SeatIsTarget DEF Links, Linked
  <1>5. Owned /\ Unspent /\ Live
    BY DEF Owned, Unspent, Live
  <1> QED BY <1>1, <1>2, <1>3, <1>4, <1>5 DEF AccessInv

\* Every step preserves the invariant.
LEMMA AccessStep == AccessInv /\ [AccessNext]_accessVars => AccessInv'
  <1> SUFFICES ASSUME AccessInv, [AccessNext]_accessVars PROVE AccessInv'
    OBVIOUS
  <1>1. CASE UNCHANGED accessVars
    <2>1. /\ UNCHANGED <<activeDuels, pendingTokens, reconnectTokens, created, soloDuels, stage, players>>
          /\ UNCHANGED <<issued, opened, socketState, owner, holder, spent>>
      BY <1>1 DEF accessVars, serverMaps
    <2>2. Fresh' /\ Idle' /\ Apart' /\ Links' /\ Owned' /\ Unspent'
      BY <2>1, QuietStep DEF serverMaps
    <2>3. AccessTypeOK'
      BY <2>1 DEF AccessInv, AccessTypeOK, Users, Targets, SocketStates
    <2>4. Pending' /\ Unbegun' /\ Live'
      BY <2>1 DEF AccessInv, Pending, Unbegun, Live, Seat, UserAt
    <2> QED BY <2>2, <2>3, <2>4 DEF AccessInv
  <1>2. ASSUME NEW d \in Duels,
               Register(d) \/ Begin(d) \/ SwapPlayers(d) \/ EndOfDuel(d) \/ Rematch(d) \/ Remove(d)
        PROVE  AccessInv'
    BY <1>2, RegisterStep, BeginStep, SwapPlayersStep, EndOfDuelStep, RematchStep, RemoveStep
  <1>3. ASSUME NEW t \in Tokens, ConnectInitial(t) PROVE AccessInv'
    <2> DEFINE x == pendingTokens[t]
    <2>1. x \in Targets /\ x.duel \in activeDuels /\ Enter(x.duel, x.seat, t, FALSE)
      BY <1>3 DEF ConnectInitial, AccessInv, AccessTypeOK
    <2>2. x.seat \in Seats /\ x = Seat(x.duel, x.seat)
      BY <2>1, TargetIsSeat
    <2> QED BY <2>1, <2>2, EnterStep
  <1>4. ASSUME NEW t \in Tokens, ConnectAgain(t) PROVE AccessInv'
    <2> DEFINE x == reconnectTokens[t]
               c == stage[x.duel] = "stored" /\ players[x.duel][Opposite(x.seat)].connected
    <2>1. x \in Targets /\ x.duel \in activeDuels /\ Enter(x.duel, x.seat, t, c)
      BY <1>4 DEF ConnectAgain, AccessInv, AccessTypeOK
    <2>2. x.seat \in Seats /\ x = Seat(x.duel, x.seat)
      BY <2>1, TargetIsSeat
    <2>3. c \in BOOLEAN
      OBVIOUS
    <2> HIDE DEF c
    <2> QED BY <2>1, <2>2, <2>3, EnterStep
  <1>5. ASSUME NEW s \in Sockets, SocketLost(s) \/ CloseEvent(s) PROVE AccessInv'
    BY <1>5, SocketLostStep, CloseEventStep
  <1> QED BY <1>1, <1>2, <1>3, <1>4, <1>5 DEF AccessNext

\* The invariant holds of every reachable state.
THEOREM AccessInvariance == AccessSpec => []AccessInv
  BY AccessInitially, AccessStep, PTL DEF AccessSpec

\* The maps, the players and the sockets keep their types, and the two players of a session stay
\* two different users however often they are swapped.
THEOREM AccessTypeCorrect == AccessSpec => []AccessTypeOK
  <1>1. AccessInv => AccessTypeOK
    BY DEF AccessInv
  <1> QED BY <1>1, AccessInvariance, PTL

\* A token that the manager accepts leads to a live session and to the seat of the user it was
\* given to.
THEOREM AcceptedTokensLeadHome == AccessSpec => []TokensResolve
  <1>1. AccessInv => TokensResolve
    <2> SUFFICES ASSUME AccessInv, NEW t \in Tokens,
                        NEW x \in {pendingTokens[t], reconnectTokens[t]} \ {NoTarget}
                 PROVE  x.duel \in activeDuels /\ owner[t] = UserAt(x.duel, x.seat)
      BY DEF TokensResolve
    <2>1. x \in Targets
      BY DEF AccessInv, AccessTypeOK
    <2>2. x.duel \in Duels /\ x.seat \in Seats /\ x = Seat(x.duel, x.seat)
      BY <2>1, TargetIsSeat
    <2>3. x.duel \in activeDuels
      BY <2>2 DEF AccessInv, Pending, Links, Linked
    <2> QED BY <2>2, <2>3, Presented
  <1> QED BY <1>1, AccessInvariance, PTL

\* Whoever has been in a duel that still exists has a token that the manager knows, and it knows
\* no other: after rotations, swaps and removals of whatever sessions.
THEOREM TheLastTokenWorks == AccessSpec => []LastTokenWorks
  <1>1. AccessInv => LastTokenWorks
    <2> SUFFICES ASSUME AccessInv PROVE LastTokenWorks
      OBVIOUS
    <2>1. \A d \in activeDuels, p \in Seats :
            players[d][p].ws # NoSocket => players[d][p].reconnectToken # NoToken
      BY DEF AccessInv, Owned, AccessTypeOK
    <2>2. ASSUME NEW t \in Tokens, NEW x \in Targets
          PROVE  reconnectTokens[t] = x <=> x.duel \in activeDuels
                                            /\ players[x.duel][x.seat].reconnectToken = t
      BY TargetIsSeat DEF AccessInv, Links, Linked
    <2> QED BY <2>1, <2>2 DEF LastTokenWorks
  <1> QED BY <1>1, AccessInvariance, PTL

\* No token lets two sockets in.
THEOREM OneHandshakePerToken == AccessSpec => []TokensAreSpentOnce
  <1>1. AccessInv => TokensAreSpentOnce
    <2> SUFFICES ASSUME AccessInv, NEW t \in spent
                 PROVE  pendingTokens[t] = NoTarget /\ reconnectTokens[t] = NoTarget
      BY DEF TokensAreSpentOnce
    <2>1. t \in Tokens /\ pendingTokens[t] = NoTarget
      BY DEF AccessInv, AccessTypeOK, Unspent
    <2>2. ASSUME reconnectTokens[t] # NoTarget PROVE FALSE
      <3> DEFINE x == reconnectTokens[t]
      <3>1. x \in Targets
        BY <2>1, <2>2 DEF AccessInv, AccessTypeOK
      <3>2. x.duel \in Duels /\ x.seat \in Seats /\ x = Seat(x.duel, x.seat)
        BY <3>1, TargetIsSeat
      <3>3. players[x.duel][x.seat].reconnectToken = t
        BY <2>1, <3>2 DEF AccessInv, Links, Linked
      <3> QED BY <3>2, <3>3 DEF AccessInv, Unspent
    <2> QED BY <2>1, <2>2
  <1> QED BY <1>1, AccessInvariance, PTL

\* A seat counts as connected exactly until the last socket of its own user has closed.
THEOREM SeatsFollowTheirSockets == AccessSpec => []SeatFollowsSocket
  <1>1. AccessInv => SeatFollowsSocket
    BY DEF AccessInv, Live, Owned, SeatFollowsSocket
  <1> QED BY <1>1, AccessInvariance, PTL

=============================================================================
