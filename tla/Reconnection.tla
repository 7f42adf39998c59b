---------------------------- MODULE Reconnection ----------------------------
(***************************************************************************)
(* One player's DuelConnection in the browser, the sockets it opens one    *)
(* after the other, and its seat on the server.  The page connects with    *)
(* the token of the room; every handshake that succeeds consumes the token *)
(* it carried and sends a new one, which the client keeps in memory and in *)
(* localStorage.  The network may cut a socket at any moment, with what is *)
(* in flight on it; the server may be slow, refuse, or release the session;*)
(* the player may reload the page.                                         *)
(*                                                                         *)
(* Time is abstract: a timer that is armed may expire at any moment, with  *)
(* one exception named at RetryTimer.  What the sockets carry besides      *)
(* tokens, the end of a duel and the start of a rematch is left out.       *)
(***************************************************************************)
EXTENDS Integers, Sequences

CONSTANTS
    Lines,          \* the sockets that can exist at once; a dead one is used again
    NoLine,
    MaxRetries,     \* DuelConnection._maxRetries
    MaxGrants,      \* bound: how many handshakes the server accepts
    MaxReloads,     \* bound: how often the page is reloaded
    MaxRematches    \* bound: how many rematches are played

ASSUME ReconnectionAssumption ==
    /\ NoLine \notin Lines /\ MaxRetries \in Nat \ {0} /\ MaxGrants \in Nat /\ MaxReloads \in Nat
    /\ MaxRematches \in Nat

VARIABLES
    client,     \* the fields of DuelConnection
    storage,    \* localStorage[storageKey]
    line,       \* [Lines -> the two ends of a socket]
    session,    \* "live", "ended" or "removed"
    known,      \* the tokens that the server would accept: at most one
    granted,    \* how many tokens were issued after the room's, which is token 0
    seat,       \* session.players[p].ws
    reloads, rematches  \* how many there have been

server    == <<session, known, granted, seat, rematches>>
reconVars == <<client, storage, line, server, reloads>>

NoWord    == -1                     \* null, as a token
Words     == 0..MaxGrants
Slots2    == {"connection", "sessionToken", "retry"}
Clients   == [status : {"connected", "reconnecting", "lost"}, wsToken : {NoWord, 0},
              reconnectToken : Words \cup {NoWord}, retryCount : 0..MaxRetries,
              hasToken : BOOLEAN, ws : Lines \cup {NoLine}, timers : SUBSET Slots2,
              greeted : BOOLEAN]    \* history: this page has received a SESSION_TOKEN

\* What the server sends: the handshake's answer, a token, the end and the restart of a duel, the
\* close of the socket with its code.  A socket that is cut ends with code 1006.
Codes    == {1000, 1006, 4001, 4029, 4426}
Packets  == [kind : {"open", "duelEnd", "rematch"}] \cup [kind : {"token"}, token : Words]
            \cup [kind : {"close"}, code : Codes]
Close(n) == <<[kind |-> "close", code |-> n]>>

\* browser: WebSocket.readyState; peer: "none" until the server has seen the handshake, then
\* "bound", or "gone" when the server is done with the socket; cut: the network has dropped it.
Line == [browser : {"connecting", "open", "closing", "closed"}, token : Words, down : Seq(Packets),
         peer : {"none", "bound", "gone"}, cut : BOOLEAN]

Idle(l) == line[l].browser = "closed" /\ line[l].peer # "bound"

-----------------------------------------------------------------------------
(* The operations of DuelConnection, on its fields c.                      *)

\* Wrong variant: the attempts are not counted.
HandleReconnectUncounted(c) ==
    [c EXCEPT !.status = "reconnecting", !.timers = @ \cup {"retry"}]

\* handleReconnect
HandleReconnect(c) ==
    IF c.retryCount >= MaxRetries
    THEN [c EXCEPT !.reconnectToken = NoWord, !.hasToken = c.wsToken # NoWord, !.status = "lost"]
    ELSE [c EXCEPT !.status = "reconnecting", !.retryCount = @ + 1,
                   !.timers = @ \cup {"retry"}]
ForgetsToken(c) == c.retryCount >= MaxRetries

Word(c) == IF c.reconnectToken # NoWord THEN c.reconnectToken ELSE c.wsToken

\* openConnection of the client c
OpenConnection(c) ==
    \/ /\ Word(c) = NoWord
       /\ client' = [c EXCEPT !.status = "lost"]
       /\ UNCHANGED line
    \/ /\ Word(c) # NoWord
       /\ \E l \in Lines :
            /\ Idle(l)
            /\ line' = [line EXCEPT ![l] = [browser |-> "connecting", token |-> Word(c),
                                            down |-> <<>>, peer |-> "none", cut |-> FALSE]]
            /\ client' = [c EXCEPT !.ws = l, !.timers = @ \cup {"connection"}]

\* ws.close() by the browser: the close event follows, and nothing else is delivered.
Abandon(l) ==
    IF line[l].browser \in {"connecting", "open"}
    THEN [line EXCEPT ![l] = [@ EXCEPT !.browser = "closing", !.down = Close(1006)]]
    ELSE line

NewPage(stored) ==
    [status |-> "connected", wsToken |-> 0, reconnectToken |-> stored, retryCount |-> 0,
     hasToken |-> TRUE, ws |-> NoLine, timers |-> {}, greeted |-> FALSE]

ReconInit ==
    /\ \E l \in Lines :
         /\ client = [NewPage(NoWord) EXCEPT !.ws = l, !.timers = {"connection"}]
         /\ line = [m \in Lines |->
              [browser |-> IF m = l THEN "connecting" ELSE "closed", token |-> 0, down |-> <<>>,
               peer |-> IF m = l THEN "none" ELSE "gone", cut |-> FALSE]]
    /\ storage = NoWord
    /\ session = "live" /\ known = {0} /\ granted = 0 /\ seat = NoLine
    /\ reloads = 0 /\ rematches = 0

-----------------------------------------------------------------------------
(* The browser.                                                            *)

\* the "connection" timeout
\* Wrong variant: the attempt is given up without closing its socket.
ConnectionTimerKeepsSocket ==
    /\ "connection" \in client.timers
    /\ client' = HandleReconnect([client EXCEPT !.timers = @ \ {"connection"}])
    /\ storage' = IF ForgetsToken(client) THEN NoWord ELSE storage
    /\ UNCHANGED <<line, server, reloads>>

ConnectionTimer ==
    LET c == [client EXCEPT !.timers = @ \ {"connection"}] IN
    /\ "connection" \in client.timers
    /\ IF line[client.ws].browser = "open"
       THEN client' = c /\ UNCHANGED <<storage, line>>
       ELSE /\ line' = Abandon(client.ws)
            /\ client' = HandleReconnect(c)
            /\ storage' = IF ForgetsToken(c) THEN NoWord ELSE storage
    /\ UNCHANGED <<server, reloads>>

\* the "sessionToken" timeout
SessionTokenTimer ==
    /\ "sessionToken" \in client.timers
    /\ client' = [client EXCEPT !.timers = @ \ {"sessionToken"}]
    /\ line' = IF client.status # "connected" THEN Abandon(client.ws) ELSE line
    /\ UNCHANGED <<storage, server, reloads>>

\* The retry timer runs for a second or more: the close event of a socket that the browser gave
\* up while connecting is queued at once and comes first.
RetryTimer ==
    /\ "retry" \in client.timers
    /\ line[client.ws].browser # "closing"
    /\ OpenConnection([client EXCEPT !.timers = @ \ {"retry"}])
    /\ UNCHANGED <<storage, server, reloads>>

Arrives(l, kind) ==
    /\ line[l].down # <<>> /\ Head(line[l].down).kind = kind
    /\ kind # "close" => line[l].browser \in {"connecting", "open"}
Taken(l, state) == [line EXCEPT ![l].down = Tail(@), ![l].browser = state]

OnOpen(l) ==
    /\ Arrives(l, "open")
    /\ line' = Taken(l, "open")
    /\ client' = [client EXCEPT !.timers = (@ \ {"connection"}) \cup {"sessionToken"}]
    /\ UNCHANGED <<storage, server, reloads>>

\* _handleSessionToken.  Wrong variant: only the first token is kept.
SessionTokenFirstOnly(l) ==
    /\ Arrives(l, "token")
    /\ line' = Taken(l, "open")
    /\ client' = [client EXCEPT !.timers = @ \ {"sessionToken"}, !.status = "connected",
                     !.retryCount = 0, !.wsToken = NoWord, !.hasToken = TRUE, !.greeted = TRUE,
                     !.reconnectToken = IF @ = NoWord THEN Head(line[l].down).token ELSE @]
    /\ storage' = Head(line[l].down).token
    /\ UNCHANGED <<server, reloads>>

SessionToken(l) ==
    /\ Arrives(l, "token")
    /\ line' = Taken(l, "open")
    /\ client' = [client EXCEPT !.timers = @ \ {"sessionToken"}, !.status = "connected",
                     !.retryCount = 0, !.wsToken = NoWord, !.hasToken = TRUE, !.greeted = TRUE,
                     !.reconnectToken = Head(line[l].down).token]
    /\ storage' = Head(line[l].down).token
    /\ UNCHANGED <<server, reloads>>

\* DUEL_END clears the stored token
DuelEndMsg(l) ==
    /\ Arrives(l, "duelEnd")
    /\ line' = Taken(l, "open")
    /\ storage' = NoWord
    /\ UNCHANGED <<client, server, reloads>>

RematchStarting(l) ==
    /\ Arrives(l, "rematch")
    /\ line' = Taken(l, "open")
    /\ UNCHANGED <<client, storage, server, reloads>>

\* ws.onclose
OnClose(l) ==
    LET code == Head(line[l].down).code
        c    == [client EXCEPT !.timers = @ \ {"connection", "sessionToken"}]
        c4001 ==
          IF code # 4001 THEN c
          ELSE IF c.reconnectToken # NoWord
               THEN [c EXCEPT !.reconnectToken = NoWord, !.hasToken = c.wsToken # NoWord]
               ELSE [c EXCEPT !.wsToken = NoWord, !.hasToken = FALSE]
        wiped == \/ code \in {4426, 4029}
                 \/ code = 4001 /\ c.reconnectToken # NoWord
    IN
    /\ Arrives(l, "close")
    /\ line' = [line EXCEPT ![l] = [@ EXCEPT !.down = <<>>, !.browser = "closed"]]
    /\ \/ /\ code = 4426
          /\ client' = [c EXCEPT !.reconnectToken = NoWord, !.wsToken = NoWord,
                                 !.hasToken = FALSE, !.status = "lost"]
          /\ storage' = NoWord
       \/ /\ code = 4029
          /\ client' = [c EXCEPT !.reconnectToken = NoWord, !.hasToken = c.wsToken # NoWord,
                                 !.status = "lost"]
          /\ storage' = NoWord
       \/ /\ code \notin {4426, 4029}
          /\ client' = IF c.status = "lost" THEN c4001 ELSE HandleReconnect(c4001)
          /\ storage' = IF wiped \/ (c.status # "lost" /\ ForgetsToken(c4001)) THEN NoWord
                        ELSE storage
    /\ UNCHANGED <<server, reloads>>

\* The button of the "lost" overlay: canRetry, retryConnection
UserRetry ==
    /\ client.status = "lost"
    /\ client.hasToken /\ client.retryCount < MaxRetries
    /\ OpenConnection([client EXCEPT !.retryCount = 0, !.status = "reconnecting"])
    /\ UNCHANGED <<storage, server, reloads>>

\* The page is reloaded: the browser drops the sockets, and a new DuelConnection connects with
\* the room's token and the stored one.
Reload ==
    LET c    == NewPage(storage)
        dead == [l \in Lines |-> [line[l] EXCEPT !.browser = "closed", !.down = <<>>]]
    IN
    /\ reloads < MaxReloads /\ reloads' = reloads + 1
    /\ \E l \in Lines :
         /\ Idle(l)
         /\ line' = [dead EXCEPT ![l] = [browser |-> "connecting", token |-> Word(c),
                                         down |-> <<>>, peer |-> "none", cut |-> FALSE]]
         /\ client' = [c EXCEPT !.ws = l, !.timers = {"connection"}]
    /\ UNCHANGED <<storage, server>>

-----------------------------------------------------------------------------
(* The network and the server.                                             *)

\* What the server sends reaches a browser that still listens.
Sent(l, packets) ==
    IF line[l].browser \in {"connecting", "open"} /\ ~line[l].cut
    THEN line[l].down \o packets ELSE line[l].down

NetworkCut(l) ==
    /\ ~line[l].cut /\ line[l].browser \in {"connecting", "open"}
    /\ \E n \in 0..Len(line[l].down) :
         line' = [line EXCEPT ![l].cut = TRUE, ![l].down = SubSeq(@, 1, n) \o Close(1006)]
    /\ UNCHANGED <<client, storage, server, reloads>>

\* The server sees the handshake, also of a socket that the browser has given up meanwhile.
Refuse(l, code) ==
    /\ line[l].peer = "none" /\ ~line[l].cut
    /\ line' = [line EXCEPT ![l] = [@ EXCEPT !.peer = "gone",
                   !.down = Sent(l, <<[kind |-> "open"]>> \o Close(code))]]
    /\ UNCHANGED <<client, storage, server, reloads>>

\* The rate limit and the protocol version
RefuseEarly(l) == \E code \in {4029, 4426} : Refuse(l, code)

RefuseToken(l) == line[l].token \notin known /\ Refuse(l, 4001)

\* The token is consumed and the next one sent
Accept(l) ==
    /\ line[l].peer = "none" /\ ~line[l].cut /\ line[l].token \in known
    /\ granted < MaxGrants /\ granted' = granted + 1
    /\ known' = {granted + 1}
    /\ seat' = l
    /\ line' = [line EXCEPT ![l] = [@ EXCEPT !.peer = "bound",
          !.down = Sent(l, <<[kind |-> "open"], [kind |-> "token", token |-> granted + 1]>>)]]
    /\ UNCHANGED <<client, storage, session, rematches, reloads>>

\* ws.on('close') on the server
ServerClose(l) ==
    /\ line[l].peer = "bound"
    /\ line[l].cut \/ line[l].browser \in {"closing", "closed"}
    /\ line' = [line EXCEPT ![l] = [@ EXCEPT !.peer = "gone"]]
    /\ seat' = IF seat = l THEN NoLine ELSE seat
    /\ UNCHANGED <<client, storage, session, known, granted, rematches, reloads>>

Broadcast(kind) ==
    IF seat = NoLine THEN line
    ELSE [line EXCEPT ![seat] = [@ EXCEPT !.down = Sent(seat, <<[kind |-> kind]>>)]]

\* handleDuelEnd, startRematch
DuelEnds ==
    /\ session = "live" /\ session' = "ended"
    /\ line' = Broadcast("duelEnd")
    /\ UNCHANGED <<client, storage, known, granted, seat, rematches, reloads>>

RematchStarts ==
    /\ session = "ended" /\ session' = "live"
    /\ seat # NoLine
    /\ rematches < MaxRematches /\ rematches' = rematches + 1
    /\ line' = Broadcast("rematch")
    /\ UNCHANGED <<client, storage, known, granted, seat, reloads>>

\* cleanupDuelSession
SessionRemoved ==
    /\ session # "removed" /\ session' = "removed"
    /\ known' = {} /\ seat' = NoLine
    /\ line' = IF seat = NoLine THEN line
               ELSE [line EXCEPT ![seat] = [@ EXCEPT !.peer = "gone",
                                                     !.down = Sent(seat, Close(1000))]]
    /\ UNCHANGED <<client, storage, granted, rematches, reloads>>

ReconNext ==
    \/ ConnectionTimer \/ SessionTokenTimer \/ RetryTimer \/ UserRetry \/ Reload
    \/ \E l \in Lines : OnOpen(l) \/ SessionToken(l) \/ DuelEndMsg(l) \/ RematchStarting(l)
                        \/ OnClose(l)
    \/ \E l \in Lines : NetworkCut(l) \/ RefuseEarly(l) \/ RefuseToken(l) \/ Accept(l)
                        \/ ServerClose(l)
    \/ DuelEnds \/ RematchStarts \/ SessionRemoved

ReconSpec == ReconInit /\ [][ReconNext]_reconVars

\* The browser's timers fire, its events are delivered, and an answer that will come arrives
\* (a socket that is cut ends with a close event).  The server owes no answer to a handshake.
ReconFairness ==
    /\ WF_reconVars(ConnectionTimer) /\ WF_reconVars(SessionTokenTimer) /\ WF_reconVars(RetryTimer)
    /\ \A l \in Lines : /\ WF_reconVars(OnOpen(l)) /\ WF_reconVars(SessionToken(l))
                        /\ WF_reconVars(OnClose(l)) /\ WF_reconVars(ServerClose(l))
                        /\ WF_reconVars(DuelEndMsg(l)) /\ WF_reconVars(RematchStarting(l))

ReconFairSpec == ReconSpec /\ ReconFairness

-----------------------------------------------------------------------------
(* Properties.                                                             *)

ReconTypeOK ==
    /\ client \in Clients
    /\ storage \in Words \cup {NoWord}
    /\ \A l \in Lines :
         /\ line[l] \in [browser : {"connecting", "open", "closing", "closed"}, token : Words,
                         down : {line[l].down}, peer : {"none", "bound", "gone"}, cut : BOOLEAN]
         /\ \A i \in 1..Len(line[l].down) : line[l].down[i] \in Packets
    /\ session \in {"live", "ended", "removed"} /\ known \subseteq Words
    /\ seat \in Lines \cup {NoLine}

\* However its timers and the closes of its sockets interleave, the client holds at most one
\* socket that is connecting or open: a second one would take the seat from the first.
OneLiveSocket ==
    \A l, m \in Lines :
        line[l].browser \in {"connecting", "open"} /\ line[m].browser \in {"connecting", "open"}
        => l = m

\* A player who sits at the seat with the last token received can come back with it: no other
\* token is the server's, and none of the client's copies is older.
SeatedHasTheToken ==
    seat # NoLine /\ seat = client.ws /\ line[seat].browser = "open" /\ ~line[seat].cut
    /\ client.greeted /\ (\A i \in 1..Len(line[seat].down) : line[seat].down[i].kind # "token")
        => client.reconnectToken \in known

\* A client that is reconnecting becomes connected or gives up.
ReconnectingEnds == client.status = "reconnecting" ~> client.status \in {"connected", "lost"}

=============================================================================
