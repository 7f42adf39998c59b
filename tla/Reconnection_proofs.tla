------------------------ MODULE Reconnection_proofs -------------------------
(***************************************************************************)
(* Proof that a client holds one socket at a time, and that a player who   *)
(* sits at the seat with the last token received can come back with it:    *)
(* for any number of sockets, attempts, handshakes, reloads and rematches. *)
(*                                                                         *)
(* That there is one socket rests on when a new one is asked for: the      *)
(* retry timer is armed, and the button of the lost overlay is usable,     *)
(* only while the last socket is given up (AskedWhenClosed).  That the     *)
(* token is held rests on what is in flight: the token that was issued     *)
(* last is on its way on the socket at the seat, or it is the client's     *)
(* (SeatHolds), and a socket that the server has not seen carries nothing. *)
(***************************************************************************)
EXTENDS Reconnection, TLAPS

Alive(s) == s.browser \in {"connecting", "open"}

Typed ==
    /\ client \in Clients
    /\ storage \in Words \cup {NoWord}
    /\ line \in [Lines -> Line]
    /\ session \in {"live", "ended", "removed"}
    /\ granted \in Words /\ known \subseteq Words
    /\ seat \in Lines \cup {NoLine}

\* The client holds one socket; the ones before it have been closed.
OneSocket ==
    /\ client.ws \in Lines
    /\ \A l \in Lines : l # client.ws => line[l].browser = "closed"

\* A new socket is asked for, by the timer or by the user, when the last one is given up.
AskedWhenClosed ==
    /\ "retry" \in client.timers => ~Alive(line[client.ws])
    /\ client.status = "lost" /\ client.retryCount < MaxRetries
         => line[client.ws].browser = "closed" /\ "retry" \notin client.timers

\* What is on its way on a socket that is given up, closed, or not yet seen by the server.
Settled(s) ==
    /\ s \in Line
    /\ s.browser = "closing" => s.down = Close(1006)
    /\ s.browser = "closed" => s.down = <<>>
    /\ Alive(s) /\ s.peer = "none" /\ ~s.cut => s.down = <<>>

\* The token g is on its way to the client, or it has it.
Owed(down, g, word) ==
    /\ \A i \in 1..Len(down) : down[i].kind = "token" => down[i].token = g
    /\ (\A i \in 1..Len(down) : down[i].kind # "token") => word = g

Served(s, g, word) ==
    /\ s.peer = "bound"
    /\ Alive(s) /\ ~s.cut => Owed(s.down, g, word)

SeatHolds ==
    seat # NoLine => known = {granted} /\ Served(line[seat], granted, client.reconnectToken)

ReconInv ==
    Typed /\ OneSocket /\ AskedWhenClosed /\ (\A l \in Lines : Settled(line[l])) /\ SeatHolds

-----------------------------------------------------------------------------
(* Packets. *)

LEMMA ClosePacket ==
    ASSUME NEW n \in Codes
    PROVE  /\ Close(n) \in Seq(Packets) /\ Close(n) # <<>> /\ Len(Close(n)) = 1
           /\ Head(Close(n)) = [kind |-> "close", code |-> n]
           /\ Close(n)[1] = [kind |-> "close", code |-> n]
  <1>1. [kind |-> "close", code |-> n] \in Packets
    BY DEF Packets
  <1>2. QED BY <1>1 DEF Close

LEMMA OpenPacket == [kind |-> "open"] \in Packets
  BY DEF Packets

LEMMA HeadPacket ==
    ASSUME NEW down \in Seq(Packets), down # <<>>
    PROVE  /\ Head(down) \in Packets /\ Head(down) = down[1] /\ Tail(down) \in Seq(Packets)
           /\ Head(down).kind = "token" => Head(down).token \in Words
           /\ Head(down).kind = "close" => Head(down).code \in Codes
  <1>1. Head(down) \in Packets /\ Head(down) = down[1] /\ Tail(down) \in Seq(Packets)
    OBVIOUS
  <1>2. QED BY <1>1 DEF Packets

\* A packet that is taken pays what is owed if it is the token.
LEMMA OwedTaken ==
    ASSUME NEW down \in Seq(Packets), down # <<>>, NEW g, NEW word, Owed(down, g, word)
    PROVE  /\ Head(down).kind # "token" => Owed(Tail(down), g, word)
           /\ Head(down).kind = "token" => Owed(Tail(down), g, Head(down).token)
  <1>1. /\ Len(Tail(down)) = Len(down) - 1 /\ Head(down) = down[1]
        /\ \A i \in 1..Len(Tail(down)) : Tail(down)[i] = down[i + 1] /\ i + 1 \in 1..Len(down)
        /\ \A i \in 1..Len(down) : i = 1 \/ (i - 1 \in 1..Len(Tail(down))
                                             /\ down[i] = Tail(down)[i - 1])
        /\ 1 \in 1..Len(down)
    OBVIOUS
  <1>2. \A i \in 1..Len(Tail(down)) : Tail(down)[i].kind = "token" => Tail(down)[i].token = g
    BY <1>1 DEF Owed
  <1>3. CASE Head(down).kind = "token"
    <2>1. Head(down).token = g
      BY <1>1, <1>3 DEF Owed
    <2>2. QED BY <1>2, <1>3, <2>1 DEF Owed
  <1>4. CASE Head(down).kind # "token"
    <2>1. ASSUME \A i \in 1..Len(Tail(down)) : Tail(down)[i].kind # "token"
          PROVE  word = g
      <3>1. \A i \in 1..Len(down) : down[i].kind # "token"
        BY <1>1, <1>4, <2>1
      <3>2. QED BY <3>1 DEF Owed
    <2>2. QED BY <1>2, <1>4, <2>1 DEF Owed
  <1>5. QED BY <1>3, <1>4

\* A packet that is no token changes nothing in what is owed.
LEMMA OwedSent ==
    ASSUME NEW down \in Seq(Packets), NEW packet \in Packets, packet.kind # "token",
           NEW g, NEW word, Owed(down, g, word)
    PROVE  Owed(down \o <<packet>>, g, word)
  <1> DEFINE more == down \o <<packet>>
  <1>1. /\ Len(more) = Len(down) + 1 /\ more[Len(down) + 1] = packet
        /\ \A i \in 1..Len(down) : more[i] = down[i] /\ i \in 1..Len(more)
        /\ \A i \in 1..Len(more) : i \in 1..Len(down) \/ i = Len(down) + 1
    OBVIOUS
  <1> HIDE DEF more
  <1>2. \A i \in 1..Len(more) : more[i].kind = "token" => more[i].token = g
    BY <1>1 DEF Owed
  <1>3. ASSUME \A i \in 1..Len(more) : more[i].kind # "token"
        PROVE  word = g
    BY <1>1, <1>3 DEF Owed
  <1>4. QED BY <1>2, <1>3 DEF Owed, more

-----------------------------------------------------------------------------
(* The operations of DuelConnection. *)

LEMMA HandleReconnectIs ==
    ASSUME NEW c \in Clients
    PROVE  /\ HandleReconnect(c) \in Clients /\ HandleReconnect(c).ws = c.ws
           /\ HandleReconnect(c).status = "lost" => HandleReconnect(c).retryCount >= MaxRetries
  <1>1. CASE c.retryCount >= MaxRetries
    <2>1. HandleReconnect(c) = [c EXCEPT !.reconnectToken = NoWord,
                                         !.hasToken = c.wsToken # NoWord, !.status = "lost"]
      BY <1>1 DEF HandleReconnect
    <2>2. QED BY <1>1, <2>1 DEF Clients
  <1>2. CASE ~(c.retryCount >= MaxRetries)
    <2>1. c.retryCount + 1 \in 0..MaxRetries
      BY <1>2, ReconnectionAssumption DEF Clients
    <2>2. HandleReconnect(c) = [c EXCEPT !.status = "reconnecting",
                                 !.retryCount = c.retryCount + 1,
                                 !.timers = c.timers \cup {"retry"}]
      BY <1>2 DEF HandleReconnect
    <2>3. c.timers \cup {"retry"} \in SUBSET Slots2
      BY DEF Clients, Slots2
    <2>4. QED BY <2>1, <2>2, <2>3 DEF Clients
  <1>3. QED BY <1>1, <1>2

\* A socket that is given up.
LEMMA AbandonIs ==
    ASSUME ReconInv, NEW l \in Lines
    PROVE  /\ Abandon(l) \in [Lines -> Line]
           /\ \A m \in Lines : m # l => Abandon(l)[m] = line[m]
           /\ Settled(Abandon(l)[l]) /\ ~Alive(Abandon(l)[l])
           /\ Abandon(l)[l].peer = line[l].peer
           /\ line[l].browser = "closed" => Abandon(l)[l].browser = "closed"
  <1> DEFINE q == [line[l] EXCEPT !.browser = "closing", !.down = Close(1006)]
  <1>1. line \in [Lines -> Line] /\ line[l] \in Line /\ Settled(line[l])
    BY DEF ReconInv, Typed
  <1>2. CASE Alive(line[l])
    <2>1. Abandon(l) = [line EXCEPT ![l] = q]
      BY <1>2 DEF Abandon, Alive
    <2>2. /\ q \in Line /\ q.browser = "closing" /\ q.down = Close(1006)
          /\ q.peer = line[l].peer
      <3> DEFINE d == Close(1006)
      <3>1. d \in Seq(Packets)
        BY ClosePacket DEF Codes
      <3> HIDE DEF d
      <3>2. q = [line[l] EXCEPT !.browser = "closing", !.down = d]
        BY DEF d
      <3> HIDE DEF q
      <3>3. q \in Line /\ q.browser = "closing" /\ q.down = d /\ q.peer = line[l].peer
        BY <1>1, <3>1, <3>2 DEF Line
      <3>4. QED BY <3>3 DEF d
    <2> HIDE DEF q
    <2>3. QED BY <1>1, <1>2, <2>1, <2>2 DEF Settled, Alive
  <1>3. CASE ~Alive(line[l])
    BY <1>1, <1>3 DEF Abandon, Alive
  <1>4. QED BY <1>2, <1>3

-----------------------------------------------------------------------------
(* Steps of the browser. *)

\* The browser does something with its socket, and what the server holds stays.
BrowserDid ==
    /\ client' \in Clients /\ client'.ws = client.ws
    /\ storage' \in Words \cup {NoWord}
    /\ line' \in [Lines -> Line]
    /\ \A m \in Lines : m # client.ws => line'[m] = line[m]
    /\ Settled(line'[client.ws])
    /\ line'[client.ws].peer = line[client.ws].peer
    /\ UNCHANGED server

LEMMA BrowserStep ==
    ASSUME ReconInv, BrowserDid, AskedWhenClosed',
           seat = client.ws /\ seat # NoLine
             => Served(line'[seat], granted, client'.reconnectToken)
    PROVE  ReconInv'
  <1>1. Typed'
    BY DEF ReconInv, Typed, BrowserDid, server
  <1>2. OneSocket'
    BY DEF ReconInv, OneSocket, BrowserDid
  <1>3. \A l \in Lines : Settled(line'[l])
    BY DEF ReconInv, BrowserDid
  <1>4. SeatHolds'
    <2>1. CASE seat = client.ws
      BY <2>1 DEF ReconInv, SeatHolds, BrowserDid, server
    <2>2. CASE seat # client.ws
      <3>1. seat # NoLine => line'[seat] = line[seat] /\ ~Alive(line[seat])
        BY <2>2 DEF ReconInv, OneSocket, BrowserDid, Typed, Alive
      <3>2. QED BY <3>1 DEF ReconInv, SeatHolds, BrowserDid, server, Served
    <2>3. QED BY <2>1, <2>2
  <1>5. QED BY <1>1, <1>2, <1>3, <1>4 DEF ReconInv

\* A socket that is given up owes nothing.
LEMMA GivenUp ==
    ASSUME ReconInv, seat # NoLine, NEW s, s.peer = line[seat].peer, ~Alive(s), NEW g, NEW word
    PROVE  Served(s, g, word)
  BY DEF ReconInv, SeatHolds, Served

LEMMA ConnectionTimerKeeps ==
    ASSUME ReconInv, ConnectionTimer
    PROVE  ReconInv'
  <1> DEFINE c == [client EXCEPT !.timers = @ \ {"connection"}]
  <1>1. client \in Clients /\ client.ws \in Lines
    BY DEF ReconInv, Typed, OneSocket
  <1>2. c \in Clients /\ c.ws = client.ws /\ c.status = client.status
        /\ c.retryCount = client.retryCount /\ c.timers \subseteq client.timers
        /\ c.reconnectToken = client.reconnectToken
    BY <1>1 DEF Clients
  <1>3. UNCHANGED server /\ storage' \in Words \cup {NoWord}
    BY DEF ConnectionTimer, ReconInv, Typed
  <1>4. CASE line[client.ws].browser = "open"
    <2>1. client' = c /\ line' = line
      BY <1>4 DEF ConnectionTimer
    <2> HIDE DEF c
    <2>2. BrowserDid
      BY <1>1, <1>2, <1>3, <2>1 DEF BrowserDid, ReconInv, Typed
    <2>3. AskedWhenClosed'
      BY <1>2, <2>1 DEF ReconInv, AskedWhenClosed
    <2>4. QED BY <1>2, <2>1, <2>2, <2>3, BrowserStep DEF ReconInv, SeatHolds
  <1>5. CASE line[client.ws].browser # "open"
    <2>1. client' = HandleReconnect(c) /\ line' = Abandon(client.ws)
      BY <1>5 DEF ConnectionTimer
    <2> HIDE DEF c
    <2>2. BrowserDid
      BY <1>1, <1>2, <1>3, <2>1, HandleReconnectIs, AbandonIs DEF BrowserDid
    <2>3. ~Alive(line'[client.ws]) /\ line'[client.ws].peer = line[client.ws].peer
      BY <1>1, <2>1, AbandonIs
    <2>4. AskedWhenClosed'
      <3>1. client'.ws = client.ws /\ client'.retryCount \in Nat /\ MaxRetries \in Nat
        BY <2>2, ReconnectionAssumption DEF BrowserDid, Clients
      <3>2. client'.status = "lost" => client'.retryCount >= MaxRetries
        BY <1>2, <2>1, HandleReconnectIs
      <3>3. QED BY <2>3, <3>1, <3>2 DEF AskedWhenClosed
    <2>5. QED BY <2>2, <2>3, <2>4, GivenUp, BrowserStep
  <1>6. QED BY <1>4, <1>5

LEMMA SessionTokenTimerKeeps ==
    ASSUME ReconInv, SessionTokenTimer
    PROVE  ReconInv'
  <1>1. client \in Clients /\ client.ws \in Lines
    BY DEF ReconInv, Typed, OneSocket
  <1>2. client' = [client EXCEPT !.timers = @ \ {"sessionToken"}] /\ UNCHANGED <<storage, server>>
    BY DEF SessionTokenTimer
  <1>3. client' \in Clients /\ client'.ws = client.ws /\ client'.status = client.status
        /\ client'.retryCount = client.retryCount /\ client'.timers \subseteq client.timers
        /\ client'.reconnectToken = client.reconnectToken
    BY <1>1, <1>2 DEF Clients
  <1>4. CASE line' = line
    <2>1. BrowserDid
      BY <1>1, <1>2, <1>3, <1>4 DEF BrowserDid, ReconInv, Typed
    <2>2. AskedWhenClosed'
      BY <1>3, <1>4 DEF ReconInv, AskedWhenClosed
    <2>3. QED BY <1>3, <1>4, <2>1, <2>2, BrowserStep DEF ReconInv, SeatHolds
  <1>5. CASE line' = Abandon(client.ws)
    <2>1. BrowserDid
      BY <1>1, <1>2, <1>3, <1>5, AbandonIs DEF BrowserDid, ReconInv, Typed
    <2>2. ~Alive(line'[client.ws]) /\ line'[client.ws].peer = line[client.ws].peer
          /\ (line[client.ws].browser = "closed" => line'[client.ws].browser = "closed")
      BY <1>1, <1>5, AbandonIs
    <2>3. AskedWhenClosed'
      BY <1>3, <2>2 DEF ReconInv, AskedWhenClosed
    <2>4. QED BY <2>1, <2>2, <2>3, GivenUp, BrowserStep
  <1>6. QED BY <1>4, <1>5 DEF SessionTokenTimer

\* openConnection: of a client whose last socket is closed.
LEMMA OpenConnectionKeeps ==
    ASSUME ReconInv, NEW c \in Clients, c.ws = client.ws,
           c.reconnectToken = client.reconnectToken,
           line[client.ws].browser = "closed", "retry" \notin c.timers,
           c.status = "lost" => c.retryCount >= MaxRetries,
           OpenConnection(c), UNCHANGED <<storage, server>>
    PROVE  ReconInv'
  <1>1. client.ws \in Lines
    BY DEF ReconInv, OneSocket
  <1>2. CASE Word(c) = NoWord
    <2>1. client' = [c EXCEPT !.status = "lost"] /\ line' = line
      BY <1>2 DEF OpenConnection
    <2>2. client' \in Clients /\ client'.ws = c.ws /\ client'.timers = c.timers
          /\ client'.reconnectToken = c.reconnectToken
      BY <2>1 DEF Clients
    <2>3. BrowserDid
      BY <1>1, <2>1, <2>2 DEF BrowserDid, ReconInv, Typed
    <2>4. AskedWhenClosed'
      BY <2>1, <2>2 DEF AskedWhenClosed
    <2>5. QED BY <2>1, <2>2, <2>3, <2>4, BrowserStep DEF ReconInv, SeatHolds
  <1>3. CASE Word(c) # NoWord
    <2> DEFINE q == [browser |-> "connecting", token |-> Word(c),
                     down |-> <<>>, peer |-> "none", cut |-> FALSE]
    <2>1. PICK l \in Lines :
            /\ Idle(l) /\ line' = [line EXCEPT ![l] = q]
            /\ client' = [c EXCEPT !.ws = l, !.timers = @ \cup {"connection"}]
      BY <1>3 DEF OpenConnection
    <2>2. Word(c) \in Words
      <3>1. 0 \in Words
        BY ReconnectionAssumption DEF Words
      <3>2. QED BY <1>3, <3>1 DEF Word, Clients
    <2>3. q \in Line /\ q.browser = "connecting" /\ q.down = <<>>
      BY <2>2 DEF Line
    <2>4. Settled(q)
      BY <2>3 DEF Settled
    <2> HIDE DEF q
    <2>5. /\ line' \in [Lines -> Line]
          /\ \A m \in Lines : line'[m] = IF m = l THEN q ELSE line[m]
      BY <2>1, <2>3 DEF ReconInv, Typed
    <2>6. /\ client' \in Clients /\ client'.ws = l /\ client'.status = c.status
          /\ client'.retryCount = c.retryCount /\ client'.timers = c.timers \cup {"connection"}
          /\ client'.reconnectToken = c.reconnectToken
      <3>1. c.timers \cup {"connection"} \in SUBSET Slots2
        BY DEF Clients, Slots2
      <3>2. QED BY <2>1, <3>1 DEF Clients
    <2>7. Typed'
      BY <2>5, <2>6 DEF ReconInv, Typed, server
    <2>8. OneSocket'
      BY <2>5, <2>6 DEF ReconInv, OneSocket
    <2>9. AskedWhenClosed'
      BY <2>6, ReconnectionAssumption DEF AskedWhenClosed, Clients
    <2>10. \A m \in Lines : Settled(line'[m])
      BY <2>4, <2>5 DEF ReconInv
    <2>11. SeatHolds'
      <3>1. seat # NoLine => seat \in Lines /\ seat # l
        BY <2>1 DEF ReconInv, Typed, SeatHolds, Served, Idle
      <3>2. QED BY <2>5, <2>6, <3>1 DEF ReconInv, SeatHolds, server
    <2>12. QED BY <2>7, <2>8, <2>9, <2>10, <2>11 DEF ReconInv
  <1>4. QED BY <1>2, <1>3

LEMMA RetryTimerKeeps ==
    ASSUME ReconInv, RetryTimer
    PROVE  ReconInv'
  <1> DEFINE c == [client EXCEPT !.timers = @ \ {"retry"}]
  <1>1. client \in Clients /\ client.ws \in Lines /\ line[client.ws] \in Line
    BY DEF ReconInv, Typed, OneSocket
  <1>2. c \in Clients /\ c.ws = client.ws /\ c.status = client.status
        /\ c.retryCount = client.retryCount /\ "retry" \notin c.timers
        /\ c.reconnectToken = client.reconnectToken
    BY <1>1 DEF Clients
  <1>3. line[client.ws].browser = "closed"
    BY <1>1 DEF RetryTimer, ReconInv, AskedWhenClosed, Alive, Line
  <1>4. c.status = "lost" => c.retryCount >= MaxRetries
    <2>1. client.status = "lost" => ~(client.retryCount < MaxRetries)
      BY DEF RetryTimer, ReconInv, AskedWhenClosed
    <2>2. QED BY <1>1, <1>2, <2>1, ReconnectionAssumption DEF Clients
  <1>5. OpenConnection(c) /\ UNCHANGED <<storage, server>>
    BY DEF RetryTimer
  <1> HIDE DEF c
  <1>6. QED BY <1>2, <1>3, <1>4, <1>5, OpenConnectionKeeps

LEMMA UserRetryKeeps ==
    ASSUME ReconInv, UserRetry
    PROVE  ReconInv'
  <1> DEFINE c == [client EXCEPT !.retryCount = 0, !.status = "reconnecting"]
  <1>1. client \in Clients /\ client.ws \in Lines
    BY DEF ReconInv, Typed, OneSocket
  <1>2. c \in Clients /\ c.ws = client.ws /\ c.status = "reconnecting"
        /\ c.timers = client.timers /\ c.reconnectToken = client.reconnectToken
    <2>1. 0 \in 0..MaxRetries
      BY ReconnectionAssumption
    <2>2. QED BY <1>1, <2>1 DEF Clients
  <1>3. line[client.ws].browser = "closed" /\ "retry" \notin client.timers
    BY DEF UserRetry, ReconInv, AskedWhenClosed
  <1>4. OpenConnection(c) /\ UNCHANGED <<storage, server>>
    BY DEF UserRetry
  <1> HIDE DEF c
  <1>5. QED BY <1>2, <1>3, <1>4, OpenConnectionKeeps

LEMMA ReloadKeeps ==
    ASSUME ReconInv, Reload
    PROVE  ReconInv'
  <1> DEFINE c == NewPage(storage)
             dead == [l \in Lines |-> [line[l] EXCEPT !.browser = "closed", !.down = <<>>]]
             fresh == [browser |-> "connecting", token |-> Word(c),
                       down |-> <<>>, peer |-> "none", cut |-> FALSE]
  <1>1. PICK l \in Lines :
          /\ Idle(l) /\ line' = [dead EXCEPT ![l] = fresh]
          /\ client' = [c EXCEPT !.ws = l, !.timers = {"connection"}]
          /\ UNCHANGED <<storage, server>>
    BY DEF Reload
  <1>2. 0 \in Words /\ 0 \in 0..MaxRetries /\ storage \in Words \cup {NoWord}
    BY ReconnectionAssumption DEF Words, ReconInv, Typed
  <1>3. fresh \in Line /\ fresh.browser = "connecting" /\ fresh.down = <<>>
    <2>1. Word(c) \in Words
      BY <1>2 DEF Word, NewPage
    <2>2. QED BY <2>1 DEF Line
  <1>4. \A m \in Lines : /\ dead[m] \in Line /\ dead[m].browser = "closed"
                         /\ dead[m].down = <<>> /\ dead[m].peer = line[m].peer
    <2>1. ASSUME NEW m \in Lines
          PROVE  /\ dead[m] \in Line /\ dead[m].browser = "closed"
                 /\ dead[m].down = <<>> /\ dead[m].peer = line[m].peer
      <3> DEFINE none == <<>>
      <3>1. none \in Seq(Packets)
        OBVIOUS
      <3> HIDE DEF none
      <3>2. line[m] \in Line /\ dead[m] = [line[m] EXCEPT !.browser = "closed", !.down = none]
        BY DEF ReconInv, Typed, none
      <3> HIDE DEF dead
      <3>3. dead[m] \in Line /\ dead[m].browser = "closed" /\ dead[m].down = none
            /\ dead[m].peer = line[m].peer
        BY <3>1, <3>2 DEF Line
      <3>4. QED BY <3>3 DEF none
    <2>2. QED BY <2>1
  <1>5. client' \in Clients /\ client'.ws = l /\ client'.status = "connected"
        /\ "retry" \notin client'.timers
    <2>1. {"connection"} \in SUBSET Slots2
      BY DEF Slots2
    <2>2. client' = [status |-> "connected", wsToken |-> 0, reconnectToken |-> storage,
                     retryCount |-> 0, hasToken |-> TRUE, ws |-> l, timers |-> {"connection"},
                     greeted |-> FALSE]
      BY <1>1 DEF NewPage
    <2>3. QED BY <1>2, <2>1, <2>2 DEF Clients
  <1>6. DOMAIN dead = Lines
    OBVIOUS
  <1> HIDE DEF c, dead, fresh
  <1>7. /\ line' \in [Lines -> Line]
        /\ \A m \in Lines : line'[m] = IF m = l THEN fresh ELSE dead[m]
    <2>1. line' = [m \in Lines |-> IF m = l THEN fresh ELSE dead[m]]
      BY <1>1, <1>6
    <2>2. QED BY <1>3, <1>4, <2>1
  <1>8. Typed'
    BY <1>1, <1>5, <1>7 DEF ReconInv, Typed, server
  <1>9. OneSocket' /\ AskedWhenClosed'
    BY <1>4, <1>5, <1>7 DEF OneSocket, AskedWhenClosed
  <1>10. \A m \in Lines : Settled(line'[m])
    BY <1>3, <1>4, <1>7 DEF Settled, Alive
  <1>11. SeatHolds'
    <2>1. seat # NoLine => seat \in Lines /\ seat # l /\ known = {granted}
                           /\ line[seat].peer = "bound"
      BY <1>1 DEF ReconInv, Typed, SeatHolds, Served, Idle
    <2>2. QED BY <1>1, <1>4, <1>7, <2>1 DEF SeatHolds, Served, Alive, server
  <1>12. QED BY <1>8, <1>9, <1>10, <1>11 DEF ReconInv

-----------------------------------------------------------------------------
(* What the socket delivers. *)

\* A packet that is no close arrives on the client's socket, which is not given up.
LEMMA ArrivesIs ==
    ASSUME ReconInv, NEW l \in Lines, NEW kind, Arrives(l, kind), kind # "close"
    PROVE  /\ l = client.ws /\ Alive(line[l]) /\ line[l].down # <<>>
           /\ line[l].down \in Seq(Packets) /\ Head(line[l].down).kind = kind
           /\ "retry" \notin client.timers
  <1>1. Alive(line[l]) /\ line[l].down # <<>> /\ Head(line[l].down).kind = kind
    BY DEF Arrives, Alive
  <1>2. l = client.ws
    BY <1>1 DEF ReconInv, OneSocket, Alive
  <1>3. QED BY <1>1, <1>2 DEF ReconInv, Typed, Line, AskedWhenClosed

\* It is taken: what the socket owes is owed still, to the client or to the token's new holder.
LEMMA TakenIs ==
    ASSUME ReconInv, NEW l \in Lines, NEW kind, Arrives(l, kind), kind # "close",
           line' = Taken(l, "open")
    PROVE  /\ line' \in [Lines -> Line] /\ \A m \in Lines : m # l => line'[m] = line[m]
           /\ Settled(line'[l]) /\ line'[l].peer = line[l].peer
           /\ seat = l => /\ kind # "token" => Served(line'[l], granted, client.reconnectToken)
                          /\ kind = "token" => Served(line'[l], granted, Head(line[l].down).token)
  <1> DEFINE q == [line[l] EXCEPT !.down = Tail(@), !.browser = "open"]
  <1>1. /\ Alive(line[l]) /\ line[l].down # <<>> /\ line[l].down \in Seq(Packets)
        /\ line[l] \in Line /\ Head(line[l].down).kind = kind
    BY ArrivesIs DEF ReconInv, Typed
  <1>2. Tail(line[l].down) \in Seq(Packets)
    BY <1>1
  <1>3. line' = [line EXCEPT ![l] = q]
    BY <1>1 DEF Taken, ReconInv, Typed
  <1>4. /\ q \in Line /\ q.browser = "open" /\ q.down = Tail(line[l].down)
        /\ q.peer = line[l].peer /\ q.cut = line[l].cut
    BY <1>1, <1>2 DEF Line
  <1> HIDE DEF q
  <1>5. /\ line' \in [Lines -> Line] /\ line'[l] = q
        /\ \A m \in Lines : m # l => line'[m] = line[m]
    BY <1>3, <1>4 DEF ReconInv, Typed
  <1>6. Settled(q)
    <2>1. Settled(line[l]) /\ line[l].cut \in BOOLEAN
      BY <1>1 DEF ReconInv, Line
    <2>2. line[l].peer = "none" => line[l].cut
      BY <1>1, <2>1 DEF Settled
    <2>3. q.peer = "none" => q.cut
      BY <1>4, <2>2
    <2>4. q \in Line /\ q.browser = "open"
      BY <1>4
    <2>5. QED BY <2>3, <2>4, Zenon DEF Settled, Alive
  <1>7. ASSUME seat = l
        PROVE  /\ kind # "token" => Served(q, granted, client.reconnectToken)
               /\ kind = "token" => Served(q, granted, Head(line[l].down).token)
    <2>1. seat # NoLine
      BY <1>7, ReconnectionAssumption
    <2>2. /\ line[l].peer = "bound"
          /\ ~line[l].cut => Owed(line[l].down, granted, client.reconnectToken)
      BY <1>1, <1>7, <2>1 DEF ReconInv, SeatHolds, Served
    <2>3. ~line[l].cut =>
            /\ kind # "token" => Owed(q.down, granted, client.reconnectToken)
            /\ kind = "token" => Owed(q.down, granted, Head(line[l].down).token)
      BY <1>1, <1>4, <2>2, OwedTaken
    <2>4. QED BY <1>4, <2>2, <2>3 DEF Served
  <1>8. QED BY <1>4, <1>5, <1>6, <1>7

LEMMA OnOpenKeeps ==
    ASSUME ReconInv, NEW l \in Lines, OnOpen(l)
    PROVE  ReconInv'
  <1>1. Arrives(l, "open") /\ line' = Taken(l, "open") /\ UNCHANGED <<storage, server>>
        /\ client' = [client EXCEPT !.timers = (@ \ {"connection"}) \cup {"sessionToken"}]
    BY DEF OnOpen
  <1>2. l = client.ws /\ Alive(line[l]) /\ "retry" \notin client.timers /\ client \in Clients
    BY <1>1, ArrivesIs DEF ReconInv, Typed
  <1>3. client' \in Clients /\ client'.ws = client.ws /\ client'.status = client.status
        /\ client'.retryCount = client.retryCount /\ "retry" \notin client'.timers
        /\ client'.reconnectToken = client.reconnectToken
    <2>1. (client.timers \ {"connection"}) \cup {"sessionToken"} \in SUBSET Slots2
      BY <1>2 DEF Clients, Slots2
    <2>2. QED BY <1>1, <1>2, <2>1 DEF Clients
  <1>4. BrowserDid
    BY <1>1, <1>2, <1>3, TakenIs DEF BrowserDid, ReconInv, Typed
  <1>5. AskedWhenClosed'
    BY <1>2, <1>3 DEF ReconInv, AskedWhenClosed, Alive
  <1>6. QED BY <1>1, <1>2, <1>3, <1>4, <1>5, TakenIs, BrowserStep

LEMMA SessionTokenKeeps ==
    ASSUME ReconInv, NEW l \in Lines, SessionToken(l)
    PROVE  ReconInv'
  <1> DEFINE t == Head(line[l].down).token
  <1>1. Arrives(l, "token") /\ line' = Taken(l, "open") /\ storage' = t /\ UNCHANGED server
        /\ client' = [client EXCEPT !.timers = @ \ {"sessionToken"}, !.status = "connected",
                        !.retryCount = 0, !.wsToken = NoWord, !.hasToken = TRUE, !.greeted = TRUE,
                        !.reconnectToken = t]
    BY DEF SessionToken
  <1>2. l = client.ws /\ Alive(line[l]) /\ "retry" \notin client.timers /\ client \in Clients
        /\ t \in Words
    BY <1>1, ArrivesIs, HeadPacket DEF ReconInv, Typed
  <1> HIDE DEF t
  <1>3. client' \in Clients /\ client'.ws = client.ws /\ client'.status = "connected"
        /\ "retry" \notin client'.timers /\ client'.reconnectToken = t
    <2>1. 0 \in 0..MaxRetries /\ client.timers \ {"sessionToken"} \in SUBSET Slots2
      BY <1>2, ReconnectionAssumption DEF Clients
    <2>2. QED BY <1>1, <1>2, <2>1 DEF Clients
  <1>4. BrowserDid
    BY <1>1, <1>2, <1>3, TakenIs DEF BrowserDid
  <1>5. AskedWhenClosed'
    BY <1>3 DEF AskedWhenClosed
  <1>6. QED BY <1>1, <1>2, <1>3, <1>4, <1>5, TakenIs, BrowserStep DEF t

LEMMA NoticeKeeps ==
    ASSUME ReconInv, NEW l \in Lines, DuelEndMsg(l) \/ RematchStarting(l)
    PROVE  ReconInv'
  <1>1. PICK kind \in {"duelEnd", "rematch"} :
          /\ Arrives(l, kind) /\ line' = Taken(l, "open") /\ UNCHANGED <<client, server>>
          /\ storage' = NoWord \/ storage' = storage
    BY DEF DuelEndMsg, RematchStarting
  <1>2. l = client.ws /\ Alive(line[l]) /\ "retry" \notin client.timers
    BY <1>1, ArrivesIs
  <1>3. BrowserDid
    BY <1>1, <1>2, TakenIs DEF BrowserDid, ReconInv, Typed
  <1>4. AskedWhenClosed'
    BY <1>1, <1>2 DEF ReconInv, AskedWhenClosed, Alive
  <1>5. QED BY <1>1, <1>2, <1>3, <1>4, TakenIs, BrowserStep

\* A client that gives up keeps its timers.
LEMMA GivesUp ==
    ASSUME NEW c \in Clients,
           NEW d, \/ d = [c EXCEPT !.reconnectToken = NoWord, !.wsToken = NoWord,
                                  !.hasToken = FALSE, !.status = "lost"]
                  \/ d = [c EXCEPT !.reconnectToken = NoWord,
                                  !.hasToken = c.wsToken # NoWord, !.status = "lost"]
    PROVE  d \in Clients /\ d.ws = c.ws /\ d.timers = c.timers
  <1>1. CASE d = [c EXCEPT !.reconnectToken = NoWord, !.wsToken = NoWord,
                           !.hasToken = FALSE, !.status = "lost"]
    BY <1>1 DEF Clients
  <1>2. CASE d = [c EXCEPT !.reconnectToken = NoWord,
                           !.hasToken = c.wsToken # NoWord, !.status = "lost"]
    BY <1>2 DEF Clients
  <1>3. QED BY <1>1, <1>2

\* ws.onclose: the socket is the client's, since the ones before it have been closed.
LEMMA OnCloseKeeps ==
    ASSUME ReconInv, NEW l \in Lines, OnClose(l)
    PROVE  ReconInv'
  <1> DEFINE code == Head(line[l].down).code
             c == [client EXCEPT !.timers = @ \ {"connection", "sessionToken"}]
             c4001 == IF code # 4001 THEN c
                      ELSE IF c.reconnectToken # NoWord
                           THEN [c EXCEPT !.reconnectToken = NoWord, !.hasToken = c.wsToken # NoWord]
                           ELSE [c EXCEPT !.wsToken = NoWord, !.hasToken = FALSE]
             q == [line[l] EXCEPT !.down = <<>>, !.browser = "closed"]
  <1>1. /\ line[l].down # <<>> /\ Head(line[l].down).kind = "close"
        /\ line' = [line EXCEPT ![l] = q] /\ UNCHANGED server
        /\ storage' = NoWord \/ storage' = storage
    BY DEF OnClose, Arrives
  <1>2. /\ line[l] \in Line /\ client \in Clients /\ client.ws \in Lines
        /\ line[l].down \in Seq(Packets) /\ line[l].browser # "closed" /\ Settled(line[l])
    BY <1>1 DEF ReconInv, Typed, OneSocket, Line, Settled
  <1>3. l = client.ws
    BY <1>2 DEF ReconInv, OneSocket
  <1>4. /\ q \in Line /\ q.browser = "closed" /\ q.down = <<>> /\ q.peer = line[l].peer
    <2> DEFINE none == <<>>
    <2>1. none \in Seq(Packets)
      OBVIOUS
    <2> HIDE DEF none
    <2>2. q = [line[l] EXCEPT !.down = none, !.browser = "closed"]
      BY DEF none
    <2> HIDE DEF q
    <2>3. q \in Line /\ q.browser = "closed" /\ q.down = none /\ q.peer = line[l].peer
      BY <1>2, <2>1, <2>2 DEF Line
    <2>4. QED BY <2>3 DEF none
  <1> HIDE DEF q
  <1>5. /\ line' \in [Lines -> Line] /\ line'[l] = q
        /\ \A m \in Lines : m # l => line'[m] = line[m]
    BY <1>1, <1>4 DEF ReconInv, Typed
  <1>6. c \in Clients /\ c.ws = client.ws /\ c.status = client.status
        /\ c.retryCount = client.retryCount /\ c.timers \subseteq client.timers
    BY <1>2 DEF Clients
  <1>7. code # 1006 => "retry" \notin client.timers
    <2>1. line[l].browser = "closing" => code = 1006
      BY <1>2, ClosePacket DEF Settled, Codes
    <2>2. QED BY <1>2, <1>3, <2>1 DEF ReconInv, AskedWhenClosed, Alive, Line
  <1>8. client.status = "lost" => ~(client.retryCount < MaxRetries)
    BY <1>2, <1>3 DEF ReconInv, AskedWhenClosed
  <1>9. \/ code = 4426 /\ client' = [c EXCEPT !.reconnectToken = NoWord, !.wsToken = NoWord,
                                              !.hasToken = FALSE, !.status = "lost"]
        \/ code = 4029 /\ client' = [c EXCEPT !.reconnectToken = NoWord,
                                              !.hasToken = c.wsToken # NoWord, !.status = "lost"]
        \/ c.status = "lost" /\ client' = c4001
        \/ client' = HandleReconnect(c4001)
    BY DEF OnClose
  <1>10. c4001 \in Clients /\ c4001.ws = c.ws /\ c4001.status = c.status
         /\ c4001.retryCount = c.retryCount
    <2> HIDE DEF c, code
    <2>1. \/ c4001 = c
          \/ c4001 = [c EXCEPT !.reconnectToken = NoWord, !.hasToken = c.wsToken # NoWord]
          \/ c4001 = [c EXCEPT !.wsToken = NoWord, !.hasToken = FALSE]
      OBVIOUS
    <2> HIDE DEF c4001
    <2>2. QED BY <1>6, <2>1 DEF Clients
  <1> HIDE DEF c, c4001
  <1>11. /\ client' \in Clients /\ client'.ws = client.ws
         /\ client'.status = "lost" /\ client'.retryCount < MaxRetries
              => "retry" \notin client'.timers
    <2>1. CASE code \in {4426, 4029}
      <3>1. "retry" \notin c.timers
        BY <1>6, <1>7, <2>1
      <3>2. \/ client' = [c EXCEPT !.reconnectToken = NoWord, !.wsToken = NoWord,
                                    !.hasToken = FALSE, !.status = "lost"]
            \/ client' = [c EXCEPT !.reconnectToken = NoWord,
                                    !.hasToken = c.wsToken # NoWord, !.status = "lost"]
        BY <2>1 DEF OnClose, c
      <3>3. client' \in Clients /\ client'.ws = c.ws /\ client'.timers = c.timers
        BY <1>6, <3>2, GivesUp
      <3>4. QED BY <1>6, <3>1, <3>3
    <2>2. CASE client' = HandleReconnect(c4001)
      <3>1. client' \in Clients /\ client'.ws = client.ws
            /\ (client'.status = "lost" => client'.retryCount >= MaxRetries)
        BY <1>6, <1>10, <2>2, HandleReconnectIs
      <3>2. client'.retryCount \in Nat /\ MaxRetries \in Nat
        BY <3>1, ReconnectionAssumption DEF Clients
      <3>3. QED BY <3>1, <3>2
    <2>3. CASE c.status = "lost" /\ client' = c4001
      BY <1>6, <1>8, <1>10, <2>3
    <2>4. QED BY <1>9, <2>1, <2>2, <2>3
  <1>12. BrowserDid
    BY <1>1, <1>3, <1>4, <1>5, <1>11 DEF BrowserDid, ReconInv, Typed, Settled, Alive
  <1>13. AskedWhenClosed'
    BY <1>3, <1>4, <1>5, <1>11 DEF AskedWhenClosed, Alive
  <1>14. QED BY <1>3, <1>4, <1>5, <1>12, <1>13, GivenUp, BrowserStep DEF Alive

-----------------------------------------------------------------------------
(* Steps of the network and of the server. *)

\* One end of the socket l, or what is on its way to the browser, changes.
LEMMA ServerStep ==
    ASSUME ReconInv, NEW l \in Lines, NEW q, Settled(q), q.browser = line[l].browser,
           line' = [line EXCEPT ![l] = q], UNCHANGED <<client, storage>>,
           session' \in {"live", "ended", "removed"}, granted' \in Words, known' \subseteq Words,
           seat' \in Lines \cup {NoLine}, SeatHolds'
    PROVE  ReconInv'
  <1>1. q \in Line
    BY DEF Settled
  <1>2. line' \in [Lines -> Line] /\ \A m \in Lines : line'[m] = IF m = l THEN q ELSE line[m]
    BY <1>1 DEF ReconInv, Typed
  <1>3. \A m \in Lines : line'[m].browser = line[m].browser /\ Settled(line'[m])
    BY <1>2 DEF ReconInv
  <1>4. Typed'
    BY <1>2 DEF ReconInv, Typed
  <1>5. OneSocket' /\ AskedWhenClosed'
    BY <1>3 DEF ReconInv, OneSocket, AskedWhenClosed, Alive
  <1>6. QED BY <1>3, <1>4, <1>5 DEF ReconInv

\* The seat's socket keeps what it owes while nothing is issued.
LEMMA SeatStays ==
    ASSUME ReconInv, NEW l \in Lines, NEW q, line' = [line EXCEPT ![l] = q],
           UNCHANGED <<client, seat, known, granted>>,
           seat = l => Served(q, granted, client.reconnectToken)
    PROVE  SeatHolds'
  <1>1. \A m \in Lines : line'[m] = IF m = l THEN q ELSE line[m]
    BY DEF ReconInv, Typed
  <1>2. seat # NoLine => seat \in Lines
    BY DEF ReconInv, Typed
  <1>3. QED BY <1>1, <1>2 DEF ReconInv, SeatHolds

\* A packet that is sent to a browser that listens.
LEMMA SentIs ==
    ASSUME ReconInv, NEW l \in Lines, NEW packets \in Seq(Packets)
    PROVE  /\ Sent(l, packets) \in Seq(Packets)
           /\ Alive(line[l]) /\ ~line[l].cut => Sent(l, packets) = line[l].down \o packets
           /\ ~Alive(line[l]) \/ line[l].cut => Sent(l, packets) = line[l].down
  <1>1. line[l].down \in Seq(Packets)
    BY DEF ReconInv, Typed, Line
  <1>2. CASE Alive(line[l]) /\ ~line[l].cut
    <2>1. Sent(l, packets) = line[l].down \o packets
      BY <1>2, Zenon DEF Sent, Alive
    <2>2. QED BY <1>1, <1>2, <2>1
  <1>3. CASE ~Alive(line[l]) \/ line[l].cut
    <2>1. Sent(l, packets) = line[l].down
      BY <1>3, Zenon DEF Sent, Alive
    <2>2. QED BY <1>1, <1>3, <2>1
  <1>4. QED BY <1>2, <1>3

\* A socket that is not given up, and that the server has seen or the network has cut, may carry
\* anything.
LEMMA SettledSocket ==
    ASSUME ReconInv, NEW l \in Lines, NEW q \in Line, q.browser = line[l].browser,
           ~Alive(line[l]) => q.down = line[l].down,
           Alive(line[l]) => q.peer # "none" \/ q.cut
    PROVE  Settled(q)
  <1>1. Settled(line[l])
    BY DEF ReconInv
  <1>2. q.browser = "closing" => q.down = Close(1006)
    BY <1>1 DEF Settled, Alive
  <1>3. q.browser = "closed" => q.down = <<>>
    BY <1>1 DEF Settled, Alive
  <1>4. Alive(q) /\ q.peer = "none" /\ ~q.cut => q.down = <<>>
    BY Zenon DEF Alive
  <1>5. QED BY <1>2, <1>3, <1>4, Zenon DEF Settled

LEMMA NetworkCutKeeps ==
    ASSUME ReconInv, NEW l \in Lines, NetworkCut(l)
    PROVE  ReconInv'
  <1>1. PICK n \in 0..Len(line[l].down) :
          line' = [line EXCEPT ![l].cut = TRUE, ![l].down = SubSeq(@, 1, n) \o Close(1006)]
    BY DEF NetworkCut
  <1> DEFINE d == SubSeq(line[l].down, 1, n) \o Close(1006)
             q == [line[l] EXCEPT !.cut = TRUE, !.down = d]
  <1>2. line[l] \in Line /\ line[l].down \in Seq(Packets) /\ Alive(line[l])
        /\ UNCHANGED <<client, storage, server>>
    BY DEF ReconInv, Typed, Line, NetworkCut, Alive
  <1>3. d \in Seq(Packets)
    <2>1. SubSeq(line[l].down, 1, n) \in Seq(Packets)
      BY <1>2
    <2>2. Close(1006) \in Seq(Packets)
      BY ClosePacket DEF Codes
    <2>3. QED BY <2>1, <2>2
  <1>4. line' = [line EXCEPT ![l] = q]
    <2>1. line' = [line EXCEPT ![l].cut = TRUE, ![l].down = d]
      BY <1>1, <1>2 DEF ReconInv, Typed
    <2> HIDE DEF d
    <2>2. QED BY <1>2, <2>1 DEF ReconInv, Typed
  <1> HIDE DEF d
  <1>5. q \in Line /\ q.browser = line[l].browser /\ q.cut = TRUE /\ q.peer = line[l].peer
    BY <1>2, <1>3 DEF Line
  <1> HIDE DEF q
  <1>6. Settled(q)
    BY <1>2, <1>5, SettledSocket
  <1>7. SeatHolds'
    <2>1. seat = l => Served(q, granted, client.reconnectToken)
      BY <1>5, ReconnectionAssumption DEF ReconInv, SeatHolds, Served
    <2>2. QED BY <1>2, <1>4, <2>1, SeatStays DEF server
  <1>8. QED BY <1>2, <1>4, <1>5, <1>6, <1>7, ServerStep DEF server, ReconInv, Typed

LEMMA RefuseKeeps ==
    ASSUME ReconInv, NEW l \in Lines, NEW code \in Codes, Refuse(l, code)
    PROVE  ReconInv'
  <1> DEFINE packets == <<[kind |-> "open"]>> \o Close(code)
             d == Sent(l, packets)
             q == [line[l] EXCEPT !.peer = "gone", !.down = d]
  <1>1. /\ line[l].peer = "none" /\ line' = [line EXCEPT ![l] = q]
        /\ UNCHANGED <<client, storage, server>>
    BY DEF Refuse
  <1>2. packets \in Seq(Packets)
    <2> DEFINE open == [kind |-> "open"]
    <2>1. open \in Packets /\ Close(code) \in Seq(Packets)
      BY OpenPacket, ClosePacket
    <2> HIDE DEF open
    <2>2. <<open>> \o Close(code) \in Seq(Packets)
      BY <2>1
    <2>3. QED BY <2>2 DEF open
  <1> HIDE DEF packets
  <1>3. d \in Seq(Packets) /\ (~Alive(line[l]) => d = line[l].down)
    BY <1>2, SentIs
  <1> HIDE DEF d
  <1>4. q \in Line /\ q.browser = line[l].browser /\ q.peer = "gone" /\ q.down = d
    BY <1>3 DEF ReconInv, Typed, Line
  <1> HIDE DEF q
  <1>5. Settled(q)
    BY <1>3, <1>4, SettledSocket
  <1>6. SeatHolds'
    <2>1. seat # l
      BY <1>1, ReconnectionAssumption DEF ReconInv, SeatHolds, Served
    <2>2. QED BY <1>1, <2>1, SeatStays DEF server
  <1>7. QED BY <1>1, <1>4, <1>5, <1>6, ServerStep DEF server, ReconInv, Typed

\* The handshake: what the server sent is the only thing on its way on the socket.
LEMMA AcceptKeeps ==
    ASSUME ReconInv, NEW l \in Lines, Accept(l)
    PROVE  ReconInv'
  <1> DEFINE g == granted + 1
             token == [kind |-> "token", token |-> g]
             packets == <<[kind |-> "open"], token>>
             d == Sent(l, packets)
             q == [line[l] EXCEPT !.peer = "bound", !.down = d]
  <1>1. /\ line[l].peer = "none" /\ ~line[l].cut /\ line' = [line EXCEPT ![l] = q]
        /\ granted < MaxGrants /\ granted' = g /\ known' = {g} /\ seat' = l
        /\ UNCHANGED <<client, storage, session>>
    BY DEF Accept
  <1>2. g \in Words
    BY <1>1, ReconnectionAssumption DEF ReconInv, Typed, Words
  <1> HIDE DEF g
  <1>3. token \in Packets /\ token.kind = "token" /\ token.token = g
    BY <1>2 DEF Packets
  <1> HIDE DEF token
  <1>4. /\ packets \in Seq(Packets) /\ Len(packets) = 2
        /\ packets[1] = [kind |-> "open"] /\ packets[2] = token
    BY <1>3, OpenPacket
  <1> HIDE DEF packets
  <1>5. /\ d \in Seq(Packets)
        /\ ~Alive(line[l]) => d = line[l].down
        /\ Alive(line[l]) => d = packets
    <2>1. /\ d \in Seq(Packets)
          /\ ~Alive(line[l]) => d = line[l].down
          /\ Alive(line[l]) => d = line[l].down \o packets
      BY <1>1, <1>4, SentIs
    <2>2. Alive(line[l]) => line[l].down = <<>>
      BY <1>1 DEF ReconInv, Settled
    <2>3. <<>> \o packets = packets
      BY <1>4
    <2>4. QED BY <2>1, <2>2, <2>3
  <1> HIDE DEF d
  <1>6. q \in Line /\ q.browser = line[l].browser /\ q.peer = "bound" /\ q.down = d
    BY <1>5 DEF ReconInv, Typed, Line
  <1> HIDE DEF q
  <1>7. Settled(q)
    BY <1>5, <1>6, SettledSocket
  <1>8. SeatHolds'
    <2>1. line'[l] = q
      BY <1>1 DEF ReconInv, Typed
    <2>2. Owed(packets, g, client.reconnectToken)
      <3>1. packets[1].kind # "token"
        BY <1>4
      <3>2. \A i \in 1..Len(packets) : i = 1 \/ i = 2
        BY <1>4
      <3>3. 2 \in 1..Len(packets)
        BY <1>4
      <3>4. QED BY <1>3, <1>4, <3>1, <3>2, <3>3 DEF Owed
    <2>3. Served(q, g, client.reconnectToken)
      BY <1>5, <1>6, <2>2 DEF Served, Alive
    <2>4. QED BY <1>1, <2>1, <2>3 DEF SeatHolds
  <1>9. QED BY <1>1, <1>2, <1>6, <1>7, <1>8, ServerStep DEF ReconInv, Typed

LEMMA ServerCloseKeeps ==
    ASSUME ReconInv, NEW l \in Lines, ServerClose(l)
    PROVE  ReconInv'
  <1> DEFINE q == [line[l] EXCEPT !.peer = "gone"]
  <1>1. /\ line[l].peer = "bound" /\ line' = [line EXCEPT ![l] = q]
        /\ seat' = IF seat = l THEN NoLine ELSE seat
        /\ UNCHANGED <<client, storage, session, known, granted>>
    BY DEF ServerClose
  <1>2. q \in Line /\ q.browser = line[l].browser /\ q.peer = "gone" /\ q.down = line[l].down
    BY DEF ReconInv, Typed, Line
  <1> HIDE DEF q
  <1>3. Settled(q)
    BY <1>2, SettledSocket
  <1>4. SeatHolds'
    <2>1. CASE seat = l
      BY <1>1, <2>1 DEF SeatHolds
    <2>2. CASE seat # l
      BY <1>1, <2>2, SeatStays
    <2>3. QED BY <2>1, <2>2
  <1>5. QED BY <1>1, <1>2, <1>3, <1>4, ServerStep DEF ReconInv, Typed

\* The end of a duel, or the start of the next.
LEMMA BroadcastKeeps ==
    ASSUME ReconInv, NEW kind \in {"duelEnd", "rematch"}, line' = Broadcast(kind),
           session' \in {"live", "ended"}, UNCHANGED <<client, storage, known, granted, seat>>
    PROVE  ReconInv'
  <1>1. CASE seat = NoLine
    <2>1. line' = line
      BY <1>1 DEF Broadcast
    <2>2. QED BY <2>1 DEF ReconInv, Typed, OneSocket, AskedWhenClosed, SeatHolds
  <1>2. CASE seat # NoLine
    <2> DEFINE packet == [kind |-> kind]
               d == Sent(seat, <<packet>>)
               q == [line[seat] EXCEPT !.down = d]
    <2>1. seat \in Lines /\ line' = [line EXCEPT ![seat] = q]
      BY <1>2 DEF Broadcast, ReconInv, Typed
    <2>2. packet \in Packets /\ packet.kind # "token" /\ <<packet>> \in Seq(Packets)
      BY DEF Packets
    <2> HIDE DEF packet
    <2>3. /\ d \in Seq(Packets)
          /\ Alive(line[seat]) /\ ~line[seat].cut => d = line[seat].down \o <<packet>>
          /\ ~Alive(line[seat]) => d = line[seat].down
      BY <2>1, <2>2, SentIs
    <2> HIDE DEF d
    <2>4. /\ q \in Line /\ q.browser = line[seat].browser /\ q.peer = line[seat].peer
          /\ q.cut = line[seat].cut /\ q.down = d
      BY <2>1, <2>3 DEF ReconInv, Typed, Line
    <2> HIDE DEF q
    <2>5. line[seat].peer = "bound"
      BY <1>2 DEF ReconInv, SeatHolds, Served
    <2>6. Settled(q)
      BY <2>1, <2>3, <2>4, <2>5, SettledSocket
    <2>7. Served(q, granted, client.reconnectToken)
      <3>1. Alive(line[seat]) /\ ~line[seat].cut => Owed(d, granted, client.reconnectToken)
        <4>1. line[seat].down \in Seq(Packets)
          BY <2>1 DEF ReconInv, Typed, Line
        <4>2. QED BY <1>2, <2>2, <2>3, <4>1, OwedSent DEF ReconInv, SeatHolds, Served
      <3>2. QED BY <2>4, <2>5, <3>1 DEF Served, Alive
    <2>8. SeatHolds'
      BY <2>1, <2>7, SeatStays
    <2>9. QED BY <2>1, <2>4, <2>6, <2>8, ServerStep DEF ReconInv, Typed
  <1>3. QED BY <1>1, <1>2

LEMMA SessionRemovedKeeps ==
    ASSUME ReconInv, SessionRemoved
    PROVE  ReconInv'
  <1>1. /\ session' = "removed" /\ known' = {} /\ seat' = NoLine
        /\ UNCHANGED <<client, storage, granted>>
    BY DEF SessionRemoved
  <1>2. SeatHolds'
    BY <1>1 DEF SeatHolds
  <1>3. CASE seat = NoLine
    <2>1. line' = line
      BY <1>3 DEF SessionRemoved
    <2>2. QED BY <1>1, <1>2, <2>1 DEF ReconInv, Typed, OneSocket, AskedWhenClosed
  <1>4. CASE seat # NoLine
    <2> DEFINE d == Sent(seat, Close(1000))
               q == [line[seat] EXCEPT !.peer = "gone", !.down = d]
    <2>1. seat \in Lines /\ line' = [line EXCEPT ![seat] = q]
      BY <1>4 DEF SessionRemoved, ReconInv, Typed
    <2>2. Close(1000) \in Seq(Packets)
      BY ClosePacket DEF Codes
    <2>3. d \in Seq(Packets) /\ (~Alive(line[seat]) => d = line[seat].down)
      BY <2>1, <2>2, SentIs
    <2> HIDE DEF d
    <2>4. q \in Line /\ q.browser = line[seat].browser /\ q.peer = "gone" /\ q.down = d
      BY <2>1, <2>3 DEF ReconInv, Typed, Line
    <2> HIDE DEF q
    <2>5. Settled(q)
      BY <2>1, <2>3, <2>4, SettledSocket
    <2>6. QED BY <1>1, <1>2, <2>1, <2>4, <2>5, ServerStep DEF ReconInv, Typed
  <1>5. QED BY <1>3, <1>4

-----------------------------------------------------------------------------
(* The invariant, and what it gives. *)

LEMMA ReconInitInv == ReconInit => ReconInv
  <1> SUFFICES ASSUME ReconInit PROVE ReconInv
    OBVIOUS
  <1> DEFINE first(l, m) == [browser |-> IF m = l THEN "connecting" ELSE "closed", token |-> 0,
                             down |-> <<>>, peer |-> IF m = l THEN "none" ELSE "gone",
                             cut |-> FALSE]
  <1>1. PICK l \in Lines :
          /\ client = [NewPage(NoWord) EXCEPT !.ws = l, !.timers = {"connection"}]
          /\ line = [m \in Lines |-> first(l, m)]
    BY DEF ReconInit
  <1>2. /\ storage = NoWord /\ session = "live" /\ known = {0} /\ granted = 0 /\ seat = NoLine
        /\ 0 \in Words /\ 0 \in 0..MaxRetries
    BY ReconnectionAssumption DEF ReconInit, Words
  <1>3. client \in Clients /\ client.ws = l /\ client.status = "connected"
        /\ client.timers = {"connection"}
    <2>1. {"connection"} \in SUBSET Slots2
      BY DEF Slots2
    <2>2. client = [status |-> "connected", wsToken |-> 0, reconnectToken |-> NoWord,
                    retryCount |-> 0, hasToken |-> TRUE, ws |-> l, timers |-> {"connection"},
                    greeted |-> FALSE]
      BY <1>1 DEF NewPage
    <2>3. QED BY <1>2, <2>1, <2>2 DEF Clients
  <1>4. \A m \in Lines : /\ first(l, m) \in Line /\ Settled(first(l, m))
                         /\ m # l => first(l, m).browser = "closed"
    <2>1. <<>> \in Seq(Packets)
      OBVIOUS
    <2>2. \A m \in Lines : /\ first(l, m) \in Line /\ first(l, m).down = <<>>
                           /\ first(l, m).browser # "closing"
                           /\ m # l => first(l, m).browser = "closed"
      BY <1>2, <2>1 DEF Line
    <2> HIDE DEF first
    <2>3. QED BY <2>2 DEF Settled
  <1> HIDE DEF first
  <1>5. QED BY <1>1, <1>2, <1>3, <1>4 DEF ReconInv, Typed, OneSocket, AskedWhenClosed, SeatHolds

LEMMA ReconNextInv == ReconInv /\ [ReconNext]_reconVars => ReconInv'
  <1> SUFFICES ASSUME ReconInv, [ReconNext]_reconVars PROVE ReconInv'
    OBVIOUS
  <1>1. CASE UNCHANGED reconVars
    BY <1>1 DEF reconVars, server, ReconInv, Typed, OneSocket, AskedWhenClosed, SeatHolds
  <1>2. CASE ConnectionTimer \/ SessionTokenTimer \/ RetryTimer \/ UserRetry \/ Reload
    BY <1>2, ConnectionTimerKeeps, SessionTokenTimerKeeps, RetryTimerKeeps, UserRetryKeeps,
       ReloadKeeps
  <1>3. ASSUME NEW l \in Lines,
               \/ OnOpen(l) \/ SessionToken(l) \/ DuelEndMsg(l) \/ RematchStarting(l) \/ OnClose(l)
        PROVE  ReconInv'
    BY <1>3, OnOpenKeeps, SessionTokenKeeps, NoticeKeeps, OnCloseKeeps
  <1>4. ASSUME NEW l \in Lines,
               \/ NetworkCut(l) \/ RefuseEarly(l) \/ RefuseToken(l) \/ Accept(l) \/ ServerClose(l)
        PROVE  ReconInv'
    <2>1. CASE RefuseEarly(l) \/ RefuseToken(l)
      <3>1. \E code \in Codes : Refuse(l, code)
        BY <2>1 DEF RefuseEarly, RefuseToken, Codes
      <3>2. QED BY <3>1, RefuseKeeps
    <2>2. QED BY <1>4, <2>1, NetworkCutKeeps, AcceptKeeps, ServerCloseKeeps
  <1>5. CASE DuelEnds \/ RematchStarts
    <2>1. \E kind \in {"duelEnd", "rematch"} : line' = Broadcast(kind)
      BY <1>5 DEF DuelEnds, RematchStarts
    <2>2. session' \in {"live", "ended"} /\ UNCHANGED <<client, storage, known, granted, seat>>
      BY <1>5 DEF DuelEnds, RematchStarts
    <2>3. QED BY <2>1, <2>2, BroadcastKeeps
  <1>6. CASE SessionRemoved
    BY <1>6, SessionRemovedKeeps
  <1>7. QED BY <1>1, <1>2, <1>3, <1>4, <1>5, <1>6 DEF ReconNext

\* The invariant holds throughout: the last socket is the only one that is not closed, a new one
\* is asked for when it is given up, and the seat's token is the client's or on its way.
THEOREM ReconIsInvariant == ReconSpec => []ReconInv
  BY ReconInitInv, ReconNextInv, PTL DEF ReconSpec

\* The client's fields, its storage, the two ends of every socket and the server's side have
\* their types.
THEOREM ReconTypes == ReconSpec => []ReconTypeOK
  <1>1. ReconInv => ReconTypeOK
    <2> SUFFICES ASSUME ReconInv PROVE ReconTypeOK
      OBVIOUS
    <2>1. ASSUME NEW l \in Lines
          PROVE  /\ line[l] \in [browser : {"connecting", "open", "closing", "closed"},
                                 token : Words, down : {line[l].down},
                                 peer : {"none", "bound", "gone"}, cut : BOOLEAN]
                 /\ \A i \in 1..Len(line[l].down) : line[l].down[i] \in Packets
      <3>1. line[l] \in Line
        BY DEF ReconInv, Typed
      <3>2. line[l].down \in Seq(Packets)
        BY <3>1 DEF Line
      <3>3. QED BY <3>1, <3>2 DEF Line
    <2>2. QED BY <2>1 DEF ReconInv, Typed, ReconTypeOK
  <1>2. QED BY <1>1, ReconIsInvariant, PTL

\* handleReconnect, the timers and onclose: whatever expires while a socket is being opened or
\* closed, the client never has two that are connecting or open.
THEOREM OneSocketAtATime == ReconSpec => []OneLiveSocket
  <1>1. ReconInv => OneLiveSocket
    BY DEF ReconInv, OneSocket, OneLiveSocket
  <1>2. QED BY <1>1, ReconIsInvariant, PTL

\* _handleSessionToken and the server's handshake: who sits at the seat with the last token
\* received holds the one token that the server would accept, across cuts, retries and reloads.
THEOREM TheSeatedCanComeBack == ReconSpec => []SeatedHasTheToken
  <1>1. ReconInv => SeatedHasTheToken
    <2> SUFFICES ASSUME ReconInv, seat # NoLine, line[seat].browser = "open", ~line[seat].cut,
                        \A i \in 1..Len(line[seat].down) : line[seat].down[i].kind # "token"
                 PROVE  client.reconnectToken \in known
      BY DEF SeatedHasTheToken
    <2>1. known = {granted} /\ Owed(line[seat].down, granted, client.reconnectToken)
      BY DEF ReconInv, SeatHolds, Served, Alive
    <2>2. QED BY <2>1 DEF Owed
  <1>2. QED BY <1>1, ReconIsInvariant, PTL

=============================================================================
