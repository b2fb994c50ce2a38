---------------------------- MODULE ClientProofs ----------------------------
(***************************************************************************)
(* Theorems about module Client, for any moves to choose from, any number  *)
(* of sockets and any bounds: the page stays in a state its script can     *)
(* handle, and while its player waits for answers, its board and what is   *)
(* under way to it are the Game of the Room.                               *)
(***************************************************************************)
EXTENDS Client, SequenceTheorems, TLAPS

-----------------------------------------------------------------------------
(* Sequences.                                                              *)

(* A message or a request is added at the end,                             *)
LEMMA Added ==
    ASSUME NEW S, NEW s \in Seq(S), NEW e \in S
    PROVE  /\ Append(s, e) \in Seq(S) /\ Len(s) \in Nat
           /\ Len(Append(s, e)) = Len(s) + 1
           /\ DOMAIN s = 1..Len(s) /\ DOMAIN Append(s, e) = 1..Len(s) + 1
           /\ \A i \in 1..Len(s) : Append(s, e)[i] = s[i]
           /\ Append(s, e)[Len(s) + 1] = e
OBVIOUS

(* and taken from the front.                                               *)
LEMMA Taken ==
    ASSUME NEW S, NEW s \in Seq(S), s # <<>>
    PROVE  /\ Len(s) \in Nat \ {0} /\ DOMAIN s = 1..Len(s)
           /\ Head(s) = s[1] /\ Head(s) \in S
           /\ Tail(s) \in Seq(S) /\ DOMAIN Tail(s) = 1..Len(s) - 1
           /\ \A i \in 1..Len(s) - 1 : Tail(s)[i] = s[i + 1]
BY HeadTailProperties

(* A board before its last move,                                           *)
LEMMA WithoutLast ==
    ASSUME NEW S, NEW s \in Seq(S), s # <<>>
    PROVE  /\ SubSeq(s, 1, Len(s) - 1) \in Seq(S)
           /\ Len(s) \in Nat \ {0} /\ s[Len(s)] \in S
           /\ Len(SubSeq(s, 1, Len(s) - 1)) = Len(s) - 1
           /\ \A i \in 1..Len(s) - 1 : SubSeq(s, 1, Len(s) - 1)[i] = s[i]
<1>1. Len(s) \in Nat \ {0} /\ \A i \in 1..Len(s) : s[i] \in S
  OBVIOUS
<1>2. SubSeq(s, 1, Len(s) - 1) \in Seq(S) /\ Len(SubSeq(s, 1, Len(s) - 1)) = Len(s) - 1
  <2> DEFINE t == SubSeq(s, 1, Len(s) - 1)
  <2>2. t \in Seq(S) /\ Len(t) = IF 1 <= Len(s) - 1 THEN Len(s) - 1 - 1 + 1 ELSE 0
    OBVIOUS
  <2> HIDE DEF t
  <2>3. \A n \in Nat \ {0} : (IF 1 <= n - 1 THEN n - 1 - 1 + 1 ELSE 0) = n - 1
    OBVIOUS
  <2>4. t \in Seq(S) /\ Len(t) = Len(s) - 1
    BY <1>1, <2>2, <2>3
  <2> QED BY <2>4
<1> QED BY <1>2

(* and after a move that is taken back.                                    *)
LEMMA TakenBack ==
    ASSUME NEW S, NEW s \in Seq(S), NEW e \in S
    PROVE  SubSeq(Append(s, e), 1, Len(Append(s, e)) - 1) = s
OBVIOUS

(* A board and its last move are the board.                                *)
LEMMA PlayedAgain ==
    ASSUME NEW S, NEW s \in Seq(S), s # <<>>
    PROVE  s = Append(SubSeq(s, 1, Len(s) - 1), s[Len(s)])
<1> DEFINE t == SubSeq(s, 1, Len(s) - 1)
<1> HIDE DEF t
<1> QED OBVIOUS

(* The side that makes the nth move of a game.                             *)
Mover(n) == IF n % 2 = 1 THEN White ELSE Black

(* Whose turn it is follows from the number of moves made,                 *)
LEMMA TurnIsMover ==
    ASSUME NEW S, NEW s \in Seq(S)
    PROVE  Turn(s) = Mover(Len(s) + 1) /\ Turn(s) \in Sides
BY DEF Turn, Mover, Sides

(* and the sides take turns.                                               *)
LEMMA MoversTakeTurns ==
    ASSUME NEW n \in Nat
    PROVE  Mover(n) # Mover(n + 1) /\ Mover(n) \in Sides
BY DEF Mover, Sides, White, Black

(* Two different sides are all there are.                                  *)
LEMMA TheOther ==
    ASSUME NEW a \in Sides, NEW b \in Sides, NEW c \in Sides, a # b
    PROVE  c = a \/ c = b
BY DEF Sides

(* A move passes the turn,                                                 *)
LEMMA TurnFlips ==
    ASSUME NEW s \in Boards, NEW n \in Names
    PROVE  /\ Append(s, n) \in Boards /\ Append(s, n) # <<>>
           /\ Turn(Append(s, n)) # Turn(s)
<1>1. Len(s) \in Nat /\ Append(s, n) \in Seq(Names) /\ Len(Append(s, n)) = Len(s) + 1
  BY DEF Boards
<1>3. Turn(s) = Mover(Len(s) + 1) /\ Turn(Append(s, n)) = Mover(Len(s) + 1 + 1)
  BY <1>1, TurnIsMover DEF Boards
<1>4. Len(s) + 1 \in Nat
  BY <1>1
<1> QED BY <1>3, <1>4, MoversTakeTurns DEF Boards

(* and taking it back passes it back.                                      *)
LEMMA TurnFlipsBack ==
    ASSUME NEW s \in Boards, s # <<>>
    PROVE  /\ SubSeq(s, 1, Len(s) - 1) \in Boards
           /\ Turn(SubSeq(s, 1, Len(s) - 1)) # Turn(s)
<1>1. /\ SubSeq(s, 1, Len(s) - 1) \in Boards /\ s[Len(s)] \in Names
      /\ s = Append(SubSeq(s, 1, Len(s) - 1), s[Len(s)])
  BY DEF Boards
<1> QED BY <1>1, TurnFlips
-----------------------------------------------------------------------------
(* Messages that lead from a board to the moves of the Game.               *)

(* A message that carries no move changes nothing,                         *)
LEMMA QuietSent ==
    ASSUME NEW b, NEW g, NEW d \in Seq(Messages), NEW m \in Messages,
           m.type # "move", LeadsTo(b, d, g)
    PROVE  LeadsTo(b, Append(d, m), g)
<1>2. MovesIn(Append(d, m)) = MovesIn(d)
  BY DEF MovesIn
<1>3. \A i \in MovesIn(d) : Append(d, m)[i] = d[i]
  BY DEF MovesIn
<1>4. {Append(d, m)[i].plies : i \in MovesIn(Append(d, m))} = {d[i].plies : i \in MovesIn(d)}
  BY <1>2, <1>3
<1> QED BY <1>2, <1>3, <1>4 DEF LeadsTo

(* neither when it comes under way nor when it arrives.                    *)
LEMMA QuietArrives ==
    ASSUME NEW b, NEW g, NEW d \in Seq(Messages), d # <<>>,
           Head(d).type # "move", LeadsTo(b, d, g)
    PROVE  LeadsTo(b, Tail(d), g)
<1> DEFINE e == Tail(d)
<1>1. /\ DOMAIN d = 1..Len(d) /\ DOMAIN e = 1..Len(d) - 1 /\ Len(d) \in Nat \ {0}
      /\ \A i \in 1..Len(d) - 1 : e[i] = d[i + 1]
      /\ Head(d) = d[1]
  BY Taken
<1> HIDE DEF e
<1>2. \A i \in MovesIn(e) : i + 1 \in MovesIn(d) /\ e[i] = d[i + 1] /\ i \in Int
  BY <1>1 DEF MovesIn
<1>3. \A j \in MovesIn(d) : j - 1 \in MovesIn(e) /\ e[j - 1] = d[j]
  BY <1>1 DEF MovesIn
<1>4. \A n \in {e[i].plies : i \in MovesIn(e)} : n \in {d[i].plies : i \in MovesIn(d)}
  BY <1>2
<1>5. \A n \in {d[i].plies : i \in MovesIn(d)} : n \in {e[i].plies : i \in MovesIn(e)}
  BY <1>3
<1>6. {e[i].plies : i \in MovesIn(e)} = {d[i].plies : i \in MovesIn(d)}
  BY <1>4, <1>5
<1>7. \A i \in MovesIn(e) : e[i].name = g[e[i].plies]
  BY <1>2 DEF LeadsTo
<1>8. \A i, j \in MovesIn(e) : i < j => e[i].plies < e[j].plies
  BY <1>2 DEF LeadsTo
<1> QED BY <1>6, <1>7, <1>8 DEF LeadsTo, e

(* A move the Game makes comes under way.                                  *)
LEMMA MoveSent ==
    ASSUME NEW b \in Boards, NEW g \in Boards, NEW d \in Seq(Messages),
           NEW n \in Names, NEW c \in Sides, LeadsTo(b, d, g)
    PROVE  LeadsTo(b, Append(d, Moved(n, c, Len(g) + 1)), Append(g, n))
<1> DEFINE m == Moved(n, c, Len(g) + 1)
           h == Append(g, n)
           e == Append(d, m)
<1>1. /\ Len(b) \in Nat /\ Len(g) \in Nat /\ Len(h) = Len(g) + 1 /\ DOMAIN b = 1..Len(b)
      /\ \A i \in 1..Len(g) : h[i] = g[i]
      /\ h[Len(g) + 1] = n
  OBVIOUS
<1>2. m \in Messages /\ m.type = "move" /\ m.name = n /\ m.plies = Len(g) + 1
  BY DEF Messages, Moved
<1> HIDE DEF m
<1>3. /\ DOMAIN d = 1..Len(d) /\ DOMAIN e = 1..Len(d) + 1 /\ Len(d) \in Nat
      /\ \A i \in 1..Len(d) : e[i] = d[i]
      /\ e[Len(d) + 1] = m
  OBVIOUS
<1> HIDE DEF e, h
<1>4. MovesIn(e) = MovesIn(d) \cup {Len(d) + 1}
  BY <1>2, <1>3 DEF MovesIn
<1>5. \A i \in MovesIn(d) : /\ e[i] = d[i] /\ i < Len(d) + 1 /\ i \in 1..Len(d)
                            /\ d[i].plies \in Len(b) + 1..Len(g)
  BY <1>3 DEF MovesIn, LeadsTo
<1>6. {e[i].plies : i \in MovesIn(e)} = {d[i].plies : i \in MovesIn(d)} \cup {Len(g) + 1}
  BY <1>2, <1>3, <1>4, <1>5
<1>7. {e[i].plies : i \in MovesIn(e)} = Len(b) + 1..Len(h)
  BY <1>1, <1>6 DEF LeadsTo
<1>8. \A i \in MovesIn(e) : e[i].name = h[e[i].plies]
  BY <1>1, <1>2, <1>3, <1>4, <1>5 DEF LeadsTo
<1>9. \A i, j \in MovesIn(e) : i < j => e[i].plies < e[j].plies
  BY <1>2, <1>3, <1>4, <1>5 DEF LeadsTo
<1>10. Len(b) <= Len(h) /\ \A i \in DOMAIN b : b[i] = h[i]
  BY <1>1 DEF LeadsTo
<1> QED BY <1>7, <1>8, <1>9, <1>10 DEF LeadsTo, m, e, h

(* The next move under way is the one that follows the board.              *)
LEMMA NextUnderWay ==
    ASSUME NEW b \in Boards, NEW g \in Boards, NEW d \in Seq(Messages), d # <<>>,
           Head(d).type = "move", LeadsTo(b, d, g)
    PROVE  /\ Head(d).plies = Len(b) + 1 /\ Len(b) + 1 <= Len(g)
           /\ Head(d).name = g[Len(b) + 1]
<1>2. 1 \in MovesIn(d) /\ \A i \in MovesIn(d) : i \in Int /\ i >= 1
  BY DEF MovesIn
<1>4. d[1].plies \in Len(b) + 1..Len(g)
  BY <1>2 DEF LeadsTo
<1>5. PICK i \in MovesIn(d) : d[i].plies = Len(b) + 1
  <2>1. Len(b) + 1 \in Len(b) + 1..Len(g)
    BY <1>4
  <2> QED BY <2>1 DEF LeadsTo
<1>6. i = 1
  BY <1>2, <1>4, <1>5 DEF LeadsTo
<1> QED BY <1>5, <1>6 DEF LeadsTo

(* When it arrives it is on the board.                                     *)
LEMMA MoveArrives ==
    ASSUME NEW b \in Boards, NEW g \in Boards, NEW d \in Seq(Messages), d # <<>>,
           Head(d).type = "move", LeadsTo(b, d, g)
    PROVE  LeadsTo(Append(b, Head(d).name), Tail(d), g)
<1> DEFINE h == Append(b, Head(d).name)
           e == Tail(d)
<1>1. /\ DOMAIN d = 1..Len(d) /\ DOMAIN e = 1..Len(d) - 1 /\ Len(d) \in Nat \ {0}
      /\ \A i \in 1..Len(d) - 1 : e[i] = d[i + 1]
      /\ Head(d) = d[1]
  BY Taken
<1>2. /\ Head(d).plies = Len(b) + 1 /\ Len(b) + 1 <= Len(g)
      /\ Head(d).name = g[Len(b) + 1]
  BY NextUnderWay
<1>4. /\ Len(b) \in Nat /\ Len(g) \in Nat /\ Len(h) = Len(b) + 1 /\ DOMAIN h = 1..Len(b) + 1
      /\ \A i \in 1..Len(b) : h[i] = b[i]
      /\ h[Len(b) + 1] = Head(d).name
      /\ DOMAIN b = 1..Len(b)
  OBVIOUS
<1> HIDE DEF h, e
<1>5. Len(h) <= Len(g) /\ \A i \in DOMAIN h : h[i] = g[i]
  BY <1>2, <1>4 DEF LeadsTo
<1>6. \A i \in MovesIn(e) : i + 1 \in MovesIn(d) /\ e[i] = d[i + 1] /\ i \in Int /\ 1 < i + 1
  BY <1>1 DEF MovesIn
<1>7. \A j \in MovesIn(d) : j # 1 => j - 1 \in MovesIn(e) /\ e[j - 1] = d[j]
  BY <1>1 DEF MovesIn
<1>8. 1 \in MovesIn(d)
  BY DEF MovesIn
<1>9. \A i \in MovesIn(e) : e[i].plies \in Len(h) + 1..Len(g)
  <2> SUFFICES ASSUME NEW i \in MovesIn(e) PROVE e[i].plies \in Len(h) + 1..Len(g)
    OBVIOUS
  <2>1. d[i + 1].plies \in Len(b) + 1..Len(g) /\ d[1].plies < d[i + 1].plies
    BY <1>6, <1>8 DEF LeadsTo
  <2> QED BY <1>2, <1>4, <1>6, <2>1
<1>10. \A k \in Len(h) + 1..Len(g) : \E i \in MovesIn(e) : e[i].plies = k
  <2> SUFFICES ASSUME NEW k \in Len(h) + 1..Len(g)
               PROVE  \E i \in MovesIn(e) : e[i].plies = k
    OBVIOUS
  <2>1. PICK j \in MovesIn(d) : d[j].plies = k
    BY <1>4 DEF LeadsTo
  <2>2. j # 1
    BY <1>2, <1>4, <2>1
  <2> QED BY <1>7, <2>1, <2>2
<1>11. {e[i].plies : i \in MovesIn(e)} = Len(h) + 1..Len(g)
  BY <1>9, <1>10
<1>12. LeadsTo(h, e, g)
  <2>1. \A i \in MovesIn(e) : e[i].name = g[e[i].plies]
    BY <1>6 DEF LeadsTo
  <2>2. \A i, j \in MovesIn(e) : i < j => e[i].plies < e[j].plies
    BY <1>6 DEF LeadsTo
  <2> QED BY <1>5, <1>11, <2>1, <2>2 DEF LeadsTo
<1> QED BY <1>12 DEF h, e

(* A snapshot leads to what it shows.                                      *)
LEMMA SnapshotLeads ==
    ASSUME NEW g \in Boards
    PROVE  LeadsTo(g, <<Joined(g)>>, g)
<1>1. MovesIn(<<Joined(g)>>) = {} /\ Len(g) \in Nat
  BY DEF MovesIn, Joined
<1> QED BY <1>1 DEF LeadsTo

(* A board that is not behind the Game is the Game's, and no move is under *)
(* way.                                                                    *)
LEMMA NothingUnderWay ==
    ASSUME NEW b \in Boards, NEW g \in Boards, NEW d \in Seq(Messages),
           LeadsTo(b, d, g), Len(b) = Len(g)
    PROVE  b = g /\ MovesIn(d) = {}
<1>1. Len(b) \in Nat /\ b \in Seq(Names) /\ g \in Seq(Names)
  BY DEF Boards
<1>3. b = g
  BY <1>1 DEF LeadsTo
<1> QED BY <1>3 DEF LeadsTo

(* If it is behind, the move that follows is under way.                    *)
LEMMA FollowerUnderWay ==
    ASSUME NEW b \in Boards, NEW g \in Boards, NEW d, LeadsTo(b, d, g), Len(b) # Len(g)
    PROVE  \E i \in MovesIn(d) : d[i].plies = Len(b) + 1
<1>2. Len(b) + 1 \in Len(b) + 1..Len(g)
  BY DEF LeadsTo
<1> QED BY <1>2 DEF LeadsTo
-----------------------------------------------------------------------------
(* Types.                                                                  *)

(* What the type of a request or a message says of it.                     *)
LEMMA Kinds ==
    /\ \A m \in Requests :
          /\ m.type \in {"join", "leave", "abort", "resign", "move"}
          /\ m.type = "move" => m.name \in Names /\ m.board \in Boards
    /\ \A m \in Messages :
          /\ m.type \in {"joined", "move", "error", "game_over", "close"}
          /\ m.type = "joined" => m.moves \in Boards
          /\ m.type = "move" => m.name \in Names /\ m.by \in Sides /\ m.plies \in Nat
BY DEF Requests, Messages, Join, Leave, Abort, Resign, Error, GameOver, Close

(* Whatever either side sends is one of them.                              *)
LEMMA Made ==
    /\ {Join, Leave, Abort, Resign} \subseteq Requests
    /\ \A n \in Names, b \in Boards : Move(n, b) \in Requests
    /\ <<>> \in Seq(Requests) /\ <<Join>> \in Seq(Requests)
    /\ <<>> \in Seq(Messages) /\ <<>> \in Boards
    /\ <<Error>> \in Seq(Messages) /\ <<Close>> \in Seq(Messages)
    /\ <<GameOver, Close>> \in Seq(Messages)
    /\ \A b \in Boards : <<Joined(b)>> \in Seq(Messages)
    /\ \A n \in Names, c \in Sides, k \in Nat : <<Moved(n, c, k)>> \in Seq(Messages)
<1>1. {Join, Leave, Abort, Resign} \subseteq Requests /\ {Error, GameOver, Close} \subseteq Messages
  BY DEF Requests, Messages
<1>2. \A n \in Names, b \in Boards : Move(n, b) \in Requests
  BY DEF Requests, Move
<1>3. \A b \in Boards : Joined(b) \in Messages
  BY DEF Messages, Joined
<1>4. \A n \in Names, c \in Sides, k \in Nat : Moved(n, c, k) \in Messages
  BY DEF Messages, Moved
<1>5. <<>> \in Boards
  BY DEF Boards
<1> QED BY <1>1, <1>2, <1>3, <1>4, <1>5

(* A write of the Room leaves messages under way.                          *)
LEMMA WrittenTyped ==
    ASSUME down \in Seq(Messages), NEW k, NEW s \in Seq(Messages)
    PROVE  Written(k, s) \in Seq(Messages)
BY DEF Written

(* A request is appended to what a socket carries, or taken from it.       *)
LEMMA UpTyped ==
    ASSUME up \in [SocketIds -> Seq(Requests)], NEW k \in SocketIds
    PROVE  /\ \A m \in Requests : [up EXCEPT ![k] = Append(@, m)] \in [SocketIds -> Seq(Requests)]
           /\ up[k] # <<>> => [up EXCEPT ![k] = Tail(@)] \in [SocketIds -> Seq(Requests)]
           /\ up[k] # <<>> => Head(up[k]) \in Requests
<1> QED OBVIOUS

(* The page knows its colour whenever it has a move pending.               *)
LEMMA PlayTyped ==
    ASSUME TypeOK, NEW n \in Names, Drop(n)
    PROVE  TypeOK'
<1> USE DEF TypeOK
<1>1. /\ Append(page.moves, n) \in Boards /\ Append(page.moves, n) # <<>>
      /\ Turn(Append(page.moves, n)) # Turn(page.moves)
  BY TurnFlips
<1>2. page' \in [ws : SocketIds \cup {None}, socket : {"connecting", "open", "closed"},
                 color : {Me, NoColor}, moves : Boards, pending : BOOLEAN, over : BOOLEAN,
                 hand : {"empty", "piece", "dialogue"}, abortOn : BOOLEAN, resignOn : BOOLEAN]
  BY <1>1 DEF Drop, Play
<1>3. page'.pending => page'.moves # <<>> /\ Turn(page'.moves) # Me
  BY <1>1 DEF Drop, Play
<1>4. page'.pending \/ page'.hand # "empty" => page'.color = Me
  BY DEF Drop, Play
<1>5. up' \in [SocketIds -> Seq(Requests)]
  <2>1. CASE Open /\ page.ws \in SocketIds
    <3>1. Move(n, page.moves) \in Requests
      BY Made
    <3> QED BY <3>1, UpTyped DEF Drop, Play
  <2>2. CASE Open /\ page.ws \notin SocketIds
    BY <2>2 DEF Drop, Play
  <2>3. CASE ~Open
    BY <2>3 DEF Drop, Play
  <2> QED BY <2>1, <2>2, <2>3
<1>6. clicks' \in 0..MaxClicks /\ crossed' \in BOOLEAN
  BY ClientAssumption DEF Drop, Play, Click
<1> QED BY <1>2, <1>3, <1>4, <1>5, <1>6 DEF Drop

(* Whatever message arrives, the page can handle it.                       *)
LEMMA HandledTyped ==
    ASSUME TypeOK, Deliver
    PROVE  TypeOK'
<1> DEFINE m == Head(down)
           Pages == [ws : SocketIds \cup {None}, socket : {"connecting", "open", "closed"},
                     color : {Me, NoColor}, moves : Boards, pending : BOOLEAN, over : BOOLEAN,
                     hand : {"empty", "piece", "dialogue"}, abortOn : BOOLEAN,
                     resignOn : BOOLEAN]
<1> USE DEF TypeOK
<1>1. m \in Messages /\ Tail(down) \in Seq(Messages)
  BY DEF Deliver
<1>2. page' = OnMessage(page, m) /\ page \in Pages
  BY DEF Deliver
<1>3. \A k : NoClockRuns(k) \in BOOLEAN
  BY DEF NoClockRuns
<1>4. /\ page' \in Pages
      /\ page'.pending => page'.moves # <<>> /\ Turn(page'.moves) # Me
      /\ page'.pending \/ page'.hand # "empty" => page'.color = Me
  <2> HIDE DEF m
  <2>1. CASE m.type = "joined"
    <3>1. page' = OnJoined(page, m) /\ m.moves \in Boards
      BY <1>1, <1>2, <2>1, Kinds DEF OnMessage
    <3> QED BY <1>2, <1>3, <3>1 DEF OnJoined, PendingAfterJoin, Replay
  <2>2. CASE m.type = "move"
    <3>1. page' = OnMove(page, m) /\ m.name \in Names
      BY <1>1, <1>2, <2>2, Kinds DEF OnMessage
    <3>2. Append(page.moves, m.name) \in Boards
      BY <3>1, TurnFlips
    <3>3. page.pending => Mine(page)
      BY DEF Mine
    <3> QED BY <1>2, <3>1, <3>2, <3>3 DEF OnMove
  <2>3. CASE m.type = "error"
    <3>1. page' = OnError(page)
      BY <1>2, <2>3 DEF OnMessage
    <3>2. page.pending => SubSeq(page.moves, 1, Len(page.moves) - 1) \in Boards
      BY TurnFlipsBack
    <3> QED BY <3>1, <3>2 DEF OnError
  <2>4. CASE m.type = "game_over"
    <3>1. page' = OnGameOver(page)
      BY <1>2, <2>4 DEF OnMessage
    <3> QED BY <3>1 DEF OnGameOver
  <2>5. CASE m.type = "close"
    <3>1. page' = [Closed(page) EXCEPT !.socket = "closed"]
      BY <1>2, <2>5 DEF OnMessage
    <3> QED BY <3>1 DEF Closed
  <2> QED BY <1>1, <2>1, <2>2, <2>3, <2>4, <2>5, Kinds
<1> QED BY <1>4 DEF Deliver

(* The rest of the page's steps.                                           *)
LEMMA PageTyped ==
    ASSUME TypeOK,
           \/ Connect \/ OpenSocket \/ LoseSocket \/ OldSocketClosed
           \/ Drag \/ ShowPromotion \/ LetGo \/ ClickAbort \/ ClickResign
    PROVE  TypeOK'
<1> USE DEF TypeOK
<1>1. ASSUME NEW m \in {Join, Leave, Abort, Resign}
      PROVE  [up EXCEPT ![page.ws] = Append(@, m)] \in [SocketIds -> Seq(Requests)]
  <2>1. CASE page.ws \in SocketIds
    BY UpTyped, Made
  <2>2. CASE page.ws \notin SocketIds
    BY <2>2
  <2> QED BY <2>1, <2>2
<1>3. CASE Connect
  <2>1. page.ws + 1 \in SocketIds
    <3>1. page.ws \in SocketIds \cup {None} /\ page.ws < MaxSockets
      BY <1>3 DEF Connect
    <3>2. MaxSockets \in Nat
      BY ClientAssumption
    <3> QED BY <3>1, <3>2 DEF SocketIds, None
  <2>2. up' \in [SocketIds -> Seq(Requests)]
    BY <1>1, <1>3, Made DEF Connect
  <2>3. down' \in Seq(Messages)
    BY <1>3 DEF Connect
  <2> QED BY <1>3, <2>1, <2>2, <2>3 DEF Connect
<1>4. CASE OpenSocket
  BY <1>4, Made DEF OpenSocket
<1>5. CASE LoseSocket
  BY <1>1, <1>5, Made DEF LoseSocket, Closed
<1>6. CASE OldSocketClosed
  BY <1>6 DEF OldSocketClosed, Closed
<1>7. CASE Drag \/ ShowPromotion \/ LetGo
  BY <1>7 DEF Drag, ShowPromotion, LetGo
<1>8. CASE ClickAbort \/ ClickResign
  <2>1. clicks' \in 0..MaxClicks
    BY <1>8, ClientAssumption DEF ClickAbort, ClickResign, Ask, Click
  <2>2. up' \in [SocketIds -> Seq(Requests)]
    BY <1>1, <1>8 DEF ClickAbort, ClickResign, Ask
  <2> QED BY <1>8, <2>1, <2>2 DEF ClickAbort, ClickResign, Ask
<1> QED BY <1>3, <1>4, <1>5, <1>6, <1>7, <1>8

(* What the Room does with a request, or by itself.                        *)
LEMMA EndTyped ==
    ASSUME TypeOK, NEW s \in SocketIds \cup {None}, End(s)
    PROVE  /\ game' \in [moves : Boards, seat : SocketIds \cup {None}, over : BOOLEAN]
           /\ down' \in Seq(Messages)
<1>1. down' \in Seq(Messages)
  BY Made, WrittenTyped DEF End, TypeOK
<1> QED BY <1>1 DEF End, TypeOK

(* the Game makes a move,                                                  *)
LEMMA BroadcastTyped ==
    ASSUME TypeOK, NEW n \in Names, Broadcast(n)
    PROVE  /\ game' \in [moves : Boards, seat : SocketIds \cup {None}, over : BOOLEAN]
           /\ down' \in Seq(Messages)
<1>1. /\ Append(game.moves, n) \in Boards /\ Turn(game.moves) \in Sides
      /\ Len(game.moves) + 1 \in Nat
  BY TurnIsMover DEF TypeOK, Boards
<1>2. down' \in Seq(Messages)
  BY <1>1, Made, WrittenTyped DEF Broadcast, TypeOK
<1> QED BY <1>1, <1>2 DEF Broadcast, TypeOK

(* a request is served,                                                    *)
LEMMA ServeTyped ==
    ASSUME TypeOK, NEW k \in SocketIds, Serve(k)
    PROVE  TypeOK'
<1> USE DEF TypeOK
<1>1. up' \in [SocketIds -> Seq(Requests)]
  BY Made, UpTyped
     DEF Serve, ServeJoin, ServeLeave, ServeMove, ServeAbort, ServeResign, Refuse, Arrives
<1>2. UNCHANGED <<earlier, page, closing, clicks, crossed>>
  BY DEF Serve, ServeJoin, ServeLeave, ServeMove, ServeAbort, ServeResign, Refuse, Arrives
<1>3. /\ game' \in [moves : Boards, seat : SocketIds \cup {None}, over : BOOLEAN]
      /\ down' \in Seq(Messages)
  <2>1. ASSUME Rejected(k) PROVE down' \in Seq(Messages) /\ UNCHANGED game
    BY <2>1, Made, WrittenTyped DEF Rejected
  <2>2. CASE ServeJoin(k)
    BY <2>2, Made, WrittenTyped DEF ServeJoin
  <2>3. CASE ServeLeave(k)
    BY <2>3, EndTyped DEF ServeLeave
  <2>4. CASE ServeMove(k)
    <3>1. Head(up[k]).name \in Names
      BY <2>4, Kinds DEF ServeMove, Arrives
    <3> QED BY <2>1, <2>4, <3>1, BroadcastTyped DEF ServeMove
  <2>5. CASE ServeAbort(k)
    BY <2>1, <2>5, EndTyped DEF ServeAbort
  <2>6. CASE ServeResign(k)
    BY <2>6, EndTyped DEF ServeResign
  <2>7. CASE Refuse(k)
    BY <2>7, Made, WrittenTyped DEF Refuse
  <2> QED BY <2>2, <2>3, <2>4, <2>5, <2>6, <2>7 DEF Serve
<1> QED BY <1>1, <1>2, <1>3

(* and the opponent moves or ends the Game.                                *)
LEMMA ElsewhereTyped ==
    ASSUME TypeOK, Elsewhere
    PROVE  TypeOK'
<1>1. CASE OpponentEnds
  BY <1>1, EndTyped DEF OpponentEnds, TypeOK
<1>2. ASSUME NEW n \in Names, OpponentMoves(n) PROVE TypeOK'
  BY <1>2, BroadcastTyped DEF OpponentMoves, TypeOK
<1> QED BY <1>1, <1>2 DEF Elsewhere

(* Every step keeps the types,                                             *)
LEMMA TypesKept == TypeOK /\ [Next]_vars => TypeOK'
<1> SUFFICES ASSUME TypeOK, [Next]_vars PROVE TypeOK'
  OBVIOUS
<1>1. CASE UNCHANGED vars
  BY <1>1 DEF vars, TypeOK
<1>2. CASE Next
  BY <1>2, PlayTyped, HandledTyped, PageTyped, ServeTyped, ElsewhereTyped DEF Next, Player
<1> QED BY <1>1, <1>2

(* and the page starts in them.                                            *)
LEMMA InitTyped == Init => TypeOK
<1> SUFFICES ASSUME Init PROVE TypeOK
  OBVIOUS
<1> USE DEF Init
<1>3. clicks \in 0..MaxClicks
  BY ClientAssumption
<1> QED BY <1>3, Made DEF TypeOK

(* The script never meets a message it cannot handle: a pending move is on *)
(* the board of a page that knows its colour, with the opponent to move.   *)
THEOREM TypeCorrect == Spec => []TypeOK
<1> QED BY InitTyped, TypesKept, PTL DEF Spec
-----------------------------------------------------------------------------
(* The sockets of the page.                                                *)

(* A socket carries nothing before it is open; the join is the first thing *)
(* it carries to the Room, and the snapshot the first thing it carries to  *)
(* the page; while it is seated in a running Game, the Room keeps it open. *)
SocketsFit ==
    /\ page.socket # "closed" => page.ws # None
    /\ game.seat <= page.ws
    /\ \A k \in SocketIds : k > page.ws => up[k] = <<>>
    /\ page.socket = "connecting" => up[page.ws] = <<>> /\ game.seat # page.ws /\ down = <<>>
    /\ Open => \A i \in DOMAIN up[page.ws] :
                  up[page.ws][i].type = "join" => i = 1 /\ game.seat # page.ws /\ down = <<>>
    /\ Open => \A i \in DOMAIN down : down[i].type = "joined" => i = 1
    /\ Open /\ game.seat = page.ws /\ ~game.over => ~Shut

(* The moves under way to the page were made by the side whose turn it was.*)
MoversFit == \A i \in MovesIn(down) : down[i].by = Mover(down[i].plies)

(* Sockets are numbers, and a seated socket or a used one is a socket.     *)
LEMMA Numbers ==
    ASSUME TypeOK
    PROVE  /\ page.ws \in Nat /\ game.seat \in Nat /\ None = 0 /\ MaxSockets \in Nat
           /\ SocketIds = 1..MaxSockets
           /\ page.ws # None => page.ws \in SocketIds
           /\ game.seat # None => game.seat \in SocketIds
BY ClientAssumption DEF TypeOK, SocketIds, None

(* What a write of the Room adds to what is under way to the page.         *)
LEMMA Sent ==
    ASSUME TypeOK, NEW k
    PROVE  /\ \A m \in Messages : Written(k, <<m>>) =
                 IF k = page.ws /\ Open /\ ~Shut THEN Append(down, m) ELSE down
           /\ Written(k, <<GameOver, Close>>) =
                 IF k = page.ws /\ Open /\ ~Shut THEN Append(Append(down, GameOver), Close)
                 ELSE down
<1>1. \A m \in Messages : down \o <<m>> = Append(down, m)
  OBVIOUS
<1>2. down \o <<GameOver, Close>> = Append(Append(down, GameOver), Close)
  BY DEF TypeOK
<1> QED BY <1>1, <1>2 DEF Written

(* A message that is neither a snapshot nor the end of the connection      *)
(* leaves the socket as it is.                                             *)
LEMMA PlainSent ==
    ASSUME NEW d \in Seq(Messages), NEW m \in Messages
    PROVE  /\ DOMAIN Append(d, m) = DOMAIN d \cup {Len(d) + 1} /\ Len(d) \in Nat
           /\ DOMAIN d = 1..Len(d)
           /\ \A i \in DOMAIN d : Append(d, m)[i] = d[i]
           /\ Append(d, m)[Len(d) + 1] = m
<1> QED OBVIOUS

(* No socket is there at first.                                            *)
LEMMA SocketsInit == Init => SocketsFit /\ MoversFit
BY DEF Init, SocketsFit, MoversFit, MovesIn, None, Open

(* The page replaces its socket, loses it or asks for something.           *)
LEMMA SocketsPage ==
    ASSUME TypeOK, SocketsFit, MoversFit,
           \/ Connect \/ OpenSocket \/ LoseSocket \/ OldSocketClosed
           \/ Drag \/ ShowPromotion \/ LetGo \/ ClickAbort \/ ClickResign
    PROVE  SocketsFit' /\ MoversFit'
<1> USE Numbers DEF SocketsFit
<1>1. CASE Connect
  <2>1. page'.ws = page.ws + 1 /\ page'.ws \in SocketIds /\ game' = game
    BY <1>1 DEF Connect
  <2>2. \A k \in SocketIds : k # page.ws => up'[k] = up[k]
    BY <1>1 DEF Connect
  <2>3. page'.socket = "connecting" /\ down' = <<>>
    BY <1>1 DEF Connect
  <2>4. \A k \in SocketIds : k >= page'.ws => up'[k] = <<>>
    BY <2>1, <2>2
  <2> QED BY <2>1, <2>3, <2>4 DEF MoversFit, MovesIn
<1>2. CASE OpenSocket
  <2>1. page' = [page EXCEPT !.socket = "open"] /\ page.socket = "connecting"
        /\ game' = game /\ down' = down /\ up' = [up EXCEPT ![page.ws] = <<Join>>]
    BY <1>2 DEF OpenSocket
  <2>4. down' = <<>> /\ game'.seat # page'.ws
    BY <2>1
  <2>6. SocketsFit'
    BY <2>1
  <2> QED BY <2>4, <2>6 DEF MoversFit, MovesIn
<1>3. CASE LoseSocket
  <2>1. page'.ws = page.ws /\ page'.socket = "closed" /\ down' = <<>> /\ game' = game
    BY <1>3 DEF LoseSocket, Closed
  <2>2. \A k \in SocketIds : k # page.ws => up'[k] = up[k]
    BY <1>3 DEF LoseSocket
  <2> QED BY <2>1, <2>2 DEF Open, MoversFit, MovesIn
<1>4. CASE OldSocketClosed \/ Drag \/ ShowPromotion \/ LetGo
  <2>1. page'.ws = page.ws /\ page'.socket = page.socket /\ UNCHANGED <<game, up, down>>
    BY <1>4 DEF OldSocketClosed, Drag, ShowPromotion, LetGo, Closed, TypeOK
  <2> QED BY <2>1 DEF Open, Shut, MoversFit
<1>5. CASE ClickAbort \/ ClickResign
  <2>1. PICK m \in {Abort, Resign} : Ask(m)
    BY <1>5 DEF ClickAbort, ClickResign
  <2>2. /\ UNCHANGED <<game, page, down>> /\ Open /\ page.ws \in SocketIds
        /\ up[page.ws] \in Seq(Requests) /\ m \in Requests /\ m.type # "join"
        /\ up'[page.ws] = Append(up[page.ws], m)
        /\ \A k \in SocketIds : k # page.ws => up'[k] = up[k]
    BY <2>1, Made DEF Ask, TypeOK, Abort, Resign, Open
  <2>3. \A i \in DOMAIN up'[page.ws] : up'[page.ws][i].type = "join" =>
           i \in DOMAIN up[page.ws] /\ up'[page.ws][i] = up[page.ws][i]
    BY <2>2
  <2>4. \A k \in SocketIds : k > page.ws => up'[k] = <<>>
    BY <2>2
  <2> QED BY <2>2, <2>3, <2>4 DEF Open, Shut, MoversFit
<1> QED BY <1>1, <1>2, <1>3, <1>4, <1>5

(* The player moves.                                                       *)
LEMMA SocketsPlay ==
    ASSUME TypeOK, SocketsFit, MoversFit, NEW n \in Names, Drop(n)
    PROVE  SocketsFit' /\ MoversFit'
<1> USE Numbers DEF SocketsFit
<1>1. page'.ws = page.ws /\ page'.socket = page.socket /\ UNCHANGED <<game, down>>
  BY DEF Drop, Play
<1>2. CASE ~Open
  <2>1. up' = up
    BY <1>2 DEF Drop, Play
  <2> QED BY <1>1, <2>1 DEF Open, Shut, MoversFit
<1>3. CASE Open
  <2>1. PICK m \in Requests : m = Move(n, page.moves)
    BY Made DEF TypeOK
  <2>2. /\ page.ws \in SocketIds /\ up[page.ws] \in Seq(Requests) /\ m.type # "join"
        /\ up'[page.ws] = Append(up[page.ws], m)
        /\ \A k \in SocketIds : k # page.ws => up'[k] = up[k]
    BY <1>3, <2>1 DEF Drop, Play, TypeOK, Open, Move
  <2>3. \A i \in DOMAIN up'[page.ws] : up'[page.ws][i].type = "join" =>
           i \in DOMAIN up[page.ws] /\ up'[page.ws][i] = up[page.ws][i]
    BY <2>2
  <2>4. \A k \in SocketIds : k > page.ws => up'[k] = <<>>
    BY <2>2
  <2> QED BY <1>1, <1>3, <2>3, <2>4 DEF Open, Shut, MoversFit
<1> QED BY <1>2, <1>3

(* A message arrives.                                                      *)
LEMMA SocketsDeliver ==
    ASSUME TypeOK, SocketsFit, MoversFit, Deliver
    PROVE  SocketsFit' /\ MoversFit'
<1> USE Numbers DEF SocketsFit
<1>1. /\ down \in Seq(Messages) /\ down # <<>> /\ down' = Tail(down)
      /\ UNCHANGED <<game, up>>
      /\ Head(down) \in Messages
  BY DEF Deliver, TypeOK
<1>2. /\ DOMAIN down = 1..Len(down) /\ Len(down) \in Nat \ {0}
      /\ DOMAIN down' = 1..Len(down) - 1 /\ \A i \in 1..Len(down) - 1 : down'[i] = down[i + 1]
  BY <1>1
<1>3. \A i \in DOMAIN down' : i + 1 \in DOMAIN down /\ down'[i] = down[i + 1] /\ i \in Nat \ {0}
  BY <1>2
<1>4. page'.ws = page.ws /\ page'.socket \in {page.socket, "closed"}
  BY Kinds DEF Deliver, OnMessage, OnJoined, OnMove, OnError, OnGameOver, Closed, TypeOK
<1>6. SocketsFit'
  BY <1>1, <1>4 DEF Open, Shut
<1>7. MoversFit'
  BY <1>3 DEF MoversFit, MovesIn
<1> QED BY <1>6, <1>7

(* What is taken from a socket was carried by it, after something else.    *)
LEMMA Arrived ==
    ASSUME TypeOK, NEW k \in SocketIds, NEW type, Arrives(k, type)
    PROVE  /\ up[k] \in Seq(Requests) /\ up[k] # <<>> /\ Head(up[k]) \in Requests
           /\ Head(up[k]).type = type
           /\ up[k][1] = Head(up[k]) /\ 1 \in DOMAIN up[k]
           /\ \A j \in SocketIds : j # k => up'[j] = up[j]
           /\ \A i \in DOMAIN up'[k] : i + 1 \in DOMAIN up[k] /\ up'[k][i] = up[k][i + 1]
                                       /\ i \in Nat \ {0}
           /\ up' \in [SocketIds -> Seq(Requests)]
           /\ UNCHANGED page
<1>1. /\ up[k] \in Seq(Requests) /\ up[k] # <<>> /\ Head(up[k]).type = type
      /\ up'[k] = Tail(up[k]) /\ UNCHANGED page
      /\ \A j \in SocketIds : j # k => up'[j] = up[j]
  BY DEF Arrives, TypeOK
<1>4. up' \in [SocketIds -> Seq(Requests)]
  BY DEF Arrives, TypeOK
<1> QED BY <1>1, <1>4

(* A request other than a join leaves the sockets as they are.             *)
LEMMA SocketsUp ==
    ASSUME TypeOK, SocketsFit, NEW k \in SocketIds, NEW type, Arrives(k, type)
    PROVE  /\ k <= page.ws
           /\ \A j \in SocketIds : j > page.ws => up'[j] = <<>>
           /\ page.socket = "connecting" => up'[page.ws] = <<>>
           /\ Open => \A i \in DOMAIN up'[page.ws] : up'[page.ws][i].type = "join" =>
                         game.seat # page.ws /\ down = <<>> /\ i = 1 /\ k # page.ws
<1> USE Numbers DEF SocketsFit
<1>1. /\ up[k] # <<>>
      /\ \A j \in SocketIds : j # k => up'[j] = up[j]
      /\ \A i \in DOMAIN up'[k] : i + 1 \in DOMAIN up[k] /\ up'[k][i] = up[k][i + 1]
                                  /\ i \in Nat \ {0}
  BY Arrived
<1>2. k <= page.ws
  BY <1>1
<1>3. \A j \in SocketIds : j > page.ws => up'[j] = <<>>
  BY <1>1
<1>4. ASSUME page.socket = "connecting" PROVE up'[page.ws] = <<>>
  BY <1>1, <1>4
<1>5. ASSUME Open, NEW i \in DOMAIN up'[page.ws], up'[page.ws][i].type = "join"
      PROVE  game.seat # page.ws /\ down = <<>> /\ i = 1 /\ k # page.ws
  <2> QED BY <1>1, <1>5
<1> QED BY <1>2, <1>3, <1>4, <1>5

(* A message other than a snapshot may be written at any time, the end of  *)
(* the connection once the Game is over or another socket is seated.       *)
LEMMA SocketsDown ==
    ASSUME TypeOK, SocketsFit, MoversFit, NEW k, NEW m \in Messages,
           m.type # "joined", m.type = "move" => m.by = Mover(m.plies),
           down' = Written(k, <<m>>), page' = page
    PROVE  /\ MoversFit'
           /\ Open => \A i \in DOMAIN down' : down'[i].type = "joined" => i = 1
           /\ page.socket = "connecting" => down' = <<>>
           /\ m.type # "close" => (Shut' <=> Shut)
           /\ (k # page.ws \/ ~Open) => down' = down
<1> USE DEF SocketsFit
<1>1. CASE down' = down
  <2>1. Shut' <=> Shut
    BY <1>1 DEF Shut
  <2>2. MoversFit'
    BY <1>1 DEF MoversFit
  <2> QED BY <1>1, <2>1, <2>2
<1>2. CASE down' = Append(down, m) /\ Open /\ k = page.ws
  <2>1. /\ DOMAIN down' = DOMAIN down \cup {Len(down) + 1} /\ Len(down) \in Nat
        /\ DOMAIN down = 1..Len(down)
        /\ \A i \in DOMAIN down : down'[i] = down[i]
        /\ down'[Len(down) + 1] = m
    <3>2. /\ DOMAIN Append(down, m) = DOMAIN down \cup {Len(down) + 1} /\ Len(down) \in Nat
          /\ DOMAIN down = 1..Len(down)
          /\ \A i \in DOMAIN down : Append(down, m)[i] = down[i]
          /\ Append(down, m)[Len(down) + 1] = m
      OBVIOUS
    <3> QED BY <1>2, <3>2
  <2>2. MoversFit'
    BY <2>1 DEF MoversFit, MovesIn
  <2>3. m.type # "close" => (Shut' <=> Shut)
    BY <2>1 DEF Shut
  <2> QED BY <1>2, <2>2, <2>3 DEF Open
<1> QED BY <1>1, <1>2, Sent

(* What the Room sends, and what its messages say.                         *)
LEMMA MadeKinds ==
    /\ Error \in Messages /\ Error.type = "error"
    /\ Close \in Messages /\ Close.type = "close"
    /\ GameOver \in Messages /\ GameOver.type = "game_over"
    /\ \A b \in Boards : Joined(b) \in Messages /\ Joined(b).type = "joined"
                         /\ Joined(b).moves = b
    /\ \A n \in Names, c \in Sides, k \in Nat :
          /\ Moved(n, c, k) \in Messages /\ Moved(n, c, k).type = "move"
          /\ Moved(n, c, k).name = n /\ Moved(n, c, k).by = c /\ Moved(n, c, k).plies = k
BY DEF Error, Close, GameOver, Joined, Moved, Messages

(* The end of the Game is announced on the seated socket, and closes it.   *)
LEMMA EndSent ==
    ASSUME TypeOK, SocketsFit, MoversFit, NEW s, End(s), page' = page
    PROVE  /\ MoversFit'
           /\ Open => \A i \in DOMAIN down' : down'[i].type = "joined" => i = 1
           /\ page.socket = "connecting" => down' = <<>>
           /\ down' \in {down, Append(Append(down, GameOver), Close)}
           /\ (s # page.ws \/ ~Open) => down' = down
<1>1. down' = IF s = page.ws /\ Open /\ ~Shut THEN Append(Append(down, GameOver), Close) ELSE down
  BY Sent DEF End
<1>2. CASE down' = down
  BY <1>2 DEF MoversFit, SocketsFit
<1>3. CASE down' = Append(Append(down, GameOver), Close) /\ Open /\ s = page.ws
  <2> DEFINE d == Append(down, GameOver)
  <2>2. /\ DOMAIN d = DOMAIN down \cup {Len(down) + 1}
        /\ \A i \in DOMAIN down : d[i] = down[i]
        /\ d[Len(down) + 1] = GameOver
    OBVIOUS
  <2> HIDE DEF d
  <2>3. /\ DOMAIN Append(d, Close) = DOMAIN d \cup {Len(d) + 1}
        /\ \A i \in DOMAIN d : Append(d, Close)[i] = d[i]
        /\ Append(d, Close)[Len(d) + 1] = Close
    OBVIOUS
  <2>4. down' = Append(d, Close)
    BY <1>3 DEF d
  <2>5. \A i \in DOMAIN down' : down'[i].type \in {"joined", "move"} =>
           i \in DOMAIN down /\ down'[i] = down[i]
    BY <2>2, <2>3, <2>4, MadeKinds
  <2>6. MoversFit'
    BY <2>5 DEF MoversFit, MovesIn
  <2> QED BY <1>3, <2>5, <2>6 DEF SocketsFit, Open
<1> QED BY <1>1, <1>2, <1>3

(* The Game broadcasts a move of the side whose turn it is.                *)
LEMMA BroadcastSent ==
    ASSUME TypeOK, SocketsFit, MoversFit, NEW n \in Names, Broadcast(n), page' = page
    PROVE  /\ MoversFit'
           /\ Open => \A i \in DOMAIN down' : down'[i].type = "joined" => i = 1
           /\ page.socket = "connecting" => down' = <<>>
           /\ Shut' <=> Shut
           /\ game'.seat = game.seat /\ game'.over = game.over
           /\ game'.moves = Append(game.moves, n)
           /\ (game.seat # page.ws \/ ~Open) => down' = down
<1>1. /\ Turn(game.moves) \in Sides /\ Turn(game.moves) = Mover(Len(game.moves) + 1)
      /\ Len(game.moves) + 1 \in Nat
  BY TurnIsMover DEF TypeOK, Boards
<1>2. PICK m \in Messages : m = Moved(n, Turn(game.moves), Len(game.moves) + 1)
  BY <1>1, MadeKinds
<1>3. m.type = "move" /\ m.by = Mover(m.plies)
  BY <1>1, <1>2, MadeKinds
<1>4. down' = Written(game.seat, <<m>>)
  BY <1>2 DEF Broadcast
<1>5. game'.seat = game.seat /\ game'.over = game.over /\ game'.moves = Append(game.moves, n)
  BY DEF Broadcast
<1> QED BY <1>3, <1>4, <1>5, SocketsDown

(* The opponent moves or ends the Game.                                    *)
LEMMA SocketsElsewhere ==
    ASSUME TypeOK, SocketsFit, MoversFit, Elsewhere
    PROVE  SocketsFit' /\ MoversFit'
<1> USE Numbers DEF SocketsFit
<1>1. CASE OpponentEnds
  <2>1. /\ End(game.seat) /\ UNCHANGED <<page, up>>
        /\ game'.seat = game.seat /\ game'.over
    BY <1>1 DEF OpponentEnds, End
  <2> QED BY <2>1, EndSent DEF Open
<1>2. ASSUME NEW n \in Names, OpponentMoves(n) PROVE SocketsFit' /\ MoversFit'
  <2>1. Broadcast(n) /\ UNCHANGED <<page, up>>
    BY <1>2 DEF OpponentMoves
  <2> QED BY <2>1, BroadcastSent DEF Open
<1> QED BY <1>1, <1>2 DEF Elsewhere

(* The Room serves a request of any socket of the page.                    *)
LEMMA SocketsServe ==
    ASSUME TypeOK, SocketsFit, MoversFit, NEW k \in SocketIds, Serve(k)
    PROVE  SocketsFit' /\ MoversFit'
<1> USE Numbers DEF SocketsFit
<1>1. CASE ServeJoin(k)
  <2>1. Arrives(k, "join") /\ ~game.over /\ game'.seat = k /\ game'.over = game.over
        /\ game'.moves = game.moves /\ page' = page
    BY <1>1 DEF ServeJoin, Arrives
  <2>2. CASE k = page.ws /\ Open
    <3>1. game.seat # page.ws /\ down = <<>>
      BY <2>1, <2>2, Arrived
    <3>2. down' = <<Joined(game.moves)>> /\ Joined(game.moves).type = "joined"
      BY <1>1, <2>2, <3>1, MadeKinds DEF ServeJoin, Written, Shut, TypeOK
    <3>3. DOMAIN down' = {1} /\ down'[1] = Joined(game.moves)
      BY <3>2
    <3>4. ~Shut' /\ MoversFit'
      BY <3>2 DEF Shut, MoversFit, MovesIn
    <3> QED BY <2>1, <2>2, <3>3, <3>4, SocketsUp DEF Open
  <2>3. CASE k = page.ws /\ ~Open
    <3>1. down' = down
      BY <1>1, <2>3 DEF ServeJoin, Written
    <3>2. page.socket # "connecting"
      BY <2>1, <2>3, Arrived
    <3> QED BY <2>1, <2>3, <3>1, <3>2, SocketsUp DEF Open, MoversFit
  <2>4. CASE k # page.ws
    <3>1. down' = Written(game.seat, <<Close>>)
      BY <1>1, <2>4 DEF ServeJoin
    <3>2. /\ MoversFit'
          /\ Open => \A i \in DOMAIN down' : down'[i].type = "joined" => i = 1
          /\ page.socket = "connecting" => down' = <<>>
          /\ (game.seat # page.ws \/ ~Open) => down' = down
      BY <2>1, <3>1, MadeKinds, SocketsDown
    <3> QED BY <2>1, <2>4, <3>2, SocketsUp DEF Open
  <2> QED BY <2>2, <2>3, <2>4
<1>2. CASE ServeLeave(k)
  <2>1. Arrives(k, "leave") /\ page' = page
    BY <1>2 DEF ServeLeave, Arrives
  <2>2. CASE game.seat = k
    <3>1. End(None) /\ game'.seat = None /\ game'.over
      BY <1>2, <2>2 DEF ServeLeave, End, TypeOK
    <3> QED BY <2>1, <3>1, EndSent, SocketsUp DEF Open
  <2>3. CASE game.seat # k
    <3>1. UNCHANGED <<game, down>>
      BY <1>2, <2>3 DEF ServeLeave
    <3> QED BY <2>1, <3>1, SocketsUp DEF Open, Shut, MoversFit
  <2> QED BY <2>2, <2>3
<1>3. ASSUME NEW type, Arrives(k, type), Rejected(k), type # "join"
      PROVE  SocketsFit' /\ MoversFit'
  <2>1. game' = game /\ down' = Written(k, <<Error>>) /\ page' = page
    BY <1>3 DEF Rejected, Arrives
  <2>2. /\ MoversFit'
        /\ Open => \A i \in DOMAIN down' : down'[i].type = "joined" => i = 1
        /\ page.socket = "connecting" => down' = <<>>
        /\ Shut' <=> Shut
        /\ (k # page.ws \/ ~Open) => down' = down
    BY <2>1, MadeKinds, SocketsDown
  <2> QED BY <1>3, <2>1, <2>2, SocketsUp DEF Open
<1>4. ASSUME NEW type, Arrives(k, type), End(game.seat)
      PROVE  SocketsFit' /\ MoversFit'
  <2>1. game'.seat = game.seat /\ game'.over /\ page' = page
    BY <1>4 DEF End, Arrives
  <2> QED BY <1>4, <2>1, EndSent, SocketsUp DEF Open
<1>5. CASE ServeMove(k)
  <2>1. Arrives(k, "move") /\ Head(up[k]).name \in Names /\ page' = page
    BY <1>5, Arrived, Kinds DEF ServeMove
  <2>2. CASE Broadcast(Head(up[k]).name)
    BY <2>1, <2>2, BroadcastSent, SocketsUp DEF Open
  <2> QED BY <1>3, <1>5, <2>2 DEF ServeMove
<1>6. CASE ServeAbort(k)
  BY <1>3, <1>4, <1>6 DEF ServeAbort
<1>7. CASE ServeResign(k)
  BY <1>4, <1>7 DEF ServeResign
<1>8. CASE Refuse(k)
  <2>1. /\ game' = game /\ page' = page /\ game.over /\ up[k] # <<>>
        /\ up'[k] = <<>> /\ \A j \in SocketIds : j # k => up'[j] = up[j]
        /\ down' = down \/ down' = Written(k, <<Close>>)
    BY <1>8 DEF Refuse, TypeOK
  <2>2. /\ MoversFit'
        /\ Open => \A i \in DOMAIN down' : down'[i].type = "joined" => i = 1
        /\ page.socket = "connecting" => down' = <<>>
        /\ (k # page.ws \/ ~Open) => down' = down
    BY <2>1, MadeKinds, SocketsDown DEF MoversFit
  <2> QED BY <2>1, <2>2 DEF Open
<1> QED BY <1>1, <1>2, <1>5, <1>6, <1>7, <1>8 DEF Serve
-----------------------------------------------------------------------------
(* The board of the page and the Game.                                     *)

(* While the player waits for answers, one move at most is on its way to   *)
(* the Room, on whatever socket.                                           *)
OneAsked ==
    ~crossed =>
        \A k, l \in SocketIds : \A i \in DOMAIN up[k], j \in DOMAIN up[l] :
            up[k][i].type = "move" /\ up[l][j].type = "move" => k = l /\ i = j

(* What the page will replay or go on from.                                *)
Base ==
    IF down # <<>> /\ Head(down).type = "joined" THEN Head(down).moves ELSE Confirmed

Following ==
    Open /\ game.seat = page.ws /\ ~crossed => LeadsTo(Base, down, game.moves)

(* The request is under way, and no abort that could be refused before it. *)
Asked(requests, m) ==
    \E i \in DOMAIN requests :
        requests[i] = m /\ \A j \in 1..i - 1 : requests[j].type # "abort"

(* A pending move on the board b is the next of the Game: either the Room  *)
(* has yet to see it, and will on the position it was chosen on,           *)
Waiting(b, requests, messages, moves, over) ==
    /\ Len(b) = Len(moves) + 1
    /\ \A e \in DOMAIN messages : messages[e].type # "error"
    /\ over \/ Asked(requests, Move(b[Len(b)], SubSeq(b, 1, Len(b) - 1)))

(* or its echo comes back before any error does.                           *)
Granted(b, messages, moves) ==
    /\ Len(b) <= Len(moves) /\ moves[Len(b)] = b[Len(b)]
    /\ \A e \in DOMAIN messages :
          messages[e].type = "error" => \E i \in MovesIn(messages) : i < e

PendingFits ==
    InPlay /\ ~crossed /\ page.pending =>
        \/ Waiting(page.moves, up[page.ws], down, game.moves, game.over)
        \/ Granted(page.moves, down, game.moves)

IInv ==
    /\ TypeOK
    /\ SocketsFit
    /\ MoversFit
    /\ OneAsked
    /\ Following
    /\ PendingFits

(* What is confirmed, and what the page will replay, are boards.           *)
LEMMA ConfirmedTyped ==
    ASSUME TypeOK
    PROVE  /\ Confirmed \in Boards /\ Base \in Boards
           /\ page.pending => page.moves \in Boards /\ page.moves # <<>>
<1>1. page.moves \in Boards /\ (page.pending => page.moves # <<>>)
  BY DEF TypeOK
<1>2. Confirmed \in Boards
  BY <1>1, TurnFlipsBack DEF Confirmed
<1>3. down # <<>> => Head(down) \in Messages
  BY DEF TypeOK
<1> QED BY <1>1, <1>2, <1>3, Kinds DEF Base

(* Other messages do not settle a pending move,                            *)
LEMMA SettledBySilence ==
    ASSUME NEW b, NEW u, NEW d \in Seq(Messages), NEW g, NEW over, NEW m \in Messages,
           m.type \notin {"move", "error"}
    PROVE  /\ Waiting(b, u, d, g, over) => Waiting(b, u, Append(d, m), g, over)
           /\ Granted(b, d, g) => Granted(b, Append(d, m), g)
<1> DEFINE e == Append(d, m)
<1>1. /\ DOMAIN e = DOMAIN d \cup {Len(d) + 1} /\ Len(d) \in Nat
      /\ \A i \in DOMAIN d : e[i] = d[i]
      /\ e[Len(d) + 1] = m
  BY PlainSent
<1> HIDE DEF e
<1>2. MovesIn(d) \subseteq MovesIn(e)
  BY <1>1 DEF MovesIn
<1>3. Waiting(b, u, d, g, over) => Waiting(b, u, e, g, over)
  BY <1>1 DEF Waiting
<1>4. Granted(b, d, g) => Granted(b, e, g)
  BY <1>1, <1>2 DEF Granted
<1> QED BY <1>3, <1>4 DEF e

(* nor does a further move                                                 *)
LEMMA GrantedBefore ==
    ASSUME NEW b \in Boards, b # <<>>, NEW d \in Seq(Messages), NEW g \in Boards,
           NEW n \in Names, NEW m \in Messages, m.type = "move", Granted(b, d, g)
    PROVE  Granted(b, Append(d, m), Append(g, n))
<1> DEFINE e == Append(d, m)
           h == Append(g, n)
<1>1. /\ DOMAIN e = DOMAIN d \cup {Len(d) + 1} /\ Len(d) \in Nat
      /\ \A i \in DOMAIN d : e[i] = d[i]
      /\ e[Len(d) + 1] = m
  BY PlainSent
<1> HIDE DEF e, h
<1>3. MovesIn(d) \subseteq MovesIn(e)
  BY <1>1 DEF MovesIn
<1>5. \A i \in DOMAIN e : e[i].type = "error" => \E j \in MovesIn(e) : j < i
  BY <1>1, <1>3 DEF Granted
<1> QED BY <1>5 DEF Granted, e

(* or an error that comes after the echo.                                  *)
LEMMA GrantedBeforeError ==
    ASSUME NEW b \in Boards, b # <<>>, NEW d \in Seq(Messages), NEW g \in Boards,
           LeadsTo(SubSeq(b, 1, Len(b) - 1), d, g), Granted(b, d, g)
    PROVE  Granted(b, Append(d, Error), g)
<1> DEFINE e == Append(d, Error)
           c == SubSeq(b, 1, Len(b) - 1)
<1>1. /\ DOMAIN e = DOMAIN d \cup {Len(d) + 1} /\ Len(d) \in Nat /\ DOMAIN d = 1..Len(d)
      /\ \A i \in DOMAIN d : e[i] = d[i]
      /\ e[Len(d) + 1] = Error
  OBVIOUS
<1>2. c \in Boards /\ Len(c) = Len(b) - 1 /\ Len(b) \in Nat \ {0} /\ Len(g) \in Nat
  BY WithoutLast DEF Boards
<1> HIDE DEF e, c
<1>3. Len(c) # Len(g)
  BY <1>2 DEF Granted
<1>4. PICK i \in MovesIn(d) : TRUE
  BY <1>2, <1>3, FollowerUnderWay DEF c
<1>5. i \in MovesIn(e) /\ i < Len(d) + 1 /\ MovesIn(d) \subseteq MovesIn(e)
  BY <1>1 DEF MovesIn
<1>6. Granted(b, e, g)
  BY <1>1, <1>5 DEF Granted
<1> QED BY <1>6 DEF e

(* The Room makes the move that it was asked for.                          *)
LEMMA GrantedNow ==
    ASSUME NEW b \in Boards, b # <<>>, NEW d \in Seq(Messages), NEW g \in Boards,
           NEW m \in Messages, m.type = "move",
           Len(b) = Len(g) + 1, \A i \in DOMAIN d : d[i].type # "error"
    PROVE  Granted(b, Append(d, m), Append(g, b[Len(b)]))
<1> DEFINE e == Append(d, m)
           h == Append(g, b[Len(b)])
<1>1. /\ DOMAIN e = DOMAIN d \cup {Len(d) + 1} /\ Len(d) \in Nat
      /\ \A i \in DOMAIN d : e[i] = d[i]
      /\ e[Len(d) + 1] = m
  BY PlainSent
<1>3. Len(g) \in Nat /\ Len(h) = Len(g) + 1 /\ h[Len(g) + 1] = b[Len(b)]
  OBVIOUS
<1> HIDE DEF e, h
<1>4. \A i \in DOMAIN e : e[i].type # "error"
  BY <1>1
<1>5. Granted(b, e, h)
  BY <1>3, <1>4 DEF Granted
<1> QED BY <1>5 DEF e, h

(* A message that is neither a move nor an error arrives.                  *)
LEMMA SettledLater ==
    ASSUME NEW b, NEW u, NEW d \in Seq(Messages), d # <<>>, NEW g, NEW over,
           Head(d).type \notin {"move", "error"}
    PROVE  /\ Waiting(b, u, d, g, over) => Waiting(b, u, Tail(d), g, over)
           /\ Granted(b, d, g) => Granted(b, Tail(d), g)
<1> DEFINE e == Tail(d)
<1>1. /\ DOMAIN d = 1..Len(d) /\ DOMAIN e = 1..Len(d) - 1 /\ Len(d) \in Nat \ {0}
      /\ \A i \in 1..Len(d) - 1 : e[i] = d[i + 1]
      /\ Head(d) = d[1]
  BY Taken
<1> HIDE DEF e
<1>2. \A j \in MovesIn(d) : j \in Nat /\ j - 1 \in MovesIn(e)
  BY <1>1 DEF MovesIn
<1>3. \A i \in DOMAIN e : i + 1 \in DOMAIN d /\ e[i] = d[i + 1] /\ i \in Nat
  BY <1>1
<1>4. Waiting(b, u, d, g, over) => Waiting(b, u, e, g, over)
  BY <1>3 DEF Waiting
<1>5. ASSUME Granted(b, d, g), NEW i \in DOMAIN e, e[i].type = "error"
      PROVE  \E j \in MovesIn(e) : j < i
  <2>1. PICK j \in MovesIn(d) : j < i + 1
    BY <1>3, <1>5 DEF Granted
  <2> QED BY <1>2, <1>3, <2>1
<1>6. Granted(b, d, g) => Granted(b, e, g)
  BY <1>5 DEF Granted
<1> QED BY <1>4, <1>6 DEF e

(* A pending move that waits was chosen on the position of the Game, and   *)
(* the Room will not refuse it.                                            *)
LEMMA WaitingFacts ==
    ASSUME IInv, InPlay, ~crossed, page.pending, ~game.over,
           Waiting(page.moves, up[page.ws], down, game.moves, game.over)
    PROVE  /\ Turn(game.moves) = Me /\ game.moves = Confirmed
           /\ Asked(up[page.ws], Move(page.moves[Len(page.moves)], game.moves))
<1> USE DEF IInv
<1>1. Base = Confirmed /\ Open /\ game.seat = page.ws
  <2>1. down # <<>> => 1 \in DOMAIN down /\ Head(down) = down[1]
    BY DEF TypeOK
  <2> QED BY <2>1 DEF InPlay, Base
<1>2. LeadsTo(Confirmed, down, game.moves)
  BY <1>1 DEF Following
<1>3. /\ Confirmed \in Boards /\ page.moves \in Boards /\ page.moves # <<>>
      /\ game.moves \in Boards /\ down \in Seq(Messages)
  BY ConfirmedTyped DEF TypeOK
<1>4. Confirmed = SubSeq(page.moves, 1, Len(page.moves) - 1) /\ Len(Confirmed) = Len(page.moves) - 1
  BY <1>3 DEF Confirmed
<1>5. Len(Confirmed) = Len(game.moves)
  BY <1>4 DEF Waiting
<1>6. game.moves = Confirmed
  BY <1>2, <1>3, <1>5, NothingUnderWay
<1>7. Turn(Confirmed) # Turn(page.moves) /\ Turn(page.moves) # Me
  BY <1>4, TurnFlipsBack DEF TypeOK
<1>8. Turn(Confirmed) \in Sides /\ Turn(page.moves) \in Sides /\ Me \in Sides
  BY <1>3, TurnIsMover, ClientAssumption DEF Boards
<1> QED BY <1>4, <1>6, <1>7, <1>8, TheOther DEF Waiting

(* A page without a socket follows nothing.                                *)
LEMMA FollowingInit == Init => OneAsked /\ Following /\ PendingFits
BY DEF Init, OneAsked, Following, PendingFits, Open

(* What the page does by itself, without a move.                           *)
LEMMA FollowingPage ==
    ASSUME IInv, SocketsFit',
           \/ Connect \/ OpenSocket \/ LoseSocket \/ OldSocketClosed
           \/ Drag \/ ShowPromotion \/ LetGo \/ ClickAbort \/ ClickResign
    PROVE  OneAsked' /\ Following' /\ PendingFits'
<1> USE Numbers DEF IInv
<1>1. UNCHANGED <<game, crossed>>
  BY DEF Connect, OpenSocket, LoseSocket, OldSocketClosed, Drag, ShowPromotion, LetGo,
         ClickAbort, ClickResign, Ask
<1>2. ASSUME NEW k, NEW m \in Requests, m.type # "move",
             up' = [up EXCEPT ![k] = Append(@, m)]
      PROVE  OneAsked'
  <2>1. \A l \in SocketIds : \A i \in DOMAIN up'[l] : up'[l][i].type = "move" =>
           i \in DOMAIN up[l] /\ up'[l][i] = up[l][i]
    <3> SUFFICES ASSUME NEW l \in SocketIds, NEW i \in DOMAIN up'[l],
                        up'[l][i].type = "move"
                 PROVE  i \in DOMAIN up[l] /\ up'[l][i] = up[l][i]
      OBVIOUS
    <3>1. CASE l = k
      <4> QED BY <1>2
    <3>2. CASE l # k
      BY <1>2
    <3> QED BY <3>1, <3>2
  <2> QED BY <1>1, <2>1 DEF OneAsked
<1>3. up' = up => OneAsked'
  BY <1>1 DEF OneAsked
<1>4. CASE OldSocketClosed \/ Drag \/ ShowPromotion \/ LetGo
  <2>1. /\ UNCHANGED <<up, down, game, crossed>>
        /\ page'.ws = page.ws /\ page'.socket = page.socket
        /\ page'.moves = page.moves /\ page'.pending = page.pending
    BY <1>4 DEF OldSocketClosed, Drag, ShowPromotion, LetGo, Closed, TypeOK
  <2>2. Base' = Base /\ (InPlay' <=> InPlay) /\ (Open' <=> Open)
    BY <2>1 DEF Base, Confirmed, InPlay, Open
  <2>3. Following'
    BY <2>1, <2>2 DEF Following
  <2>4. PendingFits'
    BY <2>1, <2>2 DEF PendingFits
  <2> QED BY <1>3, <2>1, <2>3, <2>4
<1>5. CASE ClickAbort \/ ClickResign
  <2>1. PICK m \in {Abort, Resign} : Ask(m)
    BY <1>5 DEF ClickAbort, ClickResign
  <2>2. /\ UNCHANGED <<page, down, game, crossed>> /\ m \in Requests /\ m.type # "move"
        /\ up' = [up EXCEPT ![page.ws] = Append(@, m)] /\ Open
    BY <2>1, Made DEF Ask, Abort, Resign
  <2>3. Base' = Base /\ (InPlay' <=> InPlay) /\ (Open' <=> Open)
    BY <2>2 DEF Base, Confirmed, InPlay, Open
  <2>4. Following'
    BY <2>2, <2>3 DEF Following
  <2>5. \A r : Asked(up[page.ws], r) => Asked(up'[page.ws], r)
    <3>1. up[page.ws] \in Seq(Requests) /\ up'[page.ws] = Append(up[page.ws], m)
      BY <2>2 DEF TypeOK, SocketsFit, Open
    <3>2. /\ DOMAIN up'[page.ws] = 1..Len(up[page.ws]) + 1 /\ Len(up[page.ws]) \in Nat
          /\ DOMAIN up[page.ws] = 1..Len(up[page.ws])
          /\ \A i \in 1..Len(up[page.ws]) : up'[page.ws][i] = up[page.ws][i]
      BY <3>1
    <3> SUFFICES ASSUME NEW r, Asked(up[page.ws], r) PROVE Asked(up'[page.ws], r)
      OBVIOUS
    <3>3. PICK i \in DOMAIN up[page.ws] :
             up[page.ws][i] = r /\ \A j \in 1..i - 1 : up[page.ws][j].type # "abort"
      BY DEF Asked
    <3>4. i \in DOMAIN up'[page.ws] /\ \A j \in 1..i - 1 : j \in 1..Len(up[page.ws])
      BY <3>2
    <3> QED BY <3>2, <3>3, <3>4 DEF Asked
  <2>6. PendingFits'
    BY <2>2, <2>3, <2>5 DEF PendingFits, Waiting
  <2> QED BY <1>2, <2>2, <2>4, <2>6
<1>6. CASE Connect
  <2>1. ~Open'
    BY <1>6 DEF Connect, Open
  <2>2. OneAsked'
    BY <1>2, <1>3, <1>6, Made DEF Connect, Leave
  <2> QED BY <2>1, <2>2 DEF Following, PendingFits, InPlay
<1>7. CASE LoseSocket
  <2>1. ~Open'
    BY <1>7 DEF LoseSocket, Open
  <2>2. OneAsked'
    BY <1>2, <1>3, <1>7, Made DEF LoseSocket, Leave
  <2> QED BY <2>1, <2>2 DEF Following, PendingFits, InPlay
<1>8. CASE OpenSocket
  <2>1. /\ game'.seat # page'.ws /\ page.ws \in SocketIds
        /\ up'[page.ws] = <<Join>> /\ \A k \in SocketIds : k # page.ws => up'[k] = up[k]
    BY <1>8 DEF OpenSocket, SocketsFit, TypeOK
  <2>2. \A k \in SocketIds : \A i \in DOMAIN up'[k] : up'[k][i].type = "move" =>
           k # page.ws /\ i \in DOMAIN up[k] /\ up'[k][i] = up[k][i]
    BY <2>1 DEF Join
  <2>3. OneAsked'
    BY <1>1, <2>2 DEF OneAsked
  <2> QED BY <2>1, <2>3 DEF Following, PendingFits, InPlay
<1> QED BY <1>4, <1>5, <1>6, <1>7, <1>8

(* The player moves, with no request unanswered.                           *)
LEMMA FollowingPlay ==
    ASSUME IInv, NEW n \in Names, Drop(n)
    PROVE  OneAsked' /\ Following' /\ PendingFits'
<1> USE DEF IInv
<1>1. CASE crossed'
  BY <1>1 DEF OneAsked, Following, PendingFits
<1>2. CASE ~crossed'
  <2>1. ~crossed /\ ~Unanswered
    BY <1>2 DEF Drop, Play
  <2>2. /\ UNCHANGED <<game, down>> /\ page'.ws = page.ws /\ page'.socket = page.socket
        /\ page'.moves = Append(page.moves, n) /\ page'.pending = (page.pending \/ Open)
        /\ Turn(page.moves) = Me /\ ~page.pending /\ page.moves \in Boards
    BY DEF Drop, Play, TypeOK
  <2>3. (Open' <=> Open) /\ (InPlay' <=> InPlay)
    BY <2>2 DEF Open, InPlay
  <2>4. CASE ~Open
    <3>1. up' = up
      BY <2>4 DEF Drop, Play
    <3> QED BY <2>1, <2>3, <2>4, <3>1 DEF OneAsked, Following, PendingFits, InPlay
  <2>5. CASE Open
    <3>1. PICK m \in Requests : m = Move(n, page.moves)
      BY <2>2, Made
    <3>2. /\ up'[page.ws] = Append(up[page.ws], m) /\ up[page.ws] \in Seq(Requests)
          /\ page.ws \in SocketIds
          /\ \A k \in SocketIds : k # page.ws => up'[k] = up[k]
      BY <2>5, <3>1 DEF Drop, Play, TypeOK, SocketsFit, Open
    <3>3. /\ DOMAIN up'[page.ws] = 1..Len(up[page.ws]) + 1 /\ Len(up[page.ws]) \in Nat
          /\ DOMAIN up[page.ws] = 1..Len(up[page.ws])
          /\ \A i \in 1..Len(up[page.ws]) : up'[page.ws][i] = up[page.ws][i]
          /\ up'[page.ws][Len(up[page.ws]) + 1] = m
      BY <3>2
    <3>4. \A k \in SocketIds : \A i \in DOMAIN up[k] : up[k][i].type \notin {"move", "abort"}
      BY <2>1 DEF Unanswered
    <3>5. \A k \in SocketIds : \A i \in DOMAIN up'[k] : up'[k][i].type = "move" =>
             k = page.ws /\ i = Len(up[page.ws]) + 1
      <4>1. \A k \in SocketIds \ {page.ws} : \A i \in DOMAIN up'[k] : up'[k][i].type # "move"
        BY <3>2, <3>4
      <4>2. \A i \in 1..Len(up[page.ws]) : up'[page.ws][i].type # "move"
        BY <3>2, <3>4
      <4>3. \A i \in DOMAIN up'[page.ws] : i \in 1..Len(up[page.ws]) \/ i = Len(up[page.ws]) + 1
        BY <3>3
      <4> QED BY <4>1, <4>2, <4>3
    <3>6. OneAsked'
      BY <3>5 DEF OneAsked
    <3>7. Confirmed' = page.moves /\ Confirmed = page.moves
      <4>1. SubSeq(Append(page.moves, n), 1, Len(Append(page.moves, n)) - 1) = page.moves
        BY <2>2 DEF Boards
      <4> QED BY <2>2, <2>5, <4>1 DEF Confirmed
    <3>8. Base' = Base
      BY <2>2, <3>7 DEF Base
    <3>9. Following'
      BY <2>1, <2>2, <2>3, <3>8 DEF Following
    <3>10. ASSUME InPlay PROVE Waiting(page'.moves, up'[page.ws], down, game.moves, game.over)
      <4>1. Base = page.moves /\ LeadsTo(page.moves, down, game.moves)
        <5>1. down # <<>> => 1 \in DOMAIN down /\ Head(down) = down[1]
          OBVIOUS
        <5> QED BY <2>1, <3>7, <3>10, <5>1 DEF InPlay, Base, Following
      <4>2. game.moves \in Boards /\ Len(page.moves) \in Nat
        BY DEF TypeOK
      <4>3. Len(game.moves) = Len(page.moves)
        <5> SUFFICES ASSUME Len(page.moves) # Len(game.moves) PROVE FALSE
          OBVIOUS
        <5>1. PICK i \in MovesIn(down) : down[i].plies = Len(page.moves) + 1
          BY <2>2, <4>1, <4>2, FollowerUnderWay
        <5>2. down[i].by = Me
          BY <2>2, <5>1, TurnIsMover DEF MoversFit, Boards
        <5> QED BY <2>1, <5>2 DEF Unanswered, MovesIn
      <4>4. \A e \in DOMAIN down : down[e].type # "error"
        BY <2>1 DEF Unanswered
      <4>5. /\ Len(page'.moves) = Len(page.moves) + 1 /\ page'.moves[Len(page.moves) + 1] = n
            /\ SubSeq(page'.moves, 1, Len(page'.moves) - 1) = page.moves
        BY <2>2 DEF Boards
      <4>6. Asked(up'[page.ws], m)
        <5>2. \A j \in 1..Len(up[page.ws]) + 1 - 1 : up'[page.ws][j].type # "abort"
          BY <3>2, <3>4
        <5> QED BY <3>3, <5>2 DEF Asked
      <4> QED BY <3>1, <4>3, <4>4, <4>5, <4>6 DEF Waiting
    <3>11. PendingFits'
      BY <2>2, <2>3, <3>10 DEF PendingFits
    <3> QED BY <3>6, <3>9, <3>11
  <2> QED BY <2>4, <2>5
<1> QED BY <1>1, <1>2

(* A message arrives: the snapshot is replayed, the next move is played or *)
(* was played already, and an error finds nothing pending.                 *)
LEMMA FollowingDeliver ==
    ASSUME IInv, Deliver
    PROVE  OneAsked' /\ Following' /\ PendingFits'
<1> DEFINE m == Head(down)
           g == game.moves
<1> USE DEF IInv
<1>1. /\ down \in Seq(Messages) /\ down # <<>> /\ down' = Tail(down) /\ m \in Messages
      /\ UNCHANGED <<game, up, crossed>> /\ page' = OnMessage(page, m)
      /\ g \in Boards
  BY DEF Deliver, TypeOK
<1>2. OneAsked'
  BY <1>1 DEF OneAsked
<1>3. /\ DOMAIN down = 1..Len(down) /\ Len(down) \in Nat \ {0} /\ m = down[1]
      /\ DOMAIN down' = 1..Len(down) - 1 /\ \A i \in 1..Len(down) - 1 : down'[i] = down[i + 1]
  BY <1>1
<1>4. /\ page'.ws = page.ws /\ page'.socket \in {page.socket, "closed"}
      /\ m.type = "close" => page'.socket = "closed"
  BY Kinds DEF Deliver, OnMessage, OnJoined, OnMove, OnError, OnGameOver, Closed, TypeOK
<1> HIDE DEF m, g
<1>5. CASE ~(Open' /\ game'.seat = page'.ws /\ ~crossed')
  BY <1>2, <1>5 DEF Following, PendingFits, InPlay
<1>6. CASE Open' /\ game'.seat = page'.ws /\ ~crossed'
  <2>1. Open /\ game.seat = page.ws /\ ~crossed
    BY <1>1, <1>4, <1>6 DEF Open
  <2>2. LeadsTo(Base, down, g)
    BY <2>1 DEF Following, g
  <2>3. \A i \in DOMAIN down' : down'[i].type # "joined"
    <3> SUFFICES ASSUME NEW i \in DOMAIN down' PROVE down'[i].type # "joined"
      OBVIOUS
    <3>1. i + 1 \in DOMAIN down /\ down'[i] = down[i + 1] /\ i + 1 # 1
      BY <1>3
    <3> QED BY <2>1, <3>1 DEF SocketsFit
  <2>4. Base' = Confirmed'
    <3> QED BY <2>3 DEF Base
  <2>6. m.type # "joined" => Base = Confirmed /\ InPlay
    <3>1. ASSUME m.type # "joined" PROVE \A i \in DOMAIN down : down[i].type # "joined"
      BY <1>3, <2>1, <3>1 DEF SocketsFit
    <3> QED BY <2>1, <3>1 DEF Base, InPlay, m
  <2>7. \A b : m.type # "move" /\ LeadsTo(b, down, g) => LeadsTo(b, down', g)
    BY <1>1, QuietArrives DEF m
  <2>8. CASE m.type = "joined"
    <3>1. page' = OnJoined(page, m)
      BY <1>1, <2>8 DEF OnMessage
    <3>2. page'.moves = m.moves /\ ~page'.pending
      BY <3>1 DEF OnJoined, PendingAfterJoin, Replay
    <3>3. Base = m.moves /\ Confirmed' = m.moves
      BY <1>1, <2>8, <3>2 DEF Base, Confirmed, m
    <3>4. Following'
      BY <1>1, <2>2, <2>4, <2>7, <2>8, <3>3 DEF Following, g
    <3> QED BY <1>2, <3>2, <3>4 DEF PendingFits
  <2>9. CASE m.type = "move"
    <3>1. page' = OnMove(page, m)
      BY <1>1, <2>9 DEF OnMessage
    <3>2. Confirmed \in Boards /\ LeadsTo(Confirmed, down, g)
      BY <2>2, <2>6, <2>9, ConfirmedTyped
    <3>3. /\ m.plies = Len(Confirmed) + 1 /\ Len(Confirmed) + 1 <= Len(g)
          /\ m.name = g[Len(Confirmed) + 1] /\ m.name \in Names
      BY <1>1, <2>9, <3>2, NextUnderWay, Kinds DEF m
    <3>4. LeadsTo(Append(Confirmed, m.name), down', g)
      BY <1>1, <2>9, <3>2, MoveArrives DEF m
    <3>5. m.by = Turn(Confirmed)
      <4>1. 1 \in MovesIn(down)
        BY <1>3, <2>9 DEF MovesIn
      <4> QED BY <1>3, <3>2, <3>3, <4>1, TurnIsMover DEF MoversFit, Boards
    <3>6. page.pending => Mine(page)
      BY DEF TypeOK, Mine
    <3>7. ~page'.pending
      BY <3>1, <3>6 DEF OnMove, TypeOK
    <3>8. Confirmed' = Append(Confirmed, m.name)
      <4>1. CASE page.pending
        <5>1. /\ page.moves \in Boards /\ page.moves # <<>>
              /\ Confirmed = SubSeq(page.moves, 1, Len(page.moves) - 1)
          BY <4>1, ConfirmedTyped DEF Confirmed
        <5>2. Len(Confirmed) + 1 = Len(page.moves)
          BY <5>1
        <5>3. ~Waiting(page.moves, up[page.ws], down, game.moves, game.over)
          BY <3>3, <5>2 DEF Waiting, g
        <5>4. Granted(page.moves, down, g)
          BY <2>1, <2>6, <2>9, <4>1, <5>3 DEF PendingFits, g
        <5>5. page.moves[Len(page.moves)] = m.name
          BY <3>3, <5>2, <5>4 DEF Granted
        <5>6. page.moves = Append(Confirmed, m.name)
          BY <5>1, <5>5 DEF Boards
        <5>7. page'.moves = page.moves
          BY <3>1, <3>6, <4>1 DEF OnMove
        <5> QED BY <3>7, <5>6, <5>7 DEF Confirmed
      <4>2. CASE ~page.pending
        <5>1. Confirmed = page.moves /\ ~Mine(page)
          BY <4>2 DEF Confirmed, Mine
        <5>2. page'.moves = Append(page.moves, m.name)
          BY <3>1, <3>5, <5>1 DEF OnMove
        <5> QED BY <3>7, <5>1, <5>2 DEF Confirmed
      <4> QED BY <4>1, <4>2
    <3>9. Following'
      BY <1>1, <2>4, <3>4, <3>8 DEF Following, g
    <3> QED BY <1>2, <3>7, <3>9 DEF PendingFits
  <2>10. CASE m.type = "error"
    <3>1. page' = OnError(page)
      BY <1>1, <2>10 DEF OnMessage
    <3>2. ~page.pending
      <4> SUFFICES ASSUME page.pending PROVE FALSE
        OBVIOUS
      <4>1. ~Waiting(page.moves, up[page.ws], down, game.moves, game.over)
        BY <1>3, <2>10 DEF Waiting
      <4>2. ~Granted(page.moves, down, game.moves)
        <5>1. \A i \in MovesIn(down) : ~(i < 1)
          BY <1>3 DEF MovesIn
        <5> QED BY <1>3, <2>10, <5>1 DEF Granted
      <4> QED BY <2>1, <2>6, <2>10, <4>1, <4>2 DEF PendingFits
    <3>3. page'.moves = page.moves /\ ~page'.pending
      BY <3>1, <3>2 DEF OnError
    <3>4. Confirmed' = Confirmed
      BY <3>2, <3>3 DEF Confirmed
    <3>5. Following'
      BY <1>1, <2>2, <2>4, <2>6, <2>7, <2>10, <3>4 DEF Following, g
    <3> QED BY <1>2, <3>3, <3>5 DEF PendingFits
  <2>11. CASE m.type = "game_over"
    <3>1. page' = OnGameOver(page)
      BY <1>1, <2>11 DEF OnMessage
    <3>2. page'.moves = page.moves /\ page'.pending = page.pending
      BY <3>1 DEF OnGameOver
    <3>3. Confirmed' = Confirmed
      BY <3>2 DEF Confirmed
    <3>4. Following'
      BY <1>1, <2>2, <2>4, <2>6, <2>7, <2>11, <3>3 DEF Following, g
    <3>5. /\ Waiting(page.moves, up[page.ws], down, g, game.over)
               => Waiting(page.moves, up[page.ws], down', g, game.over)
          /\ Granted(page.moves, down, g) => Granted(page.moves, down', g)
      BY <1>1, <2>11, SettledLater DEF m
    <3>6. PendingFits'
      BY <1>1, <1>4, <2>6, <2>11, <3>2, <3>5 DEF PendingFits, g
    <3> QED BY <1>2, <3>4, <3>6
  <2>12. m.type # "close"
    BY <1>4, <1>6 DEF Open
  <2> QED BY <1>1, <2>8, <2>9, <2>10, <2>11, <2>12, Kinds
<1> QED BY <1>5, <1>6

(* More messages, none of which settles a pending move, shows a position   *)
(* or carries a move.                                                      *)
NothingNew(d, e) ==
    /\ e \in Seq(Messages)
    /\ \A b, g : LeadsTo(b, d, g) => LeadsTo(b, e, g)
    /\ \A b, u, g, over : Waiting(b, u, d, g, over) => Waiting(b, u, e, g, over)
    /\ \A b, g : Granted(b, d, g) => Granted(b, e, g)
    /\ d # <<>> => e # <<>> /\ Head(e) = Head(d)
    /\ d = <<>> /\ e # <<>> => Head(e).type # "joined"
    /\ \A i \in DOMAIN d : i \in DOMAIN e /\ e[i] = d[i]

(* Announcing the end, or closing, is nothing new,                         *)
LEMMA NothingNewSent ==
    ASSUME NEW d \in Seq(Messages), NEW m \in Messages,
           m.type \notin {"move", "error", "joined"}
    PROVE  NothingNew(d, d) /\ NothingNew(d, Append(d, m))
<1>1. NothingNew(d, d)
  BY DEF NothingNew
<1> DEFINE e == Append(d, m)
<1>2. e \in Seq(Messages) /\ \A b, g : LeadsTo(b, d, g) => LeadsTo(b, e, g)
  BY QuietSent
<1>3. /\ \A b, u, g, over : Waiting(b, u, d, g, over) => Waiting(b, u, e, g, over)
      /\ \A b, g : Granted(b, d, g) => Granted(b, e, g)
  BY SettledBySilence
<1>4. /\ DOMAIN e = DOMAIN d \cup {Len(d) + 1} /\ DOMAIN d = 1..Len(d) /\ Len(d) \in Nat
      /\ \A i \in DOMAIN d : e[i] = d[i]
      /\ e[Len(d) + 1] = m
  BY PlainSent
<1> HIDE DEF e
<1>6. NothingNew(d, e)
  BY <1>2, <1>3, <1>4 DEF NothingNew
<1> QED BY <1>1, <1>6 DEF e

(* nor is doing both.                                                      *)
LEMMA NothingNewEnd ==
    ASSUME NEW d \in Seq(Messages)
    PROVE  NothingNew(d, Append(Append(d, GameOver), Close))
<1> DEFINE e == Append(d, GameOver)
           f == Append(e, Close)
<1>1. NothingNew(d, e)
  BY NothingNewSent, MadeKinds
<1>2. e \in Seq(Messages)
  BY <1>1 DEF NothingNew
<1> HIDE DEF e
<1>4. NothingNew(e, f)
  BY <1>2, NothingNewSent, MadeKinds
<1> HIDE DEF f
<1>7. NothingNew(d, f)
  BY <1>1, <1>4 DEF NothingNew
<1> QED BY <1>7 DEF e, f

(* As long as the Room says nothing new, and takes no request the page     *)
(* waits for, the page follows the Game.                                   *)
LEMMA NothingNewKeeps ==
    ASSUME IInv, NothingNew(down, down'), UNCHANGED <<page, crossed>>,
           game'.seat = game.seat, game'.moves = game.moves, game.over => game'.over,
           ~game'.over /\ Open => \A n \in Names, b \in Boards :
               Asked(up[page.ws], Move(n, b)) => Asked(up'[page.ws], Move(n, b))
    PROVE  Following' /\ PendingFits'
<1> USE DEF IInv
<1>1. Base' = Base /\ (Open' <=> Open)
  BY DEF NothingNew, Base, Confirmed, Open
<1>2. InPlay' => InPlay
  BY DEF NothingNew, InPlay, Open
<1>3. Following'
  BY <1>1 DEF Following, NothingNew
<1>4. PendingFits'
  <2> SUFFICES ASSUME InPlay', ~crossed, page.pending
               PROVE  \/ Waiting(page.moves, up'[page.ws], down', game.moves, game'.over)
                      \/ Granted(page.moves, down', game.moves)
    BY DEF PendingFits
  <2>1. InPlay /\ Open
    BY <1>2 DEF InPlay
  <2>2. CASE Granted(page.moves, down, game.moves)
    BY <2>2 DEF NothingNew
  <2>3. CASE Waiting(page.moves, up[page.ws], down, game.moves, game.over)
    <3>1. Waiting(page.moves, up[page.ws], down', game.moves, game.over)
      BY <2>3 DEF NothingNew
    <3>2. /\ page.moves[Len(page.moves)] \in Names
          /\ SubSeq(page.moves, 1, Len(page.moves) - 1) \in Boards
      BY ConfirmedTyped DEF Boards
    <3> QED BY <2>1, <3>1, <3>2 DEF Waiting
  <2> QED BY <2>1, <2>2, <2>3 DEF PendingFits
<1> QED BY <1>3, <1>4

(* The Game is over for a page that waits.                                 *)
LEMMA EndKeeps ==
    ASSUME IInv, End(game.seat), UNCHANGED <<page, crossed>>
    PROVE  Following' /\ PendingFits'
<1>1. game'.seat = game.seat /\ game'.moves = game.moves /\ game'.over
  BY DEF End
<1>2. NothingNew(down, down')
  <2>1. down \in Seq(Messages)
    BY DEF IInv, TypeOK
  <2>2. down' \in {down, Append(Append(down, GameOver), Close)}
    BY EndSent DEF IInv
  <2>3. NothingNew(down, down) /\ NothingNew(down, Append(Append(down, GameOver), Close))
    BY <2>1, NothingNewSent, NothingNewEnd, MadeKinds
  <2> QED BY <2>2, <2>3
<1> QED BY <1>1, <1>2, NothingNewKeeps

(* What becomes of a request that waits when another is taken.             *)
LEMMA AskedLater ==
    ASSUME TypeOK, NEW k \in SocketIds, NEW type, Arrives(k, type), page.ws \in SocketIds,
           NEW n, NEW b, Asked(up[page.ws], Move(n, b))
    PROVE  /\ k # page.ws \/ type # "abort"
           /\ k # page.ws \/ type # "move" => Asked(up'[page.ws], Move(n, b))
<1>1. PICK i \in DOMAIN up[page.ws] :
         up[page.ws][i] = Move(n, b) /\ \A j \in 1..i - 1 : up[page.ws][j].type # "abort"
  BY DEF Asked
<1>2. CASE k # page.ws
  BY <1>2, Arrived
<1>3. CASE k = page.ws
  <2> DEFINE u == up[k]
             v == up'[k]
  <2>1. /\ u \in Seq(Requests) /\ u # <<>> /\ v = Tail(u) /\ Head(u).type = type
    BY DEF Arrives, TypeOK
  <2>2. /\ DOMAIN u = 1..Len(u) /\ Len(u) \in Nat \ {0} /\ Head(u) = u[1]
        /\ DOMAIN v = 1..Len(u) - 1 /\ \A j \in 1..Len(u) - 1 : v[j] = u[j + 1]
    BY <2>1
  <2>3. u[i] = Move(n, b) /\ i \in 1..Len(u) /\ \A j \in 1..i - 1 : u[j].type # "abort"
    BY <1>1, <1>3, <2>2
  <2> HIDE DEF u, v
  <2>4. Move(n, b).type = "move"
    BY DEF Move
  <2>5. type # "abort"
    BY <2>1, <2>3, <2>4
  <2>6. ASSUME type # "move" PROVE Asked(v, Move(n, b))
    <3>1. i # 1
      BY <2>1, <2>3, <2>4, <2>6
    <3>2. i - 1 \in DOMAIN v /\ v[i - 1] = Move(n, b)
      BY <2>2, <2>3, <3>1
    <3>3. \A j \in 1..i - 1 - 1 : v[j] = u[j + 1] /\ j + 1 \in 1..i - 1
      BY <2>2, <2>3
    <3> QED BY <2>3, <3>2, <3>3 DEF Asked
  <2> QED BY <1>3, <2>5, <2>6 DEF v
<1> QED BY <1>2, <1>3

(* Serving a request leaves one move at most under way to the Room.        *)
LEMMA OneAskedServe ==
    ASSUME IInv, NEW k \in SocketIds, Serve(k)
    PROVE  OneAsked'
<1> USE DEF IInv
<1>1. crossed' = crossed
  BY DEF Serve, ServeJoin, ServeLeave, ServeMove, ServeAbort, ServeResign, Refuse, Arrives
<1>2. ASSUME NEW type, Arrives(k, type) PROVE OneAsked'
  <2>1. /\ \A j \in SocketIds : j # k => up'[j] = up[j]
        /\ \A i \in DOMAIN up'[k] : i + 1 \in DOMAIN up[k] /\ up'[k][i] = up[k][i + 1]
                                    /\ i \in Nat \ {0}
    BY <1>2, Arrived
  <2> SUFFICES ASSUME ~crossed, NEW j \in SocketIds, NEW l \in SocketIds,
                      NEW i \in DOMAIN up'[j], NEW n \in DOMAIN up'[l],
                      up'[j][i].type = "move", up'[l][n].type = "move"
               PROVE  j = l /\ i = n
    BY <1>1 DEF OneAsked
  <2>2. CASE j = k /\ l = k
    BY <2>1 DEF OneAsked
  <2>3. CASE j # k /\ l # k
    BY <2>1 DEF OneAsked
  <2>4. CASE j = k /\ l # k
    BY <2>1 DEF OneAsked
  <2>5. CASE j # k /\ l = k
    BY <2>1 DEF OneAsked
  <2> QED BY <2>2, <2>3, <2>4, <2>5
<1>3. CASE Refuse(k)
  <2>1. up'[k] = <<>> /\ \A j \in SocketIds : j # k => up'[j] = up[j]
    BY <1>3 DEF Refuse, TypeOK
  <2> QED BY <1>1, <2>1 DEF OneAsked
<1> QED BY <1>2, <1>3 DEF Serve, ServeJoin, ServeLeave, ServeMove, ServeAbort, ServeResign

(* The Room makes a move: the one it was asked for, if the page waits.     *)
LEMMA BroadcastKeeps ==
    ASSUME IInv, NEW n \in Names, Broadcast(n), UNCHANGED <<page, crossed>>,
           InPlay /\ ~crossed /\ page.pending
             /\ Waiting(page.moves, up[page.ws], down, game.moves, game.over)
               => n = page.moves[Len(page.moves)],
           ~game.over
    PROVE  Following' /\ PendingFits'
<1> DEFINE g == game.moves
           m == Moved(n, Turn(g), Len(g) + 1)
<1> USE DEF IInv
<1>1. game'.moves = Append(g, n) /\ game'.seat = game.seat /\ g \in Boards
  BY DEF Broadcast, TypeOK
<1>2. m \in Messages /\ m.type = "move" /\ Turn(g) \in Sides
  <2>1. Turn(g) \in Sides /\ Len(g) + 1 \in Nat
    BY <1>1, TurnIsMover DEF Boards
  <2> QED BY <2>1, MadeKinds
<1>3. Open' <=> Open
  BY DEF Open
<1>4. CASE ~(Open /\ game.seat = page.ws /\ ~crossed)
  BY <1>1, <1>3, <1>4 DEF Following, PendingFits, InPlay
<1>5. CASE Open /\ game.seat = page.ws /\ ~crossed
  <2>1. down' = Append(down, m) /\ down \in Seq(Messages)
    BY <1>2, <1>5, Sent DEF Broadcast, SocketsFit, TypeOK
  <2>2. LeadsTo(Base, down, g) /\ Base \in Boards
    BY <1>5, ConfirmedTyped DEF Following
  <2>3. LeadsTo(Base, Append(down, m), Append(g, n))
    BY <1>1, <1>2, <2>1, <2>2, MoveSent
  <2> HIDE DEF m
  <2>4. /\ DOMAIN down' = DOMAIN down \cup {Len(down) + 1}
        /\ \A i \in DOMAIN down : down'[i] = down[i]
    BY <2>1
  <2>5. (down # <<>> => Head(down') = Head(down)) /\ (down = <<>> => Head(down') = m)
        /\ down' # <<>>
    BY <2>1
  <2>6. Base' = Base
    BY <1>2, <2>5 DEF Base, Confirmed
  <2>7. Following'
    BY <1>1, <2>1, <2>3, <2>6 DEF Following
  <2>8. InPlay' => InPlay
    BY <1>5, <2>4 DEF InPlay
  <2>9. ASSUME InPlay, page.pending PROVE Granted(page.moves, down', Append(g, n))
    <3>1. page.moves \in Boards /\ page.moves # <<>>
      BY <2>9, ConfirmedTyped
    <3>2. CASE Granted(page.moves, down, g)
      BY <1>1, <1>2, <2>1, <3>1, <3>2, GrantedBefore
    <3>3. CASE Waiting(page.moves, up[page.ws], down, g, game.over)
      <4>1. n = page.moves[Len(page.moves)]
        BY <1>5, <2>9, <3>3
      <4> QED BY <1>1, <1>2, <2>1, <3>1, <3>3, <4>1, GrantedNow DEF Waiting
    <3> QED BY <1>5, <2>9, <3>2, <3>3 DEF PendingFits
  <2>10. PendingFits'
    BY <1>1, <2>8, <2>9 DEF PendingFits
  <2> QED BY <2>7, <2>10
<1> QED BY <1>4, <1>5

(* A request of the page's own socket is rejected only after the echo of a *)
(* pending move.                                                           *)
LEMMA RejectedKeeps ==
    ASSUME IInv, NEW k \in SocketIds, NEW type \in {"move", "abort"}, Arrives(k, type),
           Rejected(k), ~game.over,
           InPlay /\ ~crossed /\ page.pending
             /\ Waiting(page.moves, up[page.ws], down, game.moves, game.over)
               => k # page.ws
    PROVE  Following' /\ PendingFits'
<1> USE DEF IInv
<1>1. UNCHANGED <<page, crossed, game>> /\ down' = Written(k, <<Error>>)
  BY DEF Arrives, Rejected
<1>2. Open' <=> Open
  BY <1>1 DEF Open
<1>3. CASE ~(Open /\ game.seat = page.ws /\ ~crossed)
  BY <1>1, <1>2, <1>3 DEF Following, PendingFits, InPlay
<1>4. CASE Open /\ k # page.ws
  <2>1. down' = down /\ page.ws \in SocketIds
    BY <1>1, <1>4, Numbers DEF Written, SocketsFit, Open
  <2>2. up'[page.ws] = up[page.ws]
    BY <1>4, <2>1, Arrived
  <2>3. NothingNew(down, down')
    BY <2>1, NothingNewSent, MadeKinds DEF TypeOK
  <2> QED BY <1>1, <2>2, <2>3, NothingNewKeeps
<1>5. CASE Open /\ game.seat = page.ws /\ ~crossed /\ k = page.ws
  <2>1. down' = Append(down, Error) /\ down \in Seq(Messages) /\ game.moves \in Boards
    <3>1. Error \in Messages /\ ~Shut
      BY <1>5, MadeKinds DEF SocketsFit
    <3>2. down' = Append(down, Error)
      BY <1>1, <1>5, <3>1, Sent
    <3> QED BY <3>2 DEF TypeOK
  <2>2. LeadsTo(Base, down', game.moves)
    BY <1>5, <2>1, QuietSent, MadeKinds DEF Following
  <2>3. /\ DOMAIN down' = DOMAIN down \cup {Len(down) + 1}
        /\ \A i \in DOMAIN down : down'[i] = down[i]
    BY <2>1
  <2>4. (down # <<>> => Head(down') = Head(down)) /\ (down = <<>> => Head(down') = Error)
        /\ down' # <<>>
    BY <2>1
  <2>5. Base' = Base
    BY <1>1, <2>4, MadeKinds DEF Base, Confirmed
  <2>6. Following'
    BY <1>1, <2>2, <2>5 DEF Following
  <2>7. InPlay' => InPlay
    BY <1>5, <2>3 DEF InPlay
  <2>8. ASSUME InPlay, page.pending PROVE Granted(page.moves, down', game.moves)
    <3>1. Granted(page.moves, down, game.moves)
      BY <1>5, <2>8 DEF PendingFits
    <3>2. Base = Confirmed
      <4>1. down # <<>> => 1 \in DOMAIN down /\ Head(down) = down[1]
        OBVIOUS
      <4> QED BY <2>8, <4>1 DEF InPlay, Base
    <3>3. /\ LeadsTo(SubSeq(page.moves, 1, Len(page.moves) - 1), down, game.moves)
          /\ page.moves \in Boards /\ page.moves # <<>>
      BY <1>5, <2>8, <3>2, ConfirmedTyped DEF Following, Confirmed
    <3> QED BY <2>1, <3>1, <3>3, GrantedBeforeError
  <2>9. PendingFits'
    BY <1>1, <2>7, <2>8 DEF PendingFits
  <2> QED BY <2>6, <2>9
<1> QED BY <1>3, <1>4, <1>5

(* The opponent moves, which no page waits at, or ends the Game.           *)
LEMMA FollowingElsewhere ==
    ASSUME IInv, Elsewhere
    PROVE  OneAsked' /\ Following' /\ PendingFits'
<1>1. OneAsked'
  BY DEF Elsewhere, OpponentEnds, OpponentMoves, IInv, OneAsked
<1>2. CASE OpponentEnds
  BY <1>1, <1>2, EndKeeps DEF OpponentEnds
<1>3. ASSUME NEW n \in Names, OpponentMoves(n) PROVE Following' /\ PendingFits'
  <2>1. /\ Broadcast(n) /\ UNCHANGED <<page, crossed>> /\ ~game.over
        /\ Turn(game.moves) # Me
    BY <1>3 DEF OpponentMoves
  <2> QED BY <2>1, WaitingFacts, BroadcastKeeps
<1> QED BY <1>1, <1>2, <1>3 DEF Elsewhere

(* The Room serves a request.                                              *)
LEMMA FollowingServe ==
    ASSUME IInv, NEW k \in SocketIds, Serve(k)
    PROVE  Following' /\ PendingFits'
<1> USE DEF IInv
<1>1. UNCHANGED <<page, crossed>> /\ (Open' <=> Open)
  BY DEF Serve, ServeJoin, ServeLeave, ServeMove, ServeAbort, ServeResign, Refuse, Arrives, Open
<1>2. Open => page.ws \in SocketIds
  BY Numbers DEF SocketsFit, Open
<1>3. down \in Seq(Messages) /\ NothingNew(down, down)
  BY NothingNewSent, MadeKinds DEF TypeOK
<1>4. CASE ServeJoin(k)
  <2>1. Arrives(k, "join") /\ game'.seat = k /\ game'.moves = game.moves
        /\ game.moves \in Boards
    BY <1>4 DEF ServeJoin, TypeOK
  <2>2. CASE k # page.ws \/ ~Open
    BY <1>1, <2>1, <2>2 DEF Following, PendingFits, InPlay
  <2>3. CASE k = page.ws /\ Open
    <3>1. down = <<>>
      BY <2>1, <2>3, Arrived DEF SocketsFit
    <3>2. down' = <<Joined(game.moves)>> /\ Joined(game.moves).type = "joined"
          /\ Joined(game.moves).moves = game.moves
      BY <1>4, <2>1, <2>3, <3>1, MadeKinds DEF ServeJoin, Written, Shut
    <3>3. Base' = game.moves /\ ~InPlay'
      BY <3>2 DEF Base, InPlay
    <3> QED BY <2>1, <3>2, <3>3, SnapshotLeads DEF Following, PendingFits
  <2> QED BY <2>2, <2>3
<1>5. CASE ServeLeave(k)
  <2>1. Arrives(k, "leave")
    BY <1>5 DEF ServeLeave
  <2>2. CASE game.seat = k
    <3>1. game'.seat = None
      BY <1>5, <2>2 DEF ServeLeave, End, TypeOK
    <3> QED BY <1>1, <3>1 DEF Following, PendingFits, InPlay, SocketsFit, Open
  <2>3. CASE game.seat # k
    <3>1. UNCHANGED <<game, down>>
      BY <1>5, <2>3 DEF ServeLeave
    <3>2. Open => \A n \in Names, b \in Boards :
             Asked(up[page.ws], Move(n, b)) => Asked(up'[page.ws], Move(n, b))
      BY <1>2, <2>1, AskedLater
    <3> QED BY <1>1, <1>3, <3>1, <3>2, NothingNewKeeps
  <2> QED BY <2>2, <2>3
<1>6. CASE ServeMove(k)
  <2> DEFINE m == Head(up[k])
  <2>1. /\ Arrives(k, "move") /\ ~game.over /\ m.name \in Names
        /\ 1 \in DOMAIN up[k] /\ up[k][1] = m /\ m.type = "move"
    BY <1>6, Arrived, Kinds DEF ServeMove
  <2>2. \/ Turn(game.moves) = Me /\ Broadcast(m.name)
        \/ (Turn(game.moves) # Me \/ m.board # game.moves) /\ Rejected(k)
    BY <1>6 DEF ServeMove
  <2> HIDE DEF m
  <2>3. ASSUME InPlay, ~crossed, page.pending,
               Waiting(page.moves, up[page.ws], down, game.moves, game.over)
        PROVE  /\ k = page.ws /\ Turn(game.moves) = Me
               /\ m = Move(page.moves[Len(page.moves)], game.moves)
    <3>1. /\ Turn(game.moves) = Me
          /\ Asked(up[page.ws], Move(page.moves[Len(page.moves)], game.moves))
      BY <2>1, <2>3, WaitingFacts
    <3>2. PICK i \in DOMAIN up[page.ws] :
             up[page.ws][i] = Move(page.moves[Len(page.moves)], game.moves)
      BY <3>1 DEF Asked
    <3>3. up[page.ws][i].type = "move" /\ page.ws \in SocketIds
      BY <1>2, <2>3, <3>2 DEF Move, InPlay
    <3>4. k = page.ws /\ i = 1
      BY <2>1, <2>3, <3>3 DEF OneAsked
    <3> QED BY <2>1, <3>1, <3>2, <3>4
  <2>4. \A n, b : Move(n, b).name = n /\ Move(n, b).board = b
    BY DEF Move
  <2>5. CASE Turn(game.moves) = Me /\ Broadcast(m.name)
    BY <1>1, <2>1, <2>3, <2>4, <2>5, BroadcastKeeps
  <2>6. CASE (Turn(game.moves) # Me \/ m.board # game.moves) /\ Rejected(k)
    BY <2>1, <2>3, <2>4, <2>6, RejectedKeeps
  <2> QED BY <2>2, <2>5, <2>6
<1>7. CASE ServeAbort(k)
  <2>1. Arrives(k, "abort") /\ ~game.over /\ (End(game.seat) \/ Rejected(k))
    BY <1>7 DEF ServeAbort
  <2>2. ASSUME InPlay, ~crossed, page.pending,
               Waiting(page.moves, up[page.ws], down, game.moves, game.over)
        PROVE  k # page.ws
    BY <2>1, <2>2, WaitingFacts, AskedLater
  <2> QED BY <1>1, <2>1, <2>2, EndKeeps, RejectedKeeps
<1>8. CASE ServeResign(k)
  BY <1>1, <1>8, EndKeeps DEF ServeResign
<1>9. CASE Refuse(k)
  <2>1. game' = game /\ game.over /\ (down' = down \/ down' = Written(k, <<Close>>))
    BY <1>9 DEF Refuse
  <2>2. NothingNew(down, down')
    <3>1. Written(k, <<Close>>) \in {down, Append(down, Close)}
      <4>1. Close \in Messages
        BY MadeKinds
      <4>2. Written(k, <<Close>>) =
               IF k = page.ws /\ Open /\ ~Shut THEN Append(down, Close) ELSE down
        BY <4>1, Sent
      <4> QED BY <4>2
    <3>2. NothingNew(down, Append(down, Close))
      BY <1>3, NothingNewSent, MadeKinds
    <3> QED BY <1>3, <2>1, <3>1, <3>2
  <2> QED BY <1>1, <2>1, <2>2, NothingNewKeeps
<1> QED BY <1>4, <1>5, <1>6, <1>7, <1>8, <1>9 DEF Serve
-----------------------------------------------------------------------------
(* Every step keeps the invariant,                                         *)
LEMMA InvariantKept == IInv /\ [Next]_vars => IInv'
<1> SUFFICES ASSUME IInv, [Next]_vars PROVE IInv'
  OBVIOUS
<1> USE DEF IInv
<1>1. TypeOK'
  BY TypesKept
<1>2. CASE UNCHANGED vars
  BY <1>1, <1>2
     DEF vars, SocketsFit, MoversFit, OneAsked, Following, PendingFits, Base, Confirmed, InPlay,
         Open, Shut
<1>3. ASSUME \/ Connect \/ OpenSocket \/ LoseSocket \/ OldSocketClosed
             \/ Drag \/ ShowPromotion \/ LetGo \/ ClickAbort \/ ClickResign
      PROVE  IInv'
  BY <1>1, <1>3, SocketsPage, FollowingPage
<1>4. ASSUME NEW n \in Names, Drop(n) PROVE IInv'
  BY <1>1, <1>4, SocketsPlay, FollowingPlay
<1>5. CASE Deliver
  BY <1>1, <1>5, SocketsDeliver, FollowingDeliver
<1>6. CASE Elsewhere
  BY <1>1, <1>6, SocketsElsewhere, FollowingElsewhere
<1>7. ASSUME NEW k \in SocketIds, Serve(k) PROVE IInv'
  BY <1>1, <1>7, SocketsServe, OneAskedServe, FollowingServe
<1> QED BY <1>2, <1>3, <1>4, <1>5, <1>6, <1>7 DEF Next, Player

(* and so it always holds.                                                 *)
LEMMA InvariantAlways == Spec => []IInv
<1>1. Init => IInv
  BY InitTyped, SocketsInit, FollowingInit DEF IInv
<1> QED BY <1>1, InvariantKept, PTL DEF Spec

(* As long as the player never moves while an earlier request is           *)
(* unanswered, the confirmed moves on the page and the moves under way to  *)
(* it are, in this order, the moves of the Game: through reconnections,    *)
(* lost connections, aborts and pieces kept in hand.                       *)
THEOREM BoardCorrect == Spec => []BoardFollows
<1>1. IInv => BoardFollows
  <2> SUFFICES ASSUME IInv, InPlay, ~crossed PROVE LeadsTo(Confirmed, down, game.moves)
    BY DEF BoardFollows
  <2> QED BY DEF IInv, Following, InPlay, Base
<1> QED BY <1>1, InvariantAlways, PTL

(* "drop the optimistic move and show the real position": for a player who *)
(* never moves while an earlier request is unanswered, the page keeps that *)
(* promise.  When nothing is under way in either direction, no move is     *)
(* pending and the board is the Game's.                                    *)
THEOREM RealPositionIfPatient == Spec => [](~crossed => RealPosition)
<1>1. IInv => (~crossed => RealPosition)
  <2> SUFFICES ASSUME IInv, ~crossed, Settled, ~game.over PROVE page.moves = game.moves
    BY DEF RealPosition
  <2> USE DEF IInv
  <2>1. InPlay /\ Open /\ game.seat = page.ws /\ down = <<>> /\ page.ws \in SocketIds
    BY Numbers DEF Settled, InPlay, SocketsFit, Open
  <2>2. LeadsTo(Confirmed, <<>>, game.moves)
    BY <2>1 DEF Following, Base
  <2>3. Confirmed \in Boards /\ game.moves \in Boards /\ <<>> \in Seq(Messages)
    BY ConfirmedTyped DEF TypeOK
  <2>4. Len(Confirmed) = Len(game.moves)
    <3> SUFFICES ASSUME Len(Confirmed) # Len(game.moves) PROVE FALSE
      OBVIOUS
    <3>1. \E i \in MovesIn(<<>>) : <<>>[i].plies = Len(Confirmed) + 1
      BY <2>2, <2>3, FollowerUnderWay
    <3> QED BY <3>1 DEF MovesIn
  <2>5. game.moves = Confirmed
    BY <2>2, <2>3, <2>4, NothingUnderWay
  <2>6. ~page.pending
    <3> SUFFICES ASSUME page.pending PROVE FALSE
      OBVIOUS
    <3>1. /\ page.moves \in Boards /\ page.moves # <<>>
          /\ Confirmed = SubSeq(page.moves, 1, Len(page.moves) - 1)
      BY ConfirmedTyped DEF Confirmed
    <3>2. Len(page.moves) = Len(game.moves) + 1 /\ Len(game.moves) \in Nat
      BY <2>4, <3>1
    <3>3. ~Granted(page.moves, down, game.moves)
      BY <3>2 DEF Granted
    <3>4. up[page.ws] = <<>>
      BY <2>1 DEF Settled
    <3>5. ~Waiting(page.moves, up[page.ws], down, game.moves, game.over)
      BY <3>4 DEF Waiting, Asked
    <3> QED BY <2>1, <3>3, <3>5 DEF PendingFits
  <2> QED BY <2>5, <2>6 DEF Confirmed
<1> QED BY <1>1, InvariantAlways, PTL
=============================================================================
