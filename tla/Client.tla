------------------------------- MODULE Client -------------------------------
(***************************************************************************)
(* The page a player plays on, and the Room at the other end of its        *)
(* WebSocket.                                                              *)
(*                                                                         *)
(* The page plays a move on its own board before the server knows of it,   *)
(* and the server's messages confirm it or not.  What travels on a socket  *)
(* arrives in order; what was sent on a socket that the page has replaced  *)
(* still arrives at the server, beside what the new socket carries.  A     *)
(* handler of the page runs to its end, and so does a command of the Room  *)
(* (module Room); between two of them anything may happen.  The other      *)
(* player is the Room's own business here.                                 *)
(***************************************************************************)
EXTENDS ChessTypes, Sequences

CONSTANTS Me,          \* the colour the page plays
          Names,       \* names of moves: what a player can choose from
          Earlier,     \* moves played before the page was opened: possible numbers
          PromotionAt, \* plies before which no pawn can promote
          MaxPlies,    \* bound: plies played from then on
          MaxSockets,  \* bound: connections the page makes
          MaxClicks    \* bound: moves made and buttons clicked on the page

ASSUME ClientAssumption ==
    /\ Me \in Sides
    /\ \A n \in Earlier : n \in Nat /\ n % 2 = 0
    /\ {PromotionAt, MaxPlies, MaxSockets, MaxClicks} \subseteq Nat

VARIABLES
    earlier, \* the moves played before the page was opened
    game,    \* the Room: moves since then, the socket seated for Me, is it over
    page,    \* the state of the page's script
    up,      \* what is under way on each socket to the server
    down,    \* what is under way to the page on its current socket
    closing, \* a replaced socket of the page has yet to report its end
    clicks,  \* moves made and buttons clicked
    crossed  \* history: a move was made while an earlier request was unanswered

vars == <<earlier, game, page, up, down, closing, clicks, crossed>>

SocketIds == 1..MaxSockets
None == 0

Join == [type |-> "join"]
Leave == [type |-> "leave"]
Abort == [type |-> "abort"]
Resign == [type |-> "resign"]
Move(name, board) == [type |-> "move", name |-> name, board |-> board]

Joined(moves) == [type |-> "joined", moves |-> moves]
Moved(name, by, plies) == [type |-> "move", name |-> name, by |-> by, plies |-> plies]
Error == [type |-> "error"]
GameOver == [type |-> "game_over"]
Close == [type |-> "close"]

Turn(moves) == IF Len(moves) % 2 = 0 THEN White ELSE Black

(* The snapshot's clocks say running = null.                               *)
NoClockRuns(plies) == earlier + plies < 2

Open == page.socket = "open"
-----------------------------------------------------------------------------
Init ==
    /\ earlier \in Earlier
    /\ game = [moves |-> <<>>, seat |-> None, over |-> FALSE]
    /\ page = [ws |-> None, socket |-> "closed", color |-> NoColor, moves |-> <<>>,
               pending |-> FALSE, over |-> FALSE, hand |-> "empty",
               abortOn |-> FALSE, resignOn |-> FALSE]
    /\ up = [k \in SocketIds |-> <<>>]
    /\ down = <<>>
    /\ closing = FALSE
    /\ clicks = 0
    /\ crossed = FALSE
-----------------------------------------------------------------------------
(* The page.                                                               *)

(* connectWebSocket: the old socket is closed, and none of its messages is *)
(* delivered any more.                                                     *)
Connect ==
    /\ page.ws < MaxSockets
    /\ page' = [page EXCEPT !.ws = @ + 1, !.socket = "connecting"]
    /\ up' = IF Open THEN [up EXCEPT ![page.ws] = Append(@, Leave)] ELSE up
    /\ down' = <<>>
    /\ closing' = (closing \/ Open)
    /\ UNCHANGED <<earlier, game, clicks, crossed>>

(* The upgrade succeeds, and the server's handler joins.                   *)
OpenSocket ==
    /\ page.socket = "connecting"
    /\ page' = [page EXCEPT !.socket = "open"]
    /\ up' = [up EXCEPT ![page.ws] = <<Join>>]
    /\ UNCHANGED <<earlier, game, down, closing, clicks, crossed>>

(* onclose: of whichever socket, it acts on the buttons of the page.       *)
Closed(p) == [p EXCEPT !.abortOn = FALSE, !.resignOn = FALSE]

(* The connection fails, or the upgrade is refused.                        *)
LoseSocket ==
    /\ page.socket # "closed"
    /\ page' = [Closed(page) EXCEPT !.socket = "closed"]
    /\ up' = IF Open THEN [up EXCEPT ![page.ws] = Append(@, Leave)] ELSE up
    /\ down' = <<>>
    /\ UNCHANGED <<earlier, game, closing, clicks, crossed>>

OldSocketClosed ==
    /\ closing
    /\ closing' = FALSE
    /\ page' = Closed(page)
    /\ UNCHANGED <<earlier, game, up, down, clicks, crossed>>

Click == clicks < MaxClicks /\ clicks' = clicks + 1

(* A request of the player is unanswered: it has not arrived, or what it   *)
(* led to has not come back.                                               *)
Unanswered ==
    \/ \E k \in SocketIds : \E i \in DOMAIN up[k] : up[k][i].type \in {"move", "abort"}
    \/ \E i \in DOMAIN down : down[i].type = "error" \/ (down[i].type = "move" /\ down[i].by = Me)

(* chess.js accepts the move, it is shown, and it is sent if there is a    *)
(* socket to send it on.                                                   *)
Play(name, p) ==
    /\ Len(page.moves) < MaxPlies /\ Click
    /\ page' = [p EXCEPT !.moves = Append(@, name), !.pending = @ \/ Open]
    /\ up' = IF Open THEN [up EXCEPT ![page.ws] = Append(@, Move(name, page.moves))] ELSE up
    /\ crossed' = (crossed \/ Unanswered)

(* onDragStart lets a piece be taken in hand; what the server sends while  *)
(* it is in hand changes the board under it.                               *)
Drag ==
    /\ page.hand = "empty"
    /\ ~page.over /\ page.color = Me /\ Turn(page.moves) = Me
    /\ page' = [page EXCEPT !.hand = "piece"]
    /\ UNCHANGED <<earlier, game, up, down, closing, clicks, crossed>>

(* onDrop, or a click in the promotion dialogue: chess.js is asked, but    *)
(* not whether the game is over.                                           *)
Drop(name) ==
    /\ page.hand # "empty" /\ Turn(page.moves) = Me
    /\ Play(name, [page EXCEPT !.hand = "empty"])
    /\ UNCHANGED <<earlier, game, down, closing>>

(* onDrop of a pawn on the last rank.                                      *)
ShowPromotion ==
    /\ page.hand = "piece" /\ Turn(page.moves) = Me
    /\ earlier + Len(page.moves) >= PromotionAt
    /\ page' = [page EXCEPT !.hand = "dialogue"]
    /\ UNCHANGED <<earlier, game, up, down, closing, clicks, crossed>>

(* The piece snaps back, or the dialogue is left by a click beside it.     *)
LetGo ==
    /\ page.hand # "empty"
    /\ page' = [page EXCEPT !.hand = "empty"]
    /\ UNCHANGED <<earlier, game, up, down, closing, clicks, crossed>>

Ask(request) ==
    /\ Open /\ Click
    /\ up' = [up EXCEPT ![page.ws] = Append(@, request)]
    /\ UNCHANGED <<earlier, game, page, down, closing, crossed>>

ClickAbort == page.abortOn /\ Ask(Abort)

ClickResign == page.resignOn /\ Ask(Resign)
-----------------------------------------------------------------------------
(* onmessage.                                                              *)

(* Mutation of OnJoined: what the page believed to be pending stays so.    *)
PendingKept(p) == p.pending

PendingAfterJoin(p) == FALSE

(* Mutation of Replay: the moves are played on the board that is there.    *)
ReplayOnTop(p, moves) == p.moves \o moves

(* game.reset(), then the moves of the snapshot.                           *)
Replay(p, moves) == moves

OnJoined(p, m) ==
    [p EXCEPT !.over = FALSE, !.pending = PendingAfterJoin(p), !.moves = Replay(p, m.moves),
              !.color = Me, !.resignOn = TRUE, !.abortOn = NoClockRuns(Len(m.moves))]

(* Mutation of Mine: the colour is compared the wrong way round.           *)
MineReversed(p) == p.pending /\ Turn(p.moves) = p.color

(* The echo of the page's own move, which its board has already.           *)
Mine(p) == p.pending /\ Turn(p.moves) # p.color

(* chess.js refuses a move of the side that is not to move.                *)
OnMove(p, m) ==
    [p EXCEPT !.pending = @ /\ ~Mine(p),
              !.moves = IF ~Mine(p) /\ m.by = Turn(@) THEN Append(@, m.name) ELSE @,
              !.abortOn = ~p.over /\ NoClockRuns(m.plies)]

OnError(p) ==
    [p EXCEPT !.pending = FALSE,
              !.moves = IF p.pending THEN SubSeq(@, 1, Len(@) - 1) ELSE @]

OnGameOver(p) == [p EXCEPT !.over = TRUE, !.resignOn = FALSE, !.abortOn = FALSE]

OnMessage(p, m) ==
    CASE m.type = "joined"    -> OnJoined(p, m)
      [] m.type = "move"      -> OnMove(p, m)
      [] m.type = "error"     -> OnError(p)
      [] m.type = "game_over" -> OnGameOver(p)
      [] m.type = "close"     -> [Closed(p) EXCEPT !.socket = "closed"]

Deliver ==
    /\ down # <<>>
    /\ page' = OnMessage(page, Head(down))
    /\ down' = Tail(down)
    /\ UNCHANGED <<earlier, game, up, closing, clicks, crossed>>
-----------------------------------------------------------------------------
(* The Room.  A write reaches the page if it goes to its current socket,   *)
(* and the Room has not closed that one.                                   *)

Shut == \E i \in DOMAIN down : down[i].type = "close"

Written(k, messages) == IF k = page.ws /\ Open /\ ~Shut THEN down \o messages ELSE down

Arrives(k, type) ==
    /\ up[k] # <<>> /\ Head(up[k]).type = type
    /\ up' = [up EXCEPT ![k] = Tail(@)]
    /\ UNCHANGED <<earlier, page, closing, clicks, crossed>>

(* The Game ends: the loop announces it and closes the seat's socket.      *)
End(seat) ==
    /\ game' = [game EXCEPT !.over = TRUE, !.seat = seat]
    /\ down' = Written(seat, <<GameOver, Close>>)

Broadcast(name) ==
    /\ game' = [game EXCEPT !.moves = Append(@, name)]
    /\ down' = Written(game.seat, <<Moved(name, Turn(game.moves), Len(game.moves) + 1)>>)

Rejected(k) == down' = Written(k, <<Error>>) /\ UNCHANGED game

(* The socket seated before is closed; the joins of two sockets of the     *)
(* page may come in either order.                                          *)
ServeJoin(k) ==
    /\ ~game.over /\ Arrives(k, "join")
    /\ game' = [game EXCEPT !.seat = k]
    /\ down' = IF k = page.ws THEN Written(k, <<Joined(game.moves)>>)
               ELSE Written(game.seat, <<Close>>)

ServeLeave(k) ==
    /\ ~game.over /\ Arrives(k, "leave")
    /\ IF game.seat = k THEN End(None) ELSE UNCHANGED <<game, down>>

(* A move chosen on the position the Room has is legal; any other may be.  *)
ServeMove(k) ==
    /\ ~game.over /\ Arrives(k, "move")
    /\ LET m == Head(up[k])
       IN  \/ Turn(game.moves) = Me /\ Broadcast(m.name)
           \/ (Turn(game.moves) # Me \/ m.board # game.moves) /\ Rejected(k)

ServeAbort(k) ==
    /\ ~game.over /\ Arrives(k, "abort")
    /\ IF NoClockRuns(Len(game.moves)) THEN End(game.seat) ELSE Rejected(k)

ServeResign(k) ==
    /\ ~game.over /\ Arrives(k, "resign")
    /\ End(game.seat)

(* Nothing is received once the Room is done; its handlers return, and     *)
(* close their sockets.                                                    *)
Refuse(k) ==
    /\ game.over /\ up[k] # <<>>
    /\ up' = [up EXCEPT ![k] = <<>>]
    /\ down' = IF k = game.seat THEN down ELSE Written(k, <<Close>>)
    /\ UNCHANGED <<earlier, game, page, closing, clicks, crossed>>

(* The other player moves, or something else ends the Game.                *)
OpponentMoves(name) ==
    /\ ~game.over /\ Turn(game.moves) # Me /\ Len(game.moves) < MaxPlies
    /\ Broadcast(name)
    /\ UNCHANGED <<earlier, page, up, closing, clicks, crossed>>

OpponentEnds ==
    /\ ~game.over
    /\ End(game.seat)
    /\ UNCHANGED <<earlier, page, up, closing, clicks, crossed>>
-----------------------------------------------------------------------------
Serve(k) ==
    ServeJoin(k) \/ ServeLeave(k) \/ ServeMove(k) \/ ServeAbort(k) \/ ServeResign(k) \/ Refuse(k)

Player ==
    \/ Connect \/ Drag \/ ShowPromotion \/ LetGo \/ ClickAbort \/ ClickResign
    \/ \E name \in Names : Drop(name)

Elsewhere == OpponentEnds \/ \E name \in Names : OpponentMoves(name)

Next ==
    \/ Player \/ Elsewhere \/ Deliver
    \/ OpenSocket \/ LoseSocket \/ OldSocketClosed
    \/ \E k \in SocketIds : Serve(k)

Spec == Init /\ [][Next]_vars

(* What is sent on an open socket arrives, the Room receives every command *)
(* and the browser dispatches every message.  The players owe nothing.     *)
Fairness == WF_vars(Deliver) /\ \A k \in SocketIds : WF_vars(Serve(k))

FairSpec == Spec /\ Fairness
-----------------------------------------------------------------------------
(* Everything has its type, and a pending move is on the board of a page   *)
(* that knows its colour, with the opponent to move.                       *)
Boards == Seq(Names)

Requests == {Join, Leave, Abort, Resign} \cup [type : {"move"}, name : Names, board : Boards]

Messages ==
    {Error, GameOver, Close}
        \cup [type : {"joined"}, moves : Boards]
        \cup [type : {"move"}, name : Names, by : Sides, plies : Nat]

TypeOK ==
    /\ earlier \in Earlier
    /\ game \in [moves : Boards, seat : SocketIds \cup {None}, over : BOOLEAN]
    /\ page \in [ws : SocketIds \cup {None}, socket : {"connecting", "open", "closed"},
                 color : {Me, NoColor}, moves : Boards, pending : BOOLEAN, over : BOOLEAN,
                 hand : {"empty", "piece", "dialogue"}, abortOn : BOOLEAN, resignOn : BOOLEAN]
    /\ page.pending => page.moves # <<>> /\ Turn(page.moves) # Me
    /\ page.pending \/ page.hand # "empty" => page.color = Me
    /\ up \in [SocketIds -> Seq(Requests)] /\ down \in Seq(Messages)
    /\ closing \in BOOLEAN /\ crossed \in BOOLEAN
    /\ clicks \in 0..MaxClicks

(* The page has been seated, and knows it.                                 *)
InPlay ==
    /\ Open /\ game.seat = page.ws
    /\ \A i \in DOMAIN down : down[i].type # "joined"

(* The moves on the page that are not pending, followed by those that are  *)
(* under way to it, are the moves of the Game: with reconnections, lost    *)
(* connections, aborts and a piece kept in hand, as long as the player     *)
(* never moves while an earlier request is unanswered.                     *)
Confirmed == IF page.pending THEN SubSeq(page.moves, 1, Len(page.moves) - 1) ELSE page.moves

(* Those of the messages that carry a move.                                *)
MovesIn(messages) == {i \in DOMAIN messages : messages[i].type = "move"}

(* What is on the board, and then the moves in the messages, each with its *)
(* number and in their order, are the moves of the Game.                   *)
LeadsTo(board, messages, moves) ==
    /\ Len(board) <= Len(moves)
    /\ \A n \in DOMAIN board : board[n] = moves[n]
    /\ {messages[i].plies : i \in MovesIn(messages)} = Len(board) + 1..Len(moves)
    /\ \A i \in MovesIn(messages) : messages[i].name = moves[messages[i].plies]
    /\ \A i, j \in MovesIn(messages) : i < j => messages[i].plies < messages[j].plies

BoardFollows == InPlay /\ ~crossed => LeadsTo(Confirmed, down, game.moves)

(* A pending move is settled: confirmed, undone, or overtaken by the end   *)
(* of the Game or of the connection.                                       *)
PendingResolves == page.pending ~> (~page.pending \/ page.over \/ ~Open)
-----------------------------------------------------------------------------
(* What a comment promises and the code does not keep.                     *)

(* "drop the optimistic move and show the real position": when nothing is  *)
(* under way, the board of a page in play is the Game's.                   *)
Settled == InPlay /\ down = <<>> /\ \A k \in SocketIds : up[k] = <<>>

RealPosition == Settled /\ ~game.over => page.moves = game.moves
=============================================================================
