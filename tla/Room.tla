-------------------------------- MODULE Room --------------------------------
(***************************************************************************)
(* One Room: the loop goroutine that owns a Game, the goroutines of the    *)
(* HTTP handler that forward each WebSocket to it, the ticker, and the     *)
(* wind-down that announces, stores and frees.                             *)
(*                                                                         *)
(* The goroutines meet on an unbuffered channel: a handler blocks in       *)
(* send() until the loop receives its command or done is closed.  Handling *)
(* one command is a single step of the loop, since only the loop touches   *)
(* the Game and the seats, and only it writes to the sockets; the check of *)
(* the Result that follows reads the clock again and is a step of its own, *)
(* as is every step of finish that others can see.                         *)
(***************************************************************************)
EXTENDS GameRules, FiniteSets

CONSTANTS Conns,        \* the connection attempts made to this Room
          Owner,        \* whose they are: a side, or NoColor for a stranger
          Nobody,       \* an empty seat
          MaxMessages,  \* bound: messages one connection sends
          Horizon       \* bound: the clock of the world stops here

ASSUME ConnAssumption ==
    /\ Owner \in [Conns -> Sides \cup {NoColor}]
    /\ Nobody \notin Conns

ASSUME RoomBoundAssumption == MaxMessages \in Nat /\ Horizon \in Nat

VARIABLES
    game,        \* the Game, owned by the loop
    now,         \* the time rs.now() reads
    tick,        \* a tick waits in the ticker's channel
    loop,        \* where the loop is
    seat,        \* r.conns: the connection seated on each side, or Nobody
    done,        \* r.done is closed
    registered,  \* the Room is in the registry
    handler,     \* where the handler of each connection is
    message,     \* the message a handler is forwarding
    unsent,      \* messages the peer of a connection may still send
    socket,      \* each connection's socket
    view,        \* what the peer of an open socket was shown
    told,        \* the Result announced to each connection, or NoResult
    stored,      \* the record in the store, or NoRecord
    freed        \* per side: is the player's reset still to do, done or failed

roomVars == <<game, now, tick, loop, seat, done, registered>>
connVars == <<handler, message, unsent, socket, view, told>>
vars == <<game, now, tick, loop, seat, done, registered,
          handler, message, unsent, socket, view, told, stored, freed>>

Messages == {"move", "resign", "abort", "bad"}
NoMessage == "none"
NoView == [plies |-> -1, opponent |-> FALSE]
NoRecord == [plies |-> -1, result |-> NoResult, timeLeft |-> [s \in Sides |-> 0]]

Seated == {seat[s] : s \in Sides} \ {Nobody}

(* A write reaches the peer only through a socket that is still open;      *)
(* write errors are ignored by the code.                                   *)
Listening == {k \in Seated : socket[k] = "open"}
-----------------------------------------------------------------------------
Init ==
    /\ now = 0
    /\ game = NewGame(TimeControl, now)
    /\ tick = FALSE
    /\ loop = "select"
    /\ seat = [s \in Sides |-> Nobody]
    /\ done = FALSE
    /\ registered = TRUE
    /\ handler = [k \in Conns |-> "idle"]
    /\ message = [k \in Conns |-> NoMessage]
    /\ unsent = [k \in Conns |-> MaxMessages]
    /\ socket = [k \in Conns |-> "none"]
    /\ view = [k \in Conns |-> NoView]
    /\ told = [k \in Conns |-> NoResult]
    /\ stored = NoRecord
    /\ freed = [s \in Sides |-> "todo"]

(* Time passes; the ticker drops a tick its channel has no room for.  A    *)
(* tick that comes once the loop has left its select for good is never     *)
(* read, and is not kept.                                                  *)
Tick ==
    /\ now < Horizon
    /\ now' = now + 1
    /\ tick' = (loop \in {"select", "check"})
    /\ UNCHANGED <<game, loop, seat, done, registered, connVars, stored, freed>>
-----------------------------------------------------------------------------
(* The handler of connection k.                                            *)

(* rs.get and colorOf (404 when the Room is gone, 403 for a stranger),     *)
(* then the upgrade, which may fail.  Nothing but this handler knows of    *)
(* the socket before the join is received, and until then the Room may     *)
(* finish, so the three are one step.                                      *)
Connect(k) ==
    /\ handler[k] = "idle"
    /\ \/ /\ registered /\ Owner[k] # NoColor
          /\ handler' = [handler EXCEPT ![k] = "joining"]
          /\ socket' = [socket EXCEPT ![k] = "open"]
       \/ /\ handler' = [handler EXCEPT ![k] = "returned"]
          /\ UNCHANGED socket
    /\ UNCHANGED <<roomVars, message, unsent, view, told, stored, freed>>

(* ReadMessage yields a message.  One that had already arrived can still   *)
(* be read from the connection's buffer after the socket was closed.       *)
ReadMessage(k, m) ==
    /\ handler[k] = "reading" /\ unsent[k] > 0
    /\ unsent' = [unsent EXCEPT ![k] = @ - 1]
    /\ message' = [message EXCEPT ![k] = m]
    /\ handler' = [handler EXCEPT ![k] = "forwarding"]
    /\ UNCHANGED <<roomVars, socket, view, told, stored, freed>>

(* ReadMessage fails: the socket is closed, the peer is gone, or it broke  *)
(* the protocol.                                                           *)
ReadError(k) ==
    /\ handler[k] = "reading"
    /\ handler' = [handler EXCEPT ![k] = "leaving"]
    /\ UNCHANGED <<roomVars, message, unsent, socket, view, told, stored, freed>>

Sending == {"joining", "forwarding", "leaving"}

(* send() takes its second branch, done being closed: the handler returns, *)
(* and its deferred conn.Close runs.                                       *)
SendRefused(k) ==
    /\ handler[k] \in Sending /\ done
    /\ handler' = [handler EXCEPT ![k] = "returned"]
    /\ message' = [message EXCEPT ![k] = NoMessage]
    /\ unsent' = [unsent EXCEPT ![k] = 0]
    /\ socket' = [socket EXCEPT ![k] = "closed"]
    /\ view' = [view EXCEPT ![k] = NoView]
    /\ UNCHANGED <<roomVars, told, stored, freed>>

(* The peer closes its tab or loses its network.  The server may hear of   *)
(* it, as an error of ReadMessage, or not.                                 *)
PeerGone(k) ==
    /\ socket[k] = "open"
    /\ socket' = [socket EXCEPT ![k] = "gone"]
    /\ view' = [view EXCEPT ![k] = NoView]
    /\ UNCHANGED <<roomVars, handler, message, unsent, told, stored, freed>>
-----------------------------------------------------------------------------
(* The loop: receive one command, handle it, then check for a Result.      *)

Received(k, from, to) ==
    /\ loop = "select" /\ handler[k] = from
    /\ loop' = "check"
    /\ handler' = [handler EXCEPT ![k] = to]
    /\ message' = [message EXCEPT ![k] = NoMessage]
    /\ UNCHANGED <<now, tick, done, registered, told, stored, freed>>

(* Mutation of OldClosed: the replaced socket stays open.                  *)
OldKept(old) == socket

OldClosed(old) == [c \in Conns |-> IF c = old THEN "closed" ELSE socket[c]]

(* An older socket of the same side is closed and loses its seat; the      *)
(* newcomer gets a snapshot, which settles the Game, and the opponent is   *)
(* told that somebody is there.                                            *)
HandleJoin(k) ==
    LET color == Owner[k]
        opponent == seat[Opponent(color)]
        old == seat[color]
    IN  /\ Received(k, "joining", "reading")
        /\ seat' = [seat EXCEPT ![color] = k]
        /\ game' = Settle(game, now)
        /\ UNCHANGED unsent
        /\ socket' = OldClosed(old)
        /\ view' = [c \in Conns |->
                      CASE c = k /\ socket[k] = "open" ->
                               [plies |-> game'.plies, opponent |-> opponent # Nobody]
                        [] c = opponent /\ socket[c] = "open" ->
                               [view[c] EXCEPT !.opponent = TRUE]
                        [] c = old -> NoView
                        [] OTHER -> view[c]]

(* Mutation of Replaced: every leave counts.                               *)
NeverReplaced(k) == FALSE

Replaced(k) == seat[Owner[k]] # k

(* A leave of a socket that was already replaced is ignored.  The handler  *)
(* returns, and its deferred conn.Close runs.                              *)
HandleLeave(k) ==
    /\ Received(k, "leaving", "returned")
    /\ IF Replaced(k)
       THEN UNCHANGED <<seat, game>>
       ELSE /\ seat' = [seat EXCEPT ![Owner[k]] = Nobody]
            /\ game' = AfterForfeit(game, Owner[k], "disconnect", now)
    /\ unsent' = [unsent EXCEPT ![k] = 0]
    /\ socket' = [socket EXCEPT ![k] = "closed"]
    /\ view' = [view EXCEPT ![k] = NoView]

(* Mutation of Audience: the move is not echoed to the player who made it. *)
AllButSender(k) == Listening \ {k}

(* Whom a move that k made is broadcast to.                                *)
Audience(k) == Listening

(* What a message does to the Game.  A move that the Game accepts is       *)
(* broadcast; anything else is rejected to its sender only.                *)
HandleMove(k, legal, position) ==
    /\ message[k] = "move"
    /\ Received(k, "forwarding", "reading")
    /\ position \in PositionsAfter(game.plies + 1)
    /\ game' = AfterMove(game, Owner[k], legal, position, now)
    /\ LET accepted == MoveError(Settle(game, now), Owner[k], legal) = "ok"
       IN  view' = [c \in Conns |->
                      IF accepted /\ c \in Audience(k)
                      THEN [view[c] EXCEPT !.plies = @ + 1] ELSE view[c]]
    /\ UNCHANGED <<seat, unsent, socket>>

HandleResign(k) ==
    /\ message[k] = "resign"
    /\ Received(k, "forwarding", "reading")
    /\ game' = AfterForfeit(game, Owner[k], "resign", now)
    /\ UNCHANGED <<seat, unsent, socket, view>>

HandleAbort(k) ==
    /\ message[k] = "abort"
    /\ Received(k, "forwarding", "reading")
    /\ game' = AfterAbort(game, now)
    /\ UNCHANGED <<seat, unsent, socket, view>>

HandleBad(k) ==
    /\ message[k] = "bad"
    /\ Received(k, "forwarding", "reading")
    /\ UNCHANGED <<game, seat, unsent, socket, view>>

HandleMessage(k) ==
    \/ HandleResign(k)
    \/ HandleAbort(k)
    \/ HandleBad(k)
    \/ \E legal \in BOOLEAN, position \in PositionEndings \cup {Ongoing} :
          HandleMove(k, legal, position)

Receive(k) == HandleJoin(k) \/ HandleLeave(k) \/ HandleMessage(k)

(* Mutation of AfterTick: the loop goes back to its select without looking *)
(* at the Game.                                                            *)
TickIgnored == "select"

AfterTick == "check"

TakeTick ==
    /\ loop = "select" /\ tick
    /\ tick' = FALSE
    /\ loop' = AfterTick
    /\ UNCHANGED <<game, now, seat, done, registered, connVars, stored, freed>>

CheckResult ==
    /\ loop = "check"
    /\ game' = Settle(game, now)
    /\ loop' = IF Over(game') THEN "announce" ELSE "select"
    /\ tick' = (tick /\ ~Over(game'))
    /\ UNCHANGED <<now, seat, done, registered, connVars, stored, freed>>
-----------------------------------------------------------------------------
(* finish.                                                                 *)

(* Mutation of Informed: the Result is not broadcast.                      *)
NobodyInformed == {}

Informed == Listening

Announce ==
    /\ loop = "announce"
    /\ told' = [k \in Conns |-> IF k \in Informed THEN game.result ELSE told[k]]
    /\ loop' = "closeDone"
    /\ UNCHANGED <<game, now, tick, seat, done, registered,
                   handler, message, unsent, socket, view, stored, freed>>

(* Mutation of Closed: done is never closed.                               *)
LeftOpen == FALSE

Closed == TRUE

CloseDone ==
    /\ loop = "closeDone"
    /\ done' = Closed
    /\ loop' = "closeSeats"
    /\ UNCHANGED <<game, now, tick, seat, registered, connVars, stored, freed>>

Unclosed == {k \in Seated : socket[k] # "closed"}

CloseSeat(k) ==
    /\ loop = "closeSeats" /\ k \in Unclosed
    /\ socket' = [socket EXCEPT ![k] = "closed"]
    /\ view' = [view EXCEPT ![k] = NoView]
    /\ UNCHANGED <<roomVars, handler, message, unsent, told, stored, freed>>

(* SaveGameResult; an error is logged and the Room goes on.                *)
Save(ok) ==
    /\ loop = "closeSeats" /\ Unclosed = {}
    /\ stored' = IF ok THEN [plies |-> game.plies, result |-> game.result,
                             timeLeft |-> game.timeLeft]
                 ELSE stored
    /\ loop' = "free"
    /\ UNCHANGED <<game, now, tick, seat, done, registered, connVars, freed>>

(* UpdatePlayerRoom(idle) for each player, in the map's order.             *)
Free(side, ok) ==
    /\ loop = "free" /\ freed[side] = "todo"
    /\ freed' = [freed EXCEPT ![side] = IF ok THEN "done" ELSE "failed"]
    /\ UNCHANGED <<roomVars, connVars, stored>>

(* Mutation of AllFreed: one player will do.                               *)
OneFreed == \E s \in Sides : freed[s] # "todo"

AllFreed == \A s \in Sides : freed[s] # "todo"

Remove ==
    /\ loop = "free" /\ AllFreed
    /\ registered' = FALSE
    /\ loop' = "returned"
    /\ UNCHANGED <<game, now, tick, seat, done, connVars, stored, freed>>
-----------------------------------------------------------------------------
FinishStep ==
    \/ Announce
    \/ CloseDone
    \/ \E k \in Conns : CloseSeat(k)
    \/ \E ok \in BOOLEAN : Save(ok)
    \/ \E side \in Sides, ok \in BOOLEAN : Free(side, ok)
    \/ Remove

LoopStep == TakeTick \/ CheckResult \/ FinishStep \/ \E k \in Conns : Receive(k)

HandlerStep(k) ==
    \/ Connect(k)
    \/ \E m \in Messages : ReadMessage(k, m)
    \/ ReadError(k)
    \/ SendRefused(k)

Finished ==
    /\ loop = "returned" /\ now = Horizon
    /\ \A k \in Conns : handler[k] = "returned"
    /\ UNCHANGED vars

Next ==
    \/ Tick
    \/ LoopStep
    \/ \E k \in Conns : HandlerStep(k) \/ PeerGone(k)
    \/ Finished

(* Go schedules every runnable goroutine; the select of the loop picks     *)
(* among its ready cases at random, so a case that is ready again and      *)
(* again is taken in the end; a read on a socket that the server closed    *)
(* returns.  Peers owe nothing: they may stay silent for ever, or vanish   *)
(* without the server ever hearing of it.                                  *)
Fairness ==
    /\ WF_vars(Tick)
    /\ WF_vars(LoopStep)
    /\ SF_vars(TakeTick)
    /\ \A k \in Conns :
          /\ SF_vars(Receive(k))
          /\ WF_vars(socket[k] = "closed" /\ ReadError(k))
          /\ WF_vars(SendRefused(k))

Spec == Init /\ [][Next]_vars
FairSpec == Spec /\ Fairness
-----------------------------------------------------------------------------
TypeOK ==
    /\ now \in Nat
    /\ game \in [plies : Nat, turn : Sides, timeLeft : [Sides -> 0..TimeControl],
                 lastMoveAt : 0..now, result : Results \cup {NoResult}]
    /\ tick \in BOOLEAN
    /\ loop \in {"select", "check", "announce", "closeDone", "closeSeats", "free", "returned"}
    /\ seat \in [Sides -> Conns \cup {Nobody}]
    /\ done \in BOOLEAN
    /\ registered \in BOOLEAN
    /\ handler \in [Conns -> {"idle", "reading", "returned"} \cup Sending]
    /\ message \in [Conns -> Messages \cup {NoMessage}]
    /\ unsent \in [Conns -> 0..MaxMessages]
    /\ socket \in [Conns -> {"none", "open", "gone", "closed"}]
    /\ view \in [Conns -> [plies : Nat \cup {-1}, opponent : BOOLEAN]]
    /\ told \in [Conns -> Results \cup {NoResult}]
    /\ stored \in [plies : Nat \cup {-1}, result : Results \cup {NoResult},
                   timeLeft : [Sides -> 0..TimeControl]]
    /\ freed \in [Sides -> {"todo", "done", "failed"}]

(* A socket that has joined and is open is the one that holds its side's   *)
(* seat: however joins, leaves and reloads interleave, no side ever plays  *)
(* through two sockets, and no leave of an old socket empties the seat of  *)
(* a new one.                                                              *)
Joined(k) == handler[k] \in {"reading", "forwarding"} /\ socket[k] = "open"

OneSocketPerSide == \A k \in Conns : Joined(k) => seat[Owner[k]] = k

(* What a seated peer was shown (the snapshot of its join and the moves    *)
(* broadcast since) is the Game as it stands, and while the Game lasts it  *)
(* believes in an opponent exactly when there is one in the other seat.    *)
ViewInSync ==
    \A k \in Listening :
        /\ view[k].plies = game.plies
        /\ ~Over(game) => (view[k].opponent <=> seat[Opponent(Owner[k])] # Nobody)

(* A player who lost by disconnecting has no joined open socket: a leave   *)
(* that arrives after the player reloaded the page costs nothing.          *)
DisconnectMeansGone ==
    game.result.method = "disconnect" =>
        \A k \in Conns : Owner[k] = Opponent(game.result.winner) => ~Joined(k)

(* There is one account of how the Game ended: everybody who was told a    *)
(* Result was told the Game's, everybody still listening once done is      *)
(* closed was told, and the record holds the Game as it was announced.     *)
OneStory ==
    /\ \A k \in Conns : told[k] \in {NoResult, game.result}
    /\ done => Over(game) /\ \A k \in Listening : told[k] = game.result
    /\ stored # NoRecord => stored = [plies |-> game.plies, result |-> game.result,
                                     timeLeft |-> game.timeLeft]

(* The wind-down leaves nothing behind: a player is freed only when no     *)
(* handler can reach the Game and both sockets are closed, and the Room    *)
(* can be found in the registry until both players were dealt with, even   *)
(* if saving or freeing failed.                                            *)
FreedAfterClosing ==
    /\ (\E s \in Sides : freed[s] # "todo") => done /\ Unclosed = {}
    /\ ~registered => \A s \in Sides : freed[s] # "todo"

(* The Room closes the socket of a seated peer only after telling it the   *)
(* Result; only a socket that lost its seat is closed without a word.      *)
ClosedOnlyAfterNews ==
    [][\A k \in Conns :
          socket[k] = "open" /\ socket'[k] = "closed" /\ seat'[Owner[k]] = k
            => Over(game) /\ told[k] = game.result]_vars

(* Whatever the peers do or fail to do, the Game ends and the Room winds   *)
(* itself down and leaves the registry.                                    *)
RoomEnds == <>(loop = "returned" /\ ~registered)

(* No handler goroutine is left behind: once its socket is open it returns *)
(* in the end, whether it was reading, or blocked in send() while the loop *)
(* stopped receiving.                                                      *)
HandlersReturn ==
    \A k \in Conns : handler[k] = "joining" ~> handler[k] = "returned"

(* Seen from outside, a Room is a RoomLife.                                *)
Life == INSTANCE RoomLife WITH
    open    <- registered,
    outcome <- game.result,
    freed   <- freed

LifePromise == Life!Spec
=============================================================================
