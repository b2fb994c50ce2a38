# Verification of the chess server

TLA+ models of the chess server in `../src`, the TLC runs that check them on
small instances, and TLAPS proofs, for every value of the constants, of every
safety property of the Game, the Room, matchmaking, sessions and the page.
`PROJECT.json` is the index: components, runs, the source lines each definition
stands for, hazards, findings and theorems.

## The system

| Component | Source | State it keeps | Operations | Talks to |
|---|---|---|---|---|
| Game | `game/game.go` | board, moves, two clocks, time of the last move, Result | `Move`, `Abort`, `Resign`, `Disconnect`, `Result`, `State` | nobody: pure, the caller passes the time |
| Room | `controllers/gameController.go` | the Game, one socket per side, a command channel, `done` | one goroutine: join, message, leave, tick, `finish` | the handlers of its sockets, Redis, the registry |
| Rooms (registry) | same | live Rooms by id, under a mutex | `Create`, `get`, `remove` | matchmaking, WebSocket handler |
| Matchmaking | `controllers/matchmakingController.go` | none of its own | search (long poll, 30 s), cancel | Redis, the registry |
| Player state | `controllers/playerController.go` | `player:<id>` in Redis: status, room, mode | `SetPlayerState`, getters, `UpdatePlayerStatus`, `UpdatePlayerRoom`, `AddIfNotExists` | matchmaking, Rooms, signup, middleware |
| Redis helpers | `controllers/redisController.go` | queue per time control, channel per player, result records | RPUSH, LPOP, LREM, PUBLISH, SUBSCRIBE, SET | |
| Sessions | `controllers/authController.go`, `middleware/requireAuth.go`, `utils/getUser.go`, `models/` | users and sessions in PostgreSQL, two cookies per browser | signup, login, logout, refresh, authenticate, `GetUserId` | all protected routes, Player state |
| Browser client | `public/scripts/indexScript.js` | a copy of the game, an optimistic move, clocks counted down locally | message handlers, drag and drop, buttons | the Room, matchmaking, refresh |
| Pages, forms, start-up, deployment | `pageController.go`, `*Script.js` of the forms, `main.go`, `initializers/`, Helm, CI | none | | |

What is hard in it, and what correct means:

- **Game.** Nothing runs on a timer. A Game may be lost on the clock long before
  any command notices; each command *settles* first. Correct means: no command
  is ever one instant too late, time is charged once and to the right side, a
  Result is final, and all of it looks as if the clock had stopped the Game by
  itself.
- **Room.** Four kinds of goroutines meet on an unbuffered channel while peers
  reload, vanish and talk past the end of the Game. Correct means: one socket
  per side, a reload costs nothing, everybody hears the same Result before the
  socket is closed, no goroutine stays blocked, the Room always goes away, and
  the players are freed only once nothing can happen to their Game.
- **Matchmaking.** Every Redis command is a step; requests of the same player,
  of others and the wind-down of Rooms interleave between any two. Correct
  means: nobody gets a seat not asked for, nobody is sent to somebody else's
  Room, a search that is over leaves nothing behind, every request is answered.
- **Sessions.** A login is a deletion and an insertion, a renewal is a lookup and
  an issue, a logout a deletion and an answer; tokens expire at any point and
  the browser's cookies change when answers arrive. Correct means: one session
  per user, what was revoked stays revoked, only a password leads back in, and
  a browser is never two users at once.
- **Client.** The page shows a move before the server knows of it and has to tell
  its echo from other messages, over sockets that come and go. Correct means:
  the board follows the Game, and a move is confirmed or undone in the end.

## Modules

```
ChessTypes          sides, methods, results
  GameRules         the commands as operators: Game x input x time -> Game
    Game            the Game as a state machine      --implements--> ChessClock
    GameRulesProofs lemmas about each command
      GameProofs    the theorems about Game (extends Game too)
    Room            loop, handlers, sockets, finish  --implements--> RoomLife
      RoomProofs    the theorems about Room (extends GameRulesProofs too)
  Matchmaking       requests, Redis, Rooms as RoomLife has them, restarts
    MatchmakingProofs   types, Rooms and modes
      SeatProofs    seats, entries, and what a search leaves behind
  Client            a page, its sockets, the Room at their other end
    ClientProofs    the theorems about Client
Sessions            the table of sessions, calls, cookies, the clock
  SessionsProofs    the theorems about Sessions
MCGame, MCRoom, MCMatchmaking, MCSessions, MCClient    instances for TLC
```

**GameRules / Game.** A Game is a record: `plies` (`len(moves)`), `turn`,
`timeLeft`, `lastMoveAt`, `result`. `Settle`, `Charge`, `End`, `EndOnPosition`
are the functions of the same names; `AfterMove`, `AfterAbort`, `AfterForfeit`
are the exported commands, with the tests in the order of the code (`MoveError`,
`AbortError`). The board is abstracted: whether a move is legal and how the new
position ends the Game are chosen freely, except that no ending comes earlier
than chess allows (`EarliestPly`), since an ending in the first two plies would
be a position that chess cannot reach. `Game` lets an owner call any command for either side
at any time; `Tick` lets time pass.

**ChessClock** is the promise: time acts by itself, every unit takes one off the
running clock, and the Game is over in the very instant a clock reaches zero.
The refinement mapping shows a Game as `State` would report it now
(`Settle` and `clocks()`).

**Room.** `loop` is the program counter of `run` and `finish`; `handler[k]` that
of `HandleWebSocket` for connection `k`. Receiving a command and handling it is
one step (only the loop touches the Game and the sockets); the check for a
Result after it reads the clock again and is a step of its own; each step of
`finish` that someone else can see is separate: announce, close `done`, close
each socket, save, reset each player, leave the registry. A handler may read a
message that had arrived before its socket was closed. A peer may vanish with
or without the server noticing. Saving and resetting may fail. `view` and
`told` are what a peer was shown and told, through sockets that were open.

**RoomLife** is a Room seen from outside, and what Matchmaking assumes of it:
`EndGame`, `FreePlayer`, `CloseRoom` there are the steps of RoomLife.

**Matchmaking.** `pc[q]` is where a request is; each action is one Redis command
(or `Create`), `AddIfNotExists` of the middleware included (`Exists`, `AddState`).
`UpdatePlayerStatus` is its GET and its SET. A message on the
player's channel reaches the requests waiting at that moment (`found`); at the
timeout a message may or may not win. `Fault` makes any command of a request
fail, followed as the code does: mostly ignored; a failed EXISTS reads as 0; a
failed LPOP returns player 0 and is taken for an empty queue, so that the 500
branch is never reached.
`Crash` restarts the server: Redis keeps its data, requests and Rooms are lost.

**Sessions.** A call is one request of a browser: a signup, a login, a logout, or
a call to a protected route with the renewal that `fetchWithRefresh` makes of a
401. It carries the cookies of its sending; each statement that reads the clock
or touches the table is a step; its answer sets the browser's cookies, or is
lost. A token is the pair of its user and the second of its issue, because
`issueTokens` signs nothing else; the table maps each refresh token there can be
to `none`, `live` or `deleted`, because `gorm.Model` deletes softly and the unique
index keeps deleted rows. Both tokens of a login are signed in the same second
here; in the code a second may begin between the two, which makes two logins
collide less often but not differently. Users are never deleted, and passwords
are right: what is refused before the first write changes nothing.

**Client.** `page` is the state of the script (`ws`, `pendingMove`, `gameOver`, the
board as the moves played, what is in the player's hand, the two buttons); `up`
holds what is on its way on each socket, `down` what is on its way to the current
one; one that the Room closed (`Shut`) carries nothing more. One event handler of
the page is one step (the browser runs it to its end),
and so is one command of the Room, which is here only what the page can tell:
`Serve` follows `handle` and `handleMessage`, the other player moves and the Game
ends at will. chess.js refuses a move only of the side that is not to move; the
server may refuse a move that was chosen on another position than its own.

## Runs

| Run | Instance | What it shows |
|---|---|---|
| `game` | time control 4, window 3, 9 plies, 12 time units | the four invariants of Game, final Results, charging, refinement of ChessClock |
| `room` | White with two connections, Black with one, 1 message each, time control 1, window 2, 2 time units; White's connections symmetric | seats, reloads, what peers see and are told, order of the wind-down, a Room implements RoomLife |
| `room_live` | one connection each, time control 1, window 1, 2 time units, fairness | the Room ends, handlers return |
| `matchmaking` | ann (two tabs, new to Redis), bob: blitz; cat: rapid | seats per search, modes, nobody in a foreign Room |
| `matchmaking_faults` | ann (new to Redis) and bob search, ann cancels, one restart, one failing command, fairness | nothing is left, every request is answered |
| `sessions` | ann signs up at home and signs in on her phone; at home bob signs in or somebody signs out, and a call is made; access token 1 s, refresh token 2 s, 3 s, one fault | one session per user, revoked for good, cookies of one user |
| `client` | White's page, two sockets, 3 plies from the start or after 8 others, 3 clicks, fairness | the board follows the Game, a pending move is settled |
| `self_match`, `unnotified`, `stale_state`, `lost_session`, `lost_board` | two or three requests, or one socket and 4 plies | violations, see below |

*Bounds.* In `game`, 9 plies let a repetition end the Game and let each clock be
charged several times; 12 time units are more than both clocks together hold,
so either flag may fall, and the window is shorter than a clock so that both
limits matter. In `room`, three plies start the clocks, and two time units
reach the end of the window and overrun a clock; how clocks are charged is the
matter of `game`. One message per connection suffices for a
move in flight at every other event. A stranger is refused by `Connect` and
never appears again, so none is among the connections. In matchmaking two
searches of one player and one of another show all overlaps of a player with
himself; the fourth, in another mode, is the bystander. One restart and one
fault may strike anywhere. In `sessions`, an access token dies within the life of
its refresh token, and both within the run if they are issued by its second 1; two calls
that issue tokens to ann and one to bob show every overlap of deletions,
insertions and renewals, and a session that comes back would do so within one
second. In `client`, three clicks are two moves and an abort, or a move
made again; two sockets are one reconnection, with both joins, a leave and a
late move under way at once; after eight moves no abort is possible, but a
promotion is (`PromotionAt`). `Tick` stops at the horizon in all modules.

*Fairness.* `Room`: weak fairness of the loop, of a handler whose `send` can
return since `done` is closed, and of a read on a socket the server has closed:
Go runs runnable goroutines, and a read on a closed connection returns. Strong
fairness of receiving each command and of the tick, because `select` picks among
ready cases at random. Time goes on (`WF(Tick)`). Nothing is assumed of peers:
they may be silent for ever. Matchmaking: weak fairness of every request that
was begun (`time.After` bounds the wait). Rooms may live for ever, and nobody
has to send a request. `Client`: what was sent on a socket arrives or the socket
is lost, the Room receives every command (its own liveness, above), and the
browser dispatches every message; neither player has to do anything. `Sessions`
states no liveness: nothing in it waits. All liveness of the Room takes it that a
write to a socket returns; the code sets no deadline, and a peer that stops
reading without closing may hold up the loop.

`matchmaking_faults` states `NoTraceLeft` for runs without a fault only, and of
requests that were answered, not of those a restart killed: the code leaves
their entries and states behind.

## What the code's comments say and the code does not do

- *"pairs the authenticated player with an opponent"*: from two tabs, a player is
  his own opponent (`self_match`).
- *"If already in a game, returns the existing room"*: the room may be empty, read
  after the Room freed the player. `ExistingRoomReturned` asks more: that the
  states the next search goes by are true once all requests are answered. Two
  other overlaps break it as well: the search that opened a Room records
  `in_game` after the Room has freed the player, and `UpdatePlayerStatus` of a
  search that timed out writes back what it read before another search of the
  player was given a Room (`stale_state`).
- *"notifies both players via Pub/Sub"*: a player who is queued but not yet, or no
  longer, subscribed is not told (`unnotified`).
- *issueTokens "saves the new session"*: the second login of a user within one
  second does not (`lost_session`).
- *"drop the optimistic move and show the real position"*: after the refusal of
  another request the position shown may stay wrong (`lost_board`).

What the passing runs leave out says where the code is weak: `OneSession` excepts
users of whom two logins ran side by side (`crossed`) and calls whose deletion
failed; `CookiesAgree` browsers that were signed in or out during a renewal
(`raced`); `BoardFollows` pages whose player moved while an earlier request was
unanswered (`crossed`).

## Proofs

`GameProofs` proves about `Game`, for every time control, window, ply bound and
horizon (assumptions: both durations are positive naturals, `TimeAssumption`;
the bounds are naturals):

- `TypeCorrect`, `FlagCorrect`, `ResultCorrect`, `TimeCorrect`: the four
  invariants the run checks. They are proved together. `IInv` says the Game is
  `Good` at the current time, which is their conjunction (`IInvIsChecked`); none
  is inductive alone: that no clock goes below zero needs that the Game was
  settled in the same call, that a clock at zero means a finished Game, and that
  the last move is not in the future; the time balance needs the types.
- `FinalCorrect`, `ChargeCorrect`: the two action properties, from `IInv`.
- `ClockImplemented`: `Game` refines `ChessClock`. Each command, after its
  settling, acts on exactly what the wall clock shows (`ShownFresh`,
  `ChargeShown`), and leaves a Game that is again settled; a tick of the world
  is a tick of the abstract clock, also in the instant where it stops the Game
  with no command run (`TickShown`).

`GameRulesProofs` holds one lemma per command ("keeps a Good Game good", "what it
looks like on the wall clock", "adds at most one ply and only to a Game that was
not over"), free of any state machine: `RoomProofs` cites them as they are.

`RoomProofs` proves all eight safety properties of `Room`, for any number of
connections of any owners:

- `TypeCorrect`, `OneSocketCorrect`, `DisconnectCorrect`, `ViewCorrect`,
  `StoryCorrect`, `FreedCorrect`: the invariants. `IInv` adds to them what ties
  the loop, the seats and the handlers together: the Game is `Good` now; only an
  upgraded connection has a socket, and only a joined one a seat, of its own side
  (`SeatsFit`); how far `finish` is says whether `done` is closed and the Room
  registered (`LoopFits`); nobody is told anything before the announcement, and
  all who listen are told then (`ToldFits`); nothing is saved or freed before
  every seat's socket is closed (`StoreFits`). `OneStory`, for instance, is not
  inductive: that the record agrees with what was told needs that the Game
  cannot change between the announcement and the save.
- `NewsCorrect`: the action property about closed sockets, from `IInv`.
- `LifeImplemented`: a Room refines `RoomLife`. Matchmaking's Rooms take the
  steps of RoomLife, so this is what joins the two halves of the server.

`SessionsProofs` proves, for any users, browsers, calls and token lifetimes:

- `TypeCorrect`, `OneSessionCorrect`, `CookiesCorrect`. `OneSession` is not
  inductive: `SessionsFit` adds that between the DELETE and the INSERT of a login
  its user has no session and no other login is there, unless two crossed.
  `CookiesAgree` needs what a renewal carries at each of its steps: `SignedFor`
  (a login signs for the user whose password it sent) and `RenewalFits` (a renewal
  signs for the user of its refresh token, which is the browser's).
- `RevokedCorrect`, `PasswordsCorrect`: the action properties. Both rest on one
  lemma (`OnlyTable`): the two actions that write the table, and that the unique
  index keeps the rows of deleted tokens.

`MatchmakingProofs` and `SeatProofs` prove about `Matchmaking`, for any players,
modes and requests, any number of restarts and failed commands. There are three
inductive invariants, each resting on the one before:

- `Sound`: whoever is in a queue has searched with its time control, and every
  Room a player's state, a request or an answer names seats that player. It
  gives `TypeCorrect`, `RoomCorrect`, `ModeCorrect`. `RoomIsYours` alone is not inductive, since
  a request carries a Room (what it read, what it was told of) over several
  steps before it writes it.
- `Counted`: seats, entries in the queues and entries taken out but not yet
  seated (`Taken`) are at most the player's searches that were `Served`. It gives
  `SeatCorrect`; without `Taken` the count drops at LPOP, and nothing says that
  the seat that follows was paid for. LPOP and LREM are both "a queue without
  one entry" (`TakenOut`), and `MoveUp` shows, by an injection of the new slots into
  the old ones, that this leaves one slot fewer. That LREM takes the *first*
  entry rests on `LeastOf`, the least element of a set of numbers.
- `Cleared`: while no command has failed, a player recorded as waiting has a
  search that will still write another state, and the entry of a player's only
  search is there only while that search waits or is about to remove it. It gives
  `NoTraceCorrect`. A search that was told of a Room goes on without removing
  anything: that it has no entry is `Counted` again, since it has a seat.

`ClientProofs` proves about `Client`, for any moves to choose from, any number of
sockets and any bounds:

- `TypeCorrect`. That a pending move is on the board, with the opponent to move,
  needs that the page knows its colour then: `Mine` compares with it.
- `BoardCorrect`: `BoardFollows` is stated by the ply numbers the messages carry
  (`LeadsTo`), so that it needs no recursion over them. Its invariant has four
  more parts. `SocketsFit`: a snapshot is the first thing its socket carries, a
  join the first thing the Room gets from it, and the Room keeps the seated socket
  of a running Game open. `OneAsked`: while the player waits for answers, at most
  one move is under way to the Room on all sockets together. `Following`: the
  board the page will have after a snapshot it has yet to replay leads to the
  Game already. `PendingFits`: a pending move is either `Waiting`, on its way with
  no abort before it and chosen on the very position the Game has, so that the Room
  cannot refuse it, or `Granted`, with its echo ahead of any error. This is why an
  error never takes back a move of such a player.
- `RealPositionIfPatient`: the comment that `lost_board` refutes ("show the real
  position") is kept for a player who never moves while a request is unanswered.
  The two results together say exactly which players can lose their board.

Assumptions on the constants, all named: the two durations of a Game are positive
naturals, bounds are naturals; owners and requests have the shape of a
function; searches and cancels are different and finitely many (a run of the
server receives finitely many requests up to any moment; the count of
`SeatPerSearch` is a cardinality); the time controls are a finite set without
the empty name, as the map `timeControls` and the check of the handler make
them. In `Sessions` lifetimes are positive and an access token lives shorter than
a refresh token, every call has a browser and a user, and the registered users are
users. In `Room` every connection belongs to a side or to nobody, as `ColorFor`
says, and `Nobody` is no connection. In `Client` the page plays one of the two
sides and an even number of moves was made before it was opened.

Only model-checked:

- liveness (`RoomEnds`, `HandlersReturn`, `EveryRequestAnswered`, `PendingResolves`):
  liveness under fairness is out of the prover's reach;
- the five violations, which are counterexamples.

Each inductive invariant was checked by TLC on the instances of the runs before
it was proved.

## Not modelled

The chess rules themselves (notnil/chess), message formats, the 400 answers to
malformed requests, a write that blocks on a stalled peer, what a late answer
to a cancelled search does to the matchmaking button (its requests are those of
Matchmaking), what the page only shows (clocks counting down, texts), the forms,
pages, start-up and deployment. Two replicas of the server would split the registry: the model has
one process, as the code supposes. Commands that fail in Redis have no effect in
the model; one that worked and whose answer was lost is not distinguished.

## Plan

1. *Done*: Game, Room, Matchmaking, Sessions and Client, model-checked.
2. *Done*: the proofs: every invariant and action property the runs check, and
   the refinements of `ChessClock` and `RoomLife`.
3. Left: to state what the composition of the parts promises a player from login
   to result in one place, and a single abstract specification of matchmaking that
   `Matchmaking` refines.
