----------------------------- MODULE Matchmaking -----------------------------
(***************************************************************************)
(* Matchmaking: the handlers of POST /matchmaking and /matchmaking/cancel, *)
(* the player states, the queues and the Pub/Sub channels in Redis, and    *)
(* the Rooms they open.                                                    *)
(*                                                                         *)
(* Every Redis command is atomic and a step of its own; between two of     *)
(* them any other request, any Room and the Redis server may act.  Pub/Sub *)
(* keeps nothing: a message reaches the requests subscribed at that moment *)
(* and no other.  A Room is what RoomLife promises: it ends some time,     *)
(* resets its two players one after the other (a reset may fail), and      *)
(* leaves the registry, which lives in the server process and is lost with *)
(* it.  Requests run on context.Background(): one whose client has gone    *)
(* runs to its end all the same.                                           *)
(*                                                                         *)
(* Both routes lie behind RequireAuth, which gives a player without a      *)
(* state one (AddIfNotExists), with an EXISTS and a SET of its own.        *)
(***************************************************************************)
EXTENDS ChessTypes, FiniteSets, SequencesExt

CONSTANTS Players,
          Unknown,     \* players whose state is not in Redis at first
          Modes,       \* time controls
          Searches,    \* requests to /matchmaking
          Cancels,     \* requests to /matchmaking/cancel
          By,          \* the player who sends each request
          Mode,        \* the time control of each search
          MaxCrashes,  \* bound: restarts of the server process
          MaxFaults    \* bound: commands to Redis that fail

ASSUME RequestAssumption ==
    /\ Unknown \subseteq Players
    /\ Searches \cap Cancels = {}
    /\ By \in [Searches \cup Cancels -> Players]
    /\ Mode \in [Searches -> Modes]
    /\ IsFiniteSet(Searches \cup Cancels)
    /\ IsFiniteSet(Modes) /\ "" \notin Modes   \* timeControls; "" is refused
    /\ MaxCrashes \in Nat
    /\ MaxFaults \in Nat

Requests == Searches \cup Cancels

VARIABLES
    state,   \* player:<id>, the PlayerState of each player
    queue,   \* matchmaking:queue:<mode>, a list of players
    rooms,   \* every Room ever created, by number
    pc,      \* where each request is
    read,    \* the PlayerState a request has read
    found,   \* the Room a request has created or was told of
    partner, \* the player a request has taken from the queue
    reply,   \* the answer to each request
    crashes,
    faults

shared == <<state, queue, rooms>>
local == <<read, found, partner>>
budget == <<crashes, faults>>
vars == <<shared, pc, local, reply, budget>>

NoRoom == 0       \* the room_id ""
NoMode == ""
NoPlayer == "nobody"
NoReply == [code |-> 0, room |-> NoRoom]

PlayerState(status, room, mode) == [status |-> status, room |-> room, mode |-> mode]

Idle == PlayerState("idle", NoRoom, NoMode)
NoState == PlayerState("none", NoRoom, NoMode)

RoomIds == 1..Len(rooms)
PlayersOf(r) == {rooms[r].players[s] : s \in Sides}

GetPlayerState(p) == state[p]
GetPlayerStatus(p) == state[p].status
GetPlayerRoom(p) == state[p].room
SetPlayerState(p, new) == state' = [state EXCEPT ![p] = new]
UpdatePlayerRoom(p, status, room) == SetPlayerState(p, PlayerState(status, room, NoMode))

(* Mutation of QueueKey: the key leaves the time control out.              *)
OneKey(mode) == CHOOSE m \in Modes : TRUE

QueueKey(mode) == mode
-----------------------------------------------------------------------------
Init ==
    /\ state = [p \in Players |-> IF p \in Unknown THEN NoState ELSE Idle]
    /\ queue = [m \in Modes |-> <<>>]
    /\ rooms = <<>>
    /\ pc = [q \in Requests |-> "idle"]
    /\ read = [q \in Requests |-> Idle]
    /\ found = [q \in Requests |-> NoRoom]
    /\ partner = [q \in Requests |-> NoPlayer]
    /\ reply = [q \in Requests |-> NoReply]
    /\ crashes = 0
    /\ faults = 0

At(q, here, there) ==
    /\ pc[q] = here
    /\ pc' = [pc EXCEPT ![q] = there]

Answer(q, code, room) == reply' = [reply EXCEPT ![q] = [code |-> code, room |-> room]]
-----------------------------------------------------------------------------
(* AddIfNotExists, on the way to either handler.                           *)

Exists(q) ==
    /\ At(q, "idle", IF state[By[q]] = NoState THEN "addState" ELSE "begin")
    /\ UNCHANGED <<shared, local, reply>>

AddState(q) ==
    /\ At(q, "addState", "begin")
    /\ SetPlayerState(By[q], Idle)
    /\ UNCHANGED <<queue, rooms, local, reply>>
-----------------------------------------------------------------------------
(* A search.                                                               *)

(* Without a state there is no status either, and the answer is 401.       *)
ReadStatus(q) ==
    /\ LET status == GetPlayerStatus(By[q])
       IN  \/ /\ status # "none"
              /\ At(q, "begin", IF status = "in_game" THEN "readRoom" ELSE "dequeue")
              /\ UNCHANGED reply
           \/ /\ status = "none"
              /\ At(q, "begin", "done")
              /\ Answer(q, 401, NoRoom)
    /\ UNCHANGED <<shared, local>>

(* The PlayerState is read a second time.                                  *)
ReadRoom(q) ==
    /\ At(q, "readRoom", "done")
    /\ Answer(q, 200, GetPlayerRoom(By[q]))
    /\ UNCHANGED <<shared, local>>

(* Mutation of Popped: LINDEX for LPOP.                                    *)
PeekedAt(m) == queue[m]

Popped(m) == Tail(queue[m])

(* DequeuePlayer: LPOP.                                                    *)
Dequeue(q) ==
    LET m == QueueKey(Mode[q])
    IN  /\ \/ /\ queue[m] # <<>>
              /\ At(q, "dequeue", "create")
              /\ partner' = [partner EXCEPT ![q] = Head(queue[m])]
              /\ queue' = [queue EXCEPT ![m] = Popped(m)]
           \/ /\ queue[m] = <<>>
              /\ At(q, "dequeue", "readState")
              /\ UNCHANGED <<queue, partner>>
        /\ UNCHANGED <<state, rooms, read, found, reply>>

ReadState(q) ==
    /\ At(q, "readState", "setInQueue")
    /\ read' = [read EXCEPT ![q] = GetPlayerState(By[q])]
    /\ UNCHANGED <<shared, found, partner, reply>>

(* Mutation of QueuedState: UpdatePlayerStatus in place of SetPlayerState. *)
StatusOnly(q) == [read[q] EXCEPT !.status = "in_queue"]

QueuedState(q) == PlayerState("in_queue", read[q].room, Mode[q])

SetInQueue(q) ==
    /\ At(q, "setInQueue", "enqueue")
    /\ SetPlayerState(By[q], QueuedState(q))
    /\ read' = [read EXCEPT ![q] = Idle]
    /\ UNCHANGED <<queue, rooms, found, partner, reply>>

(* EnqueuePlayer: RPUSH.                                                   *)
Enqueue(q) ==
    /\ At(q, "enqueue", "subscribe")
    /\ queue' = [queue EXCEPT ![QueueKey(Mode[q])] = Append(@, By[q])]
    /\ UNCHANGED <<state, rooms, local, reply>>

(* The subscription takes effect: from here on a publish is heard.         *)
Subscribe(q) ==
    /\ At(q, "subscribe", "waiting")
    /\ UNCHANGED <<shared, local, reply>>

(* A message is there: it is read.                                         *)
Notified(q) ==
    /\ found[q] # NoRoom
    /\ At(q, "waiting", "setInGame")
    /\ UNCHANGED <<shared, local, reply>>

(* Mutations of TimeOut and AfterTimeOut: the request waits for a message  *)
(* for ever; it leaves its entry in the queue.                             *)
NoTimeOut(q) == FALSE
EntryKept == "readForIdle"

AfterTimeOut == "unqueue"

(* 30 s are over; a message that came at the same moment is not read.      *)
TimeOut(q) ==
    /\ At(q, "waiting", AfterTimeOut)
    /\ found' = [found EXCEPT ![q] = NoRoom]
    /\ UNCHANGED <<shared, read, partner, reply>>

(* GameRooms.Create, with random colours.                                  *)
Create(q) ==
    /\ At(q, "create", "publish")
    /\ \E side \in Sides :
          rooms' = Append(rooms,
              [players |-> [s \in Sides |-> IF s = side THEN By[q] ELSE partner[q]],
               mode    |-> Mode[q],
               stage   |-> "live",
               freed   |-> [s \in Sides |-> "todo"]])
    /\ found' = [found EXCEPT ![q] = Len(rooms')]
    /\ UNCHANGED <<state, queue, read, partner, reply>>

(* Mutation of Hearers: one channel for everybody.                         *)
AllWhoWait(q) == {r \in Searches : pc[r] = "waiting"}

(* The requests subscribed to the channel of q's partner.                  *)
Hearers(q) == {r \in Searches : pc[r] = "waiting" /\ By[r] = partner[q]}

(* PublishMatch: only the first message that reaches a request is read.    *)
Publish(q) ==
    /\ At(q, "publish", "setInGame")
    /\ found' = [r \in Requests |->
                    IF r \in Hearers(q) /\ found[r] = NoRoom THEN found[q] ELSE found[r]]
    /\ partner' = [partner EXCEPT ![q] = NoPlayer]
    /\ UNCHANGED <<shared, read, reply>>

(* UpdatePlayerRoom(in_game) and the answer, on either side of the match.  *)
SetInGame(q) ==
    /\ At(q, "setInGame", "done")
    /\ UpdatePlayerRoom(By[q], "in_game", found[q])
    /\ Answer(q, 200, found[q])
    /\ found' = [found EXCEPT ![q] = NoRoom]
    /\ UNCHANGED <<queue, rooms, read, partner>>
-----------------------------------------------------------------------------
(* A cancel, and what it shares with a search that timed out.              *)

ReadForCancel(q) ==
    /\ LET now == GetPlayerState(By[q])
       IN  /\ At(q, "begin", IF now.mode # NoMode THEN "unqueue" ELSE "readForIdle")
           /\ read' = [read EXCEPT ![q] = now]
    /\ UNCHANGED <<shared, found, partner, reply>>

(* RemoveFromQueue: LREM 1, the first entry of the player.                 *)
Unqueue(q) ==
    /\ At(q, "unqueue", "readForIdle")
    /\ LET m == QueueKey(IF q \in Searches THEN Mode[q] ELSE read[q].mode)
       IN  queue' = [queue EXCEPT ![m] = RemoveFirst(@, By[q])]
    /\ UNCHANGED <<state, rooms, local, reply>>

(* UpdatePlayerStatus(idle): a GET, then a SET of what was read.           *)
ReadForIdle(q) ==
    /\ At(q, "readForIdle", "writeIdle")
    /\ read' = [read EXCEPT ![q] = GetPlayerState(By[q])]
    /\ UNCHANGED <<shared, found, partner, reply>>

AnswerIdle(q) == Answer(q, IF q \in Searches THEN 408 ELSE 200, NoRoom)

WriteIdle(q) ==
    /\ At(q, "writeIdle", "done")
    /\ SetPlayerState(By[q], [read[q] EXCEPT !.status = "idle"])
    /\ read' = [read EXCEPT ![q] = Idle]
    /\ AnswerIdle(q)
    /\ UNCHANGED <<queue, rooms, found, partner>>
-----------------------------------------------------------------------------
(* A command to Redis fails and has no effect.  Most errors are logged or  *)
(* dropped and the handler goes on as if the command had worked; a failed  *)
(* EXISTS reads as 0, and the state is overwritten; a failed LPOP yields   *)
(* the player id 0 and is taken for an empty queue; a failed read before   *)
(* WriteIdle is taken for a state without a Room; a SUBSCRIBE that does    *)
(* not get through in time ends in the timeout.                            *)

Refused(q) ==
    /\ \/ At(q, "begin", "done") /\ q \in Searches
       \/ At(q, "readRoom", "done")
    /\ Answer(q, 401, NoRoom)
    /\ UNCHANGED read

ReadsNothing(q) ==
    /\ \/ At(q, "begin", "readForIdle") /\ q \in Cancels
       \/ At(q, "readState", "setInQueue")
       \/ At(q, "readForIdle", "writeIdle")
    /\ read' = [read EXCEPT ![q] = Idle]
    /\ UNCHANGED reply

WritesNothing(q) ==
    /\ \/ At(q, "idle", "addState")
       \/ At(q, "addState", "begin")
       \/ At(q, "dequeue", "readState")
       \/ At(q, "setInQueue", "enqueue")
       \/ At(q, "enqueue", "subscribe")
       \/ At(q, "subscribe", "unqueue")
       \/ At(q, "unqueue", "readForIdle")
    /\ UNCHANGED <<read, reply>>

NotWritten(q) ==
    \/ /\ At(q, "setInGame", "done")
       /\ Answer(q, 200, found[q])
       /\ UNCHANGED read
    \/ /\ At(q, "writeIdle", "done")
       /\ AnswerIdle(q)
       /\ read' = [read EXCEPT ![q] = Idle]

Unheard(q) == At(q, "publish", "setInGame") /\ UNCHANGED <<read, reply>>

Fault(q) ==
    /\ faults < MaxFaults
    /\ faults' = faults + 1
    /\ Refused(q) \/ ReadsNothing(q) \/ WritesNothing(q) \/ NotWritten(q) \/ Unheard(q)
    /\ found' = [found EXCEPT ![q] = IF pc[q] = "publish" THEN @ ELSE NoRoom]
    /\ partner' = [partner EXCEPT ![q] = NoPlayer]
    /\ UNCHANGED <<shared, crashes>>
-----------------------------------------------------------------------------
(* The Rooms, as RoomLife has them.                                        *)

EndGame(r) ==
    /\ rooms[r].stage = "live"
    /\ rooms' = [rooms EXCEPT ![r].stage = "ended"]
    /\ UNCHANGED state

FreePlayer(r, side) ==
    /\ rooms[r].stage = "ended" /\ rooms[r].freed[side] = "todo"
    /\ \/ /\ UpdatePlayerRoom(rooms[r].players[side], "idle", NoRoom)
          /\ rooms' = [rooms EXCEPT ![r].freed[side] = "done"]
       \/ /\ rooms' = [rooms EXCEPT ![r].freed[side] = "failed"]
          /\ UNCHANGED state

CloseRoom(r) ==
    /\ rooms[r].stage = "ended" /\ \A s \in Sides : rooms[r].freed[s] # "todo"
    /\ rooms' = [rooms EXCEPT ![r].stage = "closed"]
    /\ UNCHANGED state

(* The server process dies and is restarted: Redis keeps the states and    *)
(* the queues, the Rooms and the requests under way are gone.              *)
Crash ==
    /\ crashes < MaxCrashes
    /\ crashes' = crashes + 1
    /\ rooms' = [r \in RoomIds |->
                   IF rooms[r].stage = "closed" THEN rooms[r]
                   ELSE [rooms[r] EXCEPT !.stage = "lost"]]
    /\ pc' = [q \in Requests |-> IF pc[q] \in {"idle", "done"} THEN pc[q] ELSE "dead"]
    /\ read' = [q \in Requests |-> Idle]
    /\ found' = [q \in Requests |-> NoRoom]
    /\ partner' = [q \in Requests |-> NoPlayer]
    /\ UNCHANGED <<state, queue, reply, faults>>
-----------------------------------------------------------------------------
SearchStep(q) ==
    /\ q \in Searches
    /\ \/ ReadStatus(q) \/ ReadRoom(q) \/ Dequeue(q)
       \/ ReadState(q) \/ SetInQueue(q) \/ Enqueue(q) \/ Subscribe(q)
       \/ Notified(q) \/ TimeOut(q)
       \/ Create(q) \/ Publish(q) \/ SetInGame(q)
    /\ UNCHANGED budget

CancelStep(q) == q \in Cancels /\ ReadForCancel(q) /\ UNCHANGED budget

AnyStep(q) ==
    /\ Exists(q) \/ AddState(q) \/ Unqueue(q) \/ ReadForIdle(q) \/ WriteIdle(q)
    /\ UNCHANGED budget

RoomStep(r) ==
    /\ EndGame(r) \/ CloseRoom(r) \/ \E side \in Sides : FreePlayer(r, side)
    /\ UNCHANGED <<queue, pc, local, reply, budget>>

RequestStep(q) == SearchStep(q) \/ CancelStep(q) \/ AnyStep(q)

Answered(q) == pc[q] \in {"done", "dead"}

Finished ==
    /\ \A q \in Requests : Answered(q)
    /\ \A r \in RoomIds : rooms[r].stage \in {"closed", "lost"}
    /\ UNCHANGED vars

Next ==
    \/ \E q \in Requests : RequestStep(q) \/ Fault(q)
    \/ \E r \in RoomIds : RoomStep(r)
    \/ Crash
    \/ Finished

Spec == Init /\ [][Next]_vars

(* Go runs every handler that is not blocked, and the wait is bounded by   *)
(* time.After.  Nobody has to send a request, and a Room may stay live.    *)
Fairness == \A q \in Requests : WF_vars(pc[q] # "idle" /\ RequestStep(q))

FairSpec == Spec /\ Fairness
-----------------------------------------------------------------------------
(* A player who waits has a time control, which a cancel goes by.          *)
PlayerStates ==
    {s \in [status : {"none", "idle", "in_queue", "in_game"}, room : RoomIds \cup {NoRoom},
            mode : Modes \cup {NoMode}] :
        /\ s.status = "none" => s = NoState
        /\ s.status = "in_queue" => s.mode # NoMode
        /\ s.status = "in_game" => s.mode = NoMode /\ s.room # NoRoom}

RoomRecords == [players : [Sides -> Players], mode : Modes,
                stage : {"live", "ended", "closed", "lost"},
                freed : [Sides -> {"todo", "done", "failed"}]]

Replies == [code : {0, 200, 401, 408}, room : RoomIds \cup {NoRoom}]

Places == {"idle", "addState", "begin", "readRoom", "dequeue", "readState", "setInQueue",
           "enqueue", "subscribe", "waiting", "unqueue", "readForIdle", "writeIdle",
           "create", "publish", "setInGame", "done", "dead"}

TypeOK ==
    /\ state \in [Players -> PlayerStates]
    /\ queue \in [Modes -> Seq(Players)]
    /\ rooms \in Seq(RoomRecords)
    /\ pc \in [Requests -> Places]
    /\ read \in [Requests -> PlayerStates]
    /\ found \in [Requests -> RoomIds \cup {NoRoom}]
    /\ partner \in [Requests -> Players \cup {NoPlayer}]
    /\ reply \in [Requests -> Replies]
    /\ crashes \in 0..MaxCrashes
    /\ faults \in 0..MaxFaults

(* A player is only ever sent to a Room with a seat for that player, by    *)
(* the stored state and by any answer, however requests of the same player *)
(* overlap.                                                                *)
RoomIsYours ==
    /\ \A p \in Players : state[p].room # NoRoom => p \in PlayersOf(state[p].room)
    /\ \A q \in Requests : reply[q].room # NoRoom => By[q] \in PlayersOf(reply[q].room)

(* One search yields at most one seat: the seats a player was given and    *)
(* the entries the player has in the queues are never more than the        *)
(* searches of that player that got as far as the queue.                   *)
Seats(p) == Cardinality({rs \in RoomIds \X Sides : rooms[rs[1]].players[rs[2]] = p})

Entries(p) ==
    Cardinality({mi \in Modes \X (1..Cardinality(Searches)) :
                    mi[2] <= Len(queue[mi[1]]) /\ queue[mi[1]][mi[2]] = p})

BeforeQueue == {"idle", "addState", "begin", "readRoom", "dequeue", "readState", "setInQueue",
                "enqueue"}

SeatPerSearch ==
    \A p \in Players :
        Seats(p) + Entries(p)
            <= Cardinality({q \in Searches : By[q] = p /\ pc[q] \notin BeforeQueue})

(* Both players of a Room have asked for its time control.                 *)
ModeAgreed ==
    \A r \in RoomIds : \A s \in Sides :
        \E q \in Searches : By[q] = rooms[r].players[s] /\ Mode[q] = rooms[r].mode

(* Nothing is left of a search that was answered: once all requests of a   *)
(* player are answered the player is not recorded as waiting, and if there *)
(* was one search, has no entry in a queue.  (A restart leaves both, and   *)
(* so does a command that fails.)                                          *)
NoTraceLeft ==
    faults = 0 => \A p \in Players :
        (\A q \in Requests : By[q] = p => pc[q] = "done") =>
            /\ state[p].status # "in_queue"
            /\ Cardinality({q \in Searches : By[q] = p}) = 1 => Entries(p) = 0

(* Every request that was begun is answered, or dies with the server.      *)
EveryRequestAnswered == \A q \in Requests : pc[q] # "idle" ~> Answered(q)
-----------------------------------------------------------------------------
(* What the code's comments promise and the code does not keep.            *)

(* "pairs the authenticated player with an opponent": the two sides of a   *)
(* Room are two players.                                                   *)
OpponentIsSomebodyElse ==
    \A r \in RoomIds : rooms[r].players[White] # rooms[r].players[Black]

(* "notifies both players": when all requests are answered, each player of *)
(* a Room has been answered with that Room.                                *)
Quiet == \A q \in Requests : pc[q] = "done"

BothAreNotified ==
    Quiet => \A r \in RoomIds : \A s \in Sides :
        \E q \in Searches : By[q] = rooms[r].players[s] /\ reply[q].room = r

(* "If already in a game, returns the existing room": when all requests    *)
(* are answered, every search that was sent to a game was sent to a Room,  *)
(* and the states that the next search goes by are true: whoever was sent  *)
(* to a live Room is recorded in a game, and nobody is recorded in a Room  *)
(* that has freed its players and closed.                                  *)
SentTo(p, r) == \E q \in Searches : By[q] = p /\ reply[q].room = r

ExistingRoomReturned ==
    Quiet =>
        /\ \A q \in Searches : reply[q].code = 200 => reply[q].room # NoRoom
        /\ \A p \in Players, r \in RoomIds :
              /\ rooms[r].stage = "live" /\ SentTo(p, r) => GetPlayerStatus(p) = "in_game"
              /\ rooms[r].stage = "closed" /\ (\A s \in Sides : rooms[r].freed[s] = "done") =>
                    ~(GetPlayerStatus(p) = "in_game" /\ GetPlayerRoom(p) = r)
=============================================================================
