------------------------ MODULE MatchmakingProofs -------------------------
(***************************************************************************)
(* Theorems about module Matchmaking, for any players, time controls and   *)
(* requests, and any number of crashes and failed commands: the types, and *)
(* where the numbers of Rooms and the names in the queues come from.       *)
(***************************************************************************)
EXTENDS Matchmaking, FiniteSetTheorems, SequenceTheorems, WellFoundedInduction, TLAPS

-----------------------------------------------------------------------------
(* The inductive invariant, in parts.                                      *)

Searched(p, m) == \E q \in Searches : By[q] = p /\ Mode[q] = m

(* Whoever is in a queue has searched with its time control.               *)
QueueFits == \A m \in Modes : \A i \in 1..Len(queue[m]) : Searched(queue[m][i], m)

Seated(p, r) == r # NoRoom => \E s \in Sides : rooms[r].players[s] = p

(* A search that opens a Room opens it with somebody who has searched with *)
(* the same time control.  A request that goes to a Room knows which one,  *)
(* and every Room it was told of, has read of or has answered with seats   *)
(* its player; one that has yet to publish the match has its partner in    *)
(* that Room.                                                              *)
RequestFits(q) ==
    /\ q \in Searches /\ pc[q] = "create" => Searched(partner[q], Mode[q])
    /\ pc[q] \in {"publish", "setInGame"} => found[q] # NoRoom
    /\ pc[q] = "publish" => Seated(partner[q], found[q])
    /\ Seated(By[q], found[q])
    /\ Seated(By[q], read[q].room)
    /\ Seated(By[q], reply[q].room)

Sound ==
    /\ TypeOK
    /\ QueueFits
    /\ \A p \in Players : Seated(p, state[p].room)
    /\ \A q \in Requests : RequestFits(q)
    /\ ModeAgreed
-----------------------------------------------------------------------------
(* A nonempty set of naturals has a least element: the one Min chooses.    *)
LEMMA LeastOf ==
    ASSUME NEW I \in SUBSET Nat, I # {}
    PROVE  Min(I) \in I /\ \A i \in I : Min(I) <= i
<1> DEFINE R == StrictSubsetOrdering(Nat)
           T == {0..i : i \in I}
<1>1. T \subseteq FiniteSubsetsOf(Nat) /\ T # {}
  <2>1. \A i \in I : 0..i \subseteq Nat /\ IsFiniteSet(0..i)
    BY FS_Interval
  <2> QED BY <2>1 DEF FiniteSubsetsOf
<1>2. PICK x \in T : \A y \in T : <<y, x>> \notin R
  <2>1. IsWellFoundedOn(R, FiniteSubsetsOf(Nat))
    BY FS_StrictSubsetOrderingWellFounded
  <2> HIDE DEF R, T
  <2> QED BY <1>1, <2>1, WFMin
<1>3. PICK m \in I : x = 0..m
  OBVIOUS
<1>4. \A i \in I : m <= i
  <2> SUFFICES ASSUME NEW i \in I, i < m PROVE FALSE
    OBVIOUS
  <2>2. <<0..i, 0..m>> \in R
    <3> QED BY DEF StrictSubsetOrdering
  <2> QED BY <1>2, <1>3, <2>2
<1> QED BY <1>4 DEF Min

(* t is s without its entry number k.                                      *)
IsWithout(t, s, k) ==
    /\ Len(t) = Len(s) - 1
    /\ \A i \in 1..Len(s) - 1 : t[i] = IF i < k THEN s[i] ELSE s[i + 1]

(* LREM takes out one entry of the player, if there is one, and closes the *)
(* gap.                                                                    *)
LEMMA Removing ==
    ASSUME NEW S, NEW s \in Seq(S), NEW e, NEW i0 \in 1..Len(s), s[i0] = e
    PROVE  \E k \in 1..Len(s) :
              /\ s[k] = e
              /\ RemoveFirst(s, e) \in Seq(S)
              /\ IsWithout(RemoveFirst(s, e), s, k)
<1> DEFINE I == {i \in 1..Len(s) : s[i] = e}
<1>1. I \in SUBSET Nat /\ I # {}
  OBVIOUS
<1>2. PICK k \in 1..Len(s) : s[k] = e /\ k = Min(I)
  <2>1. Min(I) \in I
    <3> HIDE DEF I
    <3> QED BY <1>1, LeastOf
  <2> QED BY <2>1
<1>3. RemoveFirst(s, e) = SubSeq(s, 1, k - 1) \o SubSeq(s, k + 1, Len(s))
  BY <1>2 DEF RemoveFirst, SelectInSeq, RemoveAt
<1> DEFINE front == SubSeq(s, 1, k - 1)
           back == SubSeq(s, k + 1, Len(s))
<1>4. /\ front \in Seq(S) /\ Len(front) = k - 1
      /\ \A i \in 1..k - 1 : front[i] = s[i]
  BY SubSeqProperties
<1>5. /\ back \in Seq(S) /\ Len(back) = Len(s) - k
      /\ \A i \in 1..Len(s) - k : back[i] = s[k + i]
  BY SubSeqProperties
<1> HIDE DEF front, back
<1>6. RemoveFirst(s, e) = front \o back
  BY <1>3 DEF front, back
<1>7. /\ front \o back \in Seq(S)
      /\ Len(front \o back) = Len(s) - 1
      /\ \A i \in 1..Len(s) - 1 :
            (front \o back)[i] = IF i <= k - 1 THEN front[i] ELSE back[i - (k - 1)]
  BY <1>4, <1>5, ConcatProperties
<1>8. ASSUME NEW i \in 1..Len(s) - 1
      PROVE  (front \o back)[i] = IF i < k THEN s[i] ELSE s[i + 1]
  <2>1. CASE i < k
    BY <1>4, <2>1
  <2>2. CASE ~(i < k)
    <3>1. i - (k - 1) \in 1..Len(s) - k /\ k + (i - (k - 1)) = i + 1
      BY <2>2
    <3>2. back[i - (k - 1)] = s[i + 1]
      BY <1>5, <3>1
    <3> QED BY <1>7, <2>2, <3>2
  <2> QED BY <2>1, <2>2
<1> QED BY <1>2, <1>6, <1>7, <1>8 DEF IsWithout

(* LREM of a player who is not there changes nothing.                      *)
LEMMA NothingToRemove ==
    ASSUME NEW s, NEW e, \A i \in 1..Len(s) : s[i] # e
    PROVE  RemoveFirst(s, e) = s
BY DEF RemoveFirst

(* The values that are written.                                            *)
LEMMA Values ==
    /\ NoState \in PlayerStates /\ Idle \in PlayerStates
    /\ NoState.room = NoRoom /\ Idle.room = NoRoom
    /\ \A s \in PlayerStates :
          /\ s.room \in RoomIds \cup {NoRoom}
          /\ [s EXCEPT !.status = "idle"] \in PlayerStates
          /\ [s EXCEPT !.status = "idle"].room = s.room
          /\ s.status = "in_game" => s.room # NoRoom
          /\ \A m \in Modes : PlayerState("in_queue", s.room, m) \in PlayerStates
    /\ \A r \in RoomIds \cup {NoRoom} :
          /\ PlayerState("idle", r, NoMode) \in PlayerStates
          /\ r # NoRoom => PlayerState("in_game", r, NoMode) \in PlayerStates
          /\ \A code \in {200, 401, 408} : [code |-> code, room |-> r] \in Replies
<1> USE DEF PlayerState, NoState, Idle, NoRoom, NoMode
<1>1. /\ NoState \in PlayerStates /\ Idle \in PlayerStates
      /\ NoState.room = NoRoom /\ Idle.room = NoRoom
  BY DEF PlayerStates
<1>2. ASSUME NEW s \in PlayerStates
      PROVE  /\ s.room \in RoomIds \cup {NoRoom}
             /\ [s EXCEPT !.status = "idle"] \in PlayerStates
             /\ [s EXCEPT !.status = "idle"].room = s.room
             /\ s.status = "in_game" => s.room # NoRoom
  BY DEF PlayerStates
<1>3. ASSUME NEW s \in PlayerStates, NEW m \in Modes
      PROVE  PlayerState("in_queue", s.room, m) \in PlayerStates
  <2>1. m # ""
    BY RequestAssumption
  <2>2. s.room \in RoomIds \cup {NoRoom}
    BY <1>2
  <2> QED BY <2>1, <2>2 DEF PlayerStates
<1>4. ASSUME NEW r \in RoomIds \cup {NoRoom}
      PROVE  /\ PlayerState("idle", r, NoMode) \in PlayerStates
             /\ r # NoRoom => PlayerState("in_game", r, NoMode) \in PlayerStates
  BY DEF PlayerStates
<1>5. ASSUME NEW r \in RoomIds \cup {NoRoom}, NEW code \in {200, 401, 408}
      PROVE  [code |-> code, room |-> r] \in Replies
  BY DEF Replies
<1> HIDE DEF PlayerState, NoState, Idle, NoRoom, NoMode
<1> QED BY <1>1, <1>2, <1>3, <1>4, <1>5

(* As long as no Room is added or moves on, the sets that name Rooms stay. *)
LEMMA SameRooms ==
    ASSUME UNCHANGED rooms
    PROVE  /\ RoomIds' = RoomIds /\ PlayerStates' = PlayerStates /\ Replies' = Replies
           /\ ModeAgreed => ModeAgreed'
BY DEF RoomIds, PlayerStates, Replies, ModeAgreed

(* The Room of a state that is written.                                    *)
LEMMA RoomWritten ==
    \A status, room, mode : PlayerState(status, room, mode).room = room
BY DEF PlayerState

-----------------------------------------------------------------------------
(* Most steps of a request write to what is its own, and to its player's   *)
(* state: what Sound says of the other requests stays as it is.            *)
Own(q) ==
    /\ state' = [state EXCEPT ![By[q]] = state'[By[q]]]
    /\ pc' = [pc EXCEPT ![q] = pc'[q]]
    /\ read' = [read EXCEPT ![q] = read'[q]]
    /\ found' = [found EXCEPT ![q] = found'[q]]
    /\ partner' = [partner EXCEPT ![q] = partner'[q]]
    /\ reply' = [reply EXCEPT ![q] = reply'[q]]

Typed(q) ==
    /\ state[By[q]] \in PlayerStates
    /\ pc[q] \in Places
    /\ read[q] \in PlayerStates
    /\ found[q] \in RoomIds \cup {NoRoom}
    /\ partner[q] \in Players \cup {NoPlayer}
    /\ reply[q] \in Replies

(* A request that does not move still fits while the Rooms stay.           *)
LEMMA FitsKept ==
    ASSUME NEW r, RequestFits(r), UNCHANGED rooms,
           pc'[r] = pc[r], read'[r] = read[r], found'[r] = found[r],
           partner'[r] = partner[r], reply'[r] = reply[r]
    PROVE  RequestFits(r)'
<1>1. ASSUME NEW p, NEW n, Seated(p, n)
      PROVE  Seated(p, n)'
  BY <1>1 DEF Seated
<1> QED BY <1>1 DEF RequestFits

(* A step that writes only to its own request and player keeps Sound, if   *)
(* what it writes fits.                                                    *)
LEMMA OwnStep ==
    ASSUME Sound, NEW q \in Requests, UNCHANGED rooms, Own(q),
           Typed(q)', RequestFits(q)', Seated(By[q], state[By[q]].room)',
           queue' \in [Modes -> Seq(Players)], QueueFits',
           crashes' \in 0..MaxCrashes, faults' \in 0..MaxFaults
    PROVE  Sound'
<1> USE RequestAssumption DEF Sound
<1>1. RoomIds' = RoomIds /\ PlayerStates' = PlayerStates /\ Replies' = Replies
  BY SameRooms
<1>3. TypeOK'
  BY <1>1 DEF TypeOK, Own, Typed
<1>4. ASSUME NEW p \in Players
      PROVE  Seated(p, state[p].room)'
  BY DEF TypeOK, Own, Seated
<1>5. ASSUME NEW r \in Requests
      PROVE  RequestFits(r)'
  <2>2. CASE r # q
    <3>1. RequestFits(r)
      OBVIOUS
    <3>2. /\ pc'[r] = pc[r] /\ read'[r] = read[r] /\ found'[r] = found[r]
          /\ partner'[r] = partner[r] /\ reply'[r] = reply[r]
      BY <2>2 DEF TypeOK, Own
    <3> QED BY <3>1, <3>2, FitsKept
  <2> QED BY <2>2
<1>6. ModeAgreed'
  BY SameRooms
<1> QED BY <1>3, <1>4, <1>5, <1>6

(* What Sound says of one request, before its step.                        *)
LEMMA OwnFacts ==
    ASSUME Sound, NEW q \in Requests
    PROVE  /\ Typed(q) /\ RequestFits(q)
           /\ By[q] \in Players /\ Seated(By[q], state[By[q]].room)
BY RequestAssumption DEF Sound, TypeOK, Typed, Requests

(* A queue gets a new content.                                             *)
LEMMA QueueWritten ==
    ASSUME Sound, NEW m \in Modes, NEW new \in Seq(Players),
           queue' = [queue EXCEPT ![m] = new],
           \A i \in 1..Len(new) : Searched(new[i], m)
    PROVE  queue' \in [Modes -> Seq(Players)] /\ QueueFits'
<1>1. queue' \in [Modes -> Seq(Players)]
  BY DEF Sound, TypeOK
<1>3. QueueFits'
  BY DEF Sound, QueueFits
<1> QED BY <1>1, <1>3

(* When a Room is added, or moves on, nobody loses a seat.                 *)
LEMMA RoomsKept ==
    ASSUME Sound, rooms' \in Seq(RoomRecords), Len(rooms) <= Len(rooms'),
           \A r \in RoomIds : rooms'[r].players = rooms[r].players
    PROVE  /\ RoomIds \subseteq RoomIds'
           /\ \A s \in PlayerStates : s \in PlayerStates'
           /\ \A a \in Replies : a \in Replies'
           /\ \A p, r : r \in RoomIds \cup {NoRoom} /\ Seated(p, r) => Seated(p, r)'
<1>2. RoomIds \subseteq RoomIds'
  BY DEF RoomIds
<1> QED BY <1>2 DEF PlayerStates, Replies, Seated

(* The middleware looks for the player's state.                            *)
LEMMA ExistsSound ==
    ASSUME Sound, NEW q \in Requests, Exists(q), UNCHANGED budget
    PROVE  Sound'
<1> USE DEF Exists, At
<1>2. Typed(q) /\ RequestFits(q) /\ Seated(By[q], state[By[q]].room)
  BY OwnFacts
<1>3. Own(q) /\ UNCHANGED rooms
  BY DEF Own, Sound, TypeOK, shared, local
<1>4. Typed(q)'
  BY <1>2 DEF Typed, Places, RoomIds, PlayerStates, Replies, shared, local
<1>5. RequestFits(q)' /\ Seated(By[q], state[By[q]].room)'
  BY <1>2 DEF RequestFits, Seated, shared, local
<1>6. queue' \in [Modes -> Seq(Players)] /\ QueueFits'
  BY DEF Sound, TypeOK, QueueFits, shared
<1>7. crashes' \in 0..MaxCrashes /\ faults' \in 0..MaxFaults
  BY DEF Sound, TypeOK, budget
<1> HIDE DEF Exists
<1> QED BY <1>3, <1>4, <1>5, <1>6, <1>7, OwnStep

(* The middleware writes a first state.                                    *)
LEMMA AddStateSound ==
    ASSUME Sound, NEW q \in Requests, AddState(q), UNCHANGED budget
    PROVE  Sound'
<1> USE DEF AddState, SetPlayerState, At
<1>1. q \in Requests /\ By[q] \in Players
  BY RequestAssumption DEF Requests
<1>2. Typed(q) /\ RequestFits(q) /\ Seated(By[q], state[By[q]].room)
  BY OwnFacts
<1>3. Own(q) /\ UNCHANGED rooms
  BY DEF Own, Sound, TypeOK, local
<1>4. Typed(q)'
  BY <1>2, Values DEF Typed, Places, RoomIds, PlayerStates, Replies, local
<1>5. RequestFits(q)' /\ Seated(By[q], state[By[q]].room)'
  BY <1>1, Values DEF RequestFits, Seated, Sound, local
<1>6. queue' \in [Modes -> Seq(Players)] /\ QueueFits'
  BY DEF Sound, TypeOK, QueueFits
<1>7. crashes' \in 0..MaxCrashes /\ faults' \in 0..MaxFaults
  BY DEF Sound, TypeOK, budget
<1> HIDE DEF AddState
<1> QED BY <1>3, <1>4, <1>5, <1>6, <1>7, OwnStep

(* The first read of a search.                                             *)
LEMMA ReadStatusSound ==
    ASSUME Sound, NEW q \in Searches, ReadStatus(q), UNCHANGED budget
    PROVE  Sound'
<1> USE DEF ReadStatus, Answer, At
<1>1. q \in Requests /\ By[q] \in Players
  BY RequestAssumption DEF Requests
<1>2. Typed(q) /\ RequestFits(q) /\ Seated(By[q], state[By[q]].room)
  BY <1>1, OwnFacts
<1>3. Own(q) /\ UNCHANGED rooms
  BY DEF Own, Sound, TypeOK, shared, local
<1>4. Typed(q)'
  BY <1>1 DEF Typed, Places, RoomIds, PlayerStates, Replies, Sound, TypeOK, shared, local
<1>5. RequestFits(q)' /\ Seated(By[q], state[By[q]].room)'
  BY <1>1, <1>2, Values, RoomWritten
     DEF Typed, RequestFits, Seated, Sound, TypeOK, shared, local
<1>6. queue' \in [Modes -> Seq(Players)] /\ QueueFits'
  BY DEF Sound, TypeOK, QueueFits, shared
<1>7. crashes' \in 0..MaxCrashes /\ faults' \in 0..MaxFaults
  BY DEF Sound, TypeOK, budget
<1> HIDE DEF ReadStatus
<1> QED BY <1>1, <1>3, <1>4, <1>5, <1>6, <1>7, OwnStep

(* The second read of a search.                                            *)
LEMMA ReadRoomSound ==
    ASSUME Sound, NEW q \in Searches, ReadRoom(q), UNCHANGED budget
    PROVE  Sound'
<1> USE DEF ReadRoom, GetPlayerRoom, Answer, At
<1>1. q \in Requests /\ By[q] \in Players
  BY RequestAssumption DEF Requests
<1>2. Typed(q) /\ RequestFits(q) /\ Seated(By[q], state[By[q]].room)
  BY <1>1, OwnFacts
<1>3. Own(q) /\ UNCHANGED rooms
  BY DEF Own, Sound, TypeOK, shared, local
<1>4. Typed(q)'
  BY <1>2 DEF Typed, Places, RoomIds, PlayerStates, Replies, shared, local
<1>5. RequestFits(q)' /\ Seated(By[q], state[By[q]].room)'
  BY <1>1, <1>2, Values, RoomWritten
     DEF Typed, RequestFits, Seated, Sound, TypeOK, shared, local
<1>6. queue' \in [Modes -> Seq(Players)] /\ QueueFits'
  BY DEF Sound, TypeOK, QueueFits, shared
<1>7. crashes' \in 0..MaxCrashes /\ faults' \in 0..MaxFaults
  BY DEF Sound, TypeOK, budget
<1> HIDE DEF ReadRoom
<1> QED BY <1>1, <1>3, <1>4, <1>5, <1>6, <1>7, OwnStep

(* LPOP.                                                                   *)
LEMMA DequeueSound ==
    ASSUME Sound, NEW q \in Searches, Dequeue(q), UNCHANGED budget
    PROVE  Sound'
<1> USE DEF Dequeue, QueueKey, Popped, At
<1>1. q \in Requests /\ By[q] \in Players
  BY RequestAssumption DEF Requests
<1>0. /\ Mode[q] \in Modes /\ queue[Mode[q]] \in Seq(Players)
      /\ queue[Mode[q]] # <<>> =>
            /\ Head(queue[Mode[q]]) \in Players /\ Searched(Head(queue[Mode[q]]), Mode[q])
            /\ Tail(queue[Mode[q]]) \in Seq(Players)
            /\ \A i \in 1..Len(Tail(queue[Mode[q]])) : Searched(Tail(queue[Mode[q]])[i], Mode[q])
  <2>1. Mode[q] \in Modes
    BY RequestAssumption
  <2>2. queue[Mode[q]] \in Seq(Players)
    BY <2>1 DEF Sound, TypeOK
  <2>3. \A i \in 1..Len(queue[Mode[q]]) : Searched(queue[Mode[q]][i], Mode[q])
    BY <2>1 DEF Sound, QueueFits
  <2> QED BY <2>1, <2>2, <2>3
<1>2. Typed(q) /\ RequestFits(q) /\ Seated(By[q], state[By[q]].room)
  BY <1>1, OwnFacts
<1>3. Own(q) /\ UNCHANGED rooms
  BY DEF Own, Sound, TypeOK
<1>4. Typed(q)'
  <2>1. partner'[q] \in Players \cup {NoPlayer}
    BY <1>0, <1>2 DEF Typed, Sound, TypeOK
  <2> QED BY <1>2, <2>1 DEF Typed, Places, RoomIds, PlayerStates, Replies, Sound, TypeOK
<1>5. RequestFits(q)' /\ Seated(By[q], state[By[q]].room)'
  <2>1. pc'[q] = "create" => Searched(partner'[q], Mode[q])
    BY <1>0 DEF Sound, TypeOK
  <2>2. pc'[q] \in {"create", "readState"}
    BY <1>1 DEF Sound, TypeOK
  <2>3. UNCHANGED <<state, rooms, read, found, reply>>
    OBVIOUS
  <2> HIDE DEF Dequeue
  <2> QED BY <1>2, <2>1, <2>2, <2>3 DEF RequestFits, Seated
<1>6. queue' \in [Modes -> Seq(Players)] /\ QueueFits'
  <2>1. CASE queue[Mode[q]] # <<>>
    BY <1>0, <2>1, QueueWritten
  <2>2. CASE queue[Mode[q]] = <<>>
    BY <2>2 DEF Sound, TypeOK, QueueFits
  <2> QED BY <2>1, <2>2
<1>7. crashes' \in 0..MaxCrashes /\ faults' \in 0..MaxFaults
  BY DEF Sound, TypeOK, budget
<1> HIDE DEF Dequeue
<1> QED BY <1>1, <1>3, <1>4, <1>5, <1>6, <1>7, OwnStep

(* The read before the wait.                                               *)
LEMMA ReadStateSound ==
    ASSUME Sound, NEW q \in Searches, ReadState(q), UNCHANGED budget
    PROVE  Sound'
<1> USE DEF ReadState, GetPlayerState, At
<1>1. q \in Requests /\ By[q] \in Players
  BY RequestAssumption DEF Requests
<1>2. Typed(q) /\ RequestFits(q) /\ Seated(By[q], state[By[q]].room)
  BY <1>1, OwnFacts
<1>3. Own(q) /\ UNCHANGED rooms
  BY DEF Own, Sound, TypeOK, shared
<1>4. Typed(q)'
  BY <1>2 DEF Typed, Places, RoomIds, PlayerStates, Replies, shared
<1>5. RequestFits(q)' /\ Seated(By[q], state[By[q]].room)'
  BY <1>1, <1>2, Values, RoomWritten
     DEF Typed, RequestFits, Seated, Sound, TypeOK, shared, local
<1>6. queue' \in [Modes -> Seq(Players)] /\ QueueFits'
  BY DEF Sound, TypeOK, QueueFits, shared
<1>7. crashes' \in 0..MaxCrashes /\ faults' \in 0..MaxFaults
  BY DEF Sound, TypeOK, budget
<1> HIDE DEF ReadState
<1> QED BY <1>1, <1>3, <1>4, <1>5, <1>6, <1>7, OwnStep

(* The player is recorded as waiting.                                      *)
LEMMA SetInQueueSound ==
    ASSUME Sound, NEW q \in Searches, SetInQueue(q), UNCHANGED budget
    PROVE  Sound'
<1> USE DEF SetInQueue, SetPlayerState, QueuedState, At
<1>1. q \in Requests /\ By[q] \in Players
  BY RequestAssumption DEF Requests
<1>2. Typed(q) /\ RequestFits(q) /\ Seated(By[q], state[By[q]].room)
  BY <1>1, OwnFacts
<1>3. Own(q) /\ UNCHANGED rooms
  BY DEF Own, Sound, TypeOK
<1>4. Typed(q)'
  <2>1. state'[By[q]] = PlayerState("in_queue", read[q].room, Mode[q]) /\ read[q] \in PlayerStates
    BY <1>1 DEF Sound, TypeOK
  <2>2. Mode[q] \in Modes
    BY RequestAssumption
  <2>3. state'[By[q]] \in PlayerStates
    <3> HIDE DEF SetInQueue, SetPlayerState, QueuedState, At
    <3>1. \A m \in Modes : PlayerState("in_queue", read[q].room, m) \in PlayerStates
      BY <2>1, Values
    <3> QED BY <2>1, <2>2, <3>1
  <2>4. state'[By[q]] \in PlayerStates'
    BY <1>3, <2>3 DEF PlayerStates, RoomIds
  <2>5. /\ read'[q] = Idle /\ found'[q] = found[q]
        /\ partner'[q] = partner[q] /\ reply'[q] = reply[q]
    BY <1>1 DEF Sound, TypeOK
  <2>6. Idle \in PlayerStates
    BY Values
  <2>7. pc'[q] \in Places
    BY <1>1 DEF Sound, TypeOK, Places
  <2> HIDE DEF SetInQueue
  <2> QED BY <1>2, <1>3, <2>4, <2>5, <2>6, <2>7 DEF Typed, RoomIds, PlayerStates, Replies
<1>5. RequestFits(q)' /\ Seated(By[q], state[By[q]].room)'
  BY <1>1, <1>2, Values, RoomWritten
     DEF Typed, RequestFits, Seated, Sound, TypeOK, shared, local
<1>6. queue' \in [Modes -> Seq(Players)] /\ QueueFits'
  BY DEF Sound, TypeOK, QueueFits
<1>7. crashes' \in 0..MaxCrashes /\ faults' \in 0..MaxFaults
  BY DEF Sound, TypeOK, budget
<1> HIDE DEF SetInQueue
<1> QED BY <1>1, <1>3, <1>4, <1>5, <1>6, <1>7, OwnStep

(* RPUSH.                                                                  *)
LEMMA EnqueueSound ==
    ASSUME Sound, NEW q \in Searches, Enqueue(q), UNCHANGED budget
    PROVE  Sound'
<1> USE DEF Enqueue, QueueKey, At
<1>1. q \in Requests /\ By[q] \in Players
  BY RequestAssumption DEF Requests
<1>2. Typed(q) /\ RequestFits(q) /\ Seated(By[q], state[By[q]].room)
  BY <1>1, OwnFacts
<1>3. Own(q) /\ UNCHANGED rooms
  BY DEF Own, Sound, TypeOK, local
<1>4. Typed(q)'
  BY <1>2 DEF Typed, Places, RoomIds, PlayerStates, Replies, local
<1>5. RequestFits(q)' /\ Seated(By[q], state[By[q]].room)'
  BY <1>1, <1>2, Values, RoomWritten
     DEF Typed, RequestFits, Seated, Sound, TypeOK, shared, local
<1>6. queue' \in [Modes -> Seq(Players)] /\ QueueFits'
  <2>1. Mode[q] \in Modes /\ queue[Mode[q]] \in Seq(Players)
    BY RequestAssumption DEF Sound, TypeOK
  <2>2. \A i \in 1..Len(queue[Mode[q]]) : Searched(queue[Mode[q]][i], Mode[q])
    BY <2>1 DEF Sound, QueueFits
  <2>3. Searched(By[q], Mode[q])
    BY DEF Searched
  <2>4. ASSUME NEW s \in Seq(Players), \A i \in 1..Len(s) : Searched(s[i], Mode[q])
        PROVE  /\ Append(s, By[q]) \in Seq(Players)
               /\ \A i \in 1..Len(Append(s, By[q])) : Searched(Append(s, By[q])[i], Mode[q])
    <3> HIDE DEF Enqueue
    <3> QED BY <1>1, <2>3, <2>4
  <2>5. queue' = [queue EXCEPT ![Mode[q]] = Append(queue[Mode[q]], By[q])]
    OBVIOUS
  <2> HIDE DEF Enqueue
  <2> QED BY <2>1, <2>2, <2>4, <2>5, QueueWritten
<1>7. crashes' \in 0..MaxCrashes /\ faults' \in 0..MaxFaults
  BY DEF Sound, TypeOK, budget
<1> HIDE DEF Enqueue
<1> QED BY <1>1, <1>3, <1>4, <1>5, <1>6, <1>7, OwnStep

(* The subscription.                                                       *)
LEMMA SubscribeSound ==
    ASSUME Sound, NEW q \in Searches, Subscribe(q), UNCHANGED budget
    PROVE  Sound'
<1> USE DEF Subscribe, At
<1>1. q \in Requests /\ By[q] \in Players
  BY RequestAssumption DEF Requests
<1>2. Typed(q) /\ RequestFits(q) /\ Seated(By[q], state[By[q]].room)
  BY <1>1, OwnFacts
<1>3. Own(q) /\ UNCHANGED rooms
  BY DEF Own, Sound, TypeOK, shared, local
<1>4. Typed(q)'
  BY <1>2 DEF Typed, Places, RoomIds, PlayerStates, Replies, shared, local
<1>5. RequestFits(q)' /\ Seated(By[q], state[By[q]].room)'
  BY <1>2 DEF RequestFits, Seated, shared, local
<1>6. queue' \in [Modes -> Seq(Players)] /\ QueueFits'
  BY DEF Sound, TypeOK, QueueFits, shared
<1>7. crashes' \in 0..MaxCrashes /\ faults' \in 0..MaxFaults
  BY DEF Sound, TypeOK, budget
<1> HIDE DEF Subscribe
<1> QED BY <1>1, <1>3, <1>4, <1>5, <1>6, <1>7, OwnStep

(* A message is read.                                                      *)
LEMMA NotifiedSound ==
    ASSUME Sound, NEW q \in Searches, Notified(q), UNCHANGED budget
    PROVE  Sound'
<1> USE DEF Notified, At
<1>1. q \in Requests /\ By[q] \in Players
  BY RequestAssumption DEF Requests
<1>2. Typed(q) /\ RequestFits(q) /\ Seated(By[q], state[By[q]].room)
  BY <1>1, OwnFacts
<1>3. Own(q) /\ UNCHANGED rooms
  BY DEF Own, Sound, TypeOK, shared, local
<1>4. Typed(q)'
  BY <1>2 DEF Typed, Places, RoomIds, PlayerStates, Replies, shared, local
<1>5. RequestFits(q)' /\ Seated(By[q], state[By[q]].room)'
  BY <1>2 DEF RequestFits, Seated, shared, local
<1>6. queue' \in [Modes -> Seq(Players)] /\ QueueFits'
  BY DEF Sound, TypeOK, QueueFits, shared
<1>7. crashes' \in 0..MaxCrashes /\ faults' \in 0..MaxFaults
  BY DEF Sound, TypeOK, budget
<1> HIDE DEF Notified
<1> QED BY <1>1, <1>3, <1>4, <1>5, <1>6, <1>7, OwnStep

(* The wait is over.                                                       *)
LEMMA TimeOutSound ==
    ASSUME Sound, NEW q \in Searches, TimeOut(q), UNCHANGED budget
    PROVE  Sound'
<1> USE DEF TimeOut, AfterTimeOut, At
<1>1. q \in Requests /\ By[q] \in Players
  BY RequestAssumption DEF Requests
<1>2. Typed(q) /\ RequestFits(q) /\ Seated(By[q], state[By[q]].room)
  BY <1>1, OwnFacts
<1>3. Own(q) /\ UNCHANGED rooms
  BY DEF Own, Sound, TypeOK, shared
<1>4. Typed(q)'
  BY <1>2 DEF Typed, Places, RoomIds, PlayerStates, Replies, shared
<1>5. RequestFits(q)' /\ Seated(By[q], state[By[q]].room)'
  BY <1>2 DEF RequestFits, Seated, shared
<1>6. queue' \in [Modes -> Seq(Players)] /\ QueueFits'
  BY DEF Sound, TypeOK, QueueFits, shared
<1>7. crashes' \in 0..MaxCrashes /\ faults' \in 0..MaxFaults
  BY DEF Sound, TypeOK, budget
<1> HIDE DEF TimeOut
<1> QED BY <1>1, <1>3, <1>4, <1>5, <1>6, <1>7, OwnStep

(* The player is recorded in the game.                                     *)
LEMMA SetInGameSound ==
    ASSUME Sound, NEW q \in Searches, SetInGame(q), UNCHANGED budget
    PROVE  Sound'
<1> USE DEF SetInGame, UpdatePlayerRoom, SetPlayerState, Answer, At
<1>1. q \in Requests /\ By[q] \in Players
  BY RequestAssumption DEF Requests
<1>2. Typed(q) /\ RequestFits(q) /\ Seated(By[q], state[By[q]].room)
  BY <1>1, OwnFacts
<1>3. Own(q) /\ UNCHANGED rooms
  BY DEF Own, Sound, TypeOK
<1>4. Typed(q)'
  <2>1. /\ state'[By[q]] = PlayerState("in_game", found[q], NoMode)
        /\ reply'[q] = [code |-> 200, room |-> found[q]]
        /\ found[q] \in RoomIds /\ found[q] # NoRoom
    BY <1>1 DEF RequestFits, Sound, TypeOK
  <2>2. PlayerState("in_game", found[q], NoMode) \in PlayerStates
    BY <2>1, Values
  <2> QED BY <1>2, <2>2 DEF Typed, Places, RoomIds, PlayerStates, Replies
<1>5. RequestFits(q)' /\ Seated(By[q], state[By[q]].room)'
  BY <1>2, RoomWritten DEF RequestFits, Seated, Sound, TypeOK
<1>6. queue' \in [Modes -> Seq(Players)] /\ QueueFits'
  BY DEF Sound, TypeOK, QueueFits
<1>7. crashes' \in 0..MaxCrashes /\ faults' \in 0..MaxFaults
  BY DEF Sound, TypeOK, budget
<1> HIDE DEF SetInGame
<1> QED BY <1>1, <1>3, <1>4, <1>5, <1>6, <1>7, OwnStep

(* The first read of a cancel.                                             *)
LEMMA ReadForCancelSound ==
    ASSUME Sound, NEW q \in Cancels, ReadForCancel(q), UNCHANGED budget
    PROVE  Sound'
<1> USE DEF ReadForCancel, GetPlayerState, At
<1>1. q \in Requests /\ By[q] \in Players
  BY RequestAssumption DEF Requests
<1>2. Typed(q) /\ RequestFits(q) /\ Seated(By[q], state[By[q]].room)
  BY <1>1, OwnFacts
<1>3. Own(q) /\ UNCHANGED rooms
  BY DEF Own, Sound, TypeOK, shared
<1>4. Typed(q)'
  BY <1>2 DEF Typed, Places, RoomIds, PlayerStates, Replies, shared
<1>5. RequestFits(q)' /\ Seated(By[q], state[By[q]].room)'
  BY <1>1, <1>2, Values, RoomWritten
     DEF Typed, RequestFits, Seated, Sound, TypeOK, shared, local
<1>6. queue' \in [Modes -> Seq(Players)] /\ QueueFits'
  BY DEF Sound, TypeOK, QueueFits, shared
<1>7. crashes' \in 0..MaxCrashes /\ faults' \in 0..MaxFaults
  BY DEF Sound, TypeOK, budget
<1> HIDE DEF ReadForCancel
<1> QED BY <1>1, <1>3, <1>4, <1>5, <1>6, <1>7, OwnStep

(* LREM.                                                                   *)
LEMMA UnqueueSound ==
    ASSUME Sound, NEW q \in Requests, Unqueue(q), UNCHANGED budget
    PROVE  Sound'
<1> USE DEF Unqueue, QueueKey, At
<1>1. q \in Requests /\ By[q] \in Players
  BY RequestAssumption DEF Requests
<1>2. Typed(q) /\ RequestFits(q) /\ Seated(By[q], state[By[q]].room)
  BY OwnFacts
<1>3. Own(q) /\ UNCHANGED rooms
  BY DEF Own, Sound, TypeOK, local
<1>4. Typed(q)'
  BY <1>2 DEF Typed, Places, RoomIds, PlayerStates, Replies, local
<1>5. RequestFits(q)' /\ Seated(By[q], state[By[q]].room)'
  BY <1>1, <1>2, Values, RoomWritten
     DEF Typed, RequestFits, Seated, Sound, TypeOK, shared, local
<1>6. queue' \in [Modes -> Seq(Players)] /\ QueueFits'
  <2> DEFINE m == IF q \in Searches THEN Mode[q] ELSE read[q].mode
  <2>1. queue' = [queue EXCEPT ![m] = RemoveFirst(queue[m], By[q])]
    OBVIOUS
  <2>2. CASE m \in Modes
    <3>1. queue[m] \in Seq(Players) /\ \A i \in 1..Len(queue[m]) : Searched(queue[m][i], m)
      BY <2>2 DEF Sound, TypeOK, QueueFits
    <3>2. ASSUME NEW s \in Seq(Players), \A i \in 1..Len(s) : Searched(s[i], m)
          PROVE  /\ RemoveFirst(s, By[q]) \in Seq(Players)
                 /\ \A i \in 1..Len(RemoveFirst(s, By[q])) : Searched(RemoveFirst(s, By[q])[i], m)
      <4> HIDE DEF Unqueue, m
      <4>1. CASE \A i \in 1..Len(s) : s[i] # By[q]
        BY <3>2, <4>1, NothingToRemove
      <4>2. CASE ~\A i \in 1..Len(s) : s[i] # By[q]
        <5>0. PICK i0 \in 1..Len(s) : s[i0] = By[q]
          BY <4>2
        <5>1. PICK k \in 1..Len(s) :
                 /\ s[k] = By[q]
                 /\ RemoveFirst(s, By[q]) \in Seq(Players)
                 /\ IsWithout(RemoveFirst(s, By[q]), s, k)
          BY <5>0, Removing
        <5> QED BY <3>2, <5>1 DEF IsWithout
      <4> QED BY <4>1, <4>2
    <3> HIDE DEF Unqueue, m
    <3> QED BY <2>1, <2>2, <3>1, <3>2, QueueWritten
  <2>3. CASE m \notin Modes
    <3>1. queue' = queue
      BY <2>3 DEF Sound, TypeOK
    <3> QED BY <3>1 DEF Sound, TypeOK, QueueFits
  <2> QED BY <2>2, <2>3
<1>7. crashes' \in 0..MaxCrashes /\ faults' \in 0..MaxFaults
  BY DEF Sound, TypeOK, budget
<1> HIDE DEF Unqueue
<1> QED BY <1>3, <1>4, <1>5, <1>6, <1>7, OwnStep

(* The GET of UpdatePlayerStatus.                                          *)
LEMMA ReadForIdleSound ==
    ASSUME Sound, NEW q \in Requests, ReadForIdle(q), UNCHANGED budget
    PROVE  Sound'
<1> USE DEF ReadForIdle, GetPlayerState, At
<1>1. q \in Requests /\ By[q] \in Players
  BY RequestAssumption DEF Requests
<1>2. Typed(q) /\ RequestFits(q) /\ Seated(By[q], state[By[q]].room)
  BY OwnFacts
<1>3. Own(q) /\ UNCHANGED rooms
  BY DEF Own, Sound, TypeOK, shared
<1>4. Typed(q)'
  BY <1>2 DEF Typed, Places, RoomIds, PlayerStates, Replies, shared
<1>5. RequestFits(q)' /\ Seated(By[q], state[By[q]].room)'
  BY <1>1, <1>2, Values, RoomWritten
     DEF Typed, RequestFits, Seated, Sound, TypeOK, shared, local
<1>6. queue' \in [Modes -> Seq(Players)] /\ QueueFits'
  BY DEF Sound, TypeOK, QueueFits, shared
<1>7. crashes' \in 0..MaxCrashes /\ faults' \in 0..MaxFaults
  BY DEF Sound, TypeOK, budget
<1> HIDE DEF ReadForIdle
<1> QED BY <1>3, <1>4, <1>5, <1>6, <1>7, OwnStep

(* The SET of UpdatePlayerStatus.                                          *)
LEMMA WriteIdleSound ==
    ASSUME Sound, NEW q \in Requests, WriteIdle(q), UNCHANGED budget
    PROVE  Sound'
<1> USE DEF WriteIdle, SetPlayerState, AnswerIdle, Answer, At
<1>1. q \in Requests /\ By[q] \in Players
  BY RequestAssumption DEF Requests
<1>2. Typed(q) /\ RequestFits(q) /\ Seated(By[q], state[By[q]].room)
  BY OwnFacts
<1>3. Own(q) /\ UNCHANGED rooms
  BY <1>1 DEF Own, Sound, TypeOK, shared, local
<1>4. Typed(q)'
  BY <1>2, Values DEF Typed, Places, RoomIds, PlayerStates, Replies
<1>5. RequestFits(q)' /\ Seated(By[q], state[By[q]].room)'
  BY <1>2, Values DEF RequestFits, Seated
<1>6. queue' \in [Modes -> Seq(Players)] /\ QueueFits'
  BY DEF Sound, TypeOK, QueueFits
<1>7. crashes' \in 0..MaxCrashes /\ faults' \in 0..MaxFaults
  BY DEF Sound, TypeOK, budget
<1> HIDE DEF WriteIdle
<1> QED BY <1>3, <1>4, <1>5, <1>6, <1>7, OwnStep
(* A Room is opened, with both players who searched.                       *)
LEMMA CreateSound ==
    ASSUME Sound, NEW q \in Searches, Create(q), UNCHANGED budget
    PROVE  Sound'
<1> DEFINE n == Len(rooms) + 1
<1>0. q \in Requests /\ By[q] \in Players /\ Mode[q] \in Modes
  BY RequestAssumption DEF Requests
<1>1. q \in Requests /\ By[q] \in Players /\ Mode[q] \in Modes /\ Len(rooms) \in Nat
  BY <1>0
<1> USE DEF Create, At
<1>2. partner[q] \in Players /\ Searched(partner[q], Mode[q]) /\ Searched(By[q], Mode[q])
  BY RequestAssumption DEF Sound, RequestFits, Searched, Requests
<1>3. PICK room \in RoomRecords :
         /\ rooms' = Append(rooms, room)
         /\ room.mode = Mode[q]
         /\ \A s \in Sides : room.players[s] \in {By[q], partner[q]}
         /\ \E s \in Sides : room.players[s] = By[q]
         /\ \E s \in Sides : room.players[s] = partner[q]
  <2>1. PICK side \in Sides :
           rooms' = Append(rooms, [players |-> [s \in Sides |-> IF s = side THEN By[q] ELSE partner[q]],
                                   mode |-> Mode[q], stage |-> "live",
                                   freed |-> [s \in Sides |-> "todo"]])
    OBVIOUS
  <2>2. \E s \in Sides : s # side
    BY DEF Sides, White, Black
  <2> HIDE DEF Create
  <2> QED BY <1>1, <1>2, <2>1, <2>2 DEF RoomRecords
<1>4. /\ rooms' \in Seq(RoomRecords) /\ Len(rooms') = n
      /\ \A r \in 1..Len(rooms) : rooms'[r] = rooms[r]
      /\ rooms'[n] = room
  BY <1>3 DEF Sound, TypeOK
<1>5. RoomIds = 1..Len(rooms) /\ RoomIds' = 1..n
  BY DEF RoomIds
<1>6. /\ RoomIds \subseteq RoomIds' /\ n \in RoomIds' /\ n # NoRoom
      /\ \A s \in PlayerStates : s \in PlayerStates'
      /\ \A a \in Replies : a \in Replies'
      /\ \A p, r : r \in RoomIds \cup {NoRoom} /\ Seated(p, r) => Seated(p, r)'
  BY <1>4, <1>5, RoomsKept DEF NoRoom
<1>7. found' = [found EXCEPT ![q] = n] /\ pc' = [pc EXCEPT ![q] = "publish"]
  BY <1>4
<1>8. UNCHANGED <<state, queue, read, partner, reply, crashes, faults>>
  BY DEF budget
<1> HIDE DEF Create, n
<1>9. TypeOK'
  BY <1>4, <1>6, <1>7, <1>8 DEF Sound, TypeOK, Places
<1>10. QueueFits'
  BY <1>8 DEF Sound, QueueFits
<1>11. ASSUME NEW p \in Players
       PROVE  Seated(p, state[p].room)'
  <2>1. state[p].room \in RoomIds \cup {NoRoom}
    BY Values DEF Sound, TypeOK
  <2>2. Seated(p, state[p].room)
    BY DEF Sound
  <2> QED BY <1>6, <1>8, <2>1, <2>2
<1>12. ASSUME NEW r \in Requests
       PROVE  RequestFits(r)'
  <2>0. /\ found[r] \in RoomIds \cup {NoRoom} /\ read[r] \in PlayerStates /\ reply[r] \in Replies
    BY DEF Sound, TypeOK
  <2>1. PICK a, b : /\ a = read[r].room /\ b = reply[r].room
                    /\ a \in RoomIds \cup {NoRoom} /\ b \in RoomIds \cup {NoRoom}
    <3>1. read[r].room \in RoomIds \cup {NoRoom}
      BY <2>0, Values
    <3>2. reply[r].room \in RoomIds \cup {NoRoom}
      BY <2>0 DEF Replies
    <3> QED BY <3>1, <3>2
  <2>2. RequestFits(r)
    BY DEF Sound
  <2>3. Seated(By[r], read[r].room)' /\ Seated(By[r], reply[r].room)'
    <3>1. Seated(By[r], a)' /\ Seated(By[r], b)'
      BY <1>6, <2>1, <2>2 DEF RequestFits
    <3> QED BY <1>8, <2>1, <3>1
  <2>4. CASE r # q
    <3>1. pc'[r] = pc[r] /\ found'[r] = found[r] /\ partner'[r] = partner[r]
      BY <1>7, <1>8, <2>4
    <3>2. PICK f : f = found[r]
      OBVIOUS
    <3>3. \A p : Seated(p, f) => Seated(p, f)'
      BY <1>6, <2>0, <3>2
    <3>4. Seated(By[r], found[r])' /\ (pc[r] = "publish" => Seated(partner[r], found[r])')
      BY <2>2, <3>1, <3>2, <3>3 DEF RequestFits
    <3> QED BY <2>2, <2>3, <3>1, <3>4 DEF RequestFits
  <2>5. CASE r = q
    <3>1. pc'[q] = "publish" /\ found'[q] = n /\ partner'[q] = partner[q]
      BY <1>1, <1>7, <1>8 DEF Sound, TypeOK
    <3>2. Seated(By[q], found[q])' /\ Seated(partner[q], found[q])'
      BY <1>3, <1>4, <3>1 DEF Seated
    <3> QED BY <1>6, <2>3, <2>5, <3>1, <3>2 DEF RequestFits
  <2> QED BY <2>4, <2>5
<1>13. ModeAgreed'
  <2> SUFFICES ASSUME NEW r \in RoomIds', NEW s \in Sides
               PROVE  \E d \in Searches : By[d] = rooms'[r].players[s] /\ Mode[d] = rooms'[r].mode
    BY DEF ModeAgreed
  <2>1. CASE r = n
    BY <1>2, <1>3, <1>4, <2>1 DEF Searched
  <2>2. CASE r # n
    <3>1. r \in RoomIds /\ rooms'[r] = rooms[r]
      BY <1>4, <1>5, <2>2 DEF n
    <3> QED BY <3>1 DEF Sound, ModeAgreed
  <2> QED BY <2>1, <2>2
<1> QED BY <1>9, <1>10, <1>11, <1>12, <1>13 DEF Sound

(* The partner's requests that wait are told of the Room.                  *)
LEMMA PublishSound ==
    ASSUME Sound, NEW q \in Searches, Publish(q), UNCHANGED budget
    PROVE  Sound'
<1>1. q \in Requests
  BY DEF Requests
<1>2. /\ pc[q] = "publish" /\ pc' = [pc EXCEPT ![q] = "setInGame"]
      /\ partner' = [partner EXCEPT ![q] = NoPlayer]
      /\ UNCHANGED <<state, queue, rooms, read, reply, crashes, faults>>
  BY DEF Publish, At, shared, budget
<1>3. /\ found[q] \in RoomIds /\ found[q] # NoRoom
      /\ Seated(partner[q], found[q]) /\ Seated(By[q], found[q])
  BY <1>1, <1>2 DEF Sound, TypeOK, RequestFits
<1>4. found' = [r \in Requests |-> found'[r]]
  BY DEF Publish
<1>5. \A r \in Requests : \/ found'[r] = found[r]
                          \/ found'[r] = found[q] /\ By[r] = partner[q]
  BY DEF Publish, Hearers
<1>6. \A r \in Requests : found'[r] \in RoomIds \cup {NoRoom}
  BY <1>3, <1>5 DEF Sound, TypeOK
<1>7. TypeOK'
  BY <1>2, <1>4, <1>6, SameRooms DEF Sound, TypeOK, Places
<1>8. QueueFits' /\ \A p \in Players : Seated(p, state[p].room)'
  BY <1>2 DEF Sound, QueueFits, Seated
<1>9. ASSUME NEW r \in Requests
      PROVE  RequestFits(r)'
  <2>1. RequestFits(r)
    BY DEF Sound
  <2>2. found'[r] # found[r] => found[r] = NoRoom
    BY DEF Publish
  <2>3. Seated(By[r], found'[r])
    BY <1>3, <1>5, <2>1 DEF RequestFits
  <2>4. found[r] # NoRoom => found'[r] # NoRoom
    BY <2>2
  <2>5. CASE r = q
    BY <1>2, <2>3, <2>4, <2>5 DEF RequestFits, Seated, Sound, TypeOK
  <2>6. CASE r # q
    <3>1. pc'[r] = pc[r] /\ partner'[r] = partner[r]
      BY <1>2, <2>6
    <3>2. pc[r] = "publish" => found'[r] = found[r]
      BY <2>1, <2>2 DEF RequestFits
    <3> QED BY <1>2, <2>1, <2>3, <2>4, <3>1, <3>2 DEF RequestFits, Seated
  <2> QED BY <2>5, <2>6
<1>10. ModeAgreed'
  BY <1>2, SameRooms DEF Sound
<1> QED BY <1>7, <1>8, <1>9, <1>10 DEF Sound

-----------------------------------------------------------------------------
(* Rooms that move on keep their players and their time control.           *)
LEMMA RoomsAdvance ==
    ASSUME Sound, rooms' \in Seq(RoomRecords), Len(rooms') = Len(rooms),
           \A r \in RoomIds : /\ rooms'[r].players = rooms[r].players
                              /\ rooms'[r].mode = rooms[r].mode
    PROVE  /\ RoomIds' = RoomIds /\ PlayerStates' = PlayerStates /\ Replies' = Replies
           /\ \A p, r : r \in RoomIds \cup {NoRoom} /\ Seated(p, r) => Seated(p, r)'
           /\ ModeAgreed'
<1>1. RoomIds' = RoomIds
  BY DEF RoomIds
<1>2. PlayerStates' = PlayerStates /\ Replies' = Replies
  BY <1>1 DEF PlayerStates, Replies
<1>3. \A p, r : r \in RoomIds \cup {NoRoom} /\ Seated(p, r) => Seated(p, r)'
  BY DEF Seated
<1>4. ModeAgreed'
  BY <1>1 DEF Sound, ModeAgreed
<1> QED BY <1>1, <1>2, <1>3, <1>4

(* What a request knows of Rooms stays true as long as it keeps it.        *)
LEMMA StillFits ==
    ASSUME Sound, NEW q \in Requests,
           \A p, r : r \in RoomIds \cup {NoRoom} /\ Seated(p, r) => Seated(p, r)',
           UNCHANGED <<pc[q], read[q], found[q], partner[q], reply[q]>>
    PROVE  RequestFits(q)'
<1>1. found[q] \in RoomIds \cup {NoRoom} /\ read[q] \in PlayerStates /\ reply[q] \in Replies
  BY DEF Sound, TypeOK
<1>2. PICK f, a, b : /\ f = found[q] /\ a = read[q].room /\ b = reply[q].room
                     /\ {f, a, b} \subseteq RoomIds \cup {NoRoom}
  <2>1. read[q].room \in RoomIds \cup {NoRoom}
    BY <1>1, Values
  <2>2. reply[q].room \in RoomIds \cup {NoRoom}
    BY <1>1 DEF Replies
  <2> QED BY <1>1, <2>1, <2>2
<1>3. RequestFits(q)
  BY DEF Sound
<1>4. /\ Seated(By[q], f)' /\ Seated(By[q], a)' /\ Seated(By[q], b)'
      /\ pc[q] = "publish" => Seated(partner[q], f)'
  BY <1>2, <1>3 DEF RequestFits
<1> QED BY <1>2, <1>3, <1>4 DEF RequestFits

(* A Room ends, frees a player or closes.                                  *)
LEMMA RoomStepSound ==
    ASSUME Sound, NEW r \in RoomIds, RoomStep(r)
    PROVE  Sound'
<1>1. UNCHANGED <<queue, pc, read, found, partner, reply, crashes, faults>>
  BY DEF RoomStep, local, budget
<1>2. PICK new \in RoomRecords : /\ rooms' = [rooms EXCEPT ![r] = new]
                                 /\ new.players = rooms[r].players /\ new.mode = rooms[r].mode
  <2>1. rooms[r] \in RoomRecords
    BY DEF Sound, TypeOK, RoomIds
  <2>2. \A stage \in {"ended", "closed"} : [rooms[r] EXCEPT !.stage = stage] \in RoomRecords
    BY <2>1 DEF RoomRecords
  <2>3. \A s \in Sides, d \in {"done", "failed"} : [rooms[r] EXCEPT !.freed[s] = d] \in RoomRecords
    BY <2>1 DEF RoomRecords
  <2>4. CASE EndGame(r) \/ CloseRoom(r)
    BY <2>2, <2>4 DEF EndGame, CloseRoom, RoomRecords
  <2>5. CASE \E side \in Sides : FreePlayer(r, side)
    <3>1. PICK s \in Sides, d \in {"done", "failed"} :
             rooms' = [rooms EXCEPT ![r] = [rooms[r] EXCEPT !.freed[s] = d]]
      BY <2>5 DEF FreePlayer
    <3>2. /\ [rooms[r] EXCEPT !.freed[s] = d] \in RoomRecords
          /\ [rooms[r] EXCEPT !.freed[s] = d].players = rooms[r].players
          /\ [rooms[r] EXCEPT !.freed[s] = d].mode = rooms[r].mode
      BY <2>3 DEF RoomRecords
    <3> QED BY <3>1, <3>2
  <2> QED BY <2>4, <2>5 DEF RoomStep
<1>3. /\ rooms' \in Seq(RoomRecords) /\ Len(rooms') = Len(rooms)
      /\ \A k \in RoomIds : /\ rooms'[k].players = rooms[k].players
                            /\ rooms'[k].mode = rooms[k].mode
  <2>1. rooms \in Seq(RoomRecords) /\ r \in 1..Len(rooms)
    BY DEF Sound, TypeOK, RoomIds
  <2>2. ASSUME NEW S, NEW s \in Seq(S), NEW n \in S, NEW i \in 1..Len(s)
        PROVE  /\ [s EXCEPT ![i] = n] \in Seq(S) /\ Len([s EXCEPT ![i] = n]) = Len(s)
               /\ \A k \in 1..Len(s) : [s EXCEPT ![i] = n][k] = IF k = i THEN n ELSE s[k]
    OBVIOUS
  <2>3. /\ [rooms EXCEPT ![r] = new] \in Seq(RoomRecords)
        /\ Len([rooms EXCEPT ![r] = new]) = Len(rooms)
        /\ \A k \in 1..Len(rooms) :
              [rooms EXCEPT ![r] = new][k] = IF k = r THEN new ELSE rooms[k]
    BY <2>1, <2>2
  <2> QED BY <1>2, <2>3 DEF RoomIds
<1>4. /\ RoomIds' = RoomIds /\ PlayerStates' = PlayerStates /\ Replies' = Replies
      /\ \A p, k : k \in RoomIds \cup {NoRoom} /\ Seated(p, k) => Seated(p, k)'
      /\ ModeAgreed'
  BY <1>3, RoomsAdvance
<1>5. /\ state' \in [Players -> PlayerStates]
      /\ \A p \in Players : state'[p] = state[p] \/ state'[p].room = NoRoom
  <2>1. CASE UNCHANGED state
    BY <2>1 DEF Sound, TypeOK
  <2>2. ASSUME NEW p, state' = [state EXCEPT ![p] = PlayerState("idle", NoRoom, NoMode)]
        PROVE  /\ state' \in [Players -> PlayerStates]
               /\ \A k \in Players : state'[k] = state[k] \/ state'[k].room = NoRoom
    <3>1. PlayerState("idle", NoRoom, NoMode) \in PlayerStates
      BY Values
    <3>2. state \in [Players -> PlayerStates]
      BY DEF Sound, TypeOK
    <3>3. PlayerState("idle", NoRoom, NoMode).room = NoRoom
      BY RoomWritten
    <3> QED BY <2>2, <3>1, <3>2, <3>3
  <2> QED BY <2>1, <2>2
         DEF RoomStep, EndGame, CloseRoom, FreePlayer, UpdatePlayerRoom, SetPlayerState
<1>6. TypeOK'
  BY <1>1, <1>3, <1>4, <1>5 DEF Sound, TypeOK
<1>7. QueueFits'
  BY <1>1 DEF Sound, QueueFits
<1>8. ASSUME NEW p \in Players
      PROVE  Seated(p, state[p].room)'
  <2>1. PICK k : k = state[p].room /\ k \in RoomIds \cup {NoRoom}
    BY Values DEF Sound, TypeOK
  <2>2. Seated(p, k)'
    BY <1>4, <2>1 DEF Sound
  <2> QED BY <1>5, <2>1, <2>2 DEF Seated
<1>9. \A q \in Requests : RequestFits(q)'
  BY <1>1, <1>4, StillFits
<1> QED BY <1>4, <1>6, <1>7, <1>8, <1>9 DEF Sound

(* The server dies: what its requests knew is gone.                        *)
LEMMA CrashSound ==
    ASSUME Sound, Crash
    PROVE  Sound'
<1>1. UNCHANGED <<state, queue, reply, faults>>
  BY DEF Crash
<1>2. /\ rooms' \in Seq(RoomRecords) /\ Len(rooms') = Len(rooms)
      /\ \A k \in RoomIds : /\ rooms'[k].players = rooms[k].players
                            /\ rooms'[k].mode = rooms[k].mode
  <2> DEFINE new(k) == IF rooms[k].stage = "closed" THEN rooms[k]
                       ELSE [rooms[k] EXCEPT !.stage = "lost"]
  <2>1. Len(rooms) \in Nat /\ \A k \in 1..Len(rooms) : rooms[k] \in RoomRecords
    BY DEF Sound, TypeOK
  <2>2. \A k \in 1..Len(rooms) : /\ new(k) \in RoomRecords
                                 /\ new(k).players = rooms[k].players
                                 /\ new(k).mode = rooms[k].mode
    BY <2>1 DEF RoomRecords
  <2>3. rooms' = [k \in 1..Len(rooms) |-> new(k)]
    BY DEF Crash, RoomIds
  <2> HIDE DEF new
  <2> QED BY <2>2, <2>3 DEF RoomIds
<1>3. /\ RoomIds' = RoomIds /\ PlayerStates' = PlayerStates /\ Replies' = Replies
      /\ \A p, k : k \in RoomIds \cup {NoRoom} /\ Seated(p, k) => Seated(p, k)'
      /\ ModeAgreed'
  BY <1>2, RoomsAdvance
<1>4. TypeOK'
  <2>1. pc' \in [Requests -> Places]
    BY DEF Crash, Places
  <2>2. /\ read' \in [Requests -> PlayerStates] /\ found' \in [Requests -> RoomIds \cup {NoRoom}]
        /\ partner' \in [Requests -> Players \cup {NoPlayer}]
    BY Values DEF Crash
  <2>3. crashes' \in 0..MaxCrashes
    <3>1. crashes < MaxCrashes /\ crashes' = crashes + 1 /\ crashes \in 0..MaxCrashes
      BY DEF Sound, TypeOK, Crash
    <3>2. MaxCrashes \in Nat
      BY RequestAssumption
    <3> QED BY <3>1, <3>2
  <2> QED BY <1>1, <1>2, <1>3, <2>1, <2>2, <2>3 DEF Sound, TypeOK
<1>5. QueueFits'
  BY <1>1 DEF Sound, QueueFits
<1>6. ASSUME NEW p \in Players
      PROVE  Seated(p, state[p].room)'
  <2>1. PICK k : k = state[p].room /\ k \in RoomIds \cup {NoRoom}
    BY Values DEF Sound, TypeOK
  <2>2. Seated(p, k)'
    BY <1>3, <2>1 DEF Sound
  <2> QED BY <1>1, <2>1, <2>2
<1>7. ASSUME NEW q \in Requests
      PROVE  RequestFits(q)'
  <2>1. /\ pc'[q] \notin {"create", "publish", "setInGame"}
        /\ found'[q] = NoRoom /\ read'[q].room = NoRoom /\ reply'[q] = reply[q]
    BY Values DEF Crash
  <2>2. PICK b : b = reply[q].room /\ b \in RoomIds \cup {NoRoom}
    BY DEF Sound, TypeOK, Replies
  <2>3. Seated(By[q], b)'
    BY <1>3, <2>2 DEF Sound, RequestFits
  <2> QED BY <2>1, <2>2, <2>3 DEF RequestFits, Seated
<1> QED BY <1>3, <1>4, <1>5, <1>6, <1>7 DEF Sound

(* A command fails.                                                        *)
LEMMA FaultSound ==
    ASSUME Sound, NEW q \in Requests, Fault(q)
    PROVE  Sound'
<1>1. /\ faults < MaxFaults /\ faults' = faults + 1
      /\ Refused(q) \/ ReadsNothing(q) \/ WritesNothing(q) \/ NotWritten(q) \/ Unheard(q)
      /\ found' = [found EXCEPT ![q] = IF pc[q] = "publish" THEN found[q] ELSE NoRoom]
      /\ partner' = [partner EXCEPT ![q] = NoPlayer]
      /\ UNCHANGED <<state, queue, rooms, crashes>>
  BY DEF Fault, shared
<1>2. Typed(q) /\ RequestFits(q) /\ By[q] \in Players /\ Seated(By[q], state[By[q]].room)
  BY OwnFacts
<1>3. /\ \E there \in Places :
            /\ pc' = [pc EXCEPT ![q] = there]
            /\ there # "create" /\ there # "publish"
            /\ there = "setInGame" => pc[q] = "publish"
      /\ read' = read \/ read' = [read EXCEPT ![q] = Idle]
  BY <1>1 DEF Refused, ReadsNothing, WritesNothing, NotWritten, Unheard, At, Places
<1>4. \/ reply' = reply
      \/ \E code \in {200, 401, 408}, r \in {NoRoom, found[q]} :
            reply' = [reply EXCEPT ![q] = [code |-> code, room |-> r]]
  BY <1>1 DEF Refused, ReadsNothing, WritesNothing, NotWritten, Unheard, Answer, AnswerIdle
<1>5. Own(q)
  BY <1>1, <1>3, <1>4 DEF Own, Sound, TypeOK
<1>6. /\ pc'[q] \in Places \ {"create", "publish"} /\ (pc'[q] = "setInGame" => pc[q] = "publish")
      /\ read'[q] = read[q] \/ read'[q] = Idle
      /\ found'[q] = IF pc[q] = "publish" THEN found[q] ELSE NoRoom
      /\ partner'[q] = NoPlayer
  BY <1>1, <1>3 DEF Sound, TypeOK
<1>7. \/ reply'[q] = reply[q]
      \/ \E code \in {200, 401, 408}, r \in {NoRoom, found[q]} :
            reply'[q] = [code |-> code, room |-> r]
  BY <1>4 DEF Sound, TypeOK
<1>8. reply'[q] \in Replies /\ Seated(By[q], reply'[q].room)
  <2>1. CASE reply'[q] = reply[q]
    BY <1>2, <2>1 DEF Typed, RequestFits
  <2>2. ASSUME NEW code \in {200, 401, 408}, NEW r \in {NoRoom, found[q]},
               reply'[q] = [code |-> code, room |-> r]
        PROVE  reply'[q] \in Replies /\ Seated(By[q], reply'[q].room)
    <3>1. r \in RoomIds \cup {NoRoom}
      BY <1>2 DEF Typed
    <3>2. Seated(By[q], r)
      BY <1>2 DEF RequestFits, Seated
    <3>3. reply'[q].room = r
      BY <2>2
    <3>4. reply'[q] \in Replies
      <4>1. code \in {0, 200, 401, 408} /\ r \in RoomIds \cup {NoRoom}
        BY <3>1
      <4> QED BY <2>2, <4>1 DEF Replies
    <3> QED BY <3>2, <3>3, <3>4
  <2> QED BY <1>7, <2>1, <2>2
<1>9. Typed(q)'
  BY <1>1, <1>2, <1>6, <1>8, SameRooms, Values DEF Typed
<1>10. RequestFits(q)' /\ Seated(By[q], state[By[q]].room)'
  BY <1>1, <1>2, <1>6, <1>8, Values DEF RequestFits, Seated
<1>11. queue' \in [Modes -> Seq(Players)] /\ QueueFits'
  BY <1>1 DEF Sound, TypeOK, QueueFits
<1>12. crashes' \in 0..MaxCrashes /\ faults' \in 0..MaxFaults
  <2>1. faults \in 0..MaxFaults /\ crashes \in 0..MaxCrashes
    BY DEF Sound, TypeOK
  <2>2. MaxFaults \in Nat
    BY RequestAssumption
  <2> QED BY <1>1, <2>1, <2>2
<1> QED BY <1>1, <1>5, <1>9, <1>10, <1>11, <1>12, OwnStep

-----------------------------------------------------------------------------
(* Sound holds at first.                                                   *)
LEMMA InitSound == Init => Sound
<1> SUFFICES ASSUME Init PROVE Sound
  OBVIOUS
<1>1. NoState \in PlayerStates /\ Idle \in PlayerStates
      /\ NoState.room = NoRoom /\ Idle.room = NoRoom
  BY Values
<1>2. TypeOK
  <2>1. rooms \in Seq(RoomRecords)
    BY DEF Init
  <2>2. queue \in [Modes -> Seq(Players)]
    BY DEF Init
  <2>3. crashes \in 0..MaxCrashes /\ faults \in 0..MaxFaults
    <3>1. MaxCrashes \in Nat /\ MaxFaults \in Nat
      BY RequestAssumption
    <3> QED BY <3>1 DEF Init
  <2>4. reply \in [Requests -> Replies]
    BY DEF Init, NoReply, Replies
  <2>5. /\ state \in [Players -> PlayerStates] /\ read \in [Requests -> PlayerStates]
    BY <1>1 DEF Init
  <2>6. /\ pc \in [Requests -> Places] /\ found \in [Requests -> RoomIds \cup {NoRoom}]
        /\ partner \in [Requests -> Players \cup {NoPlayer}]
    BY DEF Init, Places
  <2> QED BY <2>1, <2>2, <2>3, <2>4, <2>5, <2>6 DEF TypeOK
<1>3. QueueFits
  BY DEF Init, QueueFits
<1>4. \A p \in Players : Seated(p, state[p].room)
  BY <1>1 DEF Init, Seated
<1>5. \A q \in Requests : RequestFits(q)
  BY <1>1 DEF Init, RequestFits, Seated, NoReply
<1>6. ModeAgreed
  BY DEF Init, ModeAgreed, RoomIds
<1> QED BY <1>2, <1>3, <1>4, <1>5, <1>6 DEF Sound

(* Every step keeps it.                                                    *)
LEMMA NextSound == Sound /\ [Next]_vars => Sound'
<1> SUFFICES ASSUME Sound, [Next]_vars PROVE Sound'
  OBVIOUS
<1>1. ASSUME NEW q \in Requests, RequestStep(q)
      PROVE  Sound'
  <2>1. CASE SearchStep(q)
    BY <2>1, ReadStatusSound, ReadRoomSound, DequeueSound, ReadStateSound, SetInQueueSound,
       EnqueueSound, SubscribeSound, NotifiedSound, TimeOutSound, CreateSound, PublishSound,
       SetInGameSound
       DEF SearchStep
  <2>2. CASE CancelStep(q)
    BY <2>2, ReadForCancelSound DEF CancelStep
  <2>3. CASE AnyStep(q)
    BY <2>3, ExistsSound, AddStateSound, UnqueueSound, ReadForIdleSound, WriteIdleSound
       DEF AnyStep
  <2> QED BY <1>1, <2>1, <2>2, <2>3 DEF RequestStep
<1>2. CASE UNCHANGED vars
  <2>1. UNCHANGED <<state, queue, rooms, pc, read, found, partner, reply, crashes, faults>>
    BY <1>2 DEF vars, shared, local, budget
  <2>2. TypeOK' /\ QueueFits' /\ ModeAgreed'
    BY <2>1, SameRooms DEF Sound, TypeOK, QueueFits
  <2>3. /\ \A p \in Players : Seated(p, state[p].room)'
        /\ \A q \in Requests : RequestFits(q)'
    BY <2>1 DEF Sound, RequestFits, Seated
  <2> QED BY <2>2, <2>3 DEF Sound
<1> QED BY <1>1, <1>2, FaultSound, RoomStepSound, CrashSound DEF Next, Finished

(* Sound holds in every reachable state.                                   *)
THEOREM SoundAlways == Spec => []Sound
BY InitSound, NextSound, PTL DEF Spec

(* Players, Rooms, answers and counters stay within their types, for any   *)
(* number of requests, crashes and failed commands.                        *)
THEOREM TypeCorrect == Spec => []TypeOK
<1>1. Sound => TypeOK
  BY DEF Sound
<1> QED BY <1>1, SoundAlways, PTL

(* Nobody is sent to a Room that has no seat for them: neither the state   *)
(* in Redis nor an answer names such a Room, whatever the order in which   *)
(* searches, cancels and Rooms write that state.                           *)
THEOREM RoomCorrect == Spec => []RoomIsYours
<1>1. Sound => RoomIsYours
  BY DEF Sound, RequestFits, RoomIsYours, Seated, PlayersOf
<1> QED BY <1>1, SoundAlways, PTL

(* Both players of every Room searched with its time control.              *)
THEOREM ModeCorrect == Spec => []ModeAgreed
<1>1. Sound => ModeAgreed
  BY DEF Sound
<1> QED BY <1>1, SoundAlways, PTL
=============================================================================
