----------------------------- MODULE RoomProofs -----------------------------
(***************************************************************************)
(* Theorems about module Room, for any number of connections of any        *)
(* owners, any time control and any bounds.  The Game inside the Room is   *)
(* Good by the lemmas of GameRulesProofs; what is left to show is how the  *)
(* loop, the seats, the handlers and the sockets fit together.             *)
(***************************************************************************)
EXTENDS Room, GameRulesProofs

-----------------------------------------------------------------------------
(* The inductive invariant, in parts.                                      *)

(* A socket exists from the upgrade on, and only players get one.          *)
SocketsFit ==
    \A k \in Conns :
        /\ handler[k] = "idle" => socket[k] = "none"
        /\ handler[k] \in Sending \cup {"reading"} => socket[k] # "none"
        /\ socket[k] # "none" => Owner[k] \in Sides

(* Who is seated has joined, on the side it owns.                          *)
SeatsFit ==
    \A s \in Sides : seat[s] # Nobody =>
        /\ seat[s] \in Conns /\ Owner[seat[s]] = s
        /\ handler[seat[s]] \notin {"idle", "joining"}

(* How far the wind-down is can be read off the loop.                      *)
Unannounced == loop \in {"select", "check", "announce"}
Freeing == loop \in {"free", "returned"}

LoopFits ==
    /\ loop = "select" => ~Over(game)
    /\ loop \notin {"select", "check"} => Over(game)
    /\ done <=> loop = "closeSeats" \/ Freeing
    /\ registered <=> loop # "returned"

(* Nobody is told anything before the announcement; after it, every peer   *)
(* that still listens was told, and the Game stays as it was announced.    *)
ToldFits ==
    /\ Unannounced => \A k \in Conns : told[k] = NoResult
    /\ ~Unannounced => \A k \in Conns : told[k] \in {NoResult, game.result}
    /\ ~Unannounced => \A k \in Listening : told[k] = game.result

(* The record and the two players are left alone until both sockets are    *)
(* closed, and the loop returns only once both players were dealt with.    *)
StoreFits ==
    /\ stored # NoRecord =>
          /\ Freeing
          /\ stored = [plies |-> game.plies, result |-> game.result,
                       timeLeft |-> game.timeLeft]
    /\ (\E s \in Sides : freed[s] # "todo") => Freeing
    /\ Freeing => Unclosed = {}
    /\ loop = "returned" => AllFreed

IInv ==
    /\ TypeOK
    /\ Good(game, now)
    /\ SocketsFit
    /\ SeatsFit
    /\ LoopFits
    /\ ToldFits
    /\ StoreFits
    /\ OneSocketPerSide
    /\ DisconnectMeansGone
    /\ ViewInSync

-----------------------------------------------------------------------------
(* The handlers of the sockets.                                            *)

(* Time passes: the Game is as Good as before.                             *)
LEMMA TickKeeps ==
    ASSUME IInv, Tick
    PROVE  IInv'
<1> USE DEF IInv, Tick, roomVars, connVars, TypeOK
<1>1. TypeOK'
  BY DEF Sending
<1>2. Good(game, now)'
  BY LaterGood
<1>3. (SocketsFit /\ SeatsFit /\ OneSocketPerSide /\ DisconnectMeansGone)'
  BY ConnAssumption
     DEF SocketsFit, SeatsFit, Sending, OneSocketPerSide, DisconnectMeansGone, Joined
<1>4. (LoopFits /\ ToldFits /\ StoreFits /\ ViewInSync)'
  BY ConnAssumption
     DEF LoopFits, ToldFits, StoreFits, ViewInSync, Unannounced, Freeing, Over,
         Listening, Seated, Unclosed, AllFreed, SeatsFit, SocketsFit
<1> QED BY <1>1, <1>2, <1>3, <1>4

(* A socket is opened for a player, whom the loop does not know yet, or    *)
(* refused.                                                                *)
LEMMA ConnectKeeps ==
    ASSUME IInv, NEW k \in Conns, Connect(k)
    PROVE  IInv'
<1> USE DEF IInv, Connect, roomVars, connVars, TypeOK
<1>1. TypeOK'
  BY DEF Sending
<1>2. Good(game, now)'
  OBVIOUS
<1>3. (SocketsFit /\ SeatsFit /\ OneSocketPerSide /\ DisconnectMeansGone)'
  BY ConnAssumption
     DEF SocketsFit, SeatsFit, Sending, OneSocketPerSide, DisconnectMeansGone, Joined
<1>4. (LoopFits /\ ToldFits /\ StoreFits /\ ViewInSync)'
  BY ConnAssumption
     DEF LoopFits, ToldFits, StoreFits, ViewInSync, Unannounced, Freeing, Over,
         Listening, Seated, Unclosed, AllFreed, SeatsFit, SocketsFit
<1> QED BY <1>1, <1>2, <1>3, <1>4

(* A handler with a message is as much in its Room as one without.         *)
LEMMA ReadMessageKeeps ==
    ASSUME IInv, NEW k \in Conns, NEW m \in Messages, ReadMessage(k, m)
    PROVE  IInv'
<1> USE DEF IInv, ReadMessage, NoMessage, roomVars, connVars, TypeOK
<1>1. TypeOK'
  BY RoomBoundAssumption DEF Sending
<1>2. Good(game, now)'
  OBVIOUS
<1>3. (SocketsFit /\ SeatsFit /\ OneSocketPerSide /\ DisconnectMeansGone)'
  BY ConnAssumption
     DEF SocketsFit, SeatsFit, Sending, OneSocketPerSide, DisconnectMeansGone, Joined
<1>4. (LoopFits /\ ToldFits /\ StoreFits /\ ViewInSync)'
  BY ConnAssumption
     DEF LoopFits, ToldFits, StoreFits, ViewInSync, Unannounced, Freeing, Over,
         Listening, Seated, Unclosed, AllFreed, SeatsFit, SocketsFit
<1> QED BY <1>1, <1>2, <1>3, <1>4

(* A handler that wants to leave has its seat until the loop hears of it.  *)
LEMMA ReadErrorKeeps ==
    ASSUME IInv, NEW k \in Conns, ReadError(k)
    PROVE  IInv'
<1> USE DEF IInv, ReadError, roomVars, connVars, TypeOK
<1>1. TypeOK'
  BY DEF Sending
<1>2. Good(game, now)'
  OBVIOUS
<1>3. (SocketsFit /\ SeatsFit /\ OneSocketPerSide /\ DisconnectMeansGone)'
  BY ConnAssumption
     DEF SocketsFit, SeatsFit, Sending, OneSocketPerSide, DisconnectMeansGone, Joined
<1>4. (LoopFits /\ ToldFits /\ StoreFits /\ ViewInSync)'
  BY ConnAssumption
     DEF LoopFits, ToldFits, StoreFits, ViewInSync, Unannounced, Freeing, Over,
         Listening, Seated, Unclosed, AllFreed, SeatsFit, SocketsFit
<1> QED BY <1>1, <1>2, <1>3, <1>4

(* Once done is closed a handler closes its own socket; who sat on it was  *)
(* told the Result before.                                                 *)
LEMMA SendRefusedKeeps ==
    ASSUME IInv, NEW k \in Conns, SendRefused(k)
    PROVE  IInv'
<1> USE DEF IInv, SendRefused, NoMessage, NoView, roomVars, connVars, TypeOK
<1>1. TypeOK'
  BY RoomBoundAssumption DEF Sending
<1>2. Good(game, now)'
  OBVIOUS
<1>3. (SocketsFit /\ SeatsFit /\ OneSocketPerSide /\ DisconnectMeansGone)'
  BY ConnAssumption
     DEF SocketsFit, SeatsFit, Sending, OneSocketPerSide, DisconnectMeansGone, Joined
<1>4. (LoopFits /\ ToldFits /\ StoreFits /\ ViewInSync)'
  BY ConnAssumption
     DEF LoopFits, ToldFits, StoreFits, ViewInSync, Unannounced, Freeing, Over,
         Listening, Seated, Unclosed, AllFreed, SeatsFit, SocketsFit
<1> QED BY <1>1, <1>2, <1>3, <1>4

(* A peer that is gone listens no more.                                    *)
LEMMA PeerGoneKeeps ==
    ASSUME IInv, NEW k \in Conns, PeerGone(k)
    PROVE  IInv'
<1> USE DEF IInv, PeerGone, NoView, roomVars, connVars, TypeOK
<1>1. TypeOK'
  BY DEF Sending
<1>2. Good(game, now)'
  OBVIOUS
<1>3. (SocketsFit /\ SeatsFit /\ OneSocketPerSide /\ DisconnectMeansGone)'
  BY ConnAssumption
     DEF SocketsFit, SeatsFit, Sending, OneSocketPerSide, DisconnectMeansGone, Joined
<1>4. (LoopFits /\ ToldFits /\ StoreFits /\ ViewInSync)'
  BY ConnAssumption
     DEF LoopFits, ToldFits, StoreFits, ViewInSync, Unannounced, Freeing, Over,
         Listening, Seated, Unclosed, AllFreed, SeatsFit, SocketsFit
<1> QED BY <1>1, <1>2, <1>3, <1>4

-----------------------------------------------------------------------------
(* The commands the loop receives.                                         *)

(* What the snapshot of a join tells the newcomer.                         *)
LEMMA SnapshotFacts ==
    ASSUME NEW plies \in Nat, NEW opponent, NEW shown,
           shown = [plies |-> plies, opponent |-> opponent # Nobody]
    PROVE  /\ shown.plies = plies
           /\ shown.opponent <=> opponent # Nobody
           /\ shown \in [plies : Nat \cup {-1}, opponent : BOOLEAN]
OBVIOUS

(* A newcomer takes its side's seat and the one it replaces is closed; the *)
(* Game is settled, and no more.                                           *)
LEMMA HandleJoinKeeps ==
    ASSUME IInv, NEW k \in Conns, HandleJoin(k)
    PROVE  IInv'
<1>1. PICK color, opponent, old :
          color = Owner[k] /\ opponent = seat[Opponent(color)] /\ old = seat[color]
  OBVIOUS
<1>2. /\ loop = "select" /\ handler[k] = "joining" /\ loop' = "check"
      /\ handler' = [handler EXCEPT ![k] = "reading"]
      /\ message' = [message EXCEPT ![k] = NoMessage]
      /\ seat' = [seat EXCEPT ![color] = k]
      /\ game' = Settle(game, now)
      /\ socket' = [c \in Conns |-> IF c = old THEN "closed" ELSE socket[c]]
      /\ UNCHANGED <<now, tick, done, registered, unsent, told, stored, freed>>
  BY <1>1 DEF HandleJoin, Received, OldClosed
<1>3. view' = [c \in Conns |->
                 CASE c = k /\ socket[k] = "open" ->
                          [plies |-> game'.plies, opponent |-> opponent # Nobody]
                   [] c = opponent /\ socket[c] = "open" ->
                          [view[c] EXCEPT !.opponent = TRUE]
                   [] c = old -> NoView
                   [] OTHER -> view[c]]
  BY <1>1 DEF HandleJoin
<1>4. color \in Sides /\ Opponent(color) \in Sides /\ Opponent(color) # color
  BY <1>1, <1>2, OpponentFacts DEF IInv, SocketsFit, Sending
<1>5. /\ Good(game', now) /\ game'.plies = game.plies
      /\ game'.result.method # "disconnect"
  BY <1>2, SettleGood, CommandPlies, OnlyDisconnect
     DEF IInv, TypeOK, LoopFits, Over, NoResult
<1>6. /\ k # old /\ k # opponent
      /\ opponent = old => old = Nobody
      /\ \A s \in Sides : seat[s] # k
  BY <1>1, <1>2, <1>4, ConnAssumption DEF IInv, SeatsFit
<1>7. ASSUME NEW c \in Conns, c = k, socket[k] = "open"
       PROVE  view'[c] = [plies |-> game'.plies, opponent |-> opponent # Nobody]
  BY <1>3, <1>6, <1>7
<1>8. ASSUME NEW c \in Conns, c # k, c = opponent, socket[c] = "open"
       PROVE  view'[c] = [view[c] EXCEPT !.opponent = TRUE]
  BY <1>3, <1>6, ConnAssumption, <1>8
<1>9. ASSUME NEW c \in Conns, ~(c = k /\ socket[k] = "open"),
              ~(c = opponent /\ socket[c] = "open")
       PROVE  view'[c] = IF c = old THEN NoView ELSE view[c]
  BY <1>3, <1>6, ConnAssumption, <1>9
<1>10. TypeOK'
  <2>1. view' \in [Conns -> [plies : Nat \cup {-1}, opponent : BOOLEAN]]
    <3>1. game'.plies \in Nat BY <1>5 DEF Good, Games
    <3>2. NoView \in [plies : Nat \cup {-1}, opponent : BOOLEAN] BY DEF NoView
    <3>3. ASSUME NEW c \in Conns
          PROVE  view'[c] \in [plies : Nat \cup {-1}, opponent : BOOLEAN]
      <4>1. view[c] \in [plies : Nat \cup {-1}, opponent : BOOLEAN] BY DEF IInv, TypeOK
      <4>2. CASE c = k /\ socket[k] = "open"
        <5>1. view'[c] = [plies |-> game'.plies, opponent |-> opponent # Nobody]
          BY <1>7, <4>2
        <5> QED BY <3>1, <5>1, SnapshotFacts
      <4>3. CASE c # k /\ c = opponent /\ socket[c] = "open"
        <5>1. view'[c] = [view[c] EXCEPT !.opponent = TRUE]
          BY <1>8, <4>3
        <5> QED BY <4>1, <5>1
      <4>4. CASE ~(c = k /\ socket[k] = "open") /\ ~(c = opponent /\ socket[c] = "open")
        BY <1>9, <3>2, <4>1, <4>4
      <4> QED BY <1>6, <4>2, <4>3, <4>4
    <3> QED BY <1>3, <3>3
  <2>2. seat' \in [Sides -> Conns \cup {Nobody}]
    BY <1>2, <1>4 DEF IInv, TypeOK
  <2> QED BY <1>2, <1>5, <2>1, <2>2 DEF IInv, TypeOK, Good, Games, NoMessage
<1>11. SocketsFit'
  BY <1>1, <1>2, <1>4, ConnAssumption DEF IInv, SocketsFit, SeatsFit, Sending, TypeOK
<1>12. SeatsFit'
  BY <1>1, <1>2, <1>4, ConnAssumption DEF IInv, SeatsFit, TypeOK
<1>13. LoopFits' /\ ToldFits' /\ StoreFits'
  BY <1>2 DEF IInv, LoopFits, ToldFits, StoreFits, Unannounced, Freeing, Over
<1>14. OneSocketPerSide'
  BY <1>1, <1>2, <1>4 DEF IInv, OneSocketPerSide, Joined, TypeOK, SocketsFit
<1>15. DisconnectMeansGone'
  BY <1>5 DEF DisconnectMeansGone
<1>16. ViewInSync'
  <2> SUFFICES ASSUME NEW c \in Listening'
               PROVE  /\ view'[c].plies = game'.plies
                      /\ view'[c].opponent <=> seat'[Opponent(Owner[c])] # Nobody
    BY DEF ViewInSync
  <2>0. PICK s \in Sides : seat'[s] = c
    BY DEF Listening, Seated
  <2>4. c \in Conns
    BY <1>10, <2>0 DEF Listening, Seated, TypeOK
  <2>1. socket[c] = "open" /\ c # old
    BY <1>2, <2>4 DEF Listening
  <2>2. CASE s = color
    <3>1. c = k BY <1>2, <1>4, <2>0, <2>2 DEF IInv, TypeOK
    <3>2. view'[c] = [plies |-> game'.plies, opponent |-> opponent # Nobody]
      BY <1>7, <2>1, <2>4, <3>1
    <3>3. seat'[Opponent(Owner[c])] = opponent
      BY <1>1, <1>2, <1>4, <3>1 DEF IInv, TypeOK
    <3>4. game'.plies \in Nat BY <1>5 DEF Good, Games
    <3> QED BY <3>2, <3>3, <3>4, SnapshotFacts
  <2>3. CASE s # color
    <3>1. s = Opponent(color) /\ color = Opponent(s) /\ seat[s] = c /\ c = opponent
      BY <1>1, <1>2, <1>4, <2>0, <2>3 DEF IInv, TypeOK, Opponent, Sides
    <3>2. c # k /\ Owner[c] = s BY <1>6, <2>4, <3>1, ConnAssumption DEF IInv, SeatsFit
    <3>3. view[c].plies = game.plies
      BY <2>1, <2>4, <3>1, ConnAssumption DEF IInv, ViewInSync, Listening, Seated
    <3>4. view'[c] = [view[c] EXCEPT !.opponent = TRUE]
      BY <1>8, <2>1, <2>4, <3>1, <3>2
    <3>5. seat'[Opponent(Owner[c])] = k
      BY <1>2, <1>4, <3>1, <3>2 DEF IInv, TypeOK
    <3> QED BY <1>5, <2>4, <3>3, <3>4, <3>5, ConnAssumption DEF IInv, TypeOK
  <2> QED BY <2>2, <2>3
<1> QED BY <1>2, <1>5, <1>10, <1>11, <1>12, <1>13, <1>14, <1>15, <1>16 DEF IInv

(* Only the leave of the socket that holds the seat costs its side the     *)
(* Game, and then no other socket of that side has joined.                 *)
LEMMA HandleLeaveKeeps ==
    ASSUME IInv, NEW k \in Conns, HandleLeave(k)
    PROVE  IInv'
<1> USE DEF IInv, HandleLeave, Received
<1>1. Owner[k] \in Sides /\ Opponent(Owner[k]) \in Sides /\ Opponent(Owner[k]) # Owner[k]
      /\ Opponent(Opponent(Owner[k])) = Owner[k]
  BY OpponentFacts DEF SocketsFit, Sending, Opponent, Sides
<1>2. ~Over(game) /\ game.result.method # "disconnect"
  BY DEF LoopFits, Over, NoResult
<1>3. Replaced(k) => game' = game /\ seat' = seat
  OBVIOUS
<1>4. ASSUME ~Replaced(k)
      PROVE  /\ Good(game', now) /\ game'.plies = game.plies
             /\ Over(game')
             /\ game'.result.method = "disconnect" => game'.result.winner = Opponent(Owner[k])
             /\ seat' = [seat EXCEPT ![Owner[k]] = Nobody]
  <2>1. now \in Nat /\ game' = AfterForfeit(game, Owner[k], "disconnect", now)
    BY <1>4 DEF TypeOK
  <2>2. Good(game', now) BY <1>1, <2>1, ForfeitGood
  <2>3. game'.plies = game.plies /\ Over(game') BY <1>1, <2>1, CommandPlies
  <2>4. game'.result.method = "disconnect" => game'.result.winner = Opponent(Owner[k])
    BY <1>1, <1>2, <2>1, OnlyDisconnect
  <2> QED BY <1>4, <2>2, <2>3, <2>4
<1>5. Good(game', now) /\ game'.plies = game.plies
  BY <1>3, <1>4
<1>6. TypeOK'
  BY <1>1, <1>5, RoomBoundAssumption DEF TypeOK, Good, Games, NoMessage, NoView
<1>7. SocketsFit'
  BY <1>1 DEF SocketsFit, Sending, TypeOK
<1>8. SeatsFit'
  BY <1>1 DEF SeatsFit, TypeOK
<1>9. LoopFits' /\ ToldFits' /\ StoreFits'
  BY DEF LoopFits, ToldFits, StoreFits, Unannounced, Freeing, Over
<1>10. OneSocketPerSide'
  BY <1>1 DEF OneSocketPerSide, Joined, Replaced, SocketsFit, TypeOK
<1>11. DisconnectMeansGone'
  BY <1>1, <1>2, <1>3, <1>4 DEF DisconnectMeansGone, OneSocketPerSide, Joined, Replaced, TypeOK
<1>12. ViewInSync'
  BY <1>1, <1>2, <1>3, <1>4, <1>5 DEF ViewInSync, Listening, Seated, SeatsFit, TypeOK
<1> QED BY <1>5, <1>6, <1>7, <1>8, <1>9, <1>10, <1>11, <1>12

(* A move that is accepted is a ply more in the Game and on every screen.  *)
LEMMA HandleMoveKeeps ==
    ASSUME IInv, NEW k \in Conns, NEW legal \in BOOLEAN,
           NEW position \in PositionEndings \cup {Ongoing}, HandleMove(k, legal, position)
    PROVE  IInv'
<1> USE DEF IInv, HandleMove, Received
<1> DEFINE accepted == MoveError(Settle(game, now), Owner[k], legal) = "ok"
<1>1. Owner[k] \in Sides
  BY DEF SocketsFit, Sending
<1>2. ~Over(game) /\ game.result.method # "disconnect"
  BY DEF LoopFits, Over, NoResult
<1>3. Good(game', now) /\ game'.result.method # "disconnect"
  <2>1. now \in Nat /\ game' = AfterMove(game, Owner[k], legal, position, now)
    BY DEF TypeOK
  <2>2. Good(game', now) BY <1>1, <2>1, MoveGood
  <2>3. game'.result.method # "disconnect" BY <1>1, <1>2, <2>1, OnlyDisconnect
  <2> QED BY <2>2, <2>3
<1>4. game'.plies = IF accepted THEN game.plies + 1 ELSE game.plies
  BY <1>1, CommandPlies DEF TypeOK
<1>5. view' = [c \in Conns |-> IF accepted /\ c \in Audience(k)
                               THEN [view[c] EXCEPT !.plies = @ + 1] ELSE view[c]]
  OBVIOUS
<1> HIDE DEF accepted
<1>6. TypeOK'
  <2>1. view' \in [Conns -> [plies : Nat \cup {-1}, opponent : BOOLEAN]]
    BY <1>5 DEF TypeOK
  <2> QED BY <1>3, <2>1 DEF TypeOK, Good, Games, NoMessage
<1>7. SocketsFit' /\ SeatsFit'
  BY DEF SocketsFit, SeatsFit, Sending, TypeOK
<1>8. LoopFits' /\ ToldFits' /\ StoreFits'
  BY DEF LoopFits, ToldFits, StoreFits, Unannounced, Freeing, Over
<1>9. OneSocketPerSide' /\ DisconnectMeansGone'
  BY <1>3 DEF OneSocketPerSide, DisconnectMeansGone, Joined, TypeOK
<1>10. ViewInSync'
  BY <1>2, <1>4, <1>5 DEF ViewInSync, Listening, Seated, Audience, TypeOK
<1> QED BY <1>3, <1>6, <1>7, <1>8, <1>9, <1>10

(* Any other message leaves the plies, the seats and the screens alone.    *)
LEMMA HandleOtherKeeps ==
    ASSUME IInv, NEW k \in Conns, HandleResign(k) \/ HandleAbort(k) \/ HandleBad(k)
    PROVE  IInv'
<1>1. /\ Received(k, "forwarding", "reading")
      /\ UNCHANGED <<seat, unsent, socket, view>>
      /\ \/ game' = AfterForfeit(game, Owner[k], "resign", now)
         \/ game' = AfterAbort(game, now)
         \/ game' = game
  BY DEF HandleResign, HandleAbort, HandleBad
<1> USE <1>1 DEF IInv, Received
<1>2. Owner[k] \in Sides
  BY DEF SocketsFit, Sending
<1>3. ~Over(game) /\ game.result.method # "disconnect"
  BY DEF LoopFits, Over, NoResult
<1>4. Good(game', now) /\ game'.plies = game.plies /\ game'.result.method # "disconnect"
  <2>1. now \in Nat /\ "resign" \in {"resign", "disconnect"} BY DEF TypeOK
  <2>2. CASE game' = AfterForfeit(game, Owner[k], "resign", now)
    <3>1. Good(game', now) BY <1>2, <2>1, <2>2, ForfeitGood
    <3>2. game'.plies = game.plies BY <1>2, <2>1, <2>2, CommandPlies
    <3>3. game'.result.method # "disconnect" BY <1>2, <1>3, <2>1, <2>2, OnlyDisconnect
    <3> QED BY <3>1, <3>2, <3>3
  <2>3. CASE game' = AfterAbort(game, now)
    BY <1>3, <2>1, <2>3, AbortGood, CommandPlies, OnlyDisconnect
  <2>4. CASE game' = game
    BY <1>3, <2>4
  <2> QED BY <1>1, <2>2, <2>3, <2>4
<1>5. TypeOK'
  BY <1>4 DEF TypeOK, Good, Games, NoMessage
<1>6. SocketsFit' /\ SeatsFit'
  BY DEF SocketsFit, SeatsFit, Sending, TypeOK
<1>7. LoopFits' /\ ToldFits' /\ StoreFits'
  BY DEF LoopFits, ToldFits, StoreFits, Unannounced, Freeing, Over
<1>8. OneSocketPerSide' /\ DisconnectMeansGone'
  BY <1>4 DEF OneSocketPerSide, DisconnectMeansGone, Joined, TypeOK
<1>9. ViewInSync'
  BY <1>3, <1>4 DEF ViewInSync, Listening, Seated, TypeOK
<1> QED BY <1>4, <1>5, <1>6, <1>7, <1>8, <1>9

-----------------------------------------------------------------------------
(* The check for a Result, and the wind-down.                              *)

(* The loop looks at the clock, ends the Game if time has run out, and     *)
(* goes back to its select only while the Game lasts.                      *)
LEMMA CheckResultKeeps ==
    ASSUME IInv, CheckResult
    PROVE  IInv'
<1> USE DEF IInv, CheckResult, connVars
<1>1. Good(game', now) /\ game'.plies = game.plies
  BY SettleGood, CommandPlies DEF TypeOK
<1>2. /\ Over(game) => game' = game
      /\ Over(game') \/ game' = game
      /\ game'.result.method = "disconnect" => game.result.method = "disconnect"
  BY SettleGood, OverStays, OnlyDisconnect DEF TypeOK
<1> DEFINE next == Settle(game, now)
<1> HIDE DEF next
<1>3. TypeOK'
  BY <1>1 DEF TypeOK, Good, Games
<1>4. SocketsFit' /\ SeatsFit'
  BY DEF SocketsFit, SeatsFit
<1>5. LoopFits' /\ ToldFits' /\ StoreFits'
  BY DEF LoopFits, ToldFits, StoreFits, Unannounced, Freeing, Over
<1>6. OneSocketPerSide'
  BY DEF OneSocketPerSide, Joined
<1>7. DisconnectMeansGone'
  BY <1>2 DEF DisconnectMeansGone, Joined, Over, NoResult
<1>8. ViewInSync'
  BY <1>1, <1>2 DEF ViewInSync, Listening, Seated
<1> QED BY <1>1, <1>3, <1>4, <1>5, <1>6, <1>7, <1>8

(* A tick sends the loop to look at the Game, whatever it finds.           *)
LEMMA TakeTickKeeps ==
    ASSUME IInv, TakeTick
    PROVE  IInv'
<1> USE DEF IInv, TakeTick, AfterTick, roomVars, connVars, TypeOK
<1>1. TypeOK'
  BY DEF Sending
<1>2. Good(game, now)'
  OBVIOUS
<1>3. (SocketsFit /\ SeatsFit /\ OneSocketPerSide /\ DisconnectMeansGone)'
  BY ConnAssumption
     DEF SocketsFit, SeatsFit, Sending, OneSocketPerSide, DisconnectMeansGone, Joined
<1>4. (LoopFits /\ ToldFits /\ StoreFits /\ ViewInSync)'
  BY ConnAssumption
     DEF LoopFits, ToldFits, StoreFits, ViewInSync, Unannounced, Freeing, Over,
         Listening, Seated, Unclosed, AllFreed, SeatsFit, SocketsFit
<1> QED BY <1>1, <1>2, <1>3, <1>4

(* The Result is told to all who listen, and to nobody else.               *)
LEMMA AnnounceKeeps ==
    ASSUME IInv, Announce
    PROVE  IInv'
<1> USE DEF IInv, Announce, Informed, roomVars, connVars, TypeOK
<1>1. TypeOK'
  BY DEF Sending
<1>2. Good(game, now)'
  OBVIOUS
<1>3. (SocketsFit /\ SeatsFit /\ OneSocketPerSide /\ DisconnectMeansGone)'
  BY ConnAssumption
     DEF SocketsFit, SeatsFit, Sending, OneSocketPerSide, DisconnectMeansGone, Joined
<1>4. (LoopFits /\ ToldFits /\ StoreFits /\ ViewInSync)'
  BY ConnAssumption
     DEF LoopFits, ToldFits, StoreFits, ViewInSync, Unannounced, Freeing, Over,
         Listening, Seated, Unclosed, AllFreed, SeatsFit, SocketsFit
<1> QED BY <1>1, <1>2, <1>3, <1>4

(* done is closed after the announcement.                                  *)
LEMMA CloseDoneKeeps ==
    ASSUME IInv, CloseDone
    PROVE  IInv'
<1> USE DEF IInv, CloseDone, Closed, roomVars, connVars, TypeOK
<1>1. TypeOK'
  BY DEF Sending
<1>2. Good(game, now)'
  OBVIOUS
<1>3. (SocketsFit /\ SeatsFit /\ OneSocketPerSide /\ DisconnectMeansGone)'
  BY ConnAssumption
     DEF SocketsFit, SeatsFit, Sending, OneSocketPerSide, DisconnectMeansGone, Joined
<1>4. (LoopFits /\ ToldFits /\ StoreFits /\ ViewInSync)'
  BY ConnAssumption
     DEF LoopFits, ToldFits, StoreFits, ViewInSync, Unannounced, Freeing, Over,
         Listening, Seated, Unclosed, AllFreed, SeatsFit, SocketsFit
<1> QED BY <1>1, <1>2, <1>3, <1>4

(* A seated socket is closed after its peer was told.                      *)
LEMMA CloseSeatKeeps ==
    ASSUME IInv, NEW k \in Conns, CloseSeat(k)
    PROVE  IInv'
<1> USE DEF IInv, CloseSeat, NoView, Unclosed, Seated, roomVars, connVars, TypeOK
<1>1. TypeOK'
  BY DEF Sending
<1>2. Good(game, now)'
  OBVIOUS
<1>3. (SocketsFit /\ SeatsFit /\ OneSocketPerSide /\ DisconnectMeansGone)'
  BY ConnAssumption
     DEF SocketsFit, SeatsFit, Sending, OneSocketPerSide, DisconnectMeansGone, Joined
<1>4. (LoopFits /\ ToldFits /\ StoreFits /\ ViewInSync)'
  BY ConnAssumption
     DEF LoopFits, ToldFits, StoreFits, ViewInSync, Unannounced, Freeing, Over,
         Listening, Seated, Unclosed, AllFreed, SeatsFit, SocketsFit
<1> QED BY <1>1, <1>2, <1>3, <1>4

(* The record is written, or not, when both sockets are closed.            *)
LEMMA SaveKeeps ==
    ASSUME IInv, NEW ok \in BOOLEAN, Save(ok)
    PROVE  IInv'
<1> USE DEF IInv, Save, NoRecord, roomVars, connVars, TypeOK
<1>1. TypeOK'
  BY DEF Sending
<1>2. Good(game, now)'
  OBVIOUS
<1>3. (SocketsFit /\ SeatsFit /\ OneSocketPerSide /\ DisconnectMeansGone)'
  BY ConnAssumption
     DEF SocketsFit, SeatsFit, Sending, OneSocketPerSide, DisconnectMeansGone, Joined
<1>4. (LoopFits /\ ToldFits /\ StoreFits /\ ViewInSync)'
  BY ConnAssumption
     DEF LoopFits, ToldFits, StoreFits, ViewInSync, Unannounced, Freeing, Over,
         Listening, Seated, Unclosed, AllFreed, SeatsFit, SocketsFit
<1> QED BY <1>1, <1>2, <1>3, <1>4

(* A player is freed, or not, when both sockets are closed.                *)
LEMMA FreeKeeps ==
    ASSUME IInv, NEW side \in Sides, NEW ok \in BOOLEAN, Free(side, ok)
    PROVE  IInv'
<1> USE DEF IInv, Free, roomVars, connVars, TypeOK
<1>1. TypeOK'
  BY DEF Sending
<1>2. Good(game, now)'
  OBVIOUS
<1>3. (SocketsFit /\ SeatsFit /\ OneSocketPerSide /\ DisconnectMeansGone)'
  BY ConnAssumption
     DEF SocketsFit, SeatsFit, Sending, OneSocketPerSide, DisconnectMeansGone, Joined
<1>4. (LoopFits /\ ToldFits /\ StoreFits /\ ViewInSync)'
  BY ConnAssumption
     DEF LoopFits, ToldFits, StoreFits, ViewInSync, Unannounced, Freeing, Over,
         Listening, Seated, Unclosed, AllFreed, SeatsFit, SocketsFit
<1> QED BY <1>1, <1>2, <1>3, <1>4

(* The Room leaves the registry when both players were dealt with.         *)
LEMMA RemoveKeeps ==
    ASSUME IInv, Remove
    PROVE  IInv'
<1> USE DEF IInv, Remove, roomVars, connVars, TypeOK
<1>1. TypeOK'
  BY DEF Sending
<1>2. Good(game, now)'
  OBVIOUS
<1>3. (SocketsFit /\ SeatsFit /\ OneSocketPerSide /\ DisconnectMeansGone)'
  BY ConnAssumption
     DEF SocketsFit, SeatsFit, Sending, OneSocketPerSide, DisconnectMeansGone, Joined
<1>4. (LoopFits /\ ToldFits /\ StoreFits /\ ViewInSync)'
  BY ConnAssumption
     DEF LoopFits, ToldFits, StoreFits, ViewInSync, Unannounced, Freeing, Over,
         Listening, Seated, Unclosed, AllFreed, SeatsFit, SocketsFit
<1> QED BY <1>1, <1>2, <1>3, <1>4

-----------------------------------------------------------------------------
(* A Room starts with a new Game and no connections.                       *)
LEMMA InitHolds == Init => IInv
<1> SUFFICES ASSUME Init PROVE IInv
  OBVIOUS
<1>1. Good(game, now) BY NewGood DEF Init
<1>2. ~Over(game) /\ game.result.method # "disconnect"
  BY DEF Init, NewGame, Over, NoResult
<1>3. TypeOK
  <2>1. now \in Nat /\ unsent \in [Conns -> 0..MaxMessages]
    BY RoomBoundAssumption DEF Init
  <2>2. game \in [plies : Nat, turn : Sides, timeLeft : [Sides -> 0..TimeControl],
                  lastMoveAt : 0..now, result : Results \cup {NoResult}]
    BY <1>1 DEF Good, Games
  <2>3. stored \in [plies : Nat \cup {-1}, result : Results \cup {NoResult},
                    timeLeft : [Sides -> 0..TimeControl]]
    BY TimeAssumption DEF Init, NoRecord
  <2>4. view \in [Conns -> [plies : Nat \cup {-1}, opponent : BOOLEAN]]
    BY DEF Init, NoView
  <2> QED BY <2>1, <2>2, <2>3, <2>4 DEF Init, TypeOK, NoMessage
<1>4. SocketsFit /\ SeatsFit /\ OneSocketPerSide /\ DisconnectMeansGone
  BY <1>2, ConnAssumption
     DEF Init, SocketsFit, SeatsFit, Sending, OneSocketPerSide, Joined, DisconnectMeansGone
<1>5. LoopFits /\ ToldFits /\ StoreFits
  BY <1>2 DEF Init, LoopFits, ToldFits, StoreFits, Unannounced, Freeing
<1>6. ViewInSync
  BY DEF Init, ViewInSync, Listening, Seated
<1> QED BY <1>1, <1>3, <1>4, <1>5, <1>6 DEF IInv

(* Every step of a handler, of a peer, of the clock and of the loop keeps  *)
(* the parts together.                                                     *)
LEMMA NextKeeps == IInv /\ [Next]_vars => IInv'
<1> SUFFICES ASSUME IInv, [Next]_vars PROVE IInv'
  OBVIOUS
<1>1. CASE Tick
  BY <1>1, TickKeeps
<1>2. ASSUME NEW k \in Conns, HandlerStep(k) \/ PeerGone(k) PROVE IInv'
  BY <1>2, ConnectKeeps, ReadMessageKeeps, ReadErrorKeeps, SendRefusedKeeps, PeerGoneKeeps
     DEF HandlerStep
<1>3. ASSUME NEW k \in Conns, Receive(k) PROVE IInv'
  BY <1>3, HandleJoinKeeps, HandleLeaveKeeps, HandleMoveKeeps, HandleOtherKeeps
     DEF Receive, HandleMessage
<1>4. CASE TakeTick \/ CheckResult
  BY <1>4, TakeTickKeeps, CheckResultKeeps
<1>5. CASE FinishStep
  BY <1>5, AnnounceKeeps, CloseDoneKeeps, CloseSeatKeeps, SaveKeeps, FreeKeeps, RemoveKeeps
     DEF FinishStep
<1>6. CASE UNCHANGED vars
  BY <1>6 DEF vars, IInv, TypeOK, SocketsFit, SeatsFit, LoopFits, ToldFits, StoreFits,
              Unannounced, Freeing, Unclosed, AllFreed, Listening, Seated,
              OneSocketPerSide, DisconnectMeansGone, ViewInSync, Joined, Over
<1> QED BY <1>1, <1>2, <1>3, <1>4, <1>5, <1>6 DEF Next, LoopStep, Finished

(* It holds at every step of the specification.                            *)
LEMMA Inductive == Spec => []IInv
BY InitHolds, NextKeeps, PTL DEF Spec

(* Every variable of a Room keeps its type, the Game's clocks their bounds.*)
THEOREM TypeCorrect == Spec => []TypeOK
BY Inductive, PTL DEF IInv

(* No side ever plays through two sockets, however many connections its    *)
(* player makes and whatever the order in which joins and leaves arrive.   *)
THEOREM OneSocketCorrect == Spec => []OneSocketPerSide
BY Inductive, PTL DEF IInv

(* No player loses by disconnecting while a joined socket of that player   *)
(* is open.                                                                *)
THEOREM DisconnectCorrect == Spec => []DisconnectMeansGone
BY Inductive, PTL DEF IInv

(* Every peer that can still hear the Room has seen every ply, and, while  *)
(* the Game lasts, knows whether anybody sits on the other side.           *)
THEOREM ViewCorrect == Spec => []ViewInSync
BY Inductive, PTL DEF IInv

(* Nobody is told anything but the Game's one Result, everybody who still  *)
(* listens when done is closed was told, and the record agrees.            *)
THEOREM StoryCorrect == Spec => []OneStory
<1>1. IInv => OneStory
  <2> SUFFICES ASSUME IInv PROVE OneStory
    OBVIOUS
  <2>1. \A k \in Conns : told[k] \in {NoResult, game.result}
    BY DEF IInv, ToldFits, Unannounced
  <2>2. done => Over(game) /\ \A k \in Listening : told[k] = game.result
    BY DEF IInv, LoopFits, ToldFits, Unannounced, Freeing
  <2>3. stored # NoRecord => stored = [plies |-> game.plies, result |-> game.result,
                                       timeLeft |-> game.timeLeft]
    BY DEF IInv, StoreFits
  <2> QED BY <2>1, <2>2, <2>3 DEF OneStory
<1> QED BY <1>1, Inductive, PTL

(* A player is freed only after done and both sockets are closed, and the  *)
(* Room leaves the registry only after both players were dealt with.       *)
THEOREM FreedCorrect == Spec => []FreedAfterClosing
<1>1. IInv => FreedAfterClosing
  BY DEF IInv, StoreFits, LoopFits, Freeing, AllFreed, FreedAfterClosing
<1> QED BY <1>1, Inductive, PTL

-----------------------------------------------------------------------------
(* The Room closes an open socket that holds a seat only once the Game is  *)
(* over and its peer was told the Result.                                  *)
THEOREM NewsCorrect == Spec => ClosedOnlyAfterNews
<1> DEFINE Closes(k) == socket[k] = "open" /\ socket'[k] = "closed" /\ seat'[Owner[k]] = k
           Step == \A k \in Conns : Closes(k) => Over(game) /\ told[k] = game.result
<1>1. IInv /\ [Next]_vars => [Step]_vars
  <2> SUFFICES ASSUME IInv, Next, NEW k \in Conns, Closes(k)
               PROVE  Over(game) /\ told[k] = game.result
    OBVIOUS
  <2>1. Owner[k] \in Sides
    BY DEF IInv, SocketsFit
  <2>2. ASSUME ~Unannounced, seat' = seat
        PROVE  Over(game) /\ told[k] = game.result
    BY <2>1, <2>2, ConnAssumption DEF IInv, LoopFits, ToldFits, Unannounced, Listening, Seated
  <2>3. ASSUME NEW c \in Conns, HandlerStep(c) \/ PeerGone(c)
        PROVE  Over(game) /\ told[k] = game.result
    <3>1. CASE SendRefused(c)
      BY <2>2, <3>1 DEF SendRefused, IInv, LoopFits, Unannounced, Freeing, roomVars
    <3>2. CASE ~SendRefused(c)
      BY <2>3, <3>2 DEF HandlerStep, Connect, ReadMessage, ReadError, PeerGone, IInv, TypeOK
    <3> QED BY <3>1, <3>2
  <2>4. ASSUME NEW c \in Conns, HandleJoin(c)
        PROVE  FALSE
    <3>1. k = seat[Owner[c]]
      BY <2>4 DEF HandleJoin, OldClosed
    <3>2. Owner[c] \in Sides /\ handler[c] = "joining"
      BY <2>4 DEF HandleJoin, Received, IInv, SocketsFit, Sending
    <3>3. Owner[k] = Owner[c] /\ k # c
      BY <3>1, <3>2, ConnAssumption DEF IInv, SeatsFit
    <3>4. seat'[Owner[c]] = c
      BY <2>4, <3>2 DEF HandleJoin, IInv, TypeOK
    <3> QED BY <3>3, <3>4
  <2>5. ASSUME NEW c \in Conns, HandleLeave(c)
        PROVE  FALSE
    <3>1. k = c
      BY <2>5 DEF HandleLeave, IInv, TypeOK
    <3>2. seat'[Owner[k]] # k
      BY <2>1, <2>5, <3>1, ConnAssumption DEF HandleLeave, Replaced, IInv, TypeOK
    <3> QED BY <3>2
  <2>6. ASSUME NEW c \in Conns, HandleMessage(c)
        PROVE  FALSE
    BY <2>6 DEF HandleMessage, HandleMove, HandleResign, HandleAbort, HandleBad
  <2>7. CASE FinishStep
    BY <2>2, <2>7 DEF FinishStep, Announce, CloseDone, CloseSeat, Save, Free, Remove,
                      Unannounced, roomVars, connVars
  <2>8. CASE Tick \/ TakeTick \/ CheckResult \/ Finished
    BY <2>8 DEF Tick, TakeTick, CheckResult, Finished, connVars, vars
  <2> QED BY <2>3, <2>4, <2>5, <2>6, <2>7, <2>8 DEF Next, LoopStep, Receive
<1> QED BY <1>1, Inductive, PTL DEF Spec, ClosedOnlyAfterNews

-----------------------------------------------------------------------------
(* RoomLife has its own copy of the vocabulary of ChessTypes.              *)
LEMMA SameWords ==
    Life!Sides = Sides /\ Life!NoResult = NoResult /\ Life!Results = Results
BY DEF Life!White, White, Life!Black, Black, Life!Sides, Sides, Life!NoColor, NoColor,
       Life!NoResult, NoResult, Life!Results, Results, Life!Methods, Methods,
       Life!PositionEndings, PositionEndings, Life!Draws, Draws

(* What the rest of the server sees of one step of a Room: the Game ends,  *)
(* a player is dealt with, the Room leaves the registry, or nothing.       *)
LEMMA LifeStep == IInv /\ [Next]_vars => [Life!Next]_(Life!vars)
<1> SUFFICES ASSUME IInv, [Next]_vars
             PROVE  [Life!Next]_(Life!vars)
  OBVIOUS
<1>1. ASSUME game'.result = game.result, UNCHANGED <<registered, freed>>
      PROVE  [Life!Next]_(Life!vars)
  BY <1>1 DEF Life!vars
<1>2. ASSUME ~Over(game), Good(game', now'), UNCHANGED <<registered, freed>>
      PROVE  [Life!Next]_(Life!vars)
  <2>1. CASE game'.result = NoResult BY <1>1, <1>2, <2>1 DEF Over
  <2>2. CASE game'.result # NoResult
    <3>1. game'.result \in Results BY <1>2, <2>2 DEF Good, Games
    <3>2. Life!Finish BY <1>2, <3>1, SameWords DEF Life!Finish, Over
    <3> QED BY <3>2 DEF Life!Next
  <2> QED BY <2>1, <2>2
<1>3. Good(game', now')
  BY NextKeeps DEF IInv
<1>4. CASE Tick \/ TakeTick \/ UNCHANGED vars
  BY <1>1, <1>4 DEF Tick, TakeTick, connVars, vars
<1>5. ASSUME NEW k \in Conns, HandlerStep(k) \/ PeerGone(k)
      PROVE  [Life!Next]_(Life!vars)
  BY <1>1, <1>5
     DEF HandlerStep, Connect, ReadMessage, ReadError, SendRefused, PeerGone, roomVars
<1>6. ASSUME NEW k \in Conns, Receive(k)
      PROVE  [Life!Next]_(Life!vars)
  <2>1. loop = "select" /\ UNCHANGED <<registered, freed>>
    BY <1>6 DEF Receive, HandleJoin, HandleLeave, HandleMessage, HandleMove, HandleResign,
                HandleAbort, HandleBad, Received
  <2> QED BY <1>2, <1>3, <2>1 DEF IInv, LoopFits
<1>7. CASE CheckResult
  <2>1. UNCHANGED <<registered, freed>> /\ (Over(game) => game' = game)
    BY <1>7, OverStays DEF CheckResult
  <2> QED BY <1>1, <1>2, <1>3, <2>1
<1>8. CASE FinishStep
  <2>1. CASE \/ Announce \/ CloseDone
             \/ \E k \in Conns : CloseSeat(k)
             \/ \E ok \in BOOLEAN : Save(ok)
    BY <1>1, <2>1 DEF Announce, CloseDone, CloseSeat, Save, roomVars, connVars
  <2>2. ASSUME NEW side \in Sides, NEW ok \in BOOLEAN, Free(side, ok)
        PROVE  [Life!Next]_(Life!vars)
    <3>1. game.result # NoResult
      BY <2>2 DEF Free, IInv, LoopFits, Over
    <3>2. freed' = [freed EXCEPT ![side] = "done"] \/ freed' = [freed EXCEPT ![side] = "failed"]
      BY <2>2 DEF Free
    <3>3. Life!Free(side)
      BY <2>2, <3>1, <3>2, SameWords DEF Life!Free, Free, roomVars
    <3> QED BY <3>3, SameWords DEF Life!Next
  <2>3. CASE Remove
    <3>1. registered
      BY <2>3 DEF Remove, IInv, LoopFits
    <3>2. Life!Close
      BY <2>3, <3>1, SameWords DEF Life!Close, Remove, AllFreed
    <3> QED BY <3>2 DEF Life!Next
  <2> QED BY <1>8, <2>1, <2>2, <2>3 DEF FinishStep
<1> QED BY <1>4, <1>5, <1>6, <1>7, <1>8 DEF Next, LoopStep, Finished

(* A Room keeps its promise to the rest of the server: its Game ends once, *)
(* then each player is dealt with once, and only then it is gone.          *)
THEOREM LifeImplemented == Spec => LifePromise
<1>1. Init => Life!Init
  <2>1. Init => game.result = NoResult BY DEF Init, NewGame
  <2> QED BY <2>1, SameWords DEF Init, Life!Init
<1> QED BY <1>1, LifeStep, Inductive, PTL DEF Spec, LifePromise, Life!Spec
=============================================================================
