-------------------------- MODULE GameRulesProofs ---------------------------
(***************************************************************************)
(* Lemmas about the commands of a Game, one Game and one time at a time.   *)
(* They say that a Good Game stays good; the state machines that own a     *)
(* Game (Game, Room) cite them in their invariance proofs.  Each command   *)
(* first settles, and what it needs to know after that is that the clock   *)
(* of the side to move still covers the time since the last move (InTime). *)
(***************************************************************************)
EXTENDS GameRules, TLAPS

Games(t) == [plies : Nat, turn : Sides, timeLeft : [Sides -> 0..TimeControl],
             lastMoveAt : 0..t, result : Results \cup {NoResult}]

TimeoutIsFlag(g) ==
    /\ (\E s \in Sides : g.timeLeft[s] = 0) <=> g.result.method = "timeout"
    /\ g.result.method = "timeout" =>
          /\ ClocksRunning(g)
          /\ g.timeLeft[g.turn] = 0
          /\ g.result.winner = Opponent(g.turn)

ResultFits(g) ==
    /\ g.result.method = "aborted" => g.plies < 2
    /\ g.result.method = "checkmate" => g.result.winner = Opponent(g.turn)
    /\ Over(g) => (g.result.winner = NoColor <=> g.result.method \in Draws \cup {"aborted"})

Accounted(g, t) ==
    2 * TimeControl - g.timeLeft[White] - g.timeLeft[Black]
        <= IF Over(g) THEN t ELSE g.lastMoveAt

Good(g, t) == g \in Games(t) /\ TimeoutIsFlag(g) /\ ResultFits(g) /\ Accounted(g, t)

(* A settled live Game: time has not run out.                              *)
InTime(g, t) ==
    /\ ~Over(g)
    /\ ~FirstMoveOverdue(g, t)
    /\ ClocksRunning(g) => g.timeLeft[g.turn] - Elapsed(g, t) \in 1..TimeControl

-----------------------------------------------------------------------------
(* The opponent of a side is the other side, and the two are distinct.     *)
LEMMA OpponentFacts ==
    /\ \A c \in Sides : Opponent(c) \in Sides /\ Opponent(c) # c
    /\ White # Black /\ White # NoColor /\ Black # NoColor
BY DEF Sides, White, Black, NoColor, Opponent

(* The names of the methods that the commands write are distinct members   *)
(* of Methods, and no ending is the absence of one.                        *)
LEMMA MethodFacts ==
    /\ \A m \in Methods : m # "none" /\ m # Ongoing
    /\ Draws \subseteq Methods /\ PositionEndings \subseteq Methods
    /\ {"checkmate", "resign", "timeout", "disconnect", "aborted"} \subseteq Methods
    /\ "checkmate" \notin Draws /\ "resign" \notin Draws /\ "timeout" \notin Draws
    /\ "disconnect" \notin Draws /\ "aborted" \notin Draws
BY DEF Methods, PositionEndings, Draws, Ongoing

(* end() records a Result and nothing else.                                *)
LEMMA EndFacts ==
    ASSUME NEW t \in Nat, NEW g \in Games(t),
           NEW w \in Sides \cup {NoColor}, NEW m \in Methods
    PROVE  /\ End(g, w, m) \in Games(t)
           /\ Over(End(g, w, m))
           /\ End(g, w, m).result = [winner |-> w, method |-> m]
           /\ End(g, w, m).plies = g.plies
           /\ End(g, w, m).turn = g.turn
           /\ End(g, w, m).timeLeft = g.timeLeft
           /\ End(g, w, m).lastMoveAt = g.lastMoveAt
BY MethodFacts DEF End, Games, Over, NoResult, Results

(* What a live Good Game offers a command: no Result, and time on both     *)
(* clocks.                                                                 *)
LEMMA LiveFacts ==
    ASSUME NEW t \in Nat, NEW g, Good(g, t), ~Over(g)
    PROVE  /\ g.result = NoResult /\ g.result.method = "none" /\ g.result.winner = NoColor
           /\ \A s \in Sides : g.timeLeft[s] \in 1..TimeControl
<1>1. g.result = NoResult BY DEF Over
<1>2. g.result.method = "none" /\ g.result.winner = NoColor BY <1>1 DEF NoResult
<1>3. \A s \in Sides : g.timeLeft[s] # 0 BY <1>2 DEF Good, TimeoutIsFlag
<1>4. g.timeLeft \in [Sides -> 0..TimeControl] BY DEF Good, Games
<1> QED BY <1>1, <1>2, <1>3, <1>4, TimeAssumption

(* Settling keeps a Good Game good, and leaves it over or in time.         *)
LEMMA SettleGood ==
    ASSUME NEW t \in Nat, NEW g, Good(g, t)
    PROVE  /\ Good(Settle(g, t), t)
           /\ Over(Settle(g, t)) \/ (Settle(g, t) = g /\ InTime(g, t))
<1>1. CASE Over(g)
  BY <1>1 DEF Settle
<1>2. CASE ~Over(g) /\ FirstMoveOverdue(g, t)
  <2> DEFINE e == End(g, NoColor, "aborted")
  <2>1. Settle(g, t) = e
    BY <1>2 DEF Settle, FirstMoveOverdue, FlagFallen
  <2>2. g \in Games(t) BY DEF Good
  <2>3. /\ e \in Games(t) /\ Over(e)
        /\ e.result = [winner |-> NoColor, method |-> "aborted"]
        /\ e.plies = g.plies /\ e.timeLeft = g.timeLeft
    BY <2>2, MethodFacts, EndFacts
  <2>4. TimeoutIsFlag(e)
    BY <1>2, <2>3, LiveFacts DEF TimeoutIsFlag
  <2>5. ResultFits(e)
    BY <1>2, <2>3, <2>2, MethodFacts DEF ResultFits, FirstMoveOverdue, ClocksRunning, Games
  <2>6. Accounted(e, t)
    BY <1>2, <2>3, <2>2, TimeAssumption DEF Accounted, Good, Games, Sides
  <2> QED BY <2>1, <2>3, <2>4, <2>5, <2>6 DEF Good
<1>3. CASE ~Over(g) /\ ~FirstMoveOverdue(g, t) /\ FlagFallen(g, t)
  <2> DEFINE stopped == [g EXCEPT !.timeLeft[g.turn] = 0]
             e == End(stopped, Opponent(g.turn), "timeout")
  <2>1. Settle(g, t) = e BY <1>3 DEF Settle
  <2>2. g \in Games(t) BY DEF Good
  <2>3. /\ stopped \in Games(t) /\ stopped.plies = g.plies /\ stopped.turn = g.turn
        /\ stopped.timeLeft = [g.timeLeft EXCEPT ![g.turn] = 0]
    BY <2>2, TimeAssumption DEF Games
  <2>4. g.turn \in Sides /\ Opponent(g.turn) \in Sides
    BY <2>2, OpponentFacts DEF Games
  <2>5. /\ e \in Games(t) /\ Over(e)
        /\ e.result = [winner |-> Opponent(g.turn), method |-> "timeout"]
        /\ e.plies = g.plies /\ e.turn = g.turn
        /\ e.timeLeft = [g.timeLeft EXCEPT ![g.turn] = 0]
    <3> HIDE DEF stopped
    <3> QED BY <2>3, <2>4, MethodFacts, EndFacts
  <2>6. e.timeLeft[g.turn] = 0
    BY <2>5, <2>4, <2>2 DEF Games
  <2>7. TimeoutIsFlag(e)
    BY <1>3, <2>4, <2>5, <2>6 DEF TimeoutIsFlag, FlagFallen, ClocksRunning
  <2>8. ResultFits(e)
    BY <2>5, <2>4, OpponentFacts, MethodFacts DEF ResultFits, Sides
  <2>9. Accounted(e, t)
    <3>1. g.timeLeft[g.turn] <= t - g.lastMoveAt
      BY <1>3, <2>2, <2>4 DEF FlagFallen, Elapsed, Games
    <3>2. 2 * TimeControl - g.timeLeft[White] - g.timeLeft[Black] <= g.lastMoveAt
      BY <1>3 DEF Good, Accounted
    <3>3. /\ g.timeLeft[White] \in Int /\ g.timeLeft[Black] \in Int
          /\ g.lastMoveAt \in Int /\ t \in Int /\ TimeControl \in Int
      BY <2>2, TimeAssumption DEF Games, Sides
    <3>4. CASE g.turn = White
      <4>1. e.timeLeft[White] = 0 /\ e.timeLeft[Black] = g.timeLeft[Black]
        BY <3>4, <2>5, <2>2, OpponentFacts DEF Games, Sides
      <4> QED BY <3>1, <3>2, <3>3, <3>4, <4>1, <2>5 DEF Accounted
    <3>5. CASE g.turn = Black
      <4>1. e.timeLeft[Black] = 0 /\ e.timeLeft[White] = g.timeLeft[White]
        BY <3>5, <2>5, <2>2, OpponentFacts DEF Games, Sides
      <4> QED BY <3>1, <3>2, <3>3, <3>5, <4>1, <2>5 DEF Accounted
    <3> QED BY <3>4, <3>5, <2>4 DEF Sides
  <2> QED BY <2>1, <2>5, <2>7, <2>8, <2>9 DEF Good
<1>4. CASE ~Over(g) /\ ~FirstMoveOverdue(g, t) /\ ~FlagFallen(g, t)
  <2>1. Settle(g, t) = g BY <1>4 DEF Settle
  <2>2. g \in Games(t) BY DEF Good
  <2>3. g.turn \in Sides /\ g.timeLeft[g.turn] \in 0..TimeControl /\ g.lastMoveAt \in 0..t
    BY <2>2 DEF Games
  <2>4. InTime(g, t)
    BY <1>4, <2>3, TimeAssumption DEF InTime, FlagFallen, Elapsed
  <2> QED BY <2>1, <2>4
<1> QED BY <1>1, <1>2, <1>3, <1>4

(* Taking the elapsed time off the running clock leaves something on it.   *)
LEMMA ChargeGood ==
    ASSUME NEW t \in Nat, NEW g, Good(g, t), InTime(g, t)
    PROVE  LET c == Charge(g, g.turn, t)
           IN  /\ c \in Games(t)
               /\ c.plies = g.plies /\ c.turn = g.turn /\ c.lastMoveAt = g.lastMoveAt
               /\ c.result = NoResult
               /\ \A s \in Sides : c.timeLeft[s] \in 1..TimeControl
               /\ 2 * TimeControl - c.timeLeft[White] - c.timeLeft[Black] <= t
<1> DEFINE c == Charge(g, g.turn, t)
<1>1. g \in Games(t) /\ g.turn \in Sides /\ g.lastMoveAt \in 0..t
      /\ g.timeLeft \in [Sides -> 0..TimeControl]
  BY DEF Good, Games
<1>2. g.result = NoResult /\ \A s \in Sides : g.timeLeft[s] \in 1..TimeControl
  BY LiveFacts DEF InTime
<1>3. 2 * TimeControl - g.timeLeft[White] - g.timeLeft[Black] <= g.lastMoveAt
  BY DEF Good, Accounted, InTime
<1>4. White \in Sides /\ Black \in Sides BY DEF Sides
<1>5. CASE ~ClocksRunning(g)
  <2>1. c = g BY <1>5 DEF Charge
  <2> QED BY <2>1, <1>1, <1>2, <1>3, <1>4, TimeAssumption
<1>6. CASE ClocksRunning(g)
  <2> DEFINE rest == g.timeLeft[g.turn] - Elapsed(g, t)
  <2>1. rest \in 1..TimeControl BY <1>6 DEF InTime
  <2>2. c = [g EXCEPT !.timeLeft[g.turn] = rest] BY <1>6 DEF Charge
  <2>3. c.timeLeft = [g.timeLeft EXCEPT ![g.turn] = rest]
    BY <2>2, <1>1 DEF Games
  <2>4. rest \in 0..TimeControl BY <2>1
  <2>5. /\ c \in Games(t)
        /\ c.plies = g.plies /\ c.turn = g.turn /\ c.lastMoveAt = g.lastMoveAt
        /\ c.result = NoResult
    <3> HIDE DEF rest
    <3> QED BY <2>2, <2>4, <1>1, <1>2 DEF Games
  <2>6. \A s \in Sides : c.timeLeft[s] \in 1..TimeControl
    <3> HIDE DEF rest, c
    <3> QED BY <2>1, <2>3, <1>1, <1>2
  <2>7. rest = g.timeLeft[g.turn] - (t - g.lastMoveAt) BY DEF Elapsed
  <2>8. 2 * TimeControl - c.timeLeft[White] - c.timeLeft[Black] <= t
    <3> HIDE DEF rest, c
    <3>1. CASE g.turn = White
      <4>1. c.timeLeft[White] = rest /\ c.timeLeft[Black] = g.timeLeft[Black]
        BY <3>1, <2>3, <1>1, <1>4, OpponentFacts
      <4> QED BY <4>1, <3>1, <2>7, <1>1, <1>2, <1>3, <1>4, TimeAssumption
    <3>2. CASE g.turn = Black
      <4>1. c.timeLeft[Black] = rest /\ c.timeLeft[White] = g.timeLeft[White]
        BY <3>2, <2>3, <1>1, <1>4, OpponentFacts
      <4> QED BY <4>1, <3>2, <2>7, <1>1, <1>2, <1>3, <1>4, TimeAssumption
    <3> QED BY <3>1, <3>2, <1>1 DEF Sides
  <2> QED BY <2>5, <2>6, <2>8
<1> QED BY <1>5, <1>6

-----------------------------------------------------------------------------
(* One lemma per command: it keeps a Good Game good.                       *)
LEMMA MoveGood ==
    ASSUME NEW t \in Nat, NEW g, Good(g, t), NEW color \in Sides, NEW legal \in BOOLEAN,
           NEW position \in PositionEndings \cup {Ongoing}
    PROVE  Good(AfterMove(g, color, legal, position, t), t)
<1> DEFINE s == Settle(g, t)
           c == Charge(s, s.turn, t)
           p == Played(s, color, t)
           e == EndOnPosition(p, color, position)
<1>1. Good(s, t) /\ (Over(s) \/ InTime(s, t))
  BY SettleGood
<1>2. CASE MoveError(s, color, legal) # "ok"
  BY <1>1, <1>2 DEF AfterMove
<1>3. CASE MoveError(s, color, legal) = "ok"
  <2>1. ~Over(s) /\ color = s.turn
    BY <1>3 DEF MoveError
  <2>2. InTime(s, t) BY <1>1, <2>1
  <2>3. /\ c \in Games(t)
        /\ c.plies = s.plies /\ c.turn = s.turn /\ c.lastMoveAt = s.lastMoveAt
        /\ c.result = NoResult
        /\ \A x \in Sides : c.timeLeft[x] \in 1..TimeControl
        /\ 2 * TimeControl - c.timeLeft[White] - c.timeLeft[Black] <= t
    <3> HIDE DEF s
    <3> QED BY <1>1, <2>2, ChargeGood
  <2>4. p = [c EXCEPT !.plies = @ + 1, !.turn = Opponent(@), !.lastMoveAt = t]
    BY <2>1 DEF Played
  <2>5. color \in Sides /\ Opponent(c.turn) \in Sides /\ Opponent(c.turn) = Opponent(color)
    BY <2>1, <2>3, OpponentFacts
  <2>6. /\ p \in Games(t)
        /\ p.turn = Opponent(color) /\ p.lastMoveAt = t /\ p.timeLeft = c.timeLeft
        /\ p.result = NoResult
    <3>1. c.plies + 1 \in Nat /\ t \in 0..t BY <2>3 DEF Games
    <3>2. p = [c EXCEPT !.plies = c.plies + 1, !.turn = Opponent(color), !.lastMoveAt = t]
      BY <2>4, <2>5
    <3>3. Opponent(color) \in Sides BY OpponentFacts
    <3> HIDE DEF c, p, s
    <3> QED BY <2>3, <3>1, <3>2, <3>3 DEF Games
  <2>7. /\ 2 * TimeControl - p.timeLeft[White] - p.timeLeft[Black] <= t
        /\ \A x \in Sides : p.timeLeft[x] # 0
    <3> HIDE DEF c, p, s
    <3> QED BY <2>3, <2>6
  <2>8. Good(e, t)
    <3> HIDE DEF c, p, s
    <3>1. CASE position = Ongoing
      <4>1. e = p BY <3>1, MethodFacts DEF EndOnPosition, Ongoing, Draws
      <4>2. p.result.method = "none" /\ ~Over(p) BY <2>6 DEF NoResult, Over
      <4> QED BY <4>1, <4>2, <2>6, <2>7 DEF Good, TimeoutIsFlag, ResultFits, Accounted
    <3>2. ASSUME NEW w \in Sides \cup {NoColor}, position \in PositionEndings,
                 e = End(p, w, position),
                 position = "checkmate" => w = color,
                 position \in Draws => w = NoColor
          PROVE  Good(e, t)
      <4>1. position \in Methods /\ position # "timeout" /\ position # "aborted"
            /\ (position = "checkmate" \/ position \in Draws)
        BY <3>2, MethodFacts DEF PositionEndings
      <4>2. /\ e \in Games(t) /\ Over(e)
            /\ e.result = [winner |-> w, method |-> position]
            /\ e.plies = p.plies /\ e.turn = p.turn /\ e.timeLeft = p.timeLeft
        BY <2>6, <3>2, <4>1, EndFacts
      <4>3. e.result.winner = w /\ e.result.method = position BY <4>2
      <4>4. TimeoutIsFlag(e)
        BY <4>1, <4>2, <4>3, <2>7 DEF TimeoutIsFlag
      <4>5. ResultFits(e)
        <5>1. color = Opponent(e.turn)
          BY <4>2, <2>6, <2>5, OpponentFacts DEF Opponent, Sides
        <5>2. color # NoColor BY OpponentFacts DEF Sides
        <5> QED BY <4>1, <4>3, <3>2, <5>1, <5>2, MethodFacts DEF ResultFits
      <4>6. Accounted(e, t)
        BY <4>2, <2>7 DEF Accounted
      <4> QED BY <4>2, <4>4, <4>5, <4>6 DEF Good
    <3>3. CASE position = "checkmate"
      <4>1. e = End(p, color, position) BY <3>3, MethodFacts DEF EndOnPosition
      <4> QED BY <3>2, <3>3, <4>1, MethodFacts DEF PositionEndings
    <3>4. CASE position \in Draws
      <4>1. e = End(p, NoColor, position) BY <3>4, MethodFacts DEF EndOnPosition
      <4> QED BY <3>2, <3>4, <4>1, MethodFacts DEF PositionEndings
    <3> QED BY <3>1, <3>3, <3>4 DEF PositionEndings
  <2>9. AfterMove(g, color, legal, position, t) = e
    BY <1>3 DEF AfterMove
  <2> QED BY <2>8, <2>9
<1> QED BY <1>2, <1>3

(* Abort keeps a Good Game good, refused or not.                           *)
LEMMA AbortGood ==
    ASSUME NEW t \in Nat, NEW g, Good(g, t)
    PROVE  Good(AfterAbort(g, t), t)
<1> DEFINE s == Settle(g, t)
           e == End(s, NoColor, "aborted")
<1>1. Good(s, t) BY SettleGood
<1>2. CASE AbortError(s) # "ok"
  BY <1>1, <1>2 DEF AfterAbort
<1>3. CASE AbortError(s) = "ok"
  <2> HIDE DEF s
  <2>1. ~Over(s) /\ ~ClocksRunning(s) BY <1>3 DEF AbortError
  <2>2. s \in Games(t) /\ s.plies \in Nat BY <1>1 DEF Good, Games
  <2>3. /\ e \in Games(t) /\ Over(e)
        /\ e.result = [winner |-> NoColor, method |-> "aborted"]
        /\ e.plies = s.plies /\ e.turn = s.turn /\ e.timeLeft = s.timeLeft
    BY <2>2, MethodFacts, EndFacts
  <2>4. \A x \in Sides : s.timeLeft[x] # 0
    BY <1>1, <2>1, LiveFacts
  <2>5. TimeoutIsFlag(e) BY <2>3, <2>4 DEF TimeoutIsFlag
  <2>6. ResultFits(e)
    BY <2>1, <2>2, <2>3 DEF ResultFits, ClocksRunning
  <2>7. Accounted(e, t)
    BY <1>1, <2>1, <2>2, <2>3, TimeAssumption DEF Accounted, Good, Games, Sides
  <2>8. AfterAbort(g, t) = e BY <1>3 DEF AfterAbort, s
  <2> QED BY <2>3, <2>5, <2>6, <2>7, <2>8 DEF Good
<1> QED BY <1>2, <1>3

(* Resign and Disconnect keep a Good Game good, whoever sends them.        *)
LEMMA ForfeitGood ==
    ASSUME NEW t \in Nat, NEW g, Good(g, t), NEW color \in Sides,
           NEW method \in {"resign", "disconnect"}
    PROVE  Good(AfterForfeit(g, color, method, t), t)
<1> DEFINE s == Settle(g, t)
           c == Charge(s, s.turn, t)
           e == End(c, Opponent(color), method)
<1>1. Good(s, t) /\ (Over(s) \/ InTime(s, t)) BY SettleGood
<1>2. CASE Over(s)
  BY <1>1, <1>2 DEF AfterForfeit
<1>3. CASE ~Over(s)
  <2>1. /\ c \in Games(t)
        /\ \A x \in Sides : c.timeLeft[x] \in 1..TimeControl
        /\ 2 * TimeControl - c.timeLeft[White] - c.timeLeft[Black] <= t
    <3> HIDE DEF s
    <3> QED BY <1>1, <1>3, ChargeGood
  <2> HIDE DEF s, c
  <2>2. /\ method \in Methods /\ method # "timeout" /\ method # "aborted"
        /\ method # "checkmate" /\ method \notin Draws
    BY MethodFacts DEF Draws
  <2>3. Opponent(color) \in Sides /\ Opponent(color) # NoColor
    BY OpponentFacts DEF Sides
  <2>4. /\ e \in Games(t) /\ Over(e)
        /\ e.result = [winner |-> Opponent(color), method |-> method]
        /\ e.timeLeft = c.timeLeft
    BY <2>1, <2>2, <2>3, EndFacts
  <2>5. TimeoutIsFlag(e) BY <2>1, <2>2, <2>4 DEF TimeoutIsFlag
  <2>6. ResultFits(e) BY <2>2, <2>3, <2>4 DEF ResultFits
  <2>7. Accounted(e, t) BY <2>1, <2>4 DEF Accounted
  <2>8. AfterForfeit(g, color, method, t) = e BY <1>3 DEF AfterForfeit, s, c
  <2> QED BY <2>4, <2>5, <2>6, <2>7, <2>8 DEF Good
<1> QED BY <1>2, <1>3

(* A Game that is Good now is Good at any later time: no command is needed *)
(* for that.                                                               *)
LEMMA LaterGood ==
    ASSUME NEW t \in Nat, NEW g, Good(g, t)
    PROVE  Good(g, t + 1)
<1>1. g \in Games(t + 1) BY DEF Good, Games
<1>2. Accounted(g, t + 1)
  BY TimeAssumption DEF Good, Games, Accounted, Sides
<1> QED BY <1>1, <1>2 DEF Good

(* New returns a Good Game.                                                *)
LEMMA NewGood ==
    ASSUME NEW t \in Nat
    PROVE  Good(NewGame(TimeControl, t), t)
<1> DEFINE n == NewGame(TimeControl, t)
<1>1. n \in Games(t)
  BY TimeAssumption DEF NewGame, Games, NoResult, Sides
<1>2. n.result.method = "none" /\ ~Over(n)
  BY DEF NewGame, NoResult, Over
<1>3. \A s \in Sides : n.timeLeft[s] = TimeControl
  BY DEF NewGame
<1>4. TimeoutIsFlag(n) BY <1>2, <1>3, TimeAssumption DEF TimeoutIsFlag
<1>5. ResultFits(n) BY <1>2 DEF ResultFits
<1>6. n.lastMoveAt = t BY DEF NewGame
<1>7. Accounted(n, t) BY <1>2, <1>3, <1>6, TimeAssumption DEF Accounted, Sides
<1> QED BY <1>1, <1>4, <1>5, <1>7 DEF Good

(* A settled Game is a fixed point of Settle at the same time.             *)
LEMMA SettleStable ==
    ASSUME NEW t \in Nat, NEW g, Over(g) \/ InTime(g, t)
    PROVE  Settle(g, t) = g
<1>1. CASE Over(g) BY <1>1 DEF Settle
<1>2. CASE InTime(g, t) BY <1>2 DEF Settle, InTime, FlagFallen
<1> QED BY <1>1, <1>2

(* What a Game can become at one moment: nothing a command does lets a     *)
(* finished Game change.                                                   *)
LEMMA OverStays ==
    ASSUME NEW t, NEW g, Over(g)
    PROVE  /\ Settle(g, t) = g
           /\ AfterAbort(g, t) = g
           /\ \A c, m : AfterForfeit(g, c, m, t) = g
           /\ \A c, l, p : AfterMove(g, c, l, p, t) = g
<1>1. Settle(g, t) = g BY DEF Settle
<1>2. AfterAbort(g, t) = g BY <1>1 DEF AfterAbort, AbortError
<1>3. \A c, m : AfterForfeit(g, c, m, t) = g BY <1>1 DEF AfterForfeit
<1>4. \A c, l, p : AfterMove(g, c, l, p, t) = g BY <1>1 DEF AfterMove, MoveError
<1> QED BY <1>1, <1>2, <1>3, <1>4

-----------------------------------------------------------------------------
(* The refinement.  Settling first means that a command acts on exactly    *)
(* what the wall clock shows, and leaves a Game that is again settled.     *)
LEMMA ShownFresh ==
    ASSUME NEW t \in Nat, NEW g \in Games(t), Over(g) \/ ~ClocksRunning(g) \/ g.lastMoveAt = t
    PROVE  ShownClocks(g, t) = g.timeLeft
<1>1. g.timeLeft \in [Sides -> 0..TimeControl] /\ g.lastMoveAt \in 0..t BY DEF Games
<1>2. \A s \in Sides : g.timeLeft[s] - 0 = g.timeLeft[s] BY <1>1
<1>3. \A s \in Sides : ShownClocks(g, t)[s] = g.timeLeft[s]
  BY <1>1, <1>2 DEF ShownClocks, Elapsed
<1> QED BY <1>1, <1>3 DEF ShownClocks

(* Charging the running clock writes down what was already shown.          *)
LEMMA ChargeShown ==
    ASSUME NEW t \in Nat, NEW g, Good(g, t), InTime(g, t)
    PROVE  /\ Charge(g, g.turn, t).timeLeft = ShownClocks(g, t)
           /\ ShownClocks(g, t) \in [Sides -> 0..TimeControl]
<1> DEFINE c == Charge(g, g.turn, t)
<1>1. g \in Games(t) /\ g.turn \in Sides /\ g.timeLeft \in [Sides -> 0..TimeControl]
  BY DEF Good, Games
<1>2. c \in Games(t) /\ c.timeLeft \in [Sides -> 0..TimeControl]
  BY ChargeGood DEF Games
<1>3. CASE ~ClocksRunning(g)
  BY <1>1, <1>3, ShownFresh DEF Charge
<1>4. CASE ClocksRunning(g)
  <2>1. ~Over(g) BY DEF InTime
  <2>2. c.timeLeft = [g.timeLeft EXCEPT ![g.turn] = @ - Elapsed(g, t)]
    BY <1>1, <1>4 DEF Charge, Games
  <2>3. \A s \in Sides : c.timeLeft[s] = ShownClocks(g, t)[s]
    <3> HIDE DEF c
    <3> QED BY <1>1, <1>4, <2>1, <2>2 DEF ShownClocks
  <2> HIDE DEF c
  <2> QED BY <1>2, <2>3 DEF ShownClocks, c
<1> QED BY <1>2, <1>3, <1>4

(* A live Game whose last move is of this very moment is in time.          *)
LEMMA WindowOpens ==
    ASSUME NEW t \in Nat, NEW g, Good(g, t), ~Over(g), g.lastMoveAt = t
    PROVE  InTime(g, t) /\ Elapsed(g, t) = 0
<1>1. Elapsed(g, t) = 0 BY DEF Elapsed
<1>2. g.turn \in Sides BY DEF Good, Games
<1>3. g.timeLeft[g.turn] \in 1..TimeControl BY <1>2, LiveFacts
<1> QED BY <1>1, <1>3, TimeAssumption DEF InTime, FirstMoveOverdue

(* The abstract image of a Game at a time.                                 *)
Image(g, t) == <<g.plies, g.turn, ShownClocks(g, t), WaitLeft(g, t), g.result>>

(* Move, as the wall clock sees it: nothing, or Play by the side to move.  *)
LEMMA MoveShown ==
    ASSUME NEW t \in Nat, NEW g, Good(g, t), NEW color \in Sides, NEW legal \in BOOLEAN,
           NEW position \in PositionEndings \cup {Ongoing}
    PROVE  LET s == Settle(g, t)
               x == AfterMove(g, color, legal, position, t)
           IN  /\ Over(x) \/ InTime(x, t)
               /\ \/ x = s
                  \/ /\ s.result = NoResult
                     /\ x.plies = s.plies + 1
                     /\ x.turn = Opponent(s.turn)
                     /\ x.result \in {NoResult, [winner |-> s.turn, method |-> "checkmate"]}
                                        \cup [winner : {NoColor}, method : Draws]
                     /\ WaitLeft(x, t) = IF x.plies < 2 /\ x.result = NoResult
                                          THEN FirstMoveWindow ELSE 0
                     /\ ShownClocks(x, t) = ShownClocks(s, t)
<1> DEFINE s == Settle(g, t)
           c == Charge(s, s.turn, t)
           p == Played(s, color, t)
           x == AfterMove(g, color, legal, position, t)
<1>1. Good(s, t) /\ (Over(s) \/ InTime(s, t)) BY SettleGood
<1>2. CASE MoveError(s, color, legal) # "ok"
  <2>1. x = s BY <1>2 DEF AfterMove
  <2> QED BY <2>1, <1>1
<1>3. CASE MoveError(s, color, legal) = "ok"
  <2>1. ~Over(s) /\ color = s.turn /\ InTime(s, t)
    BY <1>1, <1>3 DEF MoveError
  <2>2. s.result = NoResult BY <2>1 DEF Over
  <2>3. x = EndOnPosition(p, color, position) BY <1>3 DEF AfterMove
  <2>4. p = [c EXCEPT !.plies = @ + 1, !.turn = Opponent(@), !.lastMoveAt = t]
    BY <2>1 DEF Played
  <2>5. /\ c \in Games(t) /\ c.plies = s.plies /\ c.turn = s.turn /\ c.result = NoResult
        /\ c.timeLeft = ShownClocks(s, t)
    <3> HIDE DEF s
    <3> QED BY <1>1, <2>1, ChargeGood, ChargeShown
  <2>6. Good(x, t) BY MoveGood
  <2> HIDE DEF s, c, x, p
  <2>7. /\ p.plies = s.plies + 1 /\ p.turn = Opponent(s.turn) /\ p.lastMoveAt = t
        /\ p.result = NoResult /\ p.timeLeft = ShownClocks(s, t)
    BY <2>4, <2>5 DEF Games
  <2>8. /\ x.plies = p.plies /\ x.turn = p.turn /\ x.lastMoveAt = p.lastMoveAt
        /\ x.timeLeft = p.timeLeft
        /\ x.result \in {NoResult, [winner |-> s.turn, method |-> "checkmate"]}
                           \cup [winner : {NoColor}, method : Draws]
    <3>1. CASE position = "checkmate"
      <4>1. x = End(p, color, position) BY <2>3, <3>1, MethodFacts DEF EndOnPosition
      <4> QED BY <2>1, <2>4, <2>5, <4>1, <3>1 DEF End, Games
    <3>2. CASE position \in Draws
      <4>1. x = End(p, NoColor, position) BY <2>3, <3>2, MethodFacts DEF EndOnPosition
      <4> QED BY <2>4, <2>5, <4>1, <3>2 DEF End, Games
    <3>3. CASE position = Ongoing
      <4>1. x = p BY <2>3, <3>3, MethodFacts DEF EndOnPosition, Ongoing, Draws
      <4> QED BY <2>7, <4>1
    <3> QED BY <3>1, <3>2, <3>3 DEF PositionEndings
  <2>9. Over(x) \/ (InTime(x, t) /\ Elapsed(x, t) = 0)
    BY <2>6, <2>7, <2>8, WindowOpens
  <2>10. WaitLeft(x, t) = IF x.plies < 2 /\ x.result = NoResult THEN FirstMoveWindow ELSE 0
    <3>1. x.plies \in Nat BY <2>6 DEF Good, Games
    <3>2. Over(x) <=> x.result # NoResult BY DEF Over
    <3> QED BY <2>9, <3>1, <3>2, TimeAssumption DEF WaitLeft, ClocksRunning
  <2>11. ShownClocks(x, t) = ShownClocks(s, t)
    <3>1. x \in Games(t) BY <2>6 DEF Good
    <3> QED BY <2>7, <2>8, <3>1, ShownFresh
  <2> QED BY <2>2, <2>7, <2>8, <2>9, <2>10, <2>11 DEF s, x
<1> QED BY <1>2, <1>3

(* Abort, as the wall clock sees it: nothing, or CallOff.                  *)
LEMMA AbortShown ==
    ASSUME NEW t \in Nat, NEW g, Good(g, t)
    PROVE  LET s == Settle(g, t)
               x == AfterAbort(g, t)
           IN  /\ Over(x) \/ InTime(x, t)
               /\ \/ x = s
                  \/ /\ s.result = NoResult /\ s.plies < 2
                     /\ Image(x, t) = <<s.plies, s.turn, ShownClocks(s, t), 0,
                                        [winner |-> NoColor, method |-> "aborted"]>>
<1> DEFINE s == Settle(g, t)
           x == AfterAbort(g, t)
<1>1. Good(s, t) /\ (Over(s) \/ InTime(s, t)) BY SettleGood
<1>2. CASE AbortError(s) # "ok"
  <2>1. x = s BY <1>2 DEF AfterAbort
  <2> QED BY <2>1, <1>1
<1>3. CASE AbortError(s) = "ok"
  <2>1. x = End(s, NoColor, "aborted") BY <1>3 DEF AfterAbort
  <2> HIDE DEF s, x
  <2>2. ~Over(s) /\ ~ClocksRunning(s) BY <1>3 DEF AbortError
  <2>3. s \in Games(t) /\ s.plies \in Nat BY <1>1 DEF Good, Games
  <2>4. /\ x \in Games(t) /\ Over(x)
        /\ x.result = [winner |-> NoColor, method |-> "aborted"]
        /\ x.plies = s.plies /\ x.turn = s.turn /\ x.timeLeft = s.timeLeft
    BY <2>1, <2>3, MethodFacts, EndFacts
  <2>5. ShownClocks(x, t) = ShownClocks(s, t)
    BY <2>2, <2>3, <2>4, ShownFresh
  <2>6. WaitLeft(x, t) = 0 BY <2>4 DEF WaitLeft
  <2>7. s.result = NoResult /\ s.plies < 2
    BY <2>2, <2>3 DEF Over, ClocksRunning
  <2> QED BY <2>4, <2>5, <2>6, <2>7 DEF Image, s, x
<1> QED BY <1>2, <1>3

(* Resign and Disconnect, as the wall clock sees them: nothing, or GiveUp. *)
LEMMA ForfeitShown ==
    ASSUME NEW t \in Nat, NEW g, Good(g, t), NEW color \in Sides,
           NEW method \in {"resign", "disconnect"}
    PROVE  LET s == Settle(g, t)
               x == AfterForfeit(g, color, method, t)
           IN  /\ Over(x)
               /\ \/ x = s
                  \/ /\ s.result = NoResult
                     /\ Image(x, t) = <<s.plies, s.turn, ShownClocks(s, t), 0,
                                        [winner |-> Opponent(color), method |-> method]>>
<1> DEFINE s == Settle(g, t)
           c == Charge(s, s.turn, t)
           x == AfterForfeit(g, color, method, t)
<1>1. Good(s, t) /\ (Over(s) \/ InTime(s, t)) BY SettleGood
<1>2. CASE Over(s)
  <2>1. x = s BY <1>2 DEF AfterForfeit
  <2> QED BY <2>1, <1>2
<1>3. CASE ~Over(s)
  <2>1. x = End(c, Opponent(color), method) BY <1>3 DEF AfterForfeit
  <2>2. /\ c \in Games(t) /\ c.plies = s.plies /\ c.turn = s.turn
        /\ c.timeLeft = ShownClocks(s, t)
    <3> HIDE DEF s
    <3> QED BY <1>1, <1>3, ChargeGood, ChargeShown
  <2> HIDE DEF s, c, x
  <2>3. method \in Methods /\ Opponent(color) \in Sides BY MethodFacts, OpponentFacts
  <2>4. /\ x \in Games(t) /\ Over(x)
        /\ x.result = [winner |-> Opponent(color), method |-> method]
        /\ x.plies = s.plies /\ x.turn = s.turn /\ x.timeLeft = ShownClocks(s, t)
    BY <2>1, <2>2, <2>3, EndFacts
  <2>5. ShownClocks(x, t) = ShownClocks(s, t) BY <2>4, ShownFresh
  <2>6. WaitLeft(x, t) = 0 BY <2>4 DEF WaitLeft
  <2>7. s.result = NoResult BY <1>3 DEF Over
  <2> QED BY <2>4, <2>5, <2>6, <2>7 DEF Image, s, x
<1> QED BY <1>2, <1>3

(* Time alone: a Game that was over on the clock stays the same, and a     *)
(* settled live one loses one unit of what is running.                     *)
LEMMA TickShown ==
    ASSUME NEW t \in Nat, NEW g, Good(g, t)
    PROVE  LET s == Settle(g, t)
               x == Settle(g, t + 1)
           IN  \/ Over(s) /\ Image(x, t + 1) = Image(s, t)
               \/ /\ ~Over(s) /\ ~ClocksRunning(s)
                  /\ Image(x, t + 1) =
                        <<s.plies, s.turn, ShownClocks(s, t), WaitLeft(s, t) - 1,
                          IF WaitLeft(s, t) = 1
                          THEN [winner |-> NoColor, method |-> "aborted"] ELSE s.result>>
               \/ /\ ~Over(s) /\ ClocksRunning(s)
                  /\ Image(x, t + 1) =
                        <<s.plies, s.turn,
                          [ShownClocks(s, t) EXCEPT ![s.turn] = @ - 1], WaitLeft(s, t),
                          IF ShownClocks(s, t)[s.turn] = 1
                          THEN [winner |-> Opponent(s.turn), method |-> "timeout"] ELSE s.result>>
<1> DEFINE s == Settle(g, t)
           x == Settle(g, t + 1)
<1>1. /\ Good(s, t) /\ (Over(s) \/ (s = g /\ InTime(s, t)))
      /\ Good(x, t + 1) /\ (Over(x) \/ (x = g /\ InTime(x, t + 1)))
  BY SettleGood, LaterGood
<1>2. /\ g \in Games(t) /\ g.turn \in Sides /\ g.timeLeft \in [Sides -> 0..TimeControl]
      /\ g.lastMoveAt \in 0..t /\ g.plies \in Nat
      /\ g.timeLeft[g.turn] \in 0..TimeControl
  BY DEF Good, Games
<1>3. Elapsed(g, t + 1) = Elapsed(g, t) + 1 /\ Elapsed(g, t) \in Nat
  BY <1>2 DEF Elapsed
<1>4. CASE Over(s)
  <2>1. x = s
    <3>1. CASE Over(g) BY <3>1 DEF Settle
    <3>2. CASE ~Over(g)
      <4>1. FirstMoveOverdue(g, t) \/ FlagFallen(g, t)
        BY <3>2, <1>4 DEF Settle
      <4>2. /\ FirstMoveOverdue(g, t) <=> FirstMoveOverdue(g, t + 1)
            /\ FlagFallen(g, t) => FlagFallen(g, t + 1)
            /\ FlagFallen(g, t + 1) => ~FirstMoveOverdue(g, t + 1)
        BY <4>1, <1>2, <1>3, TimeAssumption DEF FirstMoveOverdue, FlagFallen
      <4> QED BY <3>2, <4>1, <4>2 DEF Settle
    <3> QED BY <3>1, <3>2
  <2> HIDE DEF s, x
  <2>2. ShownClocks(x, t + 1) = s.timeLeft /\ ShownClocks(s, t) = s.timeLeft
    BY <1>1, <1>4, <2>1, ShownFresh DEF Good
  <2>3. WaitLeft(x, t + 1) = 0 /\ WaitLeft(s, t) = 0
    BY <1>4, <2>1 DEF WaitLeft
  <2> QED BY <1>4, <2>1, <2>2, <2>3 DEF Image, s, x
<1>5. CASE ~Over(s) /\ ~ClocksRunning(s)
  <2>1. s = g /\ InTime(g, t) /\ ~Over(g) /\ ~ClocksRunning(g)
    BY <1>1, <1>5
  <2>2. WaitLeft(s, t) = FirstMoveWindow - Elapsed(g, t) BY <2>1 DEF WaitLeft
  <2>3. ShownClocks(s, t) = g.timeLeft BY <2>1, <1>2, ShownFresh
  <2>4. CASE FirstMoveOverdue(g, t + 1)
    <3>1. x = End(g, NoColor, "aborted")
      BY <2>1, <2>4 DEF Settle, FirstMoveOverdue, FlagFallen
    <3>2. WaitLeft(s, t) = 1
      BY <2>1, <2>2, <2>4, <1>3, TimeAssumption DEF InTime, FirstMoveOverdue
    <3> HIDE DEF s, x
    <3>3. /\ x \in Games(t) /\ Over(x)
          /\ x.result = [winner |-> NoColor, method |-> "aborted"]
          /\ x.plies = g.plies /\ x.turn = g.turn /\ x.timeLeft = g.timeLeft
      BY <3>1, <1>2, MethodFacts, EndFacts
    <3>4. ShownClocks(x, t + 1) = g.timeLeft
      <4>1. x \in Games(t + 1) BY <1>1 DEF Good
      <4> QED BY <3>3, <4>1, ShownFresh
    <3>5. WaitLeft(x, t + 1) = 0 BY <3>3 DEF WaitLeft
    <3> QED BY <1>5, <2>1, <2>3, <3>2, <3>3, <3>4, <3>5 DEF Image, s, x
  <2>5. CASE ~FirstMoveOverdue(g, t + 1)
    <3>1. x = g BY <2>1, <2>5 DEF Settle, FlagFallen
    <3>2. WaitLeft(x, t + 1) = WaitLeft(s, t) - 1
      BY <2>1, <2>2, <3>1, <1>3, TimeAssumption DEF WaitLeft
    <3>3. WaitLeft(s, t) # 1
      BY <2>1, <2>2, <2>5, <1>3, TimeAssumption DEF FirstMoveOverdue
    <3>4. ShownClocks(x, t + 1) = g.timeLeft
      <4>1. x \in Games(t + 1) BY <1>1 DEF Good
      <4> QED BY <2>1, <3>1, <4>1, ShownFresh
    <3> HIDE DEF s, x
    <3> QED BY <1>5, <2>1, <2>3, <3>1, <3>2, <3>3, <3>4 DEF Image, s, x
  <2> QED BY <2>4, <2>5
<1>6. CASE ~Over(s) /\ ClocksRunning(s)
  <2>1. s = g /\ InTime(g, t) /\ ~Over(g) /\ ClocksRunning(g)
    BY <1>1, <1>6
  <2>2. WaitLeft(s, t) = 0 BY <2>1 DEF WaitLeft
  <2>3. /\ ShownClocks(s, t)[g.turn] = g.timeLeft[g.turn] - Elapsed(g, t)
        /\ ShownClocks(s, t)[g.turn] \in 1..TimeControl
    BY <2>1, <1>2 DEF ShownClocks, InTime
  <2>4. [ShownClocks(s, t) EXCEPT ![s.turn] = @ - 1]
          = [y \in Sides |-> IF y = g.turn THEN g.timeLeft[y] - Elapsed(g, t) - 1
                                           ELSE g.timeLeft[y]]
    BY <2>1, <1>2 DEF ShownClocks
  <2>5. CASE FlagFallen(g, t + 1)
    <3> DEFINE stopped == [g EXCEPT !.timeLeft[g.turn] = 0]
    <3>1. x = End(stopped, Opponent(g.turn), "timeout")
      BY <2>1, <2>5 DEF Settle, FirstMoveOverdue
    <3>2. ShownClocks(s, t)[g.turn] = 1 /\ g.timeLeft[g.turn] - Elapsed(g, t) - 1 = 0
      BY <2>3, <2>5, <1>2, <1>3 DEF FlagFallen
    <3>3. /\ stopped \in Games(t) /\ stopped.plies = g.plies /\ stopped.turn = g.turn
          /\ stopped.timeLeft = [g.timeLeft EXCEPT ![g.turn] = 0]
      BY <1>2, TimeAssumption DEF Games
    <3> HIDE DEF s, x, stopped
    <3>4. /\ Over(x) /\ x.result = [winner |-> Opponent(g.turn), method |-> "timeout"]
          /\ x.plies = g.plies /\ x.turn = g.turn
          /\ x.timeLeft = [g.timeLeft EXCEPT ![g.turn] = 0]
      BY <3>1, <3>3, <1>2, OpponentFacts, MethodFacts, EndFacts
    <3>5. ShownClocks(x, t + 1) = x.timeLeft
      <4>1. x \in Games(t + 1) BY <1>1 DEF Good
      <4> QED BY <3>4, <4>1, ShownFresh
    <3>6. WaitLeft(x, t + 1) = 0 BY <3>4 DEF WaitLeft
    <3>7. x.timeLeft = [ShownClocks(s, t) EXCEPT ![s.turn] = @ - 1]
      BY <2>4, <3>2, <3>4, <1>2
    <3> QED BY <1>6, <2>1, <2>2, <3>2, <3>4, <3>5, <3>6, <3>7 DEF Image, s, x
  <2>6. CASE ~FlagFallen(g, t + 1)
    <3>1. x = g BY <2>1, <2>6 DEF Settle, FirstMoveOverdue
    <3>2. ShownClocks(s, t)[g.turn] # 1
      BY <2>1, <2>3, <2>6, <1>2, <1>3 DEF FlagFallen
    <3>3. WaitLeft(x, t + 1) = 0 BY <2>1, <3>1 DEF WaitLeft
    <3>4. ShownClocks(x, t + 1) = [ShownClocks(s, t) EXCEPT ![s.turn] = @ - 1]
      <4>1. \A y \in Sides : g.timeLeft[y] - (Elapsed(g, t) + 1) = g.timeLeft[y] - Elapsed(g, t) - 1
        BY <1>2, <1>3
      <4>2. ShownClocks(x, t + 1)
              = [y \in Sides |-> IF y = g.turn THEN g.timeLeft[y] - (Elapsed(g, t) + 1)
                                               ELSE g.timeLeft[y]]
        BY <2>1, <3>1, <1>3 DEF ShownClocks
      <4> QED BY <2>4, <4>1, <4>2
    <3> HIDE DEF s, x
    <3> QED BY <1>6, <2>1, <2>2, <3>1, <3>2, <3>3, <3>4 DEF Image, s, x
  <2> QED BY <2>5, <2>6
<1> QED BY <1>4, <1>5, <1>6

-----------------------------------------------------------------------------
OnlyTurn(g, x) ==
    \A s \in Sides : /\ x.timeLeft[s] <= g.timeLeft[s]
                     /\ x.timeLeft[s] # g.timeLeft[s] => s = g.turn

(* A Game whose clocks are those shown, or those stored, cost only the     *)
(* side to move.                                                           *)
LEMMA OnlyTurnShown ==
    ASSUME NEW t \in Nat, NEW g \in Games(t), NEW x,
           x.timeLeft = g.timeLeft \/ x.timeLeft = ShownClocks(g, t)
    PROVE  OnlyTurn(g, x)
<1>1. /\ g.lastMoveAt \in 0..t /\ g.timeLeft \in [Sides -> 0..TimeControl]
      /\ Elapsed(g, t) \in Nat
  BY DEF Games, Elapsed
<1>2. \A s \in Sides : g.timeLeft[s] \in Int BY <1>1, TimeAssumption
<1>3. CASE x.timeLeft = g.timeLeft BY <1>2, <1>3 DEF OnlyTurn
<1>4. CASE x.timeLeft = ShownClocks(g, t)
  BY <1>1, <1>2, <1>4 DEF OnlyTurn, ShownClocks
<1> QED BY <1>3, <1>4

(* Settling takes time only from the side to move.                         *)
LEMMA SettleCharges ==
    ASSUME NEW t \in Nat, NEW g, Good(g, t)
    PROVE  OnlyTurn(g, Settle(g, t))
<1> DEFINE s == Settle(g, t)
<1>1. /\ g \in Games(t) /\ g.turn \in Sides /\ g.timeLeft \in [Sides -> 0..TimeControl]
      /\ \A y \in Sides : g.timeLeft[y] \in 0..TimeControl
  BY DEF Good, Games
<1>2. CASE s = g
  BY <1>1, <1>2, OnlyTurnShown
<1>3. CASE s = End(g, NoColor, "aborted")
  <2>1. s.timeLeft = g.timeLeft BY <1>1, <1>3 DEF End, Games
  <2> QED BY <1>1, <2>1, OnlyTurnShown
<1>4. CASE s = End([g EXCEPT !.timeLeft[g.turn] = 0], Opponent(g.turn), "timeout")
  <2>1. s.timeLeft = [g.timeLeft EXCEPT ![g.turn] = 0]
    BY <1>1, <1>4 DEF End, Games
  <2> HIDE DEF s
  <2> QED BY <1>1, <2>1, TimeAssumption DEF OnlyTurn, s
<1> QED BY <1>2, <1>3, <1>4 DEF Settle, FirstMoveOverdue, FlagFallen

(* No command raises a clock, or lowers that of the side that waits.       *)
LEMMA CommandCharges ==
    ASSUME NEW t \in Nat, NEW g, Good(g, t), NEW x,
           \/ x = Settle(g, t)
           \/ x = AfterAbort(g, t)
           \/ \E c \in Sides, m \in {"resign", "disconnect"} : x = AfterForfeit(g, c, m, t)
           \/ \E c \in Sides, l \in BOOLEAN, p \in PositionEndings \cup {Ongoing} :
                 x = AfterMove(g, c, l, p, t)
    PROVE  OnlyTurn(g, x)
<1> DEFINE s == Settle(g, t)
<1>1. Over(s) \/ (s = g /\ InTime(g, t)) BY SettleGood
<1>2. CASE x = s BY <1>2, SettleCharges
<1>3. CASE ~Over(s) /\ x # s
  <2>1. s = g /\ InTime(g, t) /\ g \in Games(t) BY <1>1, <1>3 DEF Good
  <2>2. /\ Charge(g, g.turn, t) \in Games(t)
        /\ Charge(g, g.turn, t).timeLeft = ShownClocks(g, t)
    BY <2>1, ChargeGood, ChargeShown
  <2>3. CASE x = AfterAbort(g, t)
    <3>1. x = End(g, NoColor, "aborted") BY <1>3, <2>1, <2>3 DEF AfterAbort
    <3>2. x.timeLeft = g.timeLeft BY <2>1, <3>1 DEF End, Games
    <3> QED BY <2>1, <3>2, OnlyTurnShown
  <2>4. ASSUME NEW c \in Sides, NEW m \in {"resign", "disconnect"},
               x = AfterForfeit(g, c, m, t)
        PROVE  OnlyTurn(g, x)
    <3>1. x = End(Charge(g, g.turn, t), Opponent(c), m)
      BY <1>3, <2>1, <2>4 DEF AfterForfeit
    <3>2. x.timeLeft = ShownClocks(g, t) BY <2>2, <3>1 DEF End, Games
    <3> QED BY <2>1, <3>2, OnlyTurnShown
  <2>5. ASSUME NEW c \in Sides, NEW l \in BOOLEAN, NEW p \in PositionEndings \cup {Ongoing},
               x = AfterMove(g, c, l, p, t)
        PROVE  OnlyTurn(g, x)
    <3>1. x = EndOnPosition(Played(g, c, t), c, p) /\ c = g.turn
      BY <1>3, <2>1, <2>5 DEF AfterMove, MoveError
    <3>2. Played(g, c, t).timeLeft = ShownClocks(g, t) /\ Played(g, c, t) \in
            [plies : Int, turn : Sides, timeLeft : [Sides -> 0..TimeControl],
             lastMoveAt : Int, result : Results \cup {NoResult}]
      <4> DEFINE d == Charge(g, g.turn, t)
                 o == Opponent(d.turn)
                 n == d.plies + 1
      <4>1. Played(g, c, t) = [d EXCEPT !.plies = n, !.turn = o, !.lastMoveAt = t]
        BY <3>1 DEF Played
      <4>2. n \in Int /\ o \in Sides
        BY <2>2, OpponentFacts DEF Games
      <4>3. d \in Games(t) /\ d.timeLeft = ShownClocks(g, t) BY <2>2
      <4> HIDE DEF d, o, n
      <4>4. Played(g, c, t).timeLeft = d.timeLeft
        BY <4>1, <4>3 DEF Games
      <4>5. t \in Int /\ d \in [plies : Nat, turn : Sides,
                timeLeft : [Sides -> 0..TimeControl], lastMoveAt : 0..t,
                result : Results \cup {NoResult}]
        BY <4>3 DEF Games
      <4>6. Played(g, c, t) \in
              [plies : Int, turn : Sides, timeLeft : [Sides -> 0..TimeControl],
               lastMoveAt : Int, result : Results \cup {NoResult}]
        BY <4>1, <4>2, <4>5
      <4> QED BY <4>3, <4>4, <4>6
    <3>3. x.timeLeft = Played(g, c, t).timeLeft
      BY <3>1, <3>2 DEF EndOnPosition, End
    <3> QED BY <2>1, <3>2, <3>3, OnlyTurnShown
  <2> QED BY <1>3, <2>3, <2>4, <2>5
<1>4. CASE Over(s) /\ x # s
  <2>1. /\ AfterAbort(g, t) = s
        /\ \A c, m : AfterForfeit(g, c, m, t) = s
        /\ \A c, l, p : AfterMove(g, c, l, p, t) = s
    BY <1>4 DEF AfterAbort, AbortError, AfterForfeit, AfterMove, MoveError
  <2> QED BY <1>4, <2>1
<1> QED BY <1>2, <1>3, <1>4

-----------------------------------------------------------------------------
(* What a Room needs to know of its Game.                                  *)

(* Only a move that is accepted adds a ply, and it adds one; whoever gives *)
(* up leaves a finished Game.                                              *)
LEMMA CommandPlies ==
    ASSUME NEW t \in Nat, NEW g, Good(g, t)
    PROVE  /\ Settle(g, t).plies = g.plies
           /\ AfterAbort(g, t).plies = g.plies
           /\ \A c \in Sides, m \in {"resign", "disconnect"} :
                 AfterForfeit(g, c, m, t).plies = g.plies /\ Over(AfterForfeit(g, c, m, t))
           /\ \A c \in Sides, l \in BOOLEAN, p \in PositionEndings \cup {Ongoing} :
                 AfterMove(g, c, l, p, t).plies =
                     IF MoveError(Settle(g, t), c, l) = "ok" THEN g.plies + 1 ELSE g.plies
<1> DEFINE s == Settle(g, t)
<1>1. Good(s, t) /\ (Over(s) \/ InTime(s, t)) /\ s \in Games(t)
  BY SettleGood DEF Good
<1>2. s.plies = g.plies
  BY DEF Settle, End, Good, Games
<1> HIDE DEF s
<1>3. AfterAbort(g, t).plies = g.plies
  BY <1>1, <1>2 DEF AfterAbort, End, s, Games
<1>4. ASSUME NEW c \in Sides, NEW m \in {"resign", "disconnect"}
      PROVE  AfterForfeit(g, c, m, t).plies = g.plies /\ Over(AfterForfeit(g, c, m, t))
  <2>1. CASE Over(s) BY <1>2, <2>1 DEF AfterForfeit, s
  <2>2. CASE ~Over(s)
    <3> DEFINE x == Charge(s, s.turn, t)
    <3>1. x \in Games(t) /\ x.plies = s.plies
      BY <1>1, <2>2, ChargeGood
    <3>2. m \in Methods /\ Opponent(c) \in Sides BY MethodFacts, OpponentFacts
    <3>3. AfterForfeit(g, c, m, t) = End(x, Opponent(c), m)
      BY <2>2 DEF AfterForfeit, s
    <3> HIDE DEF x
    <3>4. End(x, Opponent(c), m).plies = x.plies
      BY <3>1 DEF End, Games
    <3>5. Over(End(x, Opponent(c), m))
      BY <3>1, <3>2, EndFacts
    <3> QED BY <1>2, <3>1, <3>3, <3>4, <3>5
  <2> QED BY <2>1, <2>2
<1>5. ASSUME NEW c \in Sides, NEW l \in BOOLEAN, NEW p \in PositionEndings \cup {Ongoing}
      PROVE  AfterMove(g, c, l, p, t).plies =
                 IF MoveError(s, c, l) = "ok" THEN g.plies + 1 ELSE g.plies
  <2>1. CASE MoveError(s, c, l) # "ok" BY <1>2, <2>1 DEF AfterMove, s
  <2>2. CASE MoveError(s, c, l) = "ok"
    <3> DEFINE x == Charge(s, c, t)
               y == Played(s, c, t)
    <3>1. ~Over(s) /\ c = s.turn BY <2>2 DEF MoveError
    <3>2. x \in Games(t) /\ x.plies = s.plies BY <1>1, <3>1, ChargeGood
    <3>3. y = [x EXCEPT !.plies = @ + 1, !.turn = Opponent(@), !.lastMoveAt = t]
      BY DEF Played
    <3> HIDE DEF x
    <3>4. y.plies = s.plies + 1 BY <3>2, <3>3 DEF Games
    <3>6. EndOnPosition(y, c, p).plies = y.plies
      BY <3>2, <3>3 DEF EndOnPosition, End, Games
    <3>7. AfterMove(g, c, l, p, t) = EndOnPosition(y, c, p)
      BY <2>2 DEF AfterMove, s
    <3> QED BY <1>2, <2>2, <3>4, <3>6, <3>7
  <2> QED BY <2>1, <2>2
<1> QED BY <1>2, <1>3, <1>4, <1>5 DEF s

(* Only Disconnect ends a Game by disconnection, and it is the side that   *)
(* left that loses.                                                        *)
LEMMA OnlyDisconnect ==
    ASSUME NEW t \in Nat, NEW g, Good(g, t), g.result.method # "disconnect"
    PROVE  /\ Settle(g, t).result.method # "disconnect"
           /\ AfterAbort(g, t).result.method # "disconnect"
           /\ \A c \in Sides : AfterForfeit(g, c, "resign", t).result.method # "disconnect"
           /\ \A c \in Sides :
                 AfterForfeit(g, c, "disconnect", t).result.method = "disconnect" =>
                     AfterForfeit(g, c, "disconnect", t).result.winner = Opponent(c)
           /\ \A c \in Sides, l \in BOOLEAN, p \in PositionEndings \cup {Ongoing} :
                 AfterMove(g, c, l, p, t).result.method # "disconnect"
<1> DEFINE s == Settle(g, t)
<1>1. Good(s, t) /\ (Over(s) \/ InTime(s, t)) /\ s \in Games(t)
  BY SettleGood DEF Good
<1>2. s.result.method # "disconnect"
  BY DEF Settle, End, Good, Games
<1> HIDE DEF s
<1>3. AfterAbort(g, t).result.method # "disconnect"
  BY <1>1, <1>2 DEF AfterAbort, End, s, Games
<1>4. ASSUME NEW c \in Sides, NEW m \in {"resign", "disconnect"}
      PROVE  \/ AfterForfeit(g, c, m, t).result = s.result
             \/ AfterForfeit(g, c, m, t).result = [winner |-> Opponent(c), method |-> m]
  <2>1. CASE Over(s) BY <2>1 DEF AfterForfeit, s
  <2>2. CASE ~Over(s)
    <3> DEFINE x == Charge(s, s.turn, t)
    <3>1. x \in Games(t) BY <1>1, <2>2, ChargeGood
    <3>2. m \in Methods /\ Opponent(c) \in Sides BY MethodFacts, OpponentFacts
    <3>3. AfterForfeit(g, c, m, t) = End(x, Opponent(c), m)
      BY <2>2 DEF AfterForfeit, s
    <3> HIDE DEF x
    <3>4. End(x, Opponent(c), m).result = [winner |-> Opponent(c), method |-> m]
      BY <3>1, <3>2, EndFacts
    <3> QED BY <3>3, <3>4
  <2> QED BY <2>1, <2>2
<1>5. ASSUME NEW c \in Sides, NEW l \in BOOLEAN, NEW p \in PositionEndings \cup {Ongoing}
      PROVE  AfterMove(g, c, l, p, t).result.method # "disconnect"
  <2>1. CASE MoveError(s, c, l) # "ok" BY <1>2, <2>1 DEF AfterMove, s
  <2>2. CASE MoveError(s, c, l) = "ok"
    <3> DEFINE x == Charge(s, c, t)
               y == Played(s, c, t)
    <3>1. ~Over(s) /\ c = s.turn BY <2>2 DEF MoveError
    <3>2. x \in Games(t) /\ x.result = NoResult BY <1>1, <3>1, ChargeGood
    <3>3. y = [x EXCEPT !.plies = @ + 1, !.turn = Opponent(@), !.lastMoveAt = t]
      BY DEF Played
    <3> HIDE DEF x
    <3>4. y.result.method = "none" BY <3>2, <3>3 DEF Games, NoResult
    <3>5. p # "disconnect" BY MethodFacts DEF PositionEndings, Draws, Ongoing
    <3>6. EndOnPosition(y, c, p).result.method # "disconnect"
      BY <3>2, <3>3, <3>4, <3>5 DEF EndOnPosition, End, Games
    <3>7. AfterMove(g, c, l, p, t) = EndOnPosition(y, c, p)
      BY <2>2 DEF AfterMove, s
    <3> QED BY <3>6, <3>7
  <2> QED BY <2>1, <2>2
<1>6. ASSUME NEW c \in Sides
      PROVE  AfterForfeit(g, c, "resign", t).result.method # "disconnect"
  <2>1. \/ AfterForfeit(g, c, "resign", t).result = s.result
        \/ AfterForfeit(g, c, "resign", t).result = [winner |-> Opponent(c), method |-> "resign"]
    BY <1>4
  <2> QED BY <1>2, <2>1
<1>7. ASSUME NEW c \in Sides, AfterForfeit(g, c, "disconnect", t).result.method = "disconnect"
      PROVE  AfterForfeit(g, c, "disconnect", t).result.winner = Opponent(c)
  <2>1. \/ AfterForfeit(g, c, "disconnect", t).result = s.result
        \/ AfterForfeit(g, c, "disconnect", t).result
               = [winner |-> Opponent(c), method |-> "disconnect"]
    BY <1>4
  <2> QED BY <1>2, <1>7, <2>1
<1> QED BY <1>2, <1>3, <1>5, <1>6, <1>7 DEF s
=============================================================================
