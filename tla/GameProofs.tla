----------------------------- MODULE GameProofs -----------------------------
(***************************************************************************)
(* Theorems about module Game, for every time control and every first-move *)
(* window.  The inductive invariant says that the Game is Good at the      *)
(* current time; GameRulesProofs shows that every command keeps it so.     *)
(***************************************************************************)
EXTENDS Game, GameRulesProofs

-----------------------------------------------------------------------------
IInv == now \in Nat /\ Good(game, now)

(* The inductive invariant is the four invariants the run checks, together.*)
LEMMA IInvIsChecked ==
    IInv <=> TypeOK /\ FlagMeansTimeout /\ ResultFitsGame /\ NoTimeInvented
BY DEF IInv, Good, Games, TimeoutIsFlag, ResultFits, Accounted,
       TypeOK, FlagMeansTimeout, ResultFitsGame, NoTimeInvented, Spent

(* Init makes the Game Good, and every command and the passing of time     *)
(* keep it so.                                                             *)
LEMMA Inductive == Spec => []IInv
<1>1. Init => IInv
  BY NewGood DEF Init, IInv
<1>2. IInv /\ [Next]_gameVars => IInv'
  <2> SUFFICES ASSUME IInv, [Next]_gameVars PROVE IInv'
    OBVIOUS
  <2> USE DEF IInv
  <2>1. CASE Tick
    BY <2>1, LaterGood DEF Tick
  <2>2. CASE Abort
    BY <2>2, AbortGood DEF Abort
  <2>3. CASE Observe
    BY <2>3, SettleGood DEF Observe
  <2>4. ASSUME NEW color \in Sides, Resign(color) PROVE IInv'
    BY <2>4, ForfeitGood DEF Resign
  <2>5. ASSUME NEW color \in Sides, Disconnect(color) PROVE IInv'
    BY <2>5, ForfeitGood DEF Disconnect
  <2>6. ASSUME NEW color \in Sides, NEW legal \in BOOLEAN,
               NEW position \in PositionEndings \cup {Ongoing}, Move(color, legal, position)
        PROVE  IInv'
    BY <2>6, MoveGood DEF Move
  <2>7. CASE UNCHANGED gameVars
    BY <2>7 DEF gameVars
  <2> QED BY <2>1, <2>2, <2>3, <2>4, <2>5, <2>6, <2>7 DEF Next
<1> QED BY <1>1, <1>2, PTL DEF Spec

(* Every reachable Game is well typed: no clock ever leaves the interval   *)
(* from zero to the time control, whatever the commands and their timing.  *)
THEOREM TypeCorrect == Spec => []TypeOK
BY Inductive, IInvIsChecked, PTL

(* A clock is at zero exactly in the Games that ended on time.             *)
THEOREM FlagCorrect == Spec => []FlagMeansTimeout
BY Inductive, IInvIsChecked, PTL

(* The Result of every finished Game fits the moves and the turn it has.   *)
THEOREM ResultCorrect == Spec => []ResultFitsGame
BY Inductive, IInvIsChecked, PTL

(* The two clocks together never lose more time than has passed.           *)
THEOREM TimeCorrect == Spec => []NoTimeInvented
BY Inductive, IInvIsChecked, PTL

-----------------------------------------------------------------------------
(* No command, in any order and at any time, changes a finished Game.      *)
THEOREM FinalCorrect == Spec => ResultIsFinal
<1>1. [Next]_gameVars => [Over(game) => game' = game]_gameVars
  <2> SUFFICES ASSUME Next, Over(game) PROVE game' = game
    OBVIOUS
  <2>1. CASE Tick BY <2>1 DEF Tick
  <2>2. CASE Abort BY <2>2, OverStays DEF Abort
  <2>3. CASE Observe BY <2>3, OverStays DEF Observe
  <2>4. ASSUME NEW c \in Sides, Resign(c) \/ Disconnect(c) PROVE game' = game
    BY <2>4, OverStays DEF Resign, Disconnect
  <2>5. ASSUME NEW c \in Sides, NEW l \in BOOLEAN,
               NEW p \in PositionEndings \cup {Ongoing}, Move(c, l, p)
        PROVE  game' = game
    BY <2>5, OverStays DEF Move
  <2> QED BY <2>1, <2>2, <2>3, <2>4, <2>5 DEF Next
<1> QED BY <1>1, PTL DEF Spec, ResultIsFinal

-----------------------------------------------------------------------------
(* ChessClock has its own copy of the vocabulary of ChessTypes.            *)
LEMMA SameWords ==
    /\ Promise!White = White /\ Promise!Sides = Sides /\ Promise!NoColor = NoColor
    /\ Promise!Draws = Draws /\ Promise!NoResult = NoResult
    /\ \A c : Promise!Opponent(c) = Opponent(c)
BY DEF Promise!White, White, Promise!Black, Black, Promise!Sides, Sides,
       Promise!NoColor, NoColor, Promise!Draws, Draws, Promise!NoResult, NoResult,
       Promise!Opponent, Opponent

(* One step of Game, mapped, is one step of the clock or none.  After a    *)
(* command the Game is settled, so its image is read off directly.         *)
THEOREM ClockStep == IInv /\ [Next]_gameVars => [Promise!Next]_(Promise!vars)
<1> SUFFICES ASSUME IInv, [Next]_gameVars
             PROVE  [Promise!Next]_(Promise!vars)
  OBVIOUS
<1> DEFINE s == Settle(game, now)
           x == Settle(game', now')
<1>0. now \in Nat /\ Good(game, now) BY DEF IInv
<1>1. Promise!vars = Image(s, now) /\ Promise!vars' = Image(x, now')
  BY DEF Promise!vars, Image, SettledNow
<1> USE DEF SettledNow
<1> HIDE DEF s, x
<1>2. CASE UNCHANGED gameVars
  BY <1>1, <1>2 DEF gameVars, s, x
<1>3. CASE Tick
  <2>1. x = Settle(game, now + 1) /\ now' = now + 1 BY <1>3 DEF Tick, x
  <2>2. CASE Over(s) /\ Image(x, now + 1) = Image(s, now)
    BY <1>1, <2>1, <2>2
  <2>3. CASE /\ ~Over(s) /\ ~ClocksRunning(s)
             /\ Image(x, now + 1) =
                   <<s.plies, s.turn, ShownClocks(s, now), WaitLeft(s, now) - 1,
                     IF WaitLeft(s, now) = 1
                     THEN [winner |-> NoColor, method |-> "aborted"] ELSE s.result>>
    <3>1. Good(s, now) BY <1>0, SettleGood DEF s
    <3>2. s.plies \in Nat BY <3>1 DEF Good, Games
    <3>3. Promise!Wait
      BY <1>1, <2>1, <2>3, <3>2, SameWords
         DEF Promise!Wait, Promise!Live, Over, ClocksRunning, Image, s, x
    <3> QED BY <3>3 DEF Promise!Next
  <2>4. CASE /\ ~Over(s) /\ ClocksRunning(s)
             /\ Image(x, now + 1) =
                   <<s.plies, s.turn,
                     [ShownClocks(s, now) EXCEPT ![s.turn] = @ - 1], WaitLeft(s, now),
                     IF ShownClocks(s, now)[s.turn] = 1
                     THEN [winner |-> Opponent(s.turn), method |-> "timeout"] ELSE s.result>>
    <3>1. Promise!Run
      BY <1>1, <2>1, <2>4, SameWords DEF Promise!Run, Promise!Live, Over, ClocksRunning, Image, s, x
    <3> QED BY <3>1 DEF Promise!Next
  <2> QED BY <1>0, <2>1, <2>2, <2>3, <2>4, TickShown DEF s
<1>4. CASE Abort
  <2>1. game' = AfterAbort(game, now) /\ now' = now BY <1>4 DEF Abort
  <2>2. x = game' BY <1>0, <2>1, AbortShown, SettleStable DEF x
  <2>3. CASE game' = s BY <1>1, <2>1, <2>2, <2>3
  <2>4. CASE /\ s.result = NoResult /\ s.plies < 2
             /\ Image(x, now) = <<s.plies, s.turn, ShownClocks(s, now), 0,
                                  [winner |-> NoColor, method |-> "aborted"]>>
    <3>1. Promise!CallOff
      BY <1>1, <2>1, <2>4, SameWords DEF Promise!CallOff, Promise!Live, Image, s, x
    <3> QED BY <3>1 DEF Promise!Next
  <2> QED BY <1>0, <2>1, <2>2, <2>3, <2>4, AbortShown DEF s
<1>5. CASE Observe
  <2>1. game' = s /\ now' = now BY <1>5 DEF Observe, s
  <2>2. x = s BY <1>0, <2>1, SettleGood, SettleStable DEF s, x
  <2> QED BY <1>1, <2>1, <2>2
<1>6. ASSUME NEW color \in Sides, NEW method \in {"resign", "disconnect"},
             game' = AfterForfeit(game, color, method, now), now' = now
      PROVE  [Promise!Next]_(Promise!vars)
  <2>1. x = game' BY <1>0, <1>6, ForfeitShown, SettleStable DEF x
  <2>2. CASE game' = s BY <1>1, <1>6, <2>1, <2>2
  <2>3. CASE /\ s.result = NoResult
             /\ Image(x, now) = <<s.plies, s.turn, ShownClocks(s, now), 0,
                                  [winner |-> Opponent(color), method |-> method]>>
    <3>1. Promise!GiveUp(color, method)
      BY <1>1, <1>6, <2>3, SameWords DEF Promise!GiveUp, Promise!Live, Image, s, x
    <3> QED BY <3>1, SameWords DEF Promise!Next
  <2> QED BY <1>0, <1>6, <2>1, <2>2, <2>3, ForfeitShown DEF s
<1>7. ASSUME NEW color \in Sides, NEW legal \in BOOLEAN,
             NEW position \in PositionEndings \cup {Ongoing}, Move(color, legal, position)
      PROVE  [Promise!Next]_(Promise!vars)
  <2>1. game' = AfterMove(game, color, legal, position, now) /\ now' = now
    BY <1>7 DEF Move
  <2>2. x = game' BY <1>0, <2>1, MoveShown, SettleStable DEF x
  <2>3. CASE game' = s BY <1>1, <2>1, <2>2, <2>3
  <2>4. CASE /\ s.result = NoResult
             /\ x.plies = s.plies + 1
             /\ x.turn = Opponent(s.turn)
             /\ x.result \in {NoResult, [winner |-> s.turn, method |-> "checkmate"]}
                                \cup [winner : {NoColor}, method : Draws]
             /\ WaitLeft(x, now) = IF x.plies < 2 /\ x.result = NoResult
                                   THEN FirstMoveWindow ELSE 0
             /\ ShownClocks(x, now) = ShownClocks(s, now)
    <3>1. Promise!Play
      BY <1>1, <2>1, <2>4, SameWords DEF Promise!Play, Promise!Live, Image, s, x
    <3> QED BY <3>1 DEF Promise!Next
  <2> QED BY <1>0, <2>1, <2>2, <2>3, <2>4, MoveShown DEF s
<1> QED BY <1>2, <1>3, <1>4, <1>5, <1>6, <1>7 DEF Next, Resign, Disconnect

(* The Game, with its last-move time and its check at the start of every   *)
(* command, implements a clock that runs by itself and stops the Game the  *)
(* instant time runs out.                                                  *)
THEOREM ClockImplemented == Spec => ClockPromise
<1>1. Init => Promise!Init
  <2> SUFFICES ASSUME Init PROVE Promise!Init
    OBVIOUS
  <2> DEFINE g == NewGame(TimeControl, 0)
  <2>1. now = 0 /\ game = g BY DEF Init
  <2>2. Good(g, 0) BY NewGood
  <2>3. g.plies = 0 /\ g.turn = White /\ g.timeLeft = [s \in Sides |-> TimeControl]
        /\ g.result = NoResult /\ g.lastMoveAt = 0
    BY DEF NewGame
  <2> HIDE DEF g
  <2>4. ~Over(g) BY <2>3 DEF Over
  <2>5. InTime(g, 0) /\ Elapsed(g, 0) = 0 BY <2>2, <2>3, <2>4, WindowOpens
  <2>6. SettledNow = g BY <2>1, <2>5, SettleStable DEF SettledNow
  <2>7. ShownClocks(g, 0) = g.timeLeft BY <2>2, <2>3, ShownFresh DEF Good
  <2>8. WaitLeft(g, 0) = FirstMoveWindow
    BY <2>3, <2>4, <2>5, TimeAssumption DEF WaitLeft, ClocksRunning
  <2> QED BY <2>1, <2>3, <2>6, <2>7, <2>8, SameWords DEF Promise!Init
<1>2. IInv /\ [Next]_gameVars => [Promise!Next]_(Promise!vars)
  BY ClockStep
<1> QED BY <1>1, <1>2, Inductive, PTL DEF Spec, ClockPromise, Promise!Spec

-----------------------------------------------------------------------------
(* Only the side to move pays for time: no command of the waiting side     *)
(* costs the waiting side anything, and no clock ever goes up.             *)
THEOREM ChargeCorrect == Spec => OnlyTurnIsCharged
<1> DEFINE Step == \A s \in Sides :
                      /\ game'.timeLeft[s] <= game.timeLeft[s]
                      /\ game'.timeLeft[s] # game.timeLeft[s] => s = game.turn
<1>1. IInv /\ [Next]_gameVars => [Step]_gameVars
  <2> SUFFICES ASSUME IInv, Next PROVE OnlyTurn(game, game')
    BY DEF OnlyTurn
  <2>0. now \in Nat /\ Good(game, now) BY DEF IInv
  <2>1. CASE Tick
    <3>1. game' = game BY <2>1 DEF Tick
    <3>2. game \in Games(now) BY <2>0 DEF Good
    <3> QED BY <2>0, <3>1, <3>2, OnlyTurnShown
  <2>2. CASE Abort BY <2>0, <2>2, CommandCharges DEF Abort
  <2>3. CASE Observe BY <2>0, <2>3, CommandCharges DEF Observe
  <2>4. ASSUME NEW c \in Sides, Resign(c) \/ Disconnect(c) PROVE OnlyTurn(game, game')
    BY <2>0, <2>4, CommandCharges DEF Resign, Disconnect
  <2>5. ASSUME NEW c \in Sides, NEW l \in BOOLEAN,
               NEW p \in PositionEndings \cup {Ongoing}, Move(c, l, p)
        PROVE  OnlyTurn(game, game')
    BY <2>0, <2>5, CommandCharges DEF Move
  <2> QED BY <2>1, <2>2, <2>3, <2>4, <2>5 DEF Next
<1> QED BY <1>1, Inductive, PTL DEF Spec, OnlyTurnIsCharged
=============================================================================
