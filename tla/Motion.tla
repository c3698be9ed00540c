-------------------------------- MODULE Motion --------------------------------
(***************************************************************************)
(* How the simulated rotator, dome and focuser move (sim/rotator.go,       *)
(* sim/dome.go, sim/focuser.go).  None has a goroutine: a leg remembers    *)
(* where a move began and when, and the position is computed from the time *)
(* that has passed when somebody asks.  One unit is travelled per tick of  *)
(* the clock.                                                              *)
(***************************************************************************)
EXTENDS Integers

CONSTANT Circle  \* 360 degrees, in units

ASSUME CircleAssumption == Circle \in Nat \ {0}

Abs(n) == IF n < 0 THEN -n ELSE n

\* Seeded fault: math.Mod alone, which keeps the sign.
Wrap360_Mod(a) == IF a < 0 THEN -((-a) % Circle) ELSE a % Circle

Wrap360(a) == a % Circle

\* The signed shortest turn; of two half circles, the one that does not wrap.
ShortestDelta(from, to) ==
  LET d == to - from IN
    IF 2 * d < -Circle THEN d + Circle ELSE IF 2 * d > Circle THEN d - Circle ELSE d

\* A leg of a move: startX, targetX, the time since timeX, and xMoving.  A
\* round leg goes round the circle, a straight one does not.
Legs(places, ages) ==
  [round : BOOLEAN, start : places, target : places, age : ages, moving : BOOLEAN]

Resting(round, at) ==
  [round |-> round, start |-> at, target |-> at, age |-> 0, moving |-> FALSE]

Distance(leg) == IF leg.round THEN ShortestDelta(leg.start, leg.target) ELSE leg.target - leg.start

Arrived(leg) == leg.age >= Abs(Distance(leg))

\* Seeded fault: arriving only ends the move.
SettledLeg_Unmoved(leg) == [leg EXCEPT !.moving = @ /\ ~Arrived(leg)]

\* Reading the position completes a move that has arrived.
SettledLeg(leg) ==
  IF leg.moving /\ Arrived(leg) THEN Resting(leg.round, leg.target) ELSE leg

\* The position that a read reports.
Position(leg) ==
  LET along == leg.start + (IF Distance(leg) > 0 THEN leg.age ELSE -leg.age) IN
    IF ~leg.moving THEN leg.start
    ELSE IF Arrived(leg) THEN leg.target
    ELSE IF leg.round THEN Wrap360(along) ELSE along

\* Seeded fault: a move begins where the last one began.
BeginLeg_FromStart(leg, to) ==
  LET next == [leg EXCEPT !.target = to, !.age = 0] IN
    [next EXCEPT !.moving = Distance(next) # 0]

\* A new move begins at the present position.
BeginLeg(leg, to) ==
  LET next == [leg EXCEPT !.start = Position(leg), !.target = to, !.age = 0] IN
    [next EXCEPT !.moving = Distance(next) # 0]

HaltedLeg(leg) == Resting(leg.round, Position(leg))

\* The clock; the age of a leg at rest, or there, is not counted on.
LaterLeg(leg) == [leg EXCEPT !.age = IF leg.moving /\ ~Arrived(leg) THEN @ + 1 ELSE @]
=============================================================================
