-------------------------------- MODULE Movers --------------------------------
(***************************************************************************)
(* The simulated rotator, focuser, filter wheel and dome with the gates    *)
(* that the HTTP members apply to their arguments.                         *)
(*                                                                         *)
(* A method holds the device's mutex throughout, so it is a function of    *)
(* the device.  Each kind has: the device as built, the calls clients      *)
(* make, the calls that are refused, what a call does, what reads report,  *)
(* what a read settles, and the clock.                                     *)
(***************************************************************************)
EXTENDS Motion

CONSTANTS
  MaxStep,      \* the focuser's travel
  Slots,        \* filters in the wheel
  MaxAltitude,  \* 90 degrees, in units
  TurnTime,     \* 300 ms in which the wheel turns, in ticks
  ShutterTime   \* one second in which the shutter moves, in ticks

ASSUME MoverAssumption ==
  /\ {MaxStep, Slots, MaxAltitude, TurnTime, ShutterTime} \subseteq Nat \ {0}

\* Arguments around both ends of a range of angles.
Angles == -1..Circle

-----------------------------------------------------------------------------
(* Rotator *)

Rotators == [leg : Legs(0..(Circle - 1), 0..Circle), offset : 0..(Circle - 1), reverse : BOOLEAN]

NewRotator == [leg |-> Resting(TRUE, 0), offset |-> 0, reverse |-> FALSE]

RotatorCalls ==
  [op : {"moveabsolute", "movemechanical", "sync"}, to : Angles] \union
  [op : {"move"}, to : {-Circle, -1, 1, Circle}] \union
  [op : {"reverse"}, on : BOOLEAN] \union [op : {"halt"}]

\* A relative move may be a whole turn less one unit either way.
RotatorRefuses(r) ==
  \/ r.op \in {"moveabsolute", "movemechanical", "sync"} /\ r.to \notin 0..(Circle - 1)
  \/ r.op = "move" /\ r.to \notin (1 - Circle)..(Circle - 1)

RotatorDoes(d, r) ==
  LET MoveTo(mechanical) == [d EXCEPT !.leg = BeginLeg(@, Wrap360(mechanical))] IN
    CASE r.op = "moveabsolute" -> MoveTo(r.to - d.offset)
      [] r.op = "movemechanical" -> MoveTo(r.to)
      [] r.op = "move" -> MoveTo(Position(d.leg) + r.to)
      [] r.op = "sync" -> [d EXCEPT !.offset = Wrap360(r.to - Position(d.leg)),
                                    !.leg = SettledLeg(@)]
      [] r.op = "halt" -> [d EXCEPT !.leg = HaltedLeg(@)]
      [] r.op = "reverse" -> [d EXCEPT !.reverse = r.on]

RotatorView(d) ==
  [ismoving |-> SettledLeg(d.leg).moving, mechanicalposition |-> Position(d.leg),
   position |-> Wrap360(Position(d.leg) + d.offset),
   targetposition |-> Wrap360(d.leg.target + d.offset), reverse |-> d.reverse]

-----------------------------------------------------------------------------
(* Focuser *)

Focusers == [leg : Legs(0..MaxStep, 0..MaxStep), tempComp : BOOLEAN]

NewFocuser == [leg |-> Resting(FALSE, 0), tempComp |-> FALSE]

FocuserCalls == [op : {"move"}, to : -1..(MaxStep + 1)] \union
                [op : {"tempcomp"}, on : BOOLEAN] \union [op : {"halt"}]

\* A target outside the travel is clamped, not refused.
Clamped(step) == IF step < 0 THEN 0 ELSE IF step > MaxStep THEN MaxStep ELSE step

FocuserDoes(d, r) ==
  CASE r.op = "move" -> [d EXCEPT !.leg = BeginLeg(@, Clamped(r.to))]
    [] r.op = "halt" -> [d EXCEPT !.leg = HaltedLeg(@)]
    [] r.op = "tempcomp" -> [d EXCEPT !.tempComp = r.on]

FocuserView(d) ==
  [ismoving |-> SettledLeg(d.leg).moving, position |-> Position(d.leg), tempcomp |-> d.tempComp]

-----------------------------------------------------------------------------
(* Filter wheel *)

Wheels == [position : 0..(Slots - 1), left : 0..TurnTime]

NewWheel == [position |-> 0, left |-> 0]

WheelCalls == [op : {"position"}, to : -1..Slots]

WheelRefuses(r) == r.to \notin 0..(Slots - 1)

WheelDoes(d, r) == [position |-> r.to, left |-> TurnTime]

\* A turning wheel is at -1.
WheelView(d) == [position |-> IF d.left > 0 THEN -1 ELSE d.position]

-----------------------------------------------------------------------------
(* Dome *)

ShutterStates == {"open", "closed", "opening", "closing"}

Domes == [az : Legs(0..(Circle - 1), 0..Circle), alt : Legs(0..MaxAltitude, 0..MaxAltitude),
          shutter : ShutterStates, shutterTarget : {"open", "closed"}, shutterLeft : 0..ShutterTime,
          atHome : BOOLEAN, atPark : BOOLEAN]

NewDome == [az |-> Resting(TRUE, 0), alt |-> Resting(FALSE, 0),
            shutter |-> "closed", shutterTarget |-> "closed", shutterLeft |-> 0,
            atHome |-> FALSE, atPark |-> FALSE]

DomeCalls == [op : {"slewtoazimuth", "synctoazimuth"}, to : Angles] \union
             [op : {"slewtoaltitude"}, to : -1..(MaxAltitude + 1)] \union
             [op : {"openshutter", "closeshutter", "findhome", "park", "setpark", "abortslew"}] \union
             [op : {"slaved"}, on : BOOLEAN]

\* 360 degrees is accepted, as 0; slaving is not implemented.
DomeRefuses(r) ==
  \/ r.op \in {"slewtoazimuth", "synctoazimuth"} /\ r.to \notin 0..Circle
  \/ r.op = "slewtoaltitude" /\ r.to \notin 0..MaxAltitude
  \/ r.op = "slaved" /\ r.on

\* currentShutterLocked.
SettledShutter(d) == IF d.shutterLeft = 0 THEN [d EXCEPT !.shutter = d.shutterTarget] ELSE d

MoveShutter(d, to) ==
  [d EXCEPT !.shutter = IF to = "open" THEN "opening" ELSE "closing",
            !.shutterTarget = to, !.shutterLeft = ShutterTime]

\* Seeded fault: a slew leaves the dome at its park and home positions.
SlewToAzimuth_KeepsFlags(d, to) == [d EXCEPT !.az = BeginLeg(@, Wrap360(to))]

SlewToAzimuth(d, to) ==
  [d EXCEPT !.az = BeginLeg(@, Wrap360(to)), !.atHome = FALSE, !.atPark = FALSE]

DomeDoes(d, r) ==
  CASE r.op = "slewtoazimuth" -> SlewToAzimuth(d, r.to)
    [] r.op = "synctoazimuth" -> [d EXCEPT !.az = Resting(TRUE, Wrap360(r.to))]
    [] r.op = "slewtoaltitude" -> [d EXCEPT !.alt = BeginLeg(@, r.to)]
    [] r.op = "openshutter" -> MoveShutter(d, "open")
    [] r.op = "closeshutter" -> MoveShutter(d, "closed")
    [] r.op = "findhome" -> [d EXCEPT !.az = BeginLeg(@, 0), !.atHome = TRUE, !.atPark = FALSE]
    [] r.op = "park" -> MoveShutter([d EXCEPT !.az = BeginLeg(@, 0), !.atPark = TRUE, !.atHome = FALSE],
                                    "closed")
    [] r.op = "abortslew" -> [d EXCEPT !.az = HaltedLeg(@), !.alt = HaltedLeg(@),
                                       !.atHome = FALSE, !.atPark = FALSE]
    [] r.op \in {"setpark", "slaved"} -> d

SettledDome(d) == SettledShutter([d EXCEPT !.az = SettledLeg(@), !.alt = SettledLeg(@)])

\* Seeded fault: Slewing asks the azimuth and the altitude only.
DomeSlewing_NoShutter(d) == LET s == SettledDome(d) IN s.az.moving \/ s.alt.moving

\* Slewing while any part of the dome moves, the shutter included.
DomeSlewing(d) ==
  LET s == SettledDome(d) IN s.az.moving \/ s.alt.moving \/ s.shutter # s.shutterTarget

DomeView(d) ==
  LET s == SettledDome(d) IN
    [azimuth |-> Position(d.az), altitude |-> Position(d.alt), slewing |-> DomeSlewing(d),
     athome |-> d.atHome /\ ~s.az.moving, atpark |-> d.atPark /\ ~s.az.moving,
     shutterstatus |-> s.shutter]
=============================================================================
