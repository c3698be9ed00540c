-------------------------------- MODULE Panels --------------------------------
(***************************************************************************)
(* The simulated cover calibrator, switch and weather station              *)
(* (sim/covercalibrator.go, switch.go, observingconditions.go) with the    *)
(* gates of their HTTP members.  As in Movers, a call is a function of the *)
(* device, and what takes time is computed on reading.                     *)
(***************************************************************************)
EXTENDS Integers

CONSTANTS
  MaxBrightness,  \* of the calibrator
  LampTime,       \* 400 ms in which the calibrator changes, in ticks
  CoverTime,      \* 700 ms in which the cover moves, in ticks
  Switches,       \* number of switches
  MaxValue        \* a switch's highest value

ASSUME PanelAssumption ==
  /\ {MaxBrightness, LampTime, CoverTime, Switches, MaxValue} \subseteq Nat \ {0}

-----------------------------------------------------------------------------
(* Cover and calibrator *)

Covers == [brightness : 0..MaxBrightness, lamp : {"off", "ready"}, lampLeft : 0..LampTime,
           moving : BOOLEAN, cover : {"open", "closed", "unknown"}, coverLeft : 0..CoverTime]

NewCover == [brightness |-> 0, lamp |-> "off", lampLeft |-> 0,
             moving |-> FALSE, cover |-> "closed", coverLeft |-> 0]

CoverCalls == [op : {"calibratoron"}, to : -1..(MaxBrightness + 1)] \union
              [op : {"calibratoroff", "opencover", "closecover", "haltcover"}]

\* settleCoverLocked, which the gates of the cover's members also run.
SettledCover(d) == IF d.coverLeft = 0 THEN [d EXCEPT !.moving = FALSE] ELSE d

\* The calibrator and the cover are present, so only the brightness is refused.
CoverRefuses(r) == r.op = "calibratoron" /\ r.to \notin 0..MaxBrightness

Travel(d, to) == [d EXCEPT !.moving = TRUE, !.cover = to, !.coverLeft = CoverTime]

\* Seeded fault: a halted cover is where it was sent.
HaltCover_Arrives(d) == [d EXCEPT !.moving = FALSE, !.coverLeft = 0]

\* A cover halted on its way is neither open nor closed.
HaltCover(d) ==
  LET s == SettledCover(d) IN
    IF s.moving THEN [s EXCEPT !.moving = FALSE, !.cover = "unknown", !.coverLeft = 0] ELSE s

CoverDoes(d, r) ==
  CASE r.op = "calibratoron" -> [d EXCEPT !.brightness = r.to, !.lamp = "ready", !.lampLeft = LampTime]
    [] r.op = "calibratoroff" -> [d EXCEPT !.brightness = 0, !.lamp = "off", !.lampLeft = LampTime]
    [] r.op = "opencover" -> Travel(d, "open")
    [] r.op = "closecover" -> Travel(d, "closed")
    [] r.op = "haltcover" -> HaltCover(d)

CoverView(d) ==
  LET s == SettledCover(d) IN
    [brightness |-> d.brightness, calibratorchanging |-> d.lampLeft > 0,
     calibratorstate |-> IF d.lampLeft > 0 THEN "notready" ELSE d.lamp,
     covermoving |-> s.moving, coverstate |-> IF s.moving THEN "moving" ELSE s.cover]

-----------------------------------------------------------------------------
(* Switches, numbered from 0 *)

Ids == 0..(Switches - 1)

Boards == [value : [Ids -> 0..MaxValue], named : [Ids -> BOOLEAN]]

NewBoard == [value |-> [id \in Ids |-> 0], named |-> [id \in Ids |-> FALSE]]

BoardCalls ==
  [op : {"setswitch", "setasync"}, id : -1..Switches, on : BOOLEAN] \union
  [op : {"setswitchvalue", "setasyncvalue"}, id : -1..Switches, to : -1..(MaxValue + 1)] \union
  [op : {"setswitchname", "cancelasync"}, id : -1..Switches]

\* The Id first, then the value; no simulated switch is asynchronous.
BoardRefuses(r) ==
  \/ r.id \notin Ids
  \/ r.op \in {"setasync", "setasyncvalue", "cancelasync"}
  \/ r.op = "setswitchvalue" /\ r.to \notin 0..MaxValue

BoardDoes(d, r) ==
  CASE r.op = "setswitch" -> [d EXCEPT !.value[r.id] = IF r.on THEN MaxValue ELSE 0]
    [] r.op = "setswitchvalue" -> [d EXCEPT !.value[r.id] = r.to]
    [] r.op = "setswitchname" -> [d EXCEPT !.named[r.id] = TRUE]

BoardView(d) ==
  [id \in Ids |-> [getswitch |-> d.value[id] > 0, getswitchvalue |-> d.value[id],
                   statechangecomplete |-> TRUE, named |-> d.named[id]]]

-----------------------------------------------------------------------------
(* Weather station: only the averaging period is stored *)

Stations == [averagePeriod : {0, 1}]

NewStation == [averagePeriod |-> 0]

StationCalls == [op : {"averageperiod"}, to : -1..1] \union [op : {"refresh"}]

StationRefuses(r) == r.op = "averageperiod" /\ r.to < 0

StationDoes(d, r) == IF r.op = "refresh" THEN d ELSE [d EXCEPT !.averagePeriod = r.to]
=============================================================================
