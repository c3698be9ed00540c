------------------------------- MODULE Exposure -------------------------------
(***************************************************************************)
(* The simulated camera (sim/camera.go) with the gates of the camera's     *)
(* members (server/gates.go).  Readiness is computed from the clock.  The  *)
(* two axes of the sensor are treated alike and independently; Axes names  *)
(* those that are modelled.                                                *)
(***************************************************************************)
EXTENDS Integers

CONSTANTS
  Axes,         \* "x" and "y", or one of them
  Sensor,       \* unbinned pixels of an axis
  MaxBin,
  MaxExposure,  \* the longest exposure, in ticks
  Bins, Origins, Sizes, Durations,  \* arguments that clients give
  Dials,        \* gain, offset and set point: stored values with a range
  MaxDial,      \* the top of that range
  Ambient,      \* the temperature of a sensor that is not cooled
  CoolTime      \* the time a sensor takes to the set point, in ticks

ASSUME CameraAssumption ==
  /\ {Sensor, MaxBin, MaxExposure, CoolTime} \subseteq Nat \ {0} /\ MaxDial \in Nat
  /\ "setpoint" \in Dials /\ Ambient \in Int
  /\ Bins \union Origins \union Sizes \union Durations \subseteq Int

Cameras ==
  [bin : [Axes -> 1..MaxBin], start : [Axes -> Nat], num : [Axes -> Nat],
   dial : [Dials -> 0..MaxDial], cooler : BOOLEAN,
   has : BOOLEAN, exposing : BOOLEAN,          \* hasExposure, exposing
   left : 0..MaxExposure,                      \* time until readyAt
   last : 0..MaxExposure,                      \* lastDuration
   cooling : 0..CoolTime,                      \* time since startTime, up to tau
   frame : [Axes -> Nat]]                      \* expW, expH

NewCamera ==
  [bin |-> [a \in Axes |-> 1], start |-> [a \in Axes |-> 0], num |-> [a \in Axes |-> Sensor],
   dial |-> [k \in Dials |-> 0], cooler |-> FALSE,
   has |-> FALSE, exposing |-> FALSE, left |-> 0, last |-> 0, cooling |-> CoolTime,
   frame |-> [a \in Axes |-> 0]]

Geometry == [op : {"bin"}, axis : Axes, to : Bins] \union
            [op : {"start"}, axis : Axes, to : Origins] \union
            [op : {"num"}, axis : Axes, to : Sizes]

CameraCalls ==
  Geometry \union [op : {"dial"}, which : Dials, to : -1..(MaxDial + 1)] \union
  [op : {"cooleron"}, on : BOOLEAN] \union [op : {"startexposure"}, to : Durations] \union
  [op : {"stopexposure", "abortexposure", "pulseguide"}]

\* What the gates refuse, but for the subframe, which takes several calls.
\* The camera does not pulse-guide; the longest duration is the driver's own.
CameraRefuses(r) ==
  \/ r.op = "bin" /\ r.to \notin 1..MaxBin
  \/ r.op \in {"start", "num"} /\ r.to < 0
  \/ r.op = "dial" /\ r.to \notin 0..MaxDial
  \/ r.op = "startexposure" /\ r.to \notin 1..MaxExposure
  \/ r.op = "pulseguide"

\* Seeded fault: the subframe is held against the unbinned sensor.
ValidSubframe_Unbinned(bin, start, num) ==
  \A a \in Axes : bin[a] >= 1 /\ num[a] >= 1 /\ start[a] >= 0 /\ start[a] + num[a] <= Sensor

\* The subframe is at least a pixel and lies on the binned sensor.
ValidSubframe(bin, start, num) ==
  \A a \in Axes : bin[a] >= 1 /\ num[a] >= 1 /\ start[a] >= 0 /\ start[a] + num[a] <= Sensor \div bin[a]

StartExposure(d, duration) ==
  [d EXCEPT !.has = TRUE, !.exposing = TRUE, !.left = duration, !.last = duration, !.cooling = 0,
            !.frame = d.num]

\* The data gathered so far is kept.
StopExposure(d) ==
  [d EXCEPT !.exposing = FALSE, !.left = IF d.exposing THEN 0 ELSE @,
            !.last = IF d.exposing THEN @ - d.left ELSE @]

\* Seeded fault: the aborted exposure still becomes an image when its time is up.
AbortExposure_KeepsImage(d) == [d EXCEPT !.exposing = FALSE]

\* An exposure in progress is discarded.
AbortExposure(d) ==
  [d EXCEPT !.exposing = FALSE, !.has = @ /\ ~(d.exposing /\ d.left > 0)]

CameraDoes(d, r) ==
  CASE r.op = "bin" -> [d EXCEPT !.bin[r.axis] = r.to]
    [] r.op = "start" -> [d EXCEPT !.start[r.axis] = r.to]
    [] r.op = "num" -> [d EXCEPT !.num[r.axis] = r.to]
    [] r.op = "dial" -> [d EXCEPT !.dial[r.which] = r.to]
    [] r.op = "cooleron" -> [d EXCEPT !.cooler = r.on]
    [] r.op = "startexposure" -> StartExposure(d, r.to)
    [] r.op = "stopexposure" -> StopExposure(d)
    [] r.op = "abortexposure" -> AbortExposure(d)

ImageReady(d) == d.has /\ d.left = 0

Exposing(d) == d.exposing /\ d.left > 0

\* The sensor is on its way from the ambient temperature to the set point, by
\* the clock that StartExposure sets; in parts of a degree.
CCDTemperature(d) ==
  Ambient * CoolTime + (IF d.cooler THEN d.dial["setpoint"] - Ambient ELSE 0) * d.cooling

\* What the reads report; a percentage is told as the time that has passed, and
\* CoolerOn speaks for CoolerPower.
CameraView(d) ==
  [imageready |-> ImageReady(d), exposing |-> Exposing(d),
   percentcompleted |-> IF d.has THEN d.last - d.left ELSE 0,
   lastexposureduration |-> IF d.has THEN <<d.last>> ELSE <<>>,
   bin |-> d.bin, start |-> d.start, num |-> d.num, dial |-> d.dial, cooleron |-> d.cooler,
   ccdtemperature |-> CCDTemperature(d)]
=============================================================================
