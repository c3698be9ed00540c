------------------------------- MODULE Requests -------------------------------
(***************************************************************************)
(* Requests of HTTP clients to one device: the dispatch of                 *)
(* server/httpserver.go, the typed members (server/camera_http.go,         *)
(* dome.go, rotator.go, focuser.go, filterwheel.go, covercalibrator.go,    *)
(* switch.go, observingconditions.go, device_http.go) and the simulators   *)
(* under them, while the clock runs.                                       *)
(*                                                                         *)
(* A simulator's method holds its mutex throughout: one step.  A request   *)
(* is several: the connection check, the busy check, the reads that a      *)
(* check makes, the call.  Arguments are drawn when they are used.  The    *)
(* kind of the device is drawn once.                                       *)
(***************************************************************************)
EXTENDS Movers, Panels, Exposure, Operation, FiniteSets

CONSTANTS
  Clients,
  Kinds,   \* kinds of device to explore
  Shared   \* kinds that every client uses; the others are used by one client

ASSUME RequestAssumption ==
  /\ IsFiniteSet(Clients) /\ Clients # {} /\ Shared \subseteq Kinds
  /\ Kinds \subseteq {"rotator", "focuser", "wheel", "dome", "cover", "board", "station",
                      "camera", "driver"}

VARIABLES
  kind,
  device,
  connected,  \* BaseDevice.connected
  pc,         \* where each client's request stands
  seen,       \* what validSubframe has read for each client
  dirty,      \* history: whose subframe check another client's write has overtaken
  handed      \* the frame of the image that a client was handed last

vars == <<kind, device, connected, pc, seen, dirty, handed>>

Users == IF kind \in Shared THEN Clients ELSE {CHOOSE c \in Clients : TRUE}

-----------------------------------------------------------------------------
(* The kinds *)

New(k) ==
  CASE k = "rotator" -> NewRotator [] k = "focuser" -> NewFocuser [] k = "wheel" -> NewWheel
    [] k = "dome" -> NewDome [] k = "cover" -> NewCover [] k = "board" -> NewBoard
    [] k = "station" -> NewStation [] k = "camera" -> NewCamera [] k = "driver" -> NewDriver

Devices(k) ==
  CASE k = "rotator" -> Rotators [] k = "focuser" -> Focusers [] k = "wheel" -> Wheels
    [] k = "dome" -> Domes [] k = "cover" -> Covers [] k = "board" -> Boards
    [] k = "station" -> Stations [] k = "camera" -> Cameras [] k = "driver" -> Drivers

\* The members that PUT dispatches for a kind, with their arguments.
PutCalls(k) ==
  CASE k = "rotator" -> RotatorCalls [] k = "focuser" -> FocuserCalls [] k = "wheel" -> WheelCalls
    [] k = "dome" -> DomeCalls [] k = "cover" -> CoverCalls [] k = "board" -> BoardCalls
    [] k = "station" -> StationCalls [] k = "camera" -> {r \in CameraCalls : r.op # "startexposure"}
    [] k = "driver" -> {}

Refuses(k, r) ==
  CASE k = "rotator" -> RotatorRefuses(r) [] k = "wheel" -> WheelRefuses(r)
    [] k = "dome" -> DomeRefuses(r) [] k = "cover" -> CoverRefuses(r) [] k = "board" -> BoardRefuses(r)
    [] k = "station" -> StationRefuses(r) [] k = "camera" -> CameraRefuses(r) [] OTHER -> FALSE

Does(k, d, r) ==
  CASE k = "rotator" -> RotatorDoes(d, r) [] k = "focuser" -> FocuserDoes(d, r)
    [] k = "wheel" -> WheelDoes(d, r) [] k = "dome" -> DomeDoes(d, r) [] k = "cover" -> CoverDoes(d, r)
    [] k = "board" -> BoardDoes(d, r) [] k = "station" -> StationDoes(d, r)
    [] k = "camera" -> CameraDoes(d, r)

\* What reads leave behind: a move that has arrived is completed.
Read(k, d) ==
  CASE k \in {"rotator", "focuser"} -> [d EXCEPT !.leg = SettledLeg(@)]
    [] k = "dome" -> SettledDome(d) [] k = "cover" -> SettledCover(d) [] OTHER -> d

\* The operational properties that DeviceState gathers.
DeviceState(k, d) ==
  CASE k = "rotator" -> RotatorView(d) [] k = "focuser" -> FocuserView(d) [] k = "wheel" -> WheelView(d)
    [] k = "dome" -> DomeView(d) [] k = "cover" -> CoverView(d) [] k = "board" -> BoardView(d)
    [] k = "camera" -> CameraView(d) [] k = "station" -> d [] k = "driver" -> ConnectingView(d)

Down(n) == IF n > 0 THEN n - 1 ELSE 0

\* The device a tick of the clock later.
Later(k, d) ==
  CASE k \in {"rotator", "focuser"} -> [d EXCEPT !.leg = LaterLeg(@)]
    [] k = "dome" -> [d EXCEPT !.az = LaterLeg(@), !.alt = LaterLeg(@), !.shutterLeft = Down(@)]
    [] k = "wheel" -> [d EXCEPT !.left = Down(@)]
    [] k = "cover" -> [d EXCEPT !.lampLeft = Down(@), !.coverLeft = Down(@)]
    [] k = "camera" -> [d EXCEPT !.left = Down(@), !.cooling = IF @ < CoolTime THEN @ + 1 ELSE @]
    [] OTHER -> d

-----------------------------------------------------------------------------
(* Dispatch *)

NoFrame == [a \in Axes |-> 0]

Blank == [bin |-> NewCamera.bin, start |-> NewCamera.start, num |-> NewCamera.num]

Init ==
  /\ kind \in Kinds
  /\ device = New(kind)
  /\ connected = FALSE
  /\ pc = [c \in Clients |-> "idle"]
  /\ seen = [c \in Clients |-> Blank]
  /\ dirty = {}
  /\ handed = NoFrame

Goto(c, at) == pc' = [pc EXCEPT ![c] = at]

\* The request is answered.
Answered(c) ==
  /\ Goto(c, "idle")
  /\ seen' = [seen EXCEPT ![c] = Blank]
  /\ dirty' = dirty \ {c}
  /\ UNCHANGED kind

\* An operational member passes the connection check.  Only the driver is
\* Busyable; its ordinary writes have a busy check to pass, its interrupts none.
Arrive(c) ==
  /\ pc[c] = "idle" /\ connected
  /\ \E at \in (IF kind = "driver" THEN {"gate", "interrupt"} ELSE {"call"}) : Goto(c, at)
  /\ UNCHANGED <<kind, device, connected, seen, dirty, handed>>

BusyGate(c) ==
  /\ pc[c] = "gate"
  /\ IF Busy(device.op) THEN Answered(c) ELSE Goto(c, "start") /\ UNCHANGED <<kind, seen, dirty>>
  /\ UNCHANGED <<device, connected, handed>>

\* The connection controls are exempt from both checks.
Connect(c) ==
  /\ pc[c] = "idle"
  /\ IF kind = "driver"
       THEN /\ device.connectors < MaxWorkers
            /\ device' = ConnectBegun(device)
            /\ UNCHANGED connected
       ELSE connected' = TRUE /\ UNCHANGED device
  /\ UNCHANGED <<kind, pc, seen, dirty, handed>>

Disconnect(c) ==
  /\ pc[c] = "idle"
  /\ connected' = FALSE
  /\ UNCHANGED <<kind, device, pc, seen, dirty, handed>>

\* A parameter is missing or cannot be parsed, or the member is unknown: the
\* answer is 400 and nothing is called.
BadRequest(c) ==
  /\ pc[c] = "call"
  /\ Answered(c)
  /\ UNCHANGED <<device, connected, handed>>

Get(c) ==
  /\ pc[c] = "call"
  /\ device' = Read(kind, device)
  /\ Answered(c)
  /\ UNCHANGED <<connected, handed>>

-----------------------------------------------------------------------------
(* Typed PUT members *)

Overtaken(c, r) ==
  IF r.op \in {"bin", "start", "num"}
    THEN {o \in Clients \ {c} : pc[o] \in {"seenbin", "seenstart", "expose"}} ELSE {}

Put(c, r) ==
  /\ pc[c] = "call"
  /\ device' = IF Refuses(kind, r) THEN device ELSE Does(kind, device, r)
  /\ Goto(c, "idle")
  /\ dirty' = IF Refuses(kind, r) THEN dirty ELSE dirty \union Overtaken(c, r)
  /\ UNCHANGED <<kind, connected, seen, handed>>

\* StartExposure: validSubframe reads the geometry a property at a time.
SeeBin(c) ==
  /\ pc[c] = "call" /\ kind = "camera"
  /\ seen' = [seen EXCEPT ![c].bin = device.bin]
  /\ Goto(c, "seenbin")
  /\ UNCHANGED <<kind, device, connected, dirty, handed>>

SeeStart(c) ==
  /\ pc[c] = "seenbin"
  /\ seen' = [seen EXCEPT ![c].start = device.start]
  /\ Goto(c, "seenstart")
  /\ UNCHANGED <<kind, device, connected, dirty, handed>>

SeeNum(c) ==
  /\ pc[c] = "seenstart"
  /\ IF ValidSubframe(seen[c].bin, seen[c].start, device.num)
       THEN /\ seen' = [seen EXCEPT ![c].num = device.num]
            /\ Goto(c, "expose")
            /\ UNCHANGED <<kind, dirty>>
       ELSE Answered(c)
  /\ UNCHANGED <<device, connected, handed>>

\* The driver has the last word on the duration, and exposes what is set now.
Expose(c, duration) ==
  /\ pc[c] = "expose"
  /\ device' = IF CameraRefuses([op |-> "startexposure", to |-> duration]) THEN device
               ELSE StartExposure(device, duration)
  /\ Answered(c)
  /\ UNCHANGED <<connected, handed>>

\* ImageArray asks ImageReady first, and then for the frame.
AskImage(c) ==
  /\ pc[c] = "call" /\ kind = "camera"
  /\ IF ImageReady(device) THEN Goto(c, "image") /\ UNCHANGED <<kind, seen, dirty>> ELSE Answered(c)
  /\ UNCHANGED <<device, connected, handed>>

\* Seeded fault: the second check is left out, the first one having passed.
GetImage_Unchecked(c) ==
  /\ pc[c] = "image"
  /\ handed' = device.frame
  /\ Answered(c)
  /\ UNCHANGED <<device, connected>>

\* ImageFrame asks again whether there is an image: since the first check an
\* exposure may have started, and may even be over.
GetImage(c) ==
  /\ pc[c] = "image"
  /\ handed' = IF ImageReady(device) THEN device.frame ELSE handed
  /\ Answered(c)
  /\ UNCHANGED <<device, connected>>

-----------------------------------------------------------------------------
(* The asynchronous driver *)

\* A second initiator that passed the busy check too is refused here.
Initiator(c) ==
  /\ pc[c] = "start"
  /\ IF TryBegins(device.op)
       THEN device.workers < MaxWorkers /\ device' = Initiate(device)
       ELSE UNCHANGED device
  /\ Answered(c)
  /\ UNCHANGED <<connected, handed>>

Interrupt(c) ==
  /\ pc[c] = "interrupt"
  /\ device' = Cancel(device)
  /\ Answered(c)
  /\ UNCHANGED <<connected, handed>>

WorkEnds ==
  /\ kind = "driver" /\ device.workers > 0
  /\ device' \in Worked(device)
  /\ UNCHANGED <<kind, connected, pc, seen, dirty, handed>>

ConnectEnds ==
  /\ kind = "driver" /\ device.connectors > 0
  /\ \E ok \in BOOLEAN :
       /\ device' = ConnectEnded(device, ok)
       /\ connected' = (connected \/ ok)
  /\ UNCHANGED <<kind, pc, seen, dirty, handed>>

-----------------------------------------------------------------------------

\* Time passes; the models of motion count it only while it matters.
Tick ==
  /\ device # Later(kind, device)
  /\ device' = Later(kind, device)
  /\ UNCHANGED <<kind, connected, pc, seen, dirty, handed>>

Request(c) ==
  \/ Arrive(c) \/ BusyGate(c) \/ Connect(c) \/ Disconnect(c) \/ BadRequest(c) \/ Get(c)
  \/ \E r \in PutCalls(kind) : Put(c, r)
  \/ SeeBin(c) \/ SeeStart(c) \/ SeeNum(c)
  \/ \E duration \in Durations : Expose(c, duration)
  \/ AskImage(c) \/ GetImage(c) \/ Initiator(c) \/ Interrupt(c)

Next == (\E c \in Users : Request(c)) \/ WorkEnds \/ ConnectEnds \/ Tick

\* The clock does not stop.
Spec == Init /\ [][Next]_vars /\ WF_vars(Tick)

-----------------------------------------------------------------------------
(* Properties *)

\* Types of the variables, and the numbers that count down stay in range.
TypeOK ==
  /\ kind \in Kinds /\ device \in Devices(kind) /\ connected \in BOOLEAN
  /\ pc \in [Clients -> {"idle", "gate", "call", "start", "interrupt",
                         "seenbin", "seenstart", "expose", "image"}]
  /\ DOMAIN seen = Clients /\ dirty \subseteq Clients /\ handed \in [Axes -> Nat]

\* The camera keeps the promise of ExposurePromise: an image appears only at
\* the end of an exposure, an aborted one never becomes an image, and what a
\* client is handed, whatever other clients do between the two checks of its
\* request, is an image that is ready, of the rectangle that was exposed
\* (sim/camera.go, ImageFrame; server/httpserver.go, handleImage).
Phase ==
  IF kind # "camera" THEN "none"
  ELSE IF ImageReady(device) THEN "image" ELSE IF Exposing(device) THEN "exposing" ELSE "none"

Promise == INSTANCE ExposurePromise
  WITH Frames <- [Axes -> Nat], phase <- Phase,
       frame <- IF kind = "camera" THEN device.frame ELSE NoFrame, handed <- handed

CameraAsPromised == Promise!Spec

\* The rectangle exposed lies on the binned sensor, unless another client
\* wrote the geometry while the check read it (server/camera_http.go).
FrameFits ==
  [][\A c \in Clients, duration \in Durations :
       (kind = "camera" /\ Expose(c, duration) /\ device' # device /\ c \notin dirty)
         => \A a \in Axes : /\ device'.frame[a] >= 1
                            /\ device'.start[a] + device'.frame[a] <= Sensor \div device'.bin[a]]_vars

\* Every leg of a move of a device.
LegsOf(k, d) ==
  CASE k \in {"rotator", "focuser"} -> <<d.leg>> [] k = "dome" -> <<d.az, d.alt>> [] OTHER -> <<>>

Neighbours(leg, p, q) ==
  \/ Abs(p - q) <= 1
  \/ leg.round /\ Abs(p - q) = Circle - 1

Synced == kind = "dome" /\ \E c \in Clients, a \in Angles : Put(c, [op |-> "synctoazimuth", to |-> a])

\* Nothing moves but by time, a unit a tick: no call, halt or new target makes
\* a reported position jump; only a sync of the dome renames where it is.
NoTeleport ==
  [][\A i \in DOMAIN LegsOf(kind, device) :
       LET leg == LegsOf(kind, device)[i] IN
         \/ Position(LegsOf(kind, device')[i]) = Position(leg)
         \/ Tick /\ Neighbours(leg, Position(leg), Position(LegsOf(kind, device')[i]))
         \/ Synced]_vars

\* Whether a device's own completion property says that something is going on.
SaysBusy(k, d) ==
  CASE k \in {"rotator", "focuser"} -> DeviceState(k, d).ismoving
    [] k = "wheel" -> DeviceState(k, d).position = -1
    [] k = "dome" -> DeviceState(k, d).slewing
    [] k = "cover" -> DeviceState(k, d).covermoving \/ DeviceState(k, d).calibratorchanging
    [] k = "camera" -> DeviceState(k, d).exposing
    [] OTHER -> FALSE

\* What completion properties answer for: all a device reports but the
\* temperature of the sensor, which no property says has been reached.
Completed(k, d) ==
  IF k = "camera" THEN [DeviceState(k, d) EXCEPT !.ccdtemperature = Ambient] ELSE DeviceState(k, d)

\* A client that has been told that nothing moves sees nothing change by
\* itself: completion properties cover every part, the shutter included, and
\* the only thing that time changes behind them is how cold the sensor is.
StillWhenSaid ==
  [][Tick => SaysBusy(kind, device) \/ Completed(kind, device') = Completed(kind, device)]_vars

\* A dome that reports itself parked or home is at azimuth 0, or was synced
\* since (sim/dome.go): no slew, abort or half of a move leaves the flag up.
ParkedAtZero(d) ==
  (DomeView(d).atpark \/ DomeView(d).athome) => DomeView(d).azimuth = 0

ParkAndHomeAtZero == [][kind = "dome" /\ ParkedAtZero(device) /\ ~Synced => ParkedAtZero(device')]_vars

\* A cover is reported open or closed only after it has travelled there:
\* time, never a call, ends a move, and a halt on the way leaves it unknown.
CoverKnown ==
  [][kind = "cover" =>
       LET was == CoverView(device).coverstate
           is  == CoverView(device').coverstate
       IN is \in {"open", "closed"} /\ is # was => was = "moving" /\ Tick]_vars

\* Everything is where it was last sent, and as cold as it was set.
AtRest ==
  /\ \A i \in DOMAIN LegsOf(kind, device) :
       ~LegsOf(kind, Read(kind, device))[i].moving
       /\ Position(LegsOf(kind, device)[i]) = LegsOf(kind, device)[i].target
  /\ ~SaysBusy(kind, device)
  /\ kind = "dome" => DomeView(device).shutterstatus = device.shutterTarget
  /\ kind = "camera" => CCDTemperature(device) = CoolTime *
       (IF device.cooler THEN device.dial["setpoint"] ELSE Ambient)

\* Once clients only read, every move, exposure and transition ends, and ends
\* where it was sent.
Settles ==
  <>[][device' \in {Later(kind, device), Read(kind, device)}]_device => <>[]AtRest

\* However many requests pass the busy check together, one worker has the
\* operation, and exactly while it is busy (server/op.go, TryBegin).
OneWorker == kind = "driver" => device.workers = IF Busy(device.op) THEN 1 ELSE 0
=============================================================================
