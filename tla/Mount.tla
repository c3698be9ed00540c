-------------------------------- MODULE Mount --------------------------------
(***************************************************************************)
(* The simulated telescope (sim/telescope.go) behind the HTTP gates        *)
(* (server/telescope_http.go, server/gates.go).                            *)
(*                                                                         *)
(* The telescope has no goroutine of its own: where it points, whether it  *)
(* slews and whether it is parked are computed when somebody asks, from    *)
(* the time that has passed since its motion began.  A method holds t.mu   *)
(* throughout, so it is a function from telescope to telescope here.  A    *)
(* request is several such calls: its gate reads AtPark, then the member   *)
(* runs, then a blocking slew polls Slewing, then the targets are set;     *)
(* other requests run in between.                                          *)
(*                                                                         *)
(* Right ascension goes round in RACircle units and declination stops at   *)
(* 0 and MaxDec; a slew moves one unit of each per tick of the clock.      *)
(* WithSlewRate sets how long a unit takes, and so how many fit into the    *)
(* time that a synchronous slew waits.                                     *)
(***************************************************************************)
EXTENDS Integers, FiniteSetsExt

CONSTANTS
  Clients,   \* goroutines that serve requests
  RACircle,  \* 24 hours of right ascension, in units
  MaxDec,    \* the celestial pole's declination, in units
  Targets,   \* coordinates that clients name
  Rates,     \* MoveAxis rates that clients give, in units per tick
  Offsets,   \* RightAscensionRate and DeclinationRate values, likewise
  Patience,  \* the 30 s for which waitSlewDone polls, in ticks
  MaxAge     \* bound: ticks an axis or an offset runs before the next call

Axes == {"ra", "dec"}
Coordinates == [ra : 0..(RACircle - 1), dec : 0..MaxDec]
Pole == [ra |-> 0, dec |-> MaxDec]
Still == [ra |-> 0, dec |-> 0]

ASSUME Geometry ==
  /\ RACircle \in Nat \ {0} /\ MaxDec \in Nat \ {0}
  /\ Patience \in Nat \ {0} /\ MaxAge \in Nat
  /\ Targets \subseteq Coordinates /\ Rates \subseteq Int /\ Offsets \subseteq Int

VARIABLES
  t,     \* the Telescope
  pc,    \* where each client's request is
  call,  \* the request: its member and arguments
  waited \* how long its waitSlewDone has polled

vars == <<t, pc, call, waited>>

Telescope == [
  start : Coordinates, target : Coordinates, \* startRA/startDec, targetRA/targetDec
  slewing : BOOLEAN, slewAge : Nat,          \* slewing, time since slewStart
  rates : [Axes -> Int], axisAge : Nat,      \* axisRates, time since axisStart
  offset : [Axes -> Int], rateAge : Nat,     \* raRate and decRate, time since rateEpoch
  parkOnArrive : BOOLEAN, homeOnArrive : BOOLEAN,
  atPark : BOOLEAN, atHome : BOOLEAN,
  want : Coordinates, wantSet : [Axes -> BOOLEAN],
  tracking : BOOLEAN, sidereal : BOOLEAN,    \* sidereal: trackingRate is DriveSidereal
  pulse : BOOLEAN ]                          \* pulseGuiding, until pulseUntil

\* NewTelescope: at the pole, tracking off, at the sidereal rate.
New == [
  start |-> Pole, target |-> Pole, slewing |-> FALSE, slewAge |-> 0,
  rates |-> Still, axisAge |-> 0, offset |-> Still, rateAge |-> 0,
  parkOnArrive |-> FALSE, homeOnArrive |-> FALSE, atPark |-> FALSE, atHome |-> FALSE,
  want |-> Pole, wantSet |-> [ax \in Axes |-> FALSE],
  tracking |-> FALSE, sidereal |-> TRUE, pulse |-> FALSE ]

-----------------------------------------------------------------------------
(* Motion, computed on read *)

\* Seeded fault: declination is not clamped.
Wrap_NoClamp(ax, v) == IF ax = "ra" THEN v % RACircle ELSE v

\* wrap24 and clampDec.
Wrap(ax, v) == IF ax = "ra" THEN v % RACircle
               ELSE IF v > MaxDec THEN MaxDec ELSE IF v < 0 THEN 0 ELSE v

Moved(from, by, ticks) == [ax \in Axes |-> Wrap(ax, from[ax] + by[ax] * ticks)]

\* axisMovingLocked and rateDriftActiveLocked.
Moving(u) == u.rates # Still
Offset(u) == u.tracking /\ u.sidereal /\ ~u.slewing /\ u.offset # Still
Drifting(u) == Offset(u) /\ ~Moving(u)

Distance(u, ax) == u.target[ax] - u.start[ax]
Reached(u, ax) == Distance(u, ax) \in -u.slewAge..u.slewAge
Arrived(u) == \A ax \in Axes : Reached(u, ax)

\* How far a slew has come, axis by axis.
Underway(u) ==
  [ax \in Axes |->
     IF Reached(u, ax) THEN u.target[ax]
     ELSE IF Distance(u, ax) > 0 THEN u.start[ax] + u.slewAge ELSE u.start[ax] - u.slewAge]

\* currentRALocked and currentDecLocked.
Pointing(u) ==
  IF Moving(u) THEN Moved(u.start, u.rates, u.axisAge)
  ELSE IF Drifting(u) THEN Moved(u.start, u.offset, u.rateAge)
  ELSE IF u.slewing THEN Underway(u) ELSE u.start

\* settleLocked: a slew that has arrived is completed, and what it was for.
Settled(u) ==
  IF ~u.slewing \/ ~Arrived(u) THEN u
  ELSE [u EXCEPT !.start = u.target, !.slewing = FALSE, !.rateAge = 0,
                 !.parkOnArrive = FALSE, !.homeOnArrive = FALSE,
                 !.atPark = @ \/ u.parkOnArrive, !.tracking = @ /\ ~u.parkOnArrive,
                 !.atHome = @ \/ u.homeOnArrive]

Rested(u) == [u EXCEPT !.start = Pointing(u), !.target = Pointing(u)]

\* Seeded fault: the offset's clock restarts but what accrued is dropped.
SettleRates_DropsDrift(u) == [u EXCEPT !.rateAge = 0]

SettleRates(u) == [(IF Drifting(u) THEN Rested(u) ELSE u) EXCEPT !.rateAge = 0]

SettleAxes(u) == IF Moving(u) THEN [Rested(u) EXCEPT !.axisAge = 0] ELSE u

BeginSlew(u, to) ==
  LET v == SettleRates([SettleAxes(u) EXCEPT !.rates = Still]) IN
    [v EXCEPT !.start = Pointing(v), !.target = to, !.slewing = Pointing(v) # to, !.slewAge = 0,
              !.atPark = FALSE, !.atHome = FALSE]

-----------------------------------------------------------------------------
(* The methods of Telescope *)

Targeted(u, to) == [u EXCEPT !.want = to, !.wantSet = [ax \in Axes |-> TRUE]]

SlewToCoordinatesAsync(u, to) == BeginSlew(Targeted(u, to), to)

SyncToCoordinates(u, to) ==
  [Targeted(u, to) EXCEPT !.start = to, !.target = to, !.slewing = FALSE, !.rateAge = 0]

\* One second of travel in right ascension, from wherever the mount points.
SlewToAltAzAsync(u) ==
  LET here == Pointing(u) IN
    [u EXCEPT !.start = here, !.target = [here EXCEPT !.ra = (@ + 1) % RACircle],
              !.slewing = TRUE, !.slewAge = 0, !.atPark = FALSE, !.atHome = FALSE]

AbortSlew(u) ==
  LET v == SettleRates([SettleAxes(Settled(u)) EXCEPT !.rates = Still]) IN
    [Rested(v) EXCEPT !.slewing = FALSE, !.parkOnArrive = FALSE, !.homeOnArrive = FALSE]

Park(u) ==
  IF u.atPark THEN u
  ELSE LET v == BeginSlew(u, Pole) IN
         [v EXCEPT !.parkOnArrive = TRUE, !.atPark = ~v.slewing, !.tracking = @ /\ v.slewing]

Unpark(u) == [u EXCEPT !.atPark = FALSE]

FindHome(u) ==
  LET v == BeginSlew(u, Pole) IN
    [v EXCEPT !.homeOnArrive = TRUE, !.atHome = ~v.slewing]

SetTracking(u, on) == [SettleRates(u) EXCEPT !.tracking = on]

SetTrackingRate(u, sidereal) ==
  [SettleRates(u) EXCEPT !.sidereal = sidereal, !.offset = IF sidereal = u.sidereal THEN @ ELSE Still]

SetRate(u, ax, v) == [SettleRates(u) EXCEPT !.offset[ax] = v]

SetTarget(u, ax, v) == [u EXCEPT !.want[ax] = v, !.wantSet[ax] = TRUE]

\* The displacement is applied at once; the pulse runs on the clock.
PulseGuide(u, ax, by) ==
  LET v == SettleRates(u)
      there == [v.start EXCEPT ![ax] = Wrap(ax, @ + by)] IN
    [v EXCEPT !.start = there, !.target = there, !.pulse = TRUE]

MoveAxis(u, ax, rate) ==
  LET v == SettleRates(u)
      w == [v EXCEPT !.start = Pointing(v), !.slewing = FALSE,
                     !.parkOnArrive = FALSE, !.homeOnArrive = FALSE] IN
    [SettleAxes(w) EXCEPT !.rates[ax] = rate, !.axisAge = 0, !.atHome = @ /\ rate = 0]

-----------------------------------------------------------------------------
(* Requests *)

Plain == [op : {"park", "unpark", "findhome", "abortslew", "slewtoaltaz", "slewtoaltazasync",
                "slewtotarget", "slewtotargetasync", "synctotarget"}]
ToCoordinates == [op : {"slewtocoordinates", "slewtocoordinatesasync", "synctocoordinates"},
                  to : Targets, tell : {TRUE}]
Switches == [op : {"tracking", "trackingrate"}, on : BOOLEAN]
OnAxis == [op : {"moveaxis"}, axis : Axes, by : Rates] \union
          [op : {"pulseguide"}, axis : Axes, by : {-1, 1}] \union
          [op : {"rate"}, axis : Axes, by : Offsets]
TargetWrites == {[op |-> "target", axis |-> ax, by |-> c[ax]] : ax \in Axes, c \in Targets}
Calls == Plain \union ToCoordinates \union Switches \union OnAxis \union TargetWrites

\* Seeded fault: the gates of MoveAxis and FindHome do not ask AtPark.
Parkable_SlewsOnly(r) ==
  \/ r.op \notin {"park", "unpark", "tracking", "trackingrate", "rate", "target",
                  "moveaxis", "findhome"}
  \/ r.op = "tracking" /\ r.on

\* Members whose gate asks AtPark and refuses a parked mount.
Parkable(r) ==
  \/ r.op \notin {"park", "unpark", "tracking", "trackingrate", "rate", "target"}
  \/ r.op = "tracking" /\ r.on

ByTarget(r) == r.op \in {"slewtotarget", "slewtotargetasync", "synctotarget"}

\* Rate offsets may be written only while the sidereal rate is selected.
NeedsSidereal(r) == r.op = "rate"

\* Members that wait for the slew.
Blocking(r) == r.op \in {"slewtocoordinates", "slewtoaltaz"}

Idle == [op |-> "none"]

\* A request moves on, or is answered.
Proceed(c, step) ==
  /\ pc' = [pc EXCEPT ![c] = step]
  /\ call' = [call EXCEPT ![c] = IF step = "idle" THEN Idle ELSE @]
  /\ waited' = [waited EXCEPT ![c] = 0]

\* The gate: AtPark settles the mount, or TrackingRate is read.  A refused
\* request has no effect but the settling, which is what Read does.  MaxAge also
\* bounds how long an axis has run when a call that waits begins.
Gate(c, r) ==
  /\ pc[c] = "idle"
  /\ t' = IF Parkable(r) THEN Settled(t) ELSE t
  /\ Parkable(r) => ~t'.atPark
  /\ NeedsSidereal(r) => t.sidereal
  /\ Blocking(r) /\ Moving(t) => t.axisAge <= MaxAge
  /\ pc' = [pc EXCEPT ![c] = "call"]
  /\ call' = [call EXCEPT ![c] = r]
  /\ UNCHANGED waited

\* SlewToTarget, its Async and SyncToTarget are refused while a target is not
\* set; they read the targets under one lock and use them under another.
ReadTarget(c) ==
  /\ pc[c] = "call" /\ ByTarget(call[c])
  /\ IF \A ax \in Axes : t.wantSet[ax]
     THEN /\ call' = [call EXCEPT ![c] =
                [op |-> CASE @.op = "slewtotarget" -> "slewtocoordinates"
                          [] @.op = "slewtotargetasync" -> "slewtocoordinatesasync"
                          [] OTHER -> "synctocoordinates",
                 to |-> t.want, tell |-> FALSE]]
          /\ UNCHANGED <<pc, waited>>
     ELSE Proceed(c, "idle")
  /\ UNCHANGED t

Effect(u, r) ==
  CASE r.op = "park" -> Park(u)
    [] r.op = "unpark" -> Unpark(u)
    [] r.op = "findhome" -> FindHome(u)
    [] r.op = "abortslew" -> AbortSlew(u)
    [] r.op \in {"slewtoaltaz", "slewtoaltazasync"} -> SlewToAltAzAsync(u)
    [] r.op \in {"slewtocoordinates", "slewtocoordinatesasync"} -> SlewToCoordinatesAsync(u, r.to)
    [] r.op = "synctocoordinates" -> SyncToCoordinates(u, r.to)
    [] r.op = "tracking" -> SetTracking(u, r.on)
    [] r.op = "trackingrate" -> SetTrackingRate(u, r.on)
    [] r.op = "rate" -> SetRate(u, r.axis, r.by)
    [] r.op = "target" -> SetTarget(u, r.axis, r.by)
    [] r.op = "pulseguide" -> PulseGuide(u, r.axis, r.by)
    [] r.op = "moveaxis" -> MoveAxis(u, r.axis, r.by)

\* After a coordinate slew or sync the library sets the targets once more.
Told(r) == IF "tell" \in DOMAIN r /\ r.tell THEN "setRA" ELSE "idle"

\* The member itself.
Member(c) ==
  /\ pc[c] = "call" /\ ~ByTarget(call[c])
  /\ t' = Effect(t, call[c])
  /\ Proceed(c, IF Blocking(call[c]) THEN "wait" ELSE Told(call[c]))

\* Seeded fault: waitSlewDone looks at the slew only when it is called.
WaitSlewDone_Once(c) ==
  /\ pc[c] = "wait"
  /\ t' = Settled(t)
  /\ Proceed(c, Told(call[c]))

\* waitSlewDone polls Slewing until the mount is at rest; after 30 s it
\* returns all the same, and the request succeeds.
WaitSlewDone(c) ==
  /\ pc[c] = "wait"
  /\ t' = Settled(t)
  /\ t'.slewing \/ Moving(t') => waited[c] = Patience
  /\ Proceed(c, Told(call[c]))

\* setTargets: two calls.
SetTargets(c) ==
  \/ pc[c] = "setRA" /\ t' = SetTarget(t, "ra", call[c].to.ra) /\ Proceed(c, "setDec")
  \/ pc[c] = "setDec" /\ t' = SetTarget(t, "dec", call[c].to.dec) /\ Proceed(c, "idle")

\* A read of the position, Slewing, AtPark or AtHome settles the mount.
Read(c) == pc[c] = "idle" /\ t' = Settled(t) /\ UNCHANGED <<pc, call, waited>>

Waiting(c) == pc[c] = "wait" /\ waited[c] < Patience

\* Time passes, also for who waits.  A clock that nothing reads any more is not
\* counted on.
Tick ==
  /\ \/ \E c \in Clients : Waiting(c)
     \/ /\ t.slewing \/ Moving(t) \/ Offset(t) \/ t.pulse
        /\ Moving(t) => t.axisAge < MaxAge
        /\ Offset(t) => t.rateAge < MaxAge
  /\ t' = [t EXCEPT !.slewAge = IF t.slewing THEN Min({@ + 1, Max({RACircle, MaxDec})}) ELSE 0,
                    !.axisAge = IF Moving(t) THEN @ + 1 ELSE 0,
                    !.rateAge = IF Offset(t) THEN @ + 1 ELSE 0,
                    !.pulse = FALSE]
  /\ waited' = [c \in Clients |-> IF Waiting(c) THEN waited[c] + 1 ELSE waited[c]]
  /\ UNCHANGED <<pc, call>>

Init ==
  /\ t = New
  /\ pc = [c \in Clients |-> "idle"]
  /\ call = [c \in Clients |-> Idle]
  /\ waited = [c \in Clients |-> 0]

Next ==
  \/ \E c \in Clients : \/ \E r \in Calls : Gate(c, r)
                        \/ ReadTarget(c) \/ Member(c) \/ WaitSlewDone(c) \/ SetTargets(c)
                        \/ Read(c)
  \/ Tick

Spec == Init /\ [][Next]_vars

-----------------------------------------------------------------------------
(* Properties *)

\* The telescope keeps its types.
TypeOK ==
  /\ t \in Telescope
  /\ pc \in [Clients -> {"idle", "call", "wait", "setRA", "setDec"}]
  /\ \A c \in Clients : pc[c] = "call" => call[c].op # "none"
  /\ waited \in [Clients -> 0..Patience]

\* A parked mount is still: it does not slew, no axis moves and it does not
\* track, whatever was asked of it before and since.
ParkedIsStill == t.atPark => ~t.slewing /\ ~Moving(t) /\ ~t.tracking

\* Only Unpark unparks: no slew takes a parked mount away.
OnlyUnparkUnparks ==
  [][t.atPark /\ ~t'.atPark => \E c \in Clients : pc[c] = "call" /\ call[c].op = "unpark"]_vars

\* A synchronous coordinate slew returns with the mount at rest on the target
\* (or, tracking with an offset, drifting from it) if 30 s suffice for it; a
\* longer one may return on the way, and nothing else ends the wait early.
SlewArrives ==
  [][\A c \in Clients : pc[c] = "wait" /\ pc'[c] # "wait" /\ call[c].op = "slewtocoordinates" =>
       /\ ~Moving(t') /\ t'.target = call[c].to
       /\ IF t'.slewing THEN \E ax \in Axes : Distance(t', ax) \notin -Patience..Patience
          ELSE t'.start = call[c].to]_vars

\* While no axis moves, only the clock, a sync and a guide pulse change where
\* the mount points: drift is folded into the position exactly once.
Teleports(c) == pc[c] = "call" /\ call[c].op \in {"synctocoordinates", "pulseguide"}
Continuous ==
  [][~Moving(t) /\ Pointing(t') # Pointing(t) => Tick \/ \E c \in Clients : Teleports(c)]_vars

\* The same while an axis moves.
NeverDoubleCounted ==
  [][Pointing(t') # Pointing(t) => Tick \/ \E c \in Clients : Teleports(c)]_vars

\* The mount is parked at the celestial pole.
ParkedAtPole == t.atPark => Pointing(t) = Pole
=============================================================================
