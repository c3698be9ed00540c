----------------------------- MODULE MountProofs -----------------------------
(***************************************************************************)
(* Proofs about Mount, for any circle, pole, targets, rates and bounds on   *)
(* how long an axis runs: types, what a park is worth with one client and   *)
(* with several, arrivals, and that the pointing does not jump.             *)
(***************************************************************************)
EXTENDS Mount, TLAPS

LEMMA CoordinatesByAxis ==
  /\ \A f \in Coordinates : f["ra"] \in 0..(RACircle - 1) /\ f["dec"] \in 0..MaxDec
  /\ \A f : /\ f = [ax \in Axes |-> f[ax]]
            /\ f["ra"] \in 0..(RACircle - 1) /\ f["dec"] \in 0..MaxDec
            => f \in Coordinates
  /\ \A f \in Coordinates : f = [ax \in Axes |-> f[ax]]
BY DEF Coordinates, Axes

LEMMA WrapTyped ==
  ASSUME NEW v \in Int
  PROVE  Wrap("ra", v) \in 0..(RACircle - 1) /\ Wrap("dec", v) \in 0..MaxDec
BY Geometry DEF Wrap

LEMMA WrapIdentity ==
  ASSUME NEW f \in Coordinates, NEW ax \in Axes
  PROVE  Wrap(ax, f[ax]) = f[ax]
BY Geometry DEF Wrap, Axes, Coordinates

LEMMA MovedTyped ==
  ASSUME NEW f \in Coordinates, NEW by \in [Axes -> Int], NEW n \in Nat
  PROVE  Moved(f, by, n) \in Coordinates
<1>1. \A ax \in Axes : f[ax] + by[ax] * n \in Int
  BY Geometry DEF Coordinates, Axes
<1>2. /\ Wrap("ra", f["ra"] + by["ra"] * n) \in 0..(RACircle - 1)
      /\ Wrap("dec", f["dec"] + by["dec"] * n) \in 0..MaxDec
  BY <1>1, WrapTyped DEF Axes
<1> QED
  BY <1>2 DEF Moved, Coordinates, Axes

LEMMA MovedNowhere ==
  ASSUME NEW f \in Coordinates, NEW by \in [Axes -> Int]
  PROVE  Moved(f, by, 0) = f
<1>1. \A ax \in Axes : f[ax] + by[ax] * 0 = f[ax]
  BY Geometry DEF Coordinates, Axes
<1>2. Moved(f, by, 0) = [ax \in Axes |-> f[ax]]
  BY <1>1, WrapIdentity DEF Moved
<1> QED
  BY <1>2, CoordinatesByAxis

LEMMA UnderwayTyped ==
  ASSUME NEW u \in Telescope
  PROVE  Underway(u) \in Coordinates
<1>1. \A ax \in Axes : u.start[ax] \in Int /\ u.target[ax] \in Int /\ u.slewAge \in Nat
  BY Geometry DEF Telescope, Coordinates, Axes
<1>2. \A ax \in Axes, most \in Nat : u.start[ax] \in 0..most /\ u.target[ax] \in 0..most
        => Underway(u)[ax] \in 0..most
  BY <1>1 DEF Underway, Reached, Distance
<1>3. /\ u.start["ra"] \in 0..(RACircle - 1) /\ u.target["ra"] \in 0..(RACircle - 1)
      /\ u.start["dec"] \in 0..MaxDec /\ u.target["dec"] \in 0..MaxDec
      /\ RACircle - 1 \in Nat /\ MaxDec \in Nat
  BY Geometry DEF Telescope, Coordinates
<1>4. Underway(u)["ra"] \in 0..(RACircle - 1) /\ Underway(u)["dec"] \in 0..MaxDec
  BY <1>2, <1>3 DEF Axes
<1>5. Underway(u) = [ax \in Axes |-> Underway(u)[ax]]
  BY DEF Underway
<1> QED
  BY <1>4, <1>5, CoordinatesByAxis

LEMMA PointingTyped ==
  ASSUME NEW u \in Telescope
  PROVE  Pointing(u) \in Coordinates
BY MovedTyped, UnderwayTyped DEF Pointing, Telescope

LEMMA SettledTyped ==
  ASSUME NEW u \in Telescope
  PROVE  Settled(u) \in Telescope
<1>1. \A p, q, r \in BOOLEAN :
        [u EXCEPT !.start = u.target, !.slewing = FALSE, !.rateAge = 0,
                  !.parkOnArrive = FALSE, !.homeOnArrive = FALSE,
                  !.atPark = p, !.tracking = q, !.atHome = r] \in Telescope
  BY DEF Telescope
<1>2. (u.atPark \/ u.parkOnArrive) \in BOOLEAN /\ (u.tracking /\ ~u.parkOnArrive) \in BOOLEAN
      /\ (u.atHome \/ u.homeOnArrive) \in BOOLEAN
  OBVIOUS
<1> QED
  BY <1>1, <1>2 DEF Settled

LEMMA RestedTyped ==
  ASSUME NEW u \in Telescope
  PROVE  Rested(u) \in Telescope
BY PointingTyped DEF Rested, Telescope

LEMMA SettleRatesTyped ==
  ASSUME NEW u \in Telescope
  PROVE  SettleRates(u) \in Telescope
BY RestedTyped DEF SettleRates, Telescope

LEMMA SettleAxesTyped ==
  ASSUME NEW u \in Telescope
  PROVE  SettleAxes(u) \in Telescope
BY RestedTyped DEF SettleAxes, Telescope

LEMMA BeginSlewTyped ==
  ASSUME NEW u \in Telescope, NEW to \in Coordinates
  PROVE  BeginSlew(u, to) \in Telescope
<1>1. [SettleAxes(u) EXCEPT !.rates = Still] \in Telescope
  BY SettleAxesTyped DEF Telescope, Still, Axes
<1> DEFINE v == SettleRates([SettleAxes(u) EXCEPT !.rates = Still])
<1>2. v \in Telescope /\ Pointing(v) \in Coordinates
  BY <1>1, SettleRatesTyped, PointingTyped
<1> HIDE DEF v
<1>3. [v EXCEPT !.start = Pointing(v), !.target = to, !.slewing = Pointing(v) # to,
          !.slewAge = 0, !.atPark = FALSE, !.atHome = FALSE] \in Telescope
  BY <1>2 DEF Telescope
<1> QED
  BY <1>3 DEF BeginSlew, v

-----------------------------------------------------------------------------
(* The methods keep a telescope a telescope *)

LEMMA AbortSlewTyped ==
  ASSUME NEW u \in Telescope
  PROVE  AbortSlew(u) \in Telescope
<1> DEFINE v == SettleRates([SettleAxes(Settled(u)) EXCEPT !.rates = Still])
<1>1. [SettleAxes(Settled(u)) EXCEPT !.rates = Still] \in Telescope
  BY SettledTyped, SettleAxesTyped DEF Telescope, Still, Axes
<1>2. Rested(v) \in Telescope
  BY <1>1, SettleRatesTyped, RestedTyped
<1> HIDE DEF v
<1>3. [Rested(v) EXCEPT !.slewing = FALSE, !.parkOnArrive = FALSE, !.homeOnArrive = FALSE] \in Telescope
  BY <1>2 DEF Telescope
<1> QED
  BY <1>3 DEF AbortSlew, v

LEMMA PoleTyped == Pole \in Coordinates
BY Geometry DEF Pole, Coordinates

LEMMA ParkTyped ==
  ASSUME NEW u \in Telescope
  PROVE  Park(u) \in Telescope
<1> DEFINE v == BeginSlew(u, Pole)
<1>1. v \in Telescope
  BY PoleTyped, BeginSlewTyped
<1> HIDE DEF v
<1>2. \A p, q \in BOOLEAN :
        [v EXCEPT !.parkOnArrive = TRUE, !.atPark = p, !.tracking = q] \in Telescope
  BY <1>1 DEF Telescope
<1>3. (~v.slewing) \in BOOLEAN /\ (v.tracking /\ v.slewing) \in BOOLEAN
  OBVIOUS
<1> QED
  BY <1>2, <1>3 DEF Park, v

LEMMA FindHomeTyped ==
  ASSUME NEW u \in Telescope
  PROVE  FindHome(u) \in Telescope
<1> DEFINE v == BeginSlew(u, Pole)
<1>1. v \in Telescope
  BY PoleTyped, BeginSlewTyped
<1> HIDE DEF v
<1>2. \A p \in BOOLEAN : [v EXCEPT !.homeOnArrive = TRUE, !.atHome = p] \in Telescope
  BY <1>1 DEF Telescope
<1>3. (~v.slewing) \in BOOLEAN
  OBVIOUS
<1> QED
  BY <1>2, <1>3 DEF FindHome, v

LEMMA TargetedTyped ==
  ASSUME NEW u \in Telescope, NEW to \in Coordinates
  PROVE  Targeted(u, to) \in Telescope
BY DEF Targeted, Telescope

LEMMA SyncTyped ==
  ASSUME NEW u \in Telescope, NEW to \in Coordinates
  PROVE  SyncToCoordinates(u, to) \in Telescope
<1> DEFINE v == Targeted(u, to)
<1>1. v \in Telescope
  BY TargetedTyped
<1> HIDE DEF v
<1>2. [v EXCEPT !.start = to, !.target = to, !.slewing = FALSE, !.rateAge = 0] \in Telescope
  BY <1>1 DEF Telescope
<1> QED
  BY <1>2 DEF SyncToCoordinates, v

LEMMA SlewToAltAzTyped ==
  ASSUME NEW u \in Telescope
  PROVE  SlewToAltAzAsync(u) \in Telescope
<1> DEFINE here == Pointing(u)
           to == [here EXCEPT !.ra = (@ + 1) % RACircle]
<1>1. here \in Coordinates
  BY PointingTyped
<1>2. to \in Coordinates
  BY <1>1, Geometry DEF Coordinates
<1> HIDE DEF here, to
<1>3. [u EXCEPT !.start = here, !.target = to, !.slewing = TRUE, !.slewAge = 0,
                !.atPark = FALSE, !.atHome = FALSE] \in Telescope
  BY <1>1, <1>2 DEF Telescope
<1> QED
  BY <1>3 DEF SlewToAltAzAsync, here, to

LEMMA SetTrackingTyped ==
  ASSUME NEW u \in Telescope, NEW on \in BOOLEAN
  PROVE  SetTracking(u, on) \in Telescope
BY SettleRatesTyped DEF SetTracking, Telescope

LEMMA SetTrackingRateTyped ==
  ASSUME NEW u \in Telescope, NEW sidereal \in BOOLEAN
  PROVE  SetTrackingRate(u, sidereal) \in Telescope
<1>1. \A o \in [Axes -> Int] :
        [SettleRates(u) EXCEPT !.sidereal = sidereal, !.offset = o] \in Telescope
  BY SettleRatesTyped DEF Telescope
<1>2. SettleRates(u).offset \in [Axes -> Int] /\ Still \in [Axes -> Int]
  BY SettleRatesTyped DEF Telescope, Still, Axes
<1> QED
  BY <1>1, <1>2 DEF SetTrackingRate

LEMMA SetRateTyped ==
  ASSUME NEW u \in Telescope, NEW ax \in Axes, NEW v \in Int
  PROVE  SetRate(u, ax, v) \in Telescope
BY SettleRatesTyped DEF SetRate, Telescope

LEMMA SetTargetTyped ==
  ASSUME NEW u \in Telescope, NEW to \in Coordinates, NEW ax \in Axes
  PROVE  SetTarget(u, ax, to[ax]) \in Telescope
<1>1. [u.want EXCEPT ![ax] = to[ax]] \in Coordinates
  BY DEF Telescope, Coordinates, Axes
<1>2. [u.wantSet EXCEPT ![ax] = TRUE] \in [Axes -> BOOLEAN]
  BY DEF Telescope
<1>3. SetTarget(u, ax, to[ax]) = [u EXCEPT !.want = [u.want EXCEPT ![ax] = to[ax]],
                                           !.wantSet = [u.wantSet EXCEPT ![ax] = TRUE]]
  BY DEF SetTarget
<1> QED
  BY <1>1, <1>2, <1>3 DEF Telescope

LEMMA PulseGuideTyped ==
  ASSUME NEW u \in Telescope, NEW ax \in Axes, NEW by \in Int
  PROVE  PulseGuide(u, ax, by) \in Telescope
<1> DEFINE v == SettleRates(u)
           there == [v.start EXCEPT ![ax] = Wrap(ax, @ + by)]
<1>1. v \in Telescope
  BY SettleRatesTyped
<1> HIDE DEF v
<1>2. v.start \in Coordinates /\ v.start[ax] + by \in Int
  BY <1>1, Geometry DEF Telescope, Coordinates, Axes
<1>3. there \in Coordinates
  BY <1>2, WrapTyped DEF Coordinates, Axes
<1> HIDE DEF there
<1>4. [v EXCEPT !.start = there, !.target = there, !.pulse = TRUE] \in Telescope
  BY <1>1, <1>3 DEF Telescope
<1> QED
  BY <1>4 DEF PulseGuide, v, there

LEMMA MoveAxisTyped ==
  ASSUME NEW u \in Telescope, NEW ax \in Axes, NEW rate \in Int
  PROVE  MoveAxis(u, ax, rate) \in Telescope
<1> DEFINE v == SettleRates(u)
           w == [v EXCEPT !.start = Pointing(v), !.slewing = FALSE,
                          !.parkOnArrive = FALSE, !.homeOnArrive = FALSE]
           x == SettleAxes(w)
<1>1. v \in Telescope /\ Pointing(v) \in Coordinates
  BY SettleRatesTyped, PointingTyped
<1> HIDE DEF v
<1>2. w \in Telescope
  BY <1>1 DEF Telescope
<1> HIDE DEF w
<1>3. x \in Telescope
  BY <1>2, SettleAxesTyped
<1> HIDE DEF x
<1>4. \A h \in BOOLEAN : [x EXCEPT !.rates[ax] = rate, !.axisAge = 0, !.atHome = h] \in Telescope
  BY <1>3 DEF Telescope
<1>5. (x.atHome /\ rate = 0) \in BOOLEAN
  OBVIOUS
<1> QED
  BY <1>4, <1>5 DEF MoveAxis, x, w, v

-----------------------------------------------------------------------------
(* Requests *)

\* A request that read the targets has become a slew or a sync to them.
Converted ==
  [op : {"slewtocoordinates", "slewtocoordinatesasync", "synctocoordinates"},
   to : Coordinates, tell : {FALSE}]

Requests == Calls \union Converted

\* What a request of each kind carries.
LEMMA RequestKinds ==
  ASSUME NEW r \in Requests
  PROVE  \/ r.op \in {"park", "unpark", "findhome", "abortslew", "slewtoaltaz", "slewtoaltazasync",
                      "slewtotarget", "slewtotargetasync", "synctotarget"} /\ DOMAIN r = {"op"}
         \/ /\ r.op \in {"slewtocoordinates", "slewtocoordinatesasync", "synctocoordinates"}
            /\ r.to \in Coordinates
         \/ r.op \in {"tracking", "trackingrate"} /\ r.on \in BOOLEAN /\ DOMAIN r = {"op", "on"}
         \/ /\ r.op \in {"moveaxis", "pulseguide", "rate"} /\ DOMAIN r = {"op", "axis", "by"}
            /\ r.axis \in Axes /\ r.by \in Int
         \/ \E ax \in Axes, c \in Targets : r = [op |-> "target", axis |-> ax, by |-> c[ax]]
<1>1. CASE r \in Plain
  BY <1>1 DEF Plain
<1>2. CASE r \in ToCoordinates \union Converted
  BY <1>2, Geometry DEF ToCoordinates, Converted
<1>3. CASE r \in Switches
  BY <1>3 DEF Switches
<1>4. CASE r \in OnAxis
  <2>1. CASE r \in [op : {"moveaxis"}, axis : Axes, by : Rates]
    BY <2>1, Geometry
  <2>2. CASE r \in [op : {"pulseguide"}, axis : Axes, by : {-1, 1}]
    BY <2>2
  <2>3. CASE r \in [op : {"rate"}, axis : Axes, by : Offsets]
    BY <2>3, Geometry
  <2> QED
    BY <1>4, <2>1, <2>2, <2>3 DEF OnAxis
<1>5. CASE r \in TargetWrites
  BY <1>5 DEF TargetWrites
<1> QED
  BY <1>1, <1>2, <1>3, <1>4, <1>5 DEF Requests, Calls

LEMMA EffectTyped ==
  ASSUME NEW u \in Telescope, NEW r \in Requests, ~ByTarget(r)
  PROVE  Effect(u, r) \in Telescope
<1>1. CASE r.op = "park"
  BY <1>1, ParkTyped DEF Effect
<1>2. CASE r.op = "unpark"
  BY <1>2 DEF Effect, Unpark, Telescope
<1>3. CASE r.op = "findhome"
  BY <1>3, FindHomeTyped DEF Effect
<1>4. CASE r.op = "abortslew"
  BY <1>4, AbortSlewTyped DEF Effect
<1>5. CASE r.op \in {"slewtoaltaz", "slewtoaltazasync"}
  BY <1>5, SlewToAltAzTyped DEF Effect
<1>6. CASE r.op \in {"slewtocoordinates", "slewtocoordinatesasync"}
  <2>1. r.to \in Coordinates
    BY <1>6, RequestKinds
  <2>2. Effect(u, r) = SlewToCoordinatesAsync(u, r.to)
    BY <1>6 DEF Effect
  <2> QED
    BY <2>1, <2>2, TargetedTyped, BeginSlewTyped DEF SlewToCoordinatesAsync
<1>7. CASE r.op = "synctocoordinates"
  <2>1. r.to \in Coordinates
    BY <1>7, RequestKinds
  <2> QED
    BY <1>7, <2>1, SyncTyped DEF Effect
<1>8. CASE r.op \in {"tracking", "trackingrate"}
  <2>1. r.on \in BOOLEAN
    BY <1>8, RequestKinds
  <2> QED
    BY <1>8, <2>1, SetTrackingTyped, SetTrackingRateTyped DEF Effect
<1>9. CASE r.op \in {"rate", "pulseguide", "moveaxis"}
  <2>1. r.axis \in Axes /\ r.by \in Int
    BY <1>9, RequestKinds
  <2> QED
    BY <1>9, <2>1, SetRateTyped, PulseGuideTyped, MoveAxisTyped DEF Effect
<1>10. CASE r.op = "target"
  <2>1. \E ax \in Axes, c \in Targets : r = [op |-> "target", axis |-> ax, by |-> c[ax]]
    BY <1>10, RequestKinds
  <2>2. PICK ax \in Axes, c \in Targets : r = [op |-> "target", axis |-> ax, by |-> c[ax]]
    BY <2>1
  <2>3. Effect(u, r) = SetTarget(u, ax, c[ax])
    BY <2>2 DEF Effect
  <2> QED
    BY <2>3, SetTargetTyped, Geometry
<1>11. r.op \in {"park", "unpark", "findhome", "abortslew", "slewtoaltaz", "slewtoaltazasync",
                 "slewtocoordinates", "slewtocoordinatesasync", "synctocoordinates", "tracking",
                 "trackingrate", "rate", "target", "pulseguide", "moveaxis"}
  BY RequestKinds DEF ByTarget
<1> QED
  BY <1>1, <1>2, <1>3, <1>4, <1>5, <1>6, <1>7, <1>8, <1>9, <1>10, <1>11

\* Only a request to a position the client named is told to set the targets.
LEMMA ToldTyped ==
  ASSUME NEW r \in Requests
  PROVE  Told(r) = "idle" \/ (Told(r) = "setRA" /\ r.to \in Coordinates)
BY RequestKinds DEF Told

LEMMA RequestOp == ASSUME NEW r \in Requests PROVE r.op # "none"
BY RequestKinds

-----------------------------------------------------------------------------
(* Types *)

\* What a client has in hand at each step of its request.
InHand ==
  /\ DOMAIN call = Clients
  /\ \A c \in Clients :
       /\ pc[c] \in {"call", "wait"} => call[c] \in Requests
       /\ pc[c] \in {"setRA", "setDec"} => call[c].to \in Coordinates

TypeInv == TypeOK /\ InHand

LEMMA NewTyped == New \in Telescope
<1>1. Still \in [Axes -> Int] /\ [ax \in Axes |-> FALSE] \in [Axes -> BOOLEAN]
  BY DEF Still, Axes
<1> QED
  BY <1>1, PoleTyped DEF New, Telescope

LEMMA InitTyped == Init => TypeInv
BY NewTyped, Geometry DEF Init, TypeInv, TypeOK, InHand

\* A request that moves on to a step with what that step needs.
LEMMA ProceedTyped ==
  ASSUME TypeInv, NEW c \in Clients, NEW step, Proceed(c, step), t' \in Telescope,
         \/ step = "idle"
         \/ step \in {"call", "wait"} /\ call[c] \in Requests
         \/ step \in {"setRA", "setDec"} /\ call[c].to \in Coordinates
  PROVE  TypeInv'
<1>1. pc' \in [Clients -> {"idle", "call", "wait", "setRA", "setDec"}] /\ DOMAIN call' = Clients
  BY DEF TypeInv, TypeOK, InHand, Proceed
<1>2. ASSUME NEW d \in Clients, d # c PROVE pc'[d] = pc[d] /\ call'[d] = call[d]
  BY <1>2 DEF TypeInv, TypeOK, InHand, Proceed
<1>3. pc'[c] = step /\ (step # "idle" => call'[c] = call[c])
  BY DEF TypeInv, TypeOK, InHand, Proceed
<1>4. \A d \in Clients :
        /\ pc'[d] \in {"call", "wait"} => call'[d] \in Requests
        /\ pc'[d] \in {"setRA", "setDec"} => call'[d].to \in Coordinates
  BY <1>2, <1>3 DEF TypeInv, InHand
<1>5. \A d \in Clients : pc'[d] = "call" => call'[d].op # "none"
  BY <1>4, RequestOp
<1>6. waited' \in [Clients -> 0..Patience]
  BY Geometry DEF TypeInv, TypeOK, Proceed
<1> QED
  BY <1>1, <1>4, <1>5, <1>6 DEF TypeInv, TypeOK, InHand

LEMMA SameCallTyped ==
  ASSUME TypeInv, UNCHANGED <<pc, call>>, t' \in Telescope, waited' \in [Clients -> 0..Patience]
  PROVE  TypeInv'
BY DEF TypeInv, TypeOK, InHand

LEMMA SmallerOfTwo ==
  ASSUME NEW a \in Nat, NEW b \in Nat
  PROVE  Min({a, b}) \in Nat
<1>1. \E x \in {a, b} : \A y \in {a, b} : x <= y
  OBVIOUS
<1> QED
  BY <1>1 DEF Min

LEMMA LargerOfTwo ==
  ASSUME NEW a \in Nat, NEW b \in Nat
  PROVE  Max({a, b}) \in Nat
<1>1. \E x \in {a, b} : \A y \in {a, b} : x >= y
  OBVIOUS
<1> QED
  BY <1>1 DEF Max

LEMMA TickTyped == ASSUME t \in Telescope, Tick PROVE t' \in Telescope
<1> DEFINE far == Max({RACircle, MaxDec})
<1>1. far \in Nat
  BY Geometry, LargerOfTwo
<1> HIDE DEF far
<1>2. Min({t.slewAge + 1, far}) \in Nat
  BY <1>1, SmallerOfTwo DEF Telescope
<1>3. \A i, j, k \in Nat :
        [t EXCEPT !.slewAge = i, !.axisAge = j, !.rateAge = k, !.pulse = FALSE] \in Telescope
  BY DEF Telescope
<1>4. t.axisAge + 1 \in Nat /\ t.rateAge + 1 \in Nat
  BY DEF Telescope
<1> QED
  BY <1>2, <1>3, <1>4 DEF Tick, far

\* Nobody waits for longer than Patience.
LEMMA WaitedTyped ==
  ASSUME TypeOK, Tick
  PROVE  waited' \in [Clients -> 0..Patience]
<1>1. ASSUME NEW c \in Clients
      PROVE  (IF Waiting(c) THEN waited[c] + 1 ELSE waited[c]) \in 0..Patience
  BY Geometry DEF TypeOK, Waiting
<1> QED
  BY <1>1 DEF Tick

LEMMA StepTyped == TypeInv /\ [Next]_vars => TypeInv'
<1> SUFFICES ASSUME TypeInv, [Next]_vars PROVE TypeInv'
  OBVIOUS
<1>0. t \in Telescope /\ Settled(t) \in Telescope
  BY SettledTyped DEF TypeInv, TypeOK
<1>1. ASSUME NEW c \in Clients, NEW r \in Calls, Gate(c, r) PROVE TypeInv'
  <2>1. t' \in Telescope
    BY <1>0, <1>1 DEF Gate
  <2>2. r \in Requests /\ r.op # "none"
    BY RequestOp DEF Requests
  <2>3. /\ pc' \in [Clients -> {"idle", "call", "wait", "setRA", "setDec"}]
        /\ DOMAIN call' = Clients /\ pc'[c] = "call" /\ call'[c] = r
        /\ \A d \in Clients : d # c => pc'[d] = pc[d] /\ call'[d] = call[d]
        /\ waited' = waited
    BY <1>1 DEF Gate, TypeInv, TypeOK, InHand
  <2> QED
    BY <2>1, <2>2, <2>3 DEF TypeInv, TypeOK, InHand
<1>2. ASSUME NEW c \in Clients, ReadTarget(c) PROVE TypeInv'
  <2>1. CASE Proceed(c, "idle")
    BY <1>0, <1>2, <2>1, ProceedTyped DEF ReadTarget
  <2>2. CASE ~Proceed(c, "idle")
    <3> DEFINE r == [op |-> CASE call[c].op = "slewtotarget" -> "slewtocoordinates"
                              [] call[c].op = "slewtotargetasync" -> "slewtocoordinatesasync"
                              [] OTHER -> "synctocoordinates",
                     to |-> t.want, tell |-> FALSE]
    <3>1. call' = [call EXCEPT ![c] = r] /\ UNCHANGED <<t, pc, waited>>
      BY <1>2, <2>2 DEF ReadTarget
    <3>2. r \in Converted
      BY <1>0 DEF Converted, Telescope
    <3> HIDE DEF r
    <3>3. r \in Requests /\ r.op # "none"
      BY <3>2, RequestOp DEF Requests
    <3>4. pc[c] = "call"
      BY <1>2 DEF ReadTarget
    <3> QED
      BY <3>1, <3>3, <3>4 DEF TypeInv, TypeOK, InHand
  <2> QED
    BY <2>1, <2>2
<1>3. ASSUME NEW c \in Clients, Member(c) PROVE TypeInv'
  <2>1. call[c] \in Requests
    BY <1>3 DEF Member, TypeInv, InHand
  <2>2. t' \in Telescope
    BY <1>0, <1>3, <2>1, EffectTyped DEF Member
  <2> QED
    BY <1>3, <2>1, <2>2, ToldTyped, ProceedTyped DEF Member
<1>4. ASSUME NEW c \in Clients, WaitSlewDone(c) PROVE TypeInv'
  <2>1. call[c] \in Requests
    BY <1>4 DEF WaitSlewDone, TypeInv, InHand
  <2> QED
    BY <1>0, <1>4, <2>1, ToldTyped, ProceedTyped DEF WaitSlewDone
<1>5. ASSUME NEW c \in Clients, SetTargets(c) PROVE TypeInv'
  <2>1. call[c].to \in Coordinates
    BY <1>5 DEF SetTargets, TypeInv, InHand
  <2>2. t' \in Telescope
    BY <1>0, <1>5, <2>1, SetTargetTyped DEF SetTargets, Axes
  <2> QED
    BY <1>5, <2>1, <2>2, ProceedTyped DEF SetTargets
<1>6. ASSUME NEW c \in Clients, Read(c) PROVE TypeInv'
  BY <1>0, <1>6, SameCallTyped DEF Read, TypeInv, TypeOK
<1>7. ASSUME Tick PROVE TypeInv'
  BY <1>0, <1>7, TickTyped, WaitedTyped, SameCallTyped DEF Tick, TypeInv
<1>8. CASE UNCHANGED vars
  BY <1>0, <1>8, SameCallTyped DEF vars, TypeInv, TypeOK
<1> QED
  BY <1>1, <1>2, <1>3, <1>4, <1>5, <1>6, <1>7, <1>8 DEF Next

\* Whatever clients ask, in whatever order: where the mount points and is going
\* are coordinates of the sky (wrap24 and clampDec are applied wherever they must
\* be), its clocks are not negative, and a request has its arguments.
THEOREM TypeCorrect == Spec => []TypeOK
<1>1. TypeInv => TypeOK
  BY DEF TypeInv
<1> QED
  BY <1>1, InitTyped, StepTyped, PTL DEF Spec

-----------------------------------------------------------------------------
(* What the methods do to the motion *)

\* What is not where the mount points, and not its clocks.
Kept(u, v) ==
  /\ v.slewing = u.slewing /\ v.slewAge = u.slewAge /\ v.rates = u.rates
  /\ v.tracking = u.tracking /\ v.sidereal = u.sidereal /\ v.offset = u.offset
  /\ v.atPark = u.atPark /\ v.parkOnArrive = u.parkOnArrive

LEMMA RestedFields ==
  ASSUME NEW u \in Telescope
  PROVE  /\ Kept(u, Rested(u)) /\ Rested(u).rateAge = u.rateAge /\ Rested(u).axisAge = u.axisAge
         /\ Rested(u).start = Pointing(u) /\ Rested(u).target = Pointing(u)
BY DEF Rested, Kept, Telescope

LEMMA SettleRatesFields ==
  ASSUME NEW u \in Telescope
  PROVE  /\ Kept(u, SettleRates(u)) /\ SettleRates(u).rateAge = 0
         /\ SettleRates(u).axisAge = u.axisAge
         /\ Drifting(u) => SettleRates(u).start = Pointing(u)
         /\ ~Drifting(u) => /\ SettleRates(u).start = u.start
                            /\ SettleRates(u).target = u.target
<1>1. CASE Drifting(u)
  <2>1. SettleRates(u) = [Rested(u) EXCEPT !.rateAge = 0]
    BY <1>1 DEF SettleRates
  <2> QED
    BY <1>1, <2>1, RestedFields, RestedTyped DEF Kept, Telescope
<1>2. CASE ~Drifting(u)
  <2>1. SettleRates(u) = [u EXCEPT !.rateAge = 0]
    BY <1>2 DEF SettleRates
  <2> QED
    BY <1>2, <2>1 DEF Kept, Telescope
<1> QED
  BY <1>1, <1>2

LEMMA SettleAxesFields ==
  ASSUME NEW u \in Telescope
  PROVE  /\ Kept(u, SettleAxes(u)) /\ SettleAxes(u).rateAge = u.rateAge
         /\ ~Moving(u) => SettleAxes(u) = u
         /\ Moving(u) => SettleAxes(u).start = Pointing(u)
<1>1. CASE Moving(u)
  <2>1. SettleAxes(u) = [Rested(u) EXCEPT !.axisAge = 0]
    BY <1>1 DEF SettleAxes
  <2> QED
    BY <1>1, <2>1, RestedFields, RestedTyped DEF Kept, Telescope
<1>2. CASE ~Moving(u)
  BY <1>2 DEF SettleAxes, Kept
<1> QED
  BY <1>1, <1>2

\* A mount that moves no axis and whose other motion has only begun is where that
\* motion started.
LEMMA PointingAtStart ==
  ASSUME NEW u \in Telescope, ~Moving(u),
         u.slewing => u.slewAge = 0, ~u.slewing => u.rateAge = 0
  PROVE  Pointing(u) = u.start
<1>1. CASE Drifting(u)
  <2>1. u.start \in Coordinates /\ u.offset \in [Axes -> Int] /\ u.rateAge = 0
    BY <1>1 DEF Telescope, Drifting, Offset
  <2>2. Pointing(u) = Moved(u.start, u.offset, u.rateAge)
    BY <1>1 DEF Pointing
  <2> QED
    BY <2>1, <2>2, MovedNowhere
<1>2. CASE ~Drifting(u) /\ u.slewing
  <2>1. Pointing(u) = Underway(u)
    BY <1>2 DEF Pointing
  <2>2. u.start \in Coordinates /\ u.target \in Coordinates /\ u.slewAge = 0
    BY <1>2 DEF Telescope
  <2>3. \A ax \in Axes : u.start[ax] \in Int /\ u.target[ax] \in Int
    BY <2>2, Geometry DEF Coordinates, Axes
  <2>4. \A ax \in Axes : Underway(u)[ax] = u.start[ax]
    BY <2>2, <2>3 DEF Underway, Reached, Distance
  <2>5. Underway(u) = [ax \in Axes |-> Underway(u)[ax]]
    BY DEF Underway
  <2>6. Underway(u) = [ax \in Axes |-> u.start[ax]]
    BY <2>4, <2>5
  <2> QED
    BY <2>1, <2>2, <2>6, CoordinatesByAxis
<1>3. CASE ~Drifting(u) /\ ~u.slewing
  BY <1>3 DEF Pointing
<1> QED
  BY <1>1, <1>2, <1>3

\* Settling the rates does not move a mount whose axes are still.
LEMMA SettleRatesPointing ==
  ASSUME NEW u \in Telescope, ~Moving(u)
  PROVE  Pointing(SettleRates(u)) = Pointing(u)
<1> DEFINE v == SettleRates(u)
<1>1. v \in Telescope /\ Kept(u, v) /\ v.rateAge = 0
  BY SettleRatesTyped, SettleRatesFields
<1>2. ~Moving(v) /\ (Drifting(v) <=> Drifting(u))
  BY <1>1 DEF Kept, Moving, Drifting, Offset
<1>3. CASE Drifting(u)
  <2>1. v.start = Pointing(u) /\ ~v.slewing
    BY <1>1, <1>3, SettleRatesFields DEF Kept, Drifting, Offset
  <2> HIDE DEF v
  <2>2. Pointing(v) = v.start
    BY <1>1, <1>2, <2>1, PointingAtStart
  <2> QED
    BY <2>1, <2>2 DEF v
<1>4. CASE ~Drifting(u)
  <2>1. v.start = u.start /\ v.target = u.target
    BY <1>4, SettleRatesFields
  <2> HIDE DEF v
  <2>2. Underway(v) = Underway(u)
    BY <1>1, <2>1 DEF Kept, Underway, Reached, Distance
  <2>3. Pointing(v) = Pointing(u)
    BY <1>1, <1>2, <1>4, <2>1, <2>2 DEF Pointing, Kept
  <2> QED
    BY <2>3 DEF v
<1> QED
  BY <1>3, <1>4

\* BeginSlew: from where the mount points it goes to a target, its axes at rest.
LEMMA BeginSlewFields ==
  ASSUME NEW u \in Telescope, NEW to \in Coordinates
  PROVE  LET v == BeginSlew(u, to) IN
           /\ v.rates = Still /\ v.rateAge = 0 /\ v.slewAge = 0 /\ v.target = to
           /\ v.slewing \in BOOLEAN /\ (v.slewing <=> v.start # to)
           /\ ~v.atPark /\ v.tracking = u.tracking /\ v.parkOnArrive = u.parkOnArrive
           /\ v.sidereal = u.sidereal /\ v.offset = u.offset
           /\ ~Moving(u) => v.start = Pointing(u)
<1> DEFINE w == [SettleAxes(u) EXCEPT !.rates = Still]
           x == SettleRates(w)
<1>1. w \in Telescope /\ w.rates = Still /\ w.tracking = u.tracking /\ w.parkOnArrive = u.parkOnArrive
      /\ w.sidereal = u.sidereal /\ w.offset = u.offset
  BY SettleAxesTyped, SettleAxesFields DEF Kept, Telescope, Still, Axes
<1>2. ~Moving(u) => w = u
  <2> SUFFICES ASSUME ~Moving(u) PROVE w = u
    OBVIOUS
  <2>1. w = [u EXCEPT !.rates = Still] /\ u.rates = Still
    BY SettleAxesFields DEF Moving
  <2> QED
    BY <2>1 DEF Telescope
<1> HIDE DEF w
<1>3. x \in Telescope /\ Kept(w, x) /\ x.rateAge = 0
  BY <1>1, SettleRatesTyped, SettleRatesFields
<1>4. ~Moving(u) => Pointing(x) = Pointing(u)
  BY <1>2, SettleRatesPointing
<1>5. Pointing(x) \in Coordinates
  BY <1>3, PointingTyped
<1> HIDE DEF x
<1>6. BeginSlew(u, to) = [x EXCEPT !.start = Pointing(x), !.target = to, !.slewing = Pointing(x) # to,
              !.slewAge = 0, !.atPark = FALSE, !.atHome = FALSE]
  BY DEF BeginSlew, x, w
<1>7. \A start, p : LET v == [x EXCEPT !.start = start, !.target = to, !.slewing = p,
              !.slewAge = 0, !.atPark = FALSE, !.atHome = FALSE] IN
           /\ v.rates = x.rates /\ v.rateAge = x.rateAge /\ v.slewAge = 0 /\ v.target = to
           /\ v.slewing = p /\ v.start = start /\ v.atPark = FALSE
           /\ v.tracking = x.tracking /\ v.parkOnArrive = x.parkOnArrive
           /\ v.sidereal = x.sidereal /\ v.offset = x.offset
  BY <1>3 DEF Telescope
<1> DEFINE v == BeginSlew(u, to)
<1>8. /\ v.rates = x.rates /\ v.rateAge = x.rateAge /\ v.slewAge = 0 /\ v.target = to
      /\ v.slewing = (Pointing(x) # to) /\ v.start = Pointing(x) /\ v.atPark = FALSE
      /\ v.tracking = x.tracking /\ v.parkOnArrive = x.parkOnArrive
      /\ v.sidereal = x.sidereal /\ v.offset = x.offset
  BY <1>6, <1>7
<1> QED
  BY <1>1, <1>3, <1>4, <1>8 DEF Kept

LEMMA TargetedFields ==
  ASSUME NEW u \in Telescope, NEW to \in Coordinates
  PROVE  /\ Kept(u, Targeted(u, to)) /\ Targeted(u, to).rateAge = u.rateAge
         /\ Pointing(Targeted(u, to)) = Pointing(u)
<1> DEFINE v == Targeted(u, to)
<1>1. /\ Kept(u, v) /\ v.rateAge = u.rateAge /\ v.axisAge = u.axisAge
      /\ v.start = u.start /\ v.target = u.target
  BY DEF Targeted, Kept, Telescope
<1> HIDE DEF v
<1>2. Pointing(v) = Pointing(u)
  BY <1>1 DEF Kept, Pointing, Moving, Drifting, Offset, Underway, Reached, Distance
<1> QED
  BY <1>1, <1>2 DEF v

\* settleLocked leaves axes alone, and ends a slew that has arrived at its target.
LEMMA SettledFields ==
  ASSUME NEW u \in Telescope
  PROVE  LET v == Settled(u) IN
           /\ v.rates = u.rates /\ v.target = u.target
           /\ v.slewing => v = u /\ u.slewing
           /\ ~u.slewing => v = u
           /\ v # u => /\ v.start = u.target /\ ~v.slewing /\ v.rateAge = 0 /\ ~v.parkOnArrive
                       /\ v.atPark = (u.atPark \/ u.parkOnArrive)
                       /\ v.tracking = (u.tracking /\ ~u.parkOnArrive) /\ Arrived(u) /\ u.slewing
<1>1. CASE ~u.slewing \/ ~Arrived(u)
  BY <1>1 DEF Settled
<1>2. CASE u.slewing /\ Arrived(u)
  <2>1. \A p, q, r : LET v == [u EXCEPT !.start = u.target, !.slewing = FALSE, !.rateAge = 0,
                 !.parkOnArrive = FALSE, !.homeOnArrive = FALSE,
                 !.atPark = p, !.tracking = q, !.atHome = r] IN
           /\ v.rates = u.rates /\ v.target = u.target /\ v.slewing = FALSE
           /\ v.start = u.target /\ v.rateAge = 0 /\ v.parkOnArrive = FALSE
           /\ v.atPark = p /\ v.tracking = q
    BY DEF Telescope
  <2>2. Settled(u) = [u EXCEPT !.start = u.target, !.slewing = FALSE, !.rateAge = 0,
                 !.parkOnArrive = FALSE, !.homeOnArrive = FALSE,
                 !.atPark = u.atPark \/ u.parkOnArrive, !.tracking = u.tracking /\ ~u.parkOnArrive,
                 !.atHome = u.atHome \/ u.homeOnArrive]
    BY <1>2 DEF Settled
  <2> DEFINE v == Settled(u)
  <2>3. /\ v.rates = u.rates /\ v.target = u.target /\ v.slewing = FALSE
        /\ v.start = u.target /\ v.rateAge = 0 /\ v.parkOnArrive = FALSE
        /\ v.atPark = (u.atPark \/ u.parkOnArrive) /\ v.tracking = (u.tracking /\ ~u.parkOnArrive)
    BY <2>1, <2>2
  <2> HIDE DEF v
  <2> QED
    BY <1>2, <2>3 DEF v
<1> QED
  BY <1>1, <1>2

-----------------------------------------------------------------------------
(* ParkedIsStill and OnlyUnparkUnparks *)

\* A parked telescope is still, and one that is to park when it arrives moves no axis.
StillWhenParked(u) ==
  /\ u.atPark => ~u.slewing /\ u.rates = Still /\ ~u.tracking
  /\ u.parkOnArrive => u.rates = Still

\* An effect keeps a telescope still while parked, and parked unless it was told
\* to unpark.
Sound(u, r) ==
  /\ StillWhenParked(Effect(u, r))
  /\ u.atPark /\ r.op # "unpark" => Effect(u, r).atPark

LEMMA SettledStill ==
  ASSUME NEW u \in Telescope, StillWhenParked(u)
  PROVE  StillWhenParked(Settled(u)) /\ (u.atPark => Settled(u).atPark)
<1> DEFINE v == Settled(u)
<1>1. /\ v.rates = u.rates
      /\ v # u => /\ ~v.slewing /\ ~v.parkOnArrive /\ v.atPark = (u.atPark \/ u.parkOnArrive)
                  /\ v.tracking = (u.tracking /\ ~u.parkOnArrive)
  BY SettledFields
<1> HIDE DEF v
<1>2. StillWhenParked(v) /\ (u.atPark => v.atPark)
  <2>1. CASE v = u
    BY <2>1
  <2>2. CASE v # u
    BY <1>1, <2>2 DEF StillWhenParked
  <2> QED
    BY <2>1, <2>2
<1> QED
  BY <1>2 DEF v

LEMMA KeptStill ==
  ASSUME NEW u, NEW v, Kept(u, v), StillWhenParked(u)
  PROVE  StillWhenParked(v) /\ (u.atPark => v.atPark)
BY DEF Kept, StillWhenParked

LEMMA SlewStill ==
  ASSUME NEW u \in Telescope, NEW to \in Coordinates
  PROVE  LET v == BeginSlew(u, to) IN StillWhenParked(v)
BY BeginSlewFields DEF StillWhenParked

LEMMA ParkStill ==
  ASSUME NEW u \in Telescope, StillWhenParked(u)
  PROVE  StillWhenParked(Park(u)) /\ (u.atPark => Park(u).atPark)
<1>1. CASE u.atPark
  BY <1>1 DEF Park
<1>2. CASE ~u.atPark
  <2> DEFINE v == BeginSlew(u, Pole)
             w == [v EXCEPT !.parkOnArrive = TRUE, !.atPark = ~v.slewing,
                            !.tracking = v.tracking /\ v.slewing]
  <2>1. v \in Telescope /\ v.rates = Still
    BY PoleTyped, BeginSlewTyped, BeginSlewFields
  <2> HIDE DEF v
  <2>2. \A p, q : LET x == [v EXCEPT !.parkOnArrive = TRUE, !.atPark = p, !.tracking = q] IN
          x.rates = v.rates /\ x.slewing = v.slewing /\ x.atPark = p /\ x.tracking = q
    BY <2>1 DEF Telescope
  <2>3. w.rates = Still /\ w.slewing = v.slewing /\ w.atPark = ~v.slewing
        /\ w.tracking = (v.tracking /\ v.slewing)
    BY <2>1, <2>2
  <2> HIDE DEF w
  <2>4. StillWhenParked(w)
    BY <2>3 DEF StillWhenParked
  <2> QED
    BY <1>2, <2>4 DEF Park, v, w
<1> QED
  BY <1>1, <1>2

LEMMA FindHomeStill ==
  ASSUME NEW u \in Telescope
  PROVE  StillWhenParked(FindHome(u))
<1> DEFINE v == BeginSlew(u, Pole)
<1>1. v \in Telescope /\ v.rates = Still /\ ~v.atPark
  BY PoleTyped, BeginSlewTyped, BeginSlewFields
<1> HIDE DEF v
<1>2. \A p : LET x == [v EXCEPT !.homeOnArrive = TRUE, !.atHome = p] IN
        x.rates = v.rates /\ x.atPark = v.atPark
  BY <1>1 DEF Telescope
<1>3. StillWhenParked([v EXCEPT !.homeOnArrive = TRUE, !.atHome = ~v.slewing])
  BY <1>1, <1>2 DEF StillWhenParked
<1> QED
  BY <1>3 DEF FindHome, v

LEMMA AbortSlewStill ==
  ASSUME NEW u \in Telescope, StillWhenParked(u)
  PROVE  StillWhenParked(AbortSlew(u))
<1> DEFINE s == Settled(u)
           a == SettleAxes(s)
           b == [a EXCEPT !.rates = Still]
           v == SettleRates(b)
           w == Rested(v)
<1>1. s \in Telescope /\ StillWhenParked(s)
  BY SettledTyped, SettledStill
<1> HIDE DEF s
<1>2. a \in Telescope /\ StillWhenParked(a)
  BY <1>1, SettleAxesTyped, SettleAxesFields, KeptStill
<1> HIDE DEF a
<1>3. b \in Telescope /\ StillWhenParked(b) /\ b.rates = Still
  BY <1>2 DEF StillWhenParked, Telescope, Still, Axes
<1> HIDE DEF b
<1>4. v \in Telescope /\ StillWhenParked(v) /\ v.rates = Still
  BY <1>3, SettleRatesTyped, SettleRatesFields, KeptStill DEF Kept
<1> HIDE DEF v
<1>5. w \in Telescope /\ StillWhenParked(w) /\ w.rates = Still
  BY <1>4, RestedTyped, RestedFields, KeptStill DEF Kept
<1> HIDE DEF w
<1>6. StillWhenParked([w EXCEPT !.slewing = FALSE, !.parkOnArrive = FALSE, !.homeOnArrive = FALSE])
  BY <1>5 DEF StillWhenParked, Telescope
<1> QED
  BY <1>6 DEF AbortSlew, s, a, b, v, w

LEMMA MoveAxisStill ==
  ASSUME NEW u \in Telescope, ~u.atPark, NEW ax \in Axes, NEW rate \in Int
  PROVE  StillWhenParked(MoveAxis(u, ax, rate))
<1> DEFINE v == SettleRates(u)
           w == [v EXCEPT !.start = Pointing(v), !.slewing = FALSE,
                          !.parkOnArrive = FALSE, !.homeOnArrive = FALSE]
           x == SettleAxes(w)
<1>1. v \in Telescope /\ Pointing(v) \in Coordinates /\ ~v.atPark
  BY SettleRatesTyped, SettleRatesFields, PointingTyped DEF Kept
<1> HIDE DEF v
<1>2. w \in Telescope /\ ~w.atPark /\ ~w.parkOnArrive
  BY <1>1 DEF Telescope
<1> HIDE DEF w
<1>3. x \in Telescope /\ ~x.atPark /\ ~x.parkOnArrive
  BY <1>2, SettleAxesTyped, SettleAxesFields DEF Kept
<1> HIDE DEF x
<1>4. \A h : LET y == [x EXCEPT !.rates[ax] = rate, !.axisAge = 0, !.atHome = h] IN
               y.atPark = x.atPark /\ y.parkOnArrive = x.parkOnArrive
  BY <1>3 DEF Telescope
<1>5. StillWhenParked([x EXCEPT !.rates[ax] = rate, !.axisAge = 0, !.atHome = x.atHome /\ rate = 0])
  BY <1>3, <1>4 DEF StillWhenParked
<1> QED
  BY <1>5 DEF MoveAxis, x, w, v

\* What the other setters leave alone.
LEMMA SettersKeep ==
  ASSUME NEW u \in Telescope
  PROVE  /\ \A ax \in Axes, v \in Int :
              LET w == SetRate(u, ax, v) IN
              w.atPark = u.atPark /\ w.slewing = u.slewing /\ w.rates = u.rates
              /\ w.tracking = u.tracking /\ w.parkOnArrive = u.parkOnArrive
         /\ \A on \in BOOLEAN :
              LET w == SetTrackingRate(u, on) IN
              w.atPark = u.atPark /\ w.slewing = u.slewing /\ w.rates = u.rates
              /\ w.tracking = u.tracking /\ w.parkOnArrive = u.parkOnArrive
         /\ \A on \in BOOLEAN :
              LET w == SetTracking(u, on) IN
              w.atPark = u.atPark /\ w.slewing = u.slewing /\ w.rates = u.rates
              /\ w.tracking = on /\ w.parkOnArrive = u.parkOnArrive
         /\ \A ax \in Axes, by \in Int :
              LET w == PulseGuide(u, ax, by) IN
              w.atPark = u.atPark /\ w.slewing = u.slewing /\ w.rates = u.rates
              /\ w.tracking = u.tracking /\ w.parkOnArrive = u.parkOnArrive
         /\ \A ax \in Axes : \A v : Kept(u, SetTarget(u, ax, v))
<1>1. SettleRates(u) \in Telescope /\ Kept(u, SettleRates(u))
  BY SettleRatesTyped, SettleRatesFields
<1> QED
  BY <1>1 DEF SetRate, SetTrackingRate, SetTracking, PulseGuide, SetTarget, Kept, Telescope

LEMMA SyncStill ==
  ASSUME NEW u \in Telescope, ~u.atPark, StillWhenParked(u), NEW to \in Coordinates
  PROVE  StillWhenParked(SyncToCoordinates(u, to))
<1> DEFINE v == Targeted(u, to)
<1>1. v \in Telescope /\ ~v.atPark /\ StillWhenParked(v)
  BY TargetedTyped, TargetedFields, KeptStill DEF Kept
<1> HIDE DEF v
<1>2. StillWhenParked([v EXCEPT !.start = to, !.target = to, !.slewing = FALSE, !.rateAge = 0])
  BY <1>1 DEF StillWhenParked, Telescope
<1> QED
  BY <1>2 DEF SyncToCoordinates, v

LEMMA AltAzStill ==
  ASSUME NEW u \in Telescope, StillWhenParked(u)
  PROVE  StillWhenParked(SlewToAltAzAsync(u))
<1>1. \A here, to : LET v == [u EXCEPT !.start = here, !.target = to, !.slewing = TRUE, !.slewAge = 0,
                                       !.atPark = FALSE, !.atHome = FALSE] IN
        v.atPark = FALSE /\ v.parkOnArrive = u.parkOnArrive /\ v.rates = u.rates
  BY DEF Telescope
<1>2. LET v == SlewToAltAzAsync(u) IN
        v.atPark = FALSE /\ v.parkOnArrive = u.parkOnArrive /\ v.rates = u.rates
  BY <1>1 DEF SlewToAltAzAsync
<1> QED
  BY <1>2 DEF StillWhenParked

\* A member whose gate was right keeps the mount still while parked, and no
\* member but Unpark takes a parked mount out of its park.
LEMMA EffectStill ==
  ASSUME NEW u \in Telescope, StillWhenParked(u),
         NEW r \in Requests, ~ByTarget(r), Parkable(r) => ~u.atPark
  PROVE  Sound(u, r)
<1>1. CASE r.op = "park"
  BY <1>1, ParkStill DEF Effect, Sound
<1>2. CASE r.op = "unpark"
  BY <1>2 DEF Effect, Unpark, StillWhenParked, Telescope, Sound
<1>3. CASE r.op = "findhome"
  BY <1>3, FindHomeStill DEF Effect, Parkable, Sound
<1>4. CASE r.op = "abortslew"
  BY <1>4, AbortSlewStill DEF Effect, Parkable, Sound
<1>5. CASE r.op \in {"slewtoaltaz", "slewtoaltazasync"}
  BY <1>5, AltAzStill DEF Effect, Parkable, Sound
<1>6. CASE r.op \in {"slewtocoordinates", "slewtocoordinatesasync"}
  <2>1. r.to \in Coordinates
    BY <1>6, RequestKinds
  <2>2. Effect(u, r) = SlewToCoordinatesAsync(u, r.to)
    BY <1>6 DEF Effect
  <2> QED
    BY <1>6, <2>1, <2>2, TargetedTyped, SlewStill DEF SlewToCoordinatesAsync, Parkable, Sound
<1>7. CASE r.op = "synctocoordinates"
  <2>1. r.to \in Coordinates
    BY <1>7, RequestKinds
  <2> QED
    BY <1>7, <2>1, SyncStill DEF Effect, Parkable, Sound
<1>8. CASE r.op = "tracking"
  <2>1. r.on \in BOOLEAN
    BY <1>8, RequestKinds
  <2>2. Effect(u, r) = SetTracking(u, r.on)
    BY <1>8 DEF Effect
  <2> DEFINE w == SetTracking(u, r.on)
  <2>3. w.atPark = u.atPark /\ w.slewing = u.slewing /\ w.rates = u.rates
        /\ w.tracking = r.on /\ w.parkOnArrive = u.parkOnArrive
    BY <2>1, SettersKeep
  <2> HIDE DEF w
  <2>4. u.atPark => ~r.on
    BY <1>8, <2>1 DEF Parkable
  <2>5. StillWhenParked(w) /\ (u.atPark => w.atPark)
    BY <2>1, <2>3, <2>4 DEF StillWhenParked
  <2> QED
    BY <2>2, <2>5 DEF Sound, w
<1>9. CASE r.op = "trackingrate"
  <2>1. r.on \in BOOLEAN /\ Effect(u, r) = SetTrackingRate(u, r.on)
    BY <1>9, RequestKinds DEF Effect
  <2> QED
    BY <2>1, SettersKeep DEF StillWhenParked, Sound
<1>10. CASE r.op = "rate"
  <2>1. r.axis \in Axes /\ r.by \in Int /\ Effect(u, r) = SetRate(u, r.axis, r.by)
    BY <1>10, RequestKinds DEF Effect
  <2> QED
    BY <2>1, SettersKeep DEF StillWhenParked, Sound
<1>11. CASE r.op = "pulseguide"
  <2>1. r.axis \in Axes /\ r.by \in Int /\ Effect(u, r) = PulseGuide(u, r.axis, r.by)
    BY <1>11, RequestKinds DEF Effect
  <2> QED
    BY <2>1, SettersKeep DEF StillWhenParked, Sound
<1>12. CASE r.op = "moveaxis"
  <2>1. r.axis \in Axes /\ r.by \in Int /\ Effect(u, r) = MoveAxis(u, r.axis, r.by)
    BY <1>12, RequestKinds DEF Effect
  <2>2. ~u.atPark
    BY <1>12 DEF Parkable
  <2> QED
    BY <2>1, <2>2, MoveAxisStill DEF Sound
<1>13. CASE r.op = "target"
  <2>1. PICK ax \in Axes, c \in Targets : r = [op |-> "target", axis |-> ax, by |-> c[ax]]
    BY <1>13, RequestKinds
  <2>2. Effect(u, r) = SetTarget(u, ax, c[ax])
    BY <2>1 DEF Effect
  <2> QED
    BY <2>2, SettersKeep, KeptStill DEF Sound
<1>14. r.op \in {"park", "unpark", "findhome", "abortslew", "slewtoaltaz", "slewtoaltazasync",
                 "slewtocoordinates", "slewtocoordinatesasync", "synctocoordinates", "tracking",
                 "trackingrate", "rate", "target", "pulseguide", "moveaxis"}
  BY RequestKinds DEF ByTarget
<1> QED
  BY <1>1, <1>2, <1>3, <1>4, <1>5, <1>6, <1>7, <1>8, <1>9, <1>10, <1>11, <1>12, <1>13, <1>14

\* A request is overtaken: its gate found the mount unparked and let it pass, and
\* the mount was parked before its member ran.
Overtaken(c) == t.atPark /\ Parkable(call[c]) /\ Member(c)

\* Every step but an overtaken request's keeps a parked mount still, and parked
\* unless it is told to unpark.
LEMMA StirStep ==
  ASSUME TypeInv, StillWhenParked(t), [Next]_vars, \A c \in Clients : ~Overtaken(c)
  PROVE  /\ StillWhenParked(t')
         /\ t.atPark /\ ~t'.atPark => \E c \in Clients : pc[c] = "call" /\ call[c].op = "unpark"
<1>t. t \in Telescope
  BY DEF TypeInv, TypeOK
<1>1. ASSUME NEW c \in Clients, NEW r \in Calls, Gate(c, r)
      PROVE  StillWhenParked(t') /\ (t.atPark => t'.atPark)
  <2>1. t' = t \/ t' = Settled(t)
    BY <1>1 DEF Gate
  <2> QED
    BY <1>t, <2>1, SettledStill
<1>2. ASSUME NEW c \in Clients, ReadTarget(c)
      PROVE  StillWhenParked(t') /\ (t.atPark => t'.atPark)
  BY <1>2 DEF ReadTarget
<1>3. ASSUME NEW c \in Clients, Member(c)
      PROVE  /\ StillWhenParked(t')
             /\ t.atPark /\ ~t'.atPark => pc[c] = "call" /\ call[c].op = "unpark"
  <2>1. pc[c] = "call" /\ ~ByTarget(call[c]) /\ t' = Effect(t, call[c]) /\ call[c] \in Requests
    BY <1>3 DEF Member, TypeInv, InHand
  <2>2. Parkable(call[c]) => ~t.atPark
    BY <1>3 DEF Overtaken
  <2>3. Sound(t, call[c])
    BY <1>t, <2>1, <2>2, EffectStill
  <2> QED
    BY <2>1, <2>3 DEF Sound
<1>4. ASSUME NEW c \in Clients, WaitSlewDone(c)
      PROVE  StillWhenParked(t') /\ (t.atPark => t'.atPark)
  BY <1>4, <1>t, SettledStill DEF WaitSlewDone
<1>5. ASSUME NEW c \in Clients, SetTargets(c)
      PROVE  StillWhenParked(t') /\ (t.atPark => t'.atPark)
  <2>1. Kept(t, t')
    BY <1>5, <1>t, SettersKeep DEF SetTargets, Axes
  <2> QED
    BY <2>1, KeptStill
<1>6. ASSUME NEW c \in Clients, Read(c)
      PROVE  StillWhenParked(t') /\ (t.atPark => t'.atPark)
  BY <1>6, <1>t, SettledStill DEF Read
<1>7. ASSUME Tick
      PROVE  StillWhenParked(t') /\ (t.atPark => t'.atPark)
  <2>1. \A i, j, k : LET v == [t EXCEPT !.slewAge = i, !.axisAge = j, !.rateAge = k, !.pulse = FALSE] IN
          v.slewing = t.slewing /\ v.rates = t.rates /\ v.tracking = t.tracking
          /\ v.atPark = t.atPark /\ v.parkOnArrive = t.parkOnArrive
    BY <1>t DEF Telescope
  <2>2. t'.slewing = t.slewing /\ t'.rates = t.rates /\ t'.tracking = t.tracking
        /\ t'.atPark = t.atPark /\ t'.parkOnArrive = t.parkOnArrive
    BY <1>7, <2>1 DEF Tick
  <2> QED
    BY <2>2 DEF StillWhenParked
<1>8. CASE UNCHANGED vars
  BY <1>8 DEF vars
<1> QED
  BY <1>1, <1>2, <1>3, <1>4, <1>5, <1>6, <1>7, <1>8 DEF Next

\* The new telescope is not parked.
LEMMA StillInit == Init => TypeInv /\ StillWhenParked(t)
<1> SUFFICES ASSUME Init PROVE TypeInv /\ StillWhenParked(t)
  OBVIOUS
<1>1. t = New
  BY DEF Init
<1> QED
  BY <1>1, InitTyped DEF New, StillWhenParked

LEMMA StillParked == StillWhenParked(t) => ParkedIsStill
BY DEF StillWhenParked, ParkedIsStill, Moving

\* Any number of clients, whatever they ask, for as long as no request is
\* overtaken between its gate and its member: a parked mount does not slew, moves
\* no axis and does not track, and only Unpark unparks it.
THEOREM ParkHolds ==
  Spec /\ [][\A c \in Clients : ~Overtaken(c)]_vars => []ParkedIsStill /\ OnlyUnparkUnparks
<1> DEFINE Inv == TypeInv /\ StillWhenParked(t)
           Quiet == \A c \in Clients : ~Overtaken(c)
           Unparked == t.atPark /\ ~t'.atPark => \E c \in Clients : pc[c] = "call" /\ call[c].op = "unpark"
<1>1. Inv /\ [Next]_vars /\ [Quiet]_vars => Inv' /\ [Unparked]_vars
  <2> SUFFICES ASSUME Inv, [Next]_vars, [Quiet]_vars PROVE Inv' /\ [Unparked]_vars
    OBVIOUS
  <2>1. CASE Quiet
    BY <2>1, StirStep, StepTyped
  <2>2. CASE UNCHANGED vars
    <3>1. StillWhenParked(t')
      BY <2>2 DEF vars
    <3> QED
      BY <2>2, <3>1, StepTyped
  <2> QED
    BY <2>1, <2>2
<1>2. Inv => ParkedIsStill
  BY StillParked
<1>3. Init => Inv
  BY StillInit
<1> QED
  BY <1>1, <1>2, <1>3, PTL DEF Spec, OnlyUnparkUnparks

\* And nothing else stirs it: the step that sets a parked mount moving is always
\* a request that was overtaken, never the clock, a read, a wait or a setter.
THEOREM OnlyTheOvertakenStir ==
  Spec => [][StillWhenParked(t) /\ ~StillWhenParked(t') => \E c \in Clients : Overtaken(c)]_vars
<1>1. TypeInv /\ [Next]_vars
      => [StillWhenParked(t) /\ ~StillWhenParked(t') => \E c \in Clients : Overtaken(c)]_vars
  BY StirStep
<1> QED
  BY <1>1, InitTyped, StepTyped, PTL DEF Spec

\* There is one client.
OneClient == \A c, d \in Clients : c = d

\* A request in hand whose gate asked AtPark finds the mount unparked.
GateHolds == \A c \in Clients : pc[c] = "call" /\ Parkable(call[c]) => ~t.atPark

ParkInv == TypeInv /\ StillWhenParked(t) /\ GateHolds

\* While its request is at the gate's other side, the only client does nothing else.
LEMMA ParkStep ==
  ASSUME OneClient, ParkInv, [Next]_vars
  PROVE  ParkInv' /\ \A c \in Clients : ~Overtaken(c)
<1> USE DEF ParkInv
<1>0. \A c \in Clients : ~Overtaken(c)
  BY DEF GateHolds, Overtaken, Member
<1>t. TypeInv' /\ StillWhenParked(t')
  BY <1>0, StepTyped, StirStep
<1>1. ASSUME NEW c \in Clients, NEW r \in Calls, Gate(c, r) PROVE GateHolds'
  <2>1. \A d \in Clients : call'[d] = r
    BY <1>1 DEF Gate, TypeInv, InHand, OneClient
  <2> QED
    BY <1>1, <2>1 DEF Gate, GateHolds, Parkable
<1>2. ASSUME NEW c \in Clients, ReadTarget(c) PROVE GateHolds'
  <2>1. call[c].op \in {"slewtotarget", "slewtotargetasync", "synctotarget"} /\ pc[c] = "call" /\ t' = t
    BY <1>2 DEF ReadTarget, ByTarget
  <2>2. ~t.atPark
    BY <2>1 DEF GateHolds, Parkable
  <2> QED
    BY <2>1, <2>2 DEF GateHolds
<1>3. ASSUME NEW c \in Clients, Member(c) PROVE GateHolds'
  <2>1. call[c] \in Requests
    BY <1>3 DEF Member, TypeInv, InHand
  <2>2. \A d \in Clients : pc'[d] # "call"
    BY <1>3, <2>1, ToldTyped DEF Member, Proceed, TypeInv, TypeOK, OneClient
  <2> QED
    BY <2>2 DEF GateHolds
<1>4. ASSUME NEW c \in Clients, WaitSlewDone(c) PROVE GateHolds'
  <2>1. call[c] \in Requests
    BY <1>4 DEF WaitSlewDone, TypeInv, InHand
  <2>2. \A d \in Clients : pc'[d] # "call"
    BY <1>4, <2>1, ToldTyped DEF WaitSlewDone, Proceed, TypeInv, TypeOK, OneClient
  <2> QED
    BY <2>2 DEF GateHolds
<1>5. ASSUME NEW c \in Clients, SetTargets(c) PROVE GateHolds'
  <2>1. \A d \in Clients : pc'[d] # "call"
    BY <1>5 DEF SetTargets, Proceed, TypeInv, TypeOK, OneClient
  <2> QED
    BY <2>1 DEF GateHolds
<1>6. ASSUME NEW c \in Clients, Read(c) PROVE GateHolds'
  <2>1. \A d \in Clients : pc'[d] # "call"
    BY <1>6 DEF Read, OneClient
  <2> QED
    BY <2>1 DEF GateHolds
<1>7. ASSUME Tick PROVE GateHolds'
  <2>1. t'.atPark = t.atPark
    BY <1>7 DEF Tick, TypeInv, TypeOK, Telescope
  <2>2. UNCHANGED <<pc, call>>
    BY <1>7 DEF Tick
  <2> QED
    BY <2>1, <2>2 DEF GateHolds
<1>8. ASSUME UNCHANGED vars PROVE GateHolds'
  <2>1. t'.atPark = t.atPark /\ UNCHANGED <<pc, call>>
    BY <1>8 DEF vars
  <2> QED
    BY <2>1 DEF GateHolds
<1> QED
  BY <1>0, <1>t, <1>1, <1>2, <1>3, <1>4, <1>5, <1>6, <1>7, <1>8 DEF Next

LEMMA ParkInit == Init => ParkInv
<1> SUFFICES ASSUME Init PROVE GateHolds
  BY StillInit DEF ParkInv
<1> QED
  BY DEF Init, GateHolds

\* One client never overtakes itself.
LEMMA NeverOvertaken == ASSUME OneClient PROVE Spec => [][\A c \in Clients : ~Overtaken(c)]_vars
<1>1. ParkInv /\ [Next]_vars => ParkInv' /\ [\A c \in Clients : ~Overtaken(c)]_vars
  BY ParkStep
<1> QED
  BY <1>1, ParkInit, PTL DEF Spec

\* With one client, whatever it asks: a parked mount does not slew, moves no
\* axis and does not track.
THEOREM ParkedStaysStill == ASSUME OneClient PROVE Spec => []ParkedIsStill
BY NeverOvertaken, ParkHolds, PTL

\* With one client, no slew takes a parked mount away: only Unpark unparks.
THEOREM UnparkUnparks == ASSUME OneClient PROVE Spec => OnlyUnparkUnparks
BY NeverOvertaken, ParkHolds, PTL

-----------------------------------------------------------------------------
(* SlewArrives *)

\* A slew that has run for as long as any may take has arrived.
LEMMA FarReached ==
  ASSUME NEW u \in Telescope, u.slewAge = Max({RACircle, MaxDec})
  PROVE  Arrived(u)
<1>1. \A a, b \in Nat : Max({a, b}) \in Nat /\ Max({a, b}) >= a /\ Max({a, b}) >= b
  <2> SUFFICES ASSUME NEW a \in Nat, NEW b \in Nat
               PROVE  Max({a, b}) \in Nat /\ Max({a, b}) >= a /\ Max({a, b}) >= b
    OBVIOUS
  <2>1. \E x \in {a, b} : \A y \in {a, b} : x >= y
    OBVIOUS
  <2> QED
    BY <2>1 DEF Max
<1>2. u.slewAge \in Nat /\ u.slewAge >= RACircle /\ u.slewAge >= MaxDec
  BY <1>1, Geometry
<1>3. /\ u.start["ra"] \in 0..(RACircle - 1) /\ u.target["ra"] \in 0..(RACircle - 1)
      /\ u.start["dec"] \in 0..MaxDec /\ u.target["dec"] \in 0..MaxDec
  BY DEF Telescope, Coordinates
<1> QED
  BY <1>2, <1>3, Geometry DEF Arrived, Reached, Distance, Axes

\* While a client waits for its slew, the mount goes where the slew was to go,
\* and has been going for as long as the client waited.
OnItsWay ==
  \A c \in Clients : pc[c] = "wait" /\ call[c].op = "slewtocoordinates" =>
    /\ t.rates = Still /\ t.target = call[c].to
    /\ t.slewing \/ t.start = call[c].to
    /\ waited[c] <= t.slewAge \/ Arrived(t) \/ ~t.slewing

\* How the wait of a coordinate slew ends.
Returned(c) ==
  /\ ~Moving(t') /\ t'.target = call[c].to
  /\ IF t'.slewing THEN \E ax \in Axes : Distance(t', ax) \notin -Patience..Patience
     ELSE t'.start = call[c].to

LEMMA ArriveStep ==
  ASSUME OneClient, TypeInv, OnItsWay, [Next]_vars
  PROVE  /\ OnItsWay'
         /\ \A c \in Clients : pc[c] = "wait" /\ pc'[c] # "wait" /\ call[c].op = "slewtocoordinates" => Returned(c)
<1> DEFINE Arrives(c) == pc[c] = "wait" /\ pc'[c] # "wait" /\ call[c].op = "slewtocoordinates" => Returned(c)
<1> SUFFICES OnItsWay' /\ \A c \in Clients : Arrives(c)
  OBVIOUS
<1>t. t \in Telescope /\ t' \in Telescope
  BY StepTyped DEF TypeInv, TypeOK
<1>1. ASSUME NEW c \in Clients, Member(c) PROVE OnItsWay' /\ \A d \in Clients : Arrives(d)
  <2>1. pc[c] = "call" /\ t' = Effect(t, call[c]) /\ call[c] \in Requests
    BY <1>1 DEF Member, TypeInv, InHand
  <2>2. \A d \in Clients : d = c
    BY DEF OneClient
  <2>3. CASE call[c].op = "slewtocoordinates"
    <3> DEFINE r == call[c]
               u == Targeted(t, r.to)
               v == BeginSlew(u, r.to)
    <3>1. r.to \in Coordinates
      BY <2>1, <2>3, RequestKinds
    <3>2. u \in Telescope
      BY <1>t, <3>1, TargetedTyped
    <3> HIDE DEF u
    <3>3. v.rates = Still /\ v.target = r.to /\ (v.slewing \/ v.start = r.to)
      BY <3>1, <3>2, BeginSlewFields
    <3>4. t' = v
      BY <2>1, <2>3 DEF Effect, SlewToCoordinatesAsync, u
    <3>5. call'[c] = call[c] /\ Blocking(r) /\ waited'[c] = 0
      BY <1>1, <2>3 DEF Member, Proceed, Blocking, TypeInv, TypeOK
    <3>6. waited'[c] <= t'.slewAge
      BY <1>t, <3>5 DEF Telescope
    <3> HIDE DEF v, r
    <3> QED
      BY <2>1, <2>2, <3>3, <3>4, <3>5, <3>6 DEF OnItsWay, r
  <2>4. CASE call[c].op # "slewtocoordinates"
    <3>1. pc'[c] = "wait" => call'[c] = call[c]
      BY <1>1, <2>1, ToldTyped DEF Member, Proceed, TypeInv, TypeOK
    <3> QED
      BY <2>1, <2>2, <2>4, <3>1 DEF OnItsWay
  <2> QED
    BY <2>3, <2>4
<1>2. ASSUME NEW c \in Clients, WaitSlewDone(c) PROVE OnItsWay' /\ \A d \in Clients : Arrives(d)
  <2>1. pc[c] = "wait" /\ t' = Settled(t) /\ Clients = {c} /\ call[c] \in Requests
    BY <1>2 DEF WaitSlewDone, OneClient, TypeInv, InHand
  <2>2. pc'[c] # "wait"
    BY <1>2, <2>1, ToldTyped DEF WaitSlewDone, Proceed, TypeInv, TypeOK
  <2>3. CASE call[c].op = "slewtocoordinates"
    <3>1. t.rates = Still /\ t.target = call[c].to /\ (t.slewing \/ t.start = call[c].to)
      BY <2>1, <2>3 DEF OnItsWay
    <3>2. t'.rates = Still
      BY <1>t, <2>1, <3>1, SettledFields
    <3>3. ASSUME t'.slewing PROVE Returned(c)
      <4>1. t' = t /\ ~Arrived(t)
        BY <1>t, <2>1, <3>3 DEF Settled, Telescope
      <4>2. Patience <= t.slewAge
        BY <1>2, <3>3, <2>1, <2>3, <4>1 DEF WaitSlewDone, OnItsWay
      <4>3. PICK ax \in Axes : Distance(t, ax) \notin -t.slewAge..t.slewAge
        BY <4>1 DEF Arrived, Reached
      <4>4. Distance(t, ax) \notin -Patience..Patience
        BY <1>t, <4>2, <4>3, Geometry DEF Telescope
      <4> QED
        BY <3>1, <3>2, <3>3, <4>1, <4>4 DEF Returned, Moving
    <3>4. ASSUME ~t'.slewing PROVE Returned(c)
      <4>1. t'.start = call[c].to /\ t'.target = call[c].to
        <5>1. CASE t' = t
          BY <3>1, <3>4, <5>1
        <5>2. CASE t' # t
          BY <1>t, <2>1, <3>1, <5>2, SettledFields
        <5> QED
          BY <5>1, <5>2
      <4> QED
        BY <3>2, <3>4, <4>1 DEF Returned, Moving
    <3>5. Returned(c)
      BY <3>3, <3>4
    <3> QED
      BY <2>1, <2>2, <3>5 DEF OnItsWay
  <2> QED
    BY <2>1, <2>2, <2>3 DEF OnItsWay
<1>3. ASSUME Tick PROVE OnItsWay' /\ \A d \in Clients : Arrives(d)
  <2>1. \A i, j, k : LET v == [t EXCEPT !.slewAge = i, !.axisAge = j, !.rateAge = k, !.pulse = FALSE] IN
          v.slewing = t.slewing /\ v.rates = t.rates /\ v.start = t.start /\ v.target = t.target
    BY <1>t DEF Telescope
  <2>2. t'.slewing = t.slewing /\ t'.rates = t.rates /\ t'.start = t.start /\ t'.target = t.target
    BY <1>3, <2>1 DEF Tick
  <2>3. t'.slewAge = IF t.slewing THEN Min({t.slewAge + 1, Max({RACircle, MaxDec})}) ELSE 0
    BY <1>t, <1>3 DEF Tick, Telescope
  <2>4. ASSUME NEW c \in Clients, t.slewing, waited[c] <= t.slewAge \/ Arrived(t)
        PROVE  waited'[c] <= t'.slewAge \/ Arrived(t')
    <3> DEFINE far == Max({RACircle, MaxDec})
    <3>1. Min({t.slewAge + 1, far}) \in {t.slewAge + 1, far}
      <4>1. far \in Nat /\ t.slewAge + 1 \in Nat
        BY <1>t, Geometry, LargerOfTwo DEF Telescope
      <4>2. \E x \in {t.slewAge + 1, far} : \A y \in {t.slewAge + 1, far} : x <= y
        BY <4>1
      <4> QED
        BY <4>2 DEF Min
    <3>2. CASE t'.slewAge = far
      BY <1>t, <3>2, FarReached
    <3>3. CASE t'.slewAge = t.slewAge + 1
      <4>1. waited'[c] <= waited[c] + 1
        BY <1>3 DEF Tick, TypeInv, TypeOK
      <4>2. waited[c] \in Nat /\ waited'[c] \in Nat /\ t.slewAge \in Nat
        BY <1>t, StepTyped DEF TypeInv, TypeOK, Telescope
      <4>3. CASE waited[c] <= t.slewAge
        BY <3>3, <4>1, <4>2, <4>3
      <4>4. CASE Arrived(t)
        <5>1. \A ax \in Axes : Distance(t', ax) = Distance(t, ax)
          BY <2>2 DEF Distance
        <5> QED
          BY <3>3, <4>2, <4>4, <5>1 DEF Arrived, Reached
      <4> QED
        BY <2>4, <4>3, <4>4
    <3> QED
      BY <2>3, <2>4, <3>1, <3>2, <3>3
  <2>5. UNCHANGED <<pc, call>>
    BY <1>3 DEF Tick
  <2> QED
    BY <2>2, <2>4, <2>5 DEF OnItsWay
<1>4. ASSUME NEW c \in Clients, Read(c) \/ SetTargets(c) \/ ReadTarget(c) \/ \E r \in Calls : Gate(c, r)
      PROVE  OnItsWay' /\ \A d \in Clients : Arrives(d)
  <2>1. \A d \in Clients : d = c
    BY DEF OneClient
  <2>2. pc[c] # "wait" /\ pc'[c] # "wait"
    BY <1>4 DEF Read, SetTargets, ReadTarget, Gate, Proceed, TypeInv, TypeOK
  <2> QED
    BY <2>1, <2>2 DEF OnItsWay
<1>5. CASE UNCHANGED vars
  BY <1>5 DEF vars, OnItsWay
<1> QED
  BY <1>1, <1>2, <1>3, <1>4, <1>5 DEF Next

\* With one client, for any sky, any rates and any length of the wait: a
\* synchronous coordinate slew returns with the mount at rest on the coordinates
\* it was given, or on its way there if no wait as long as 30 s suffices.
THEOREM SlewsArrive == ASSUME OneClient PROVE Spec => SlewArrives
<1>1. Init => OnItsWay
  BY DEF Init, OnItsWay
<1>2. TypeInv /\ OnItsWay /\ [Next]_vars => OnItsWay'
  BY ArriveStep
<1>3. TypeInv /\ OnItsWay /\ [Next]_vars
      => [\A c \in Clients : pc[c] = "wait" /\ pc'[c] # "wait" /\ call[c].op = "slewtocoordinates" =>
            Returned(c)]_vars
  BY ArriveStep
<1> QED
  BY <1>1, <1>2, <1>3, InitTyped, StepTyped, PTL DEF Spec, SlewArrives, Returned

-----------------------------------------------------------------------------
(* Continuous *)

\* Two telescopes alike in all that Pointing reads while no axis moves.
LEMMA AlikePointing ==
  ASSUME NEW u, NEW v, Kept(u, v), ~Moving(u), v.rateAge = u.rateAge,
         v.start = u.start, v.target = u.target
  PROVE  Pointing(v) = Pointing(u)
BY DEF Kept, Pointing, Moving, Drifting, Offset, Underway, Reached, Distance

\* What changes of tracking or of the offsets mean once the rates are settled: nothing yet.
LEMMA OffsetNotYet ==
  ASSUME NEW u \in Telescope, NEW v \in Telescope, ~Moving(u), v.rates = u.rates,
         u.rateAge = 0, v.rateAge = 0, v.start = u.start, v.target = u.target,
         v.slewing = u.slewing, v.slewAge = u.slewAge
  PROVE  Pointing(v) = Pointing(u)
<1>1. ~Moving(v)
  BY DEF Moving
<1>2. CASE u.slewing
  <2>1. Pointing(u) = Underway(u) /\ Pointing(v) = Underway(v)
    BY <1>1, <1>2 DEF Pointing, Drifting, Offset
  <2> QED
    BY <2>1 DEF Underway, Reached, Distance
<1>3. CASE ~u.slewing
  BY <1>1, <1>3, PointingAtStart
<1> QED
  BY <1>2, <1>3

LEMMA SettledPointing ==
  ASSUME NEW u \in Telescope, ~Moving(u)
  PROVE  Pointing(Settled(u)) = Pointing(u)
<1> DEFINE v == Settled(u)
<1>1. v \in Telescope
  BY SettledTyped
<1>2. v.rates = u.rates
      /\ (v # u => v.start = u.target /\ ~v.slewing /\ v.rateAge = 0 /\ Arrived(u) /\ u.slewing)
  BY SettledFields
<1> HIDE DEF v
<1>3. CASE v # u
  <2>1. Pointing(v) = u.target
    BY <1>1, <1>2, <1>3, PointingAtStart DEF Moving
  <2>2. Pointing(u) = [ax \in Axes |-> u.target[ax]]
    BY <1>2, <1>3 DEF Pointing, Drifting, Offset, Underway, Arrived
  <2>3. u.target \in Coordinates
    BY DEF Telescope
  <2> QED
    BY <2>1, <2>2, <2>3, CoordinatesByAxis DEF v
<1>4. CASE v = u
  BY <1>4 DEF v
<1> QED
  BY <1>3, <1>4

\* A slew that has just begun has not moved the mount.
LEMMA BeginSlewPointing ==
  ASSUME NEW u \in Telescope, ~Moving(u), NEW to \in Coordinates
  PROVE  Pointing(BeginSlew(u, to)) = Pointing(u)
<1> DEFINE v == BeginSlew(u, to)
<1>1. /\ v \in Telescope /\ v.rates = Still /\ v.rateAge = 0 /\ v.slewAge = 0 /\ v.start = Pointing(u)
  BY BeginSlewTyped, BeginSlewFields
<1> HIDE DEF v
<1>2. Pointing(v) = v.start
  BY <1>1, PointingAtStart DEF Moving
<1> QED
  BY <1>1, <1>2 DEF v

LEMMA ParkPointing ==
  ASSUME NEW u \in Telescope, ~Moving(u)
  PROVE  Pointing(Park(u)) = Pointing(u)
<1>1. CASE u.atPark
  BY <1>1 DEF Park
<1>2. CASE ~u.atPark
  <2> DEFINE v == BeginSlew(u, Pole)
             w == [v EXCEPT !.parkOnArrive = TRUE, !.atPark = ~v.slewing,
                            !.tracking = v.tracking /\ v.slewing]
  <2>1. v \in Telescope /\ v.rates = Still /\ v.rateAge = 0 /\ v.slewAge = 0 /\ v.start = Pointing(u)
    BY PoleTyped, BeginSlewTyped, BeginSlewFields
  <2>2. w = Park(u)
    BY <1>2 DEF Park
  <2>3. w \in Telescope
    BY <2>2, ParkTyped
  <2> HIDE DEF v
  <2>4. w.rates = v.rates /\ w.rateAge = v.rateAge /\ w.slewAge = v.slewAge /\ w.start = v.start
    BY <2>1 DEF Telescope
  <2> HIDE DEF w
  <2> QED
    BY <2>1, <2>2, <2>3, <2>4, PointingAtStart DEF Moving
<1> QED
  BY <1>1, <1>2

LEMMA FindHomePointing ==
  ASSUME NEW u \in Telescope, ~Moving(u)
  PROVE  Pointing(FindHome(u)) = Pointing(u)
<1> DEFINE v == BeginSlew(u, Pole)
           w == [v EXCEPT !.homeOnArrive = TRUE, !.atHome = ~v.slewing]
<1>1. v \in Telescope /\ v.rates = Still /\ v.rateAge = 0 /\ v.slewAge = 0 /\ v.start = Pointing(u)
  BY PoleTyped, BeginSlewTyped, BeginSlewFields
<1>2. w = FindHome(u)
  BY DEF FindHome
<1>3. w \in Telescope
  BY <1>2, FindHomeTyped
<1> HIDE DEF v
<1>4. w.rates = v.rates /\ w.rateAge = v.rateAge /\ w.slewAge = v.slewAge /\ w.start = v.start
  BY <1>1 DEF Telescope
<1> HIDE DEF w
<1> QED
  BY <1>1, <1>2, <1>3, <1>4, PointingAtStart DEF Moving

LEMMA AbortSlewPointing ==
  ASSUME NEW u \in Telescope, ~Moving(u)
  PROVE  Pointing(AbortSlew(u)) = Pointing(u)
<1> DEFINE s == Settled(u)
           b == [SettleAxes(s) EXCEPT !.rates = Still]
           v == SettleRates(b)
           w == Rested(v)
           x == [w EXCEPT !.slewing = FALSE, !.parkOnArrive = FALSE, !.homeOnArrive = FALSE]
<1>1. s \in Telescope /\ s.rates = u.rates /\ Pointing(s) = Pointing(u)
  BY SettledTyped, SettledFields, SettledPointing
<1> HIDE DEF s
<1>2. b = s
  <2>1. b = [s EXCEPT !.rates = Still] /\ s.rates = Still
    BY <1>1, SettleAxesFields DEF Moving
  <2> QED
    BY <1>1, <2>1 DEF Telescope
<1> HIDE DEF b
<1>3. v \in Telescope /\ v.rates = Still /\ v.rateAge = 0 /\ Pointing(v) = Pointing(u)
  BY <1>1, <1>2, SettleRatesTyped, SettleRatesFields, SettleRatesPointing DEF Moving, Kept
<1> HIDE DEF v
<1>4. w \in Telescope /\ w.rates = Still /\ w.rateAge = 0 /\ w.start = Pointing(u)
  BY <1>3, RestedTyped, RestedFields DEF Kept
<1> HIDE DEF w
<1>5. x \in Telescope /\ x.rates = Still /\ x.rateAge = 0 /\ x.start = Pointing(u) /\ ~x.slewing
  BY <1>4 DEF Telescope
<1> HIDE DEF x
<1>6. Pointing(x) = Pointing(u)
  BY <1>5, PointingAtStart DEF Moving
<1> QED
  BY <1>6 DEF AbortSlew, x, w, v, b, s

LEMMA AltAzPointing ==
  ASSUME NEW u \in Telescope, ~Moving(u)
  PROVE  Pointing(SlewToAltAzAsync(u)) = Pointing(u)
<1> DEFINE x == SlewToAltAzAsync(u)
<1>1. x \in Telescope
  BY SlewToAltAzTyped
<1>2. \A here, to : LET v == [u EXCEPT !.start = here, !.target = to, !.slewing = TRUE, !.slewAge = 0,
                                       !.atPark = FALSE, !.atHome = FALSE] IN
        v.start = here /\ v.rates = u.rates /\ v.slewAge = 0 /\ v.slewing = TRUE
  BY DEF Telescope
<1>3. x.start = Pointing(u) /\ x.rates = u.rates /\ x.slewAge = 0 /\ x.slewing
  BY <1>2 DEF SlewToAltAzAsync
<1> HIDE DEF x
<1>4. Pointing(x) = x.start
  BY <1>1, <1>3, PointingAtStart DEF Moving
<1> QED
  BY <1>3, <1>4 DEF x

LEMMA SettersPointing ==
  ASSUME NEW u \in Telescope, ~Moving(u)
  PROVE  /\ \A on \in BOOLEAN : Pointing(SetTracking(u, on)) = Pointing(u)
         /\ \A on \in BOOLEAN : Pointing(SetTrackingRate(u, on)) = Pointing(u)
         /\ \A ax \in Axes, v \in Int : Pointing(SetRate(u, ax, v)) = Pointing(u)
<1> DEFINE s == SettleRates(u)
<1>1. s \in Telescope /\ s.rates = u.rates /\ s.rateAge = 0 /\ Pointing(s) = Pointing(u)
  BY SettleRatesTyped, SettleRatesFields, SettleRatesPointing DEF Kept
<1> DEFINE Same(w) == w.rates = s.rates /\ w.rateAge = s.rateAge /\ w.start = s.start
                      /\ w.target = s.target /\ w.slewing = s.slewing /\ w.slewAge = s.slewAge
<1> HIDE DEF s
<1>2. \A w \in Telescope : Same(w) => Pointing(w) = Pointing(u)
  BY <1>1, OffsetNotYet DEF Moving
<1>3. ASSUME NEW on \in BOOLEAN PROVE Same(SetTracking(u, on))
  <2>1. SetTracking(u, on) = [s EXCEPT !.tracking = on]
    BY DEF SetTracking, s
  <2> QED
    BY <1>1, <2>1 DEF Telescope
<1>4. ASSUME NEW on \in BOOLEAN PROVE Same(SetTrackingRate(u, on))
  <2>1. SetTrackingRate(u, on)
          = [s EXCEPT !.sidereal = on, !.offset = IF on = u.sidereal THEN s.offset ELSE Still]
    BY DEF SetTrackingRate, s
  <2> QED
    BY <1>1, <2>1 DEF Telescope
<1>5. ASSUME NEW ax \in Axes, NEW v \in Int PROVE Same(SetRate(u, ax, v))
  <2>1. SetRate(u, ax, v) = [s EXCEPT !.offset[ax] = v]
    BY DEF SetRate, s
  <2> QED
    BY <1>1, <2>1 DEF Telescope
<1> HIDE DEF Same
<1> QED
  BY <1>2, <1>3, <1>4, <1>5, SetTrackingTyped, SetTrackingRateTyped, SetRateTyped

LEMMA SetTargetPointing ==
  ASSUME NEW u \in Telescope, ~Moving(u), NEW ax \in Axes, NEW v
  PROVE  Pointing(SetTarget(u, ax, v)) = Pointing(u)
<1> DEFINE w == SetTarget(u, ax, v)
<1>1. Kept(u, w) /\ w.rateAge = u.rateAge /\ w.start = u.start /\ w.target = u.target
  BY DEF SetTarget, Kept, Telescope
<1> HIDE DEF w
<1>2. Pointing(w) = Pointing(u)
  BY <1>1, AlikePointing
<1> QED
  BY <1>2 DEF w

\* An axis that has just begun to move has not moved the mount.
LEMMA MoveAxisPointing ==
  ASSUME NEW u \in Telescope, ~Moving(u), NEW ax \in Axes, NEW rate \in Int
  PROVE  Pointing(MoveAxis(u, ax, rate)) = Pointing(u)
<1> DEFINE v == SettleRates(u)
           w == [v EXCEPT !.start = Pointing(v), !.slewing = FALSE,
                          !.parkOnArrive = FALSE, !.homeOnArrive = FALSE]
           x == MoveAxis(u, ax, rate)
<1>1. v \in Telescope /\ v.rates = Still /\ v.rateAge = 0 /\ Pointing(v) = Pointing(u)
      /\ Pointing(v) \in Coordinates
  BY SettleRatesTyped, SettleRatesFields, SettleRatesPointing, PointingTyped DEF Kept, Moving
<1>x. x \in Telescope /\ x = [SettleAxes(w) EXCEPT !.rates[ax] = rate, !.axisAge = 0, !.atHome = @ /\ rate = 0]
  BY MoveAxisTyped DEF MoveAxis
<1> HIDE DEF v, x
<1>2. w \in Telescope /\ w.rates = Still /\ w.rateAge = 0 /\ w.start = Pointing(u) /\ ~w.slewing
  BY <1>1 DEF Telescope
<1> HIDE DEF w
<1>3. SettleAxes(w) = w
  BY <1>2, SettleAxesFields DEF Moving
<1>4. \A h : LET y == [w EXCEPT !.rates[ax] = rate, !.axisAge = 0, !.atHome = h] IN
        y.axisAge = 0 /\ y.rateAge = w.rateAge /\ y.start = w.start /\ y.slewing = w.slewing
  BY <1>2 DEF Telescope
<1>5. x.axisAge = 0 /\ x.rateAge = 0 /\ x.start = Pointing(u) /\ ~x.slewing
  BY <1>x, <1>2, <1>3, <1>4
<1>6. CASE Moving(x)
  <2>1. Pointing(x) = Moved(x.start, x.rates, 0)
    BY <1>5, <1>6 DEF Pointing
  <2>2. x.start \in Coordinates /\ x.rates \in [Axes -> Int]
    BY <1>x DEF Telescope
  <2> QED
    BY <1>5, <2>1, <2>2, MovedNowhere DEF x
<1>7. CASE ~Moving(x)
  BY <1>x, <1>5, <1>7, PointingAtStart DEF x
<1> QED
  BY <1>6, <1>7

LEMMA EffectPointing ==
  ASSUME NEW u \in Telescope, ~Moving(u), NEW r \in Requests, ~ByTarget(r),
         r.op \notin {"synctocoordinates", "pulseguide"}
  PROVE  Pointing(Effect(u, r)) = Pointing(u)
<1>1. CASE r.op = "park"
  BY <1>1, ParkPointing DEF Effect
<1>2. CASE r.op = "unpark"
  <2> DEFINE v == [u EXCEPT !.atPark = FALSE]
  <2>1. /\ v.slewing = u.slewing /\ v.slewAge = u.slewAge /\ v.rates = u.rates
        /\ v.tracking = u.tracking /\ v.sidereal = u.sidereal /\ v.offset = u.offset
        /\ v.rateAge = u.rateAge /\ v.start = u.start /\ v.target = u.target
    BY DEF Telescope
  <2> HIDE DEF v
  <2>2. Pointing(v) = Pointing(u)
    BY <2>1 DEF Pointing, Moving, Drifting, Offset, Underway, Reached, Distance
  <2> QED
    BY <1>2, <2>2 DEF Effect, Unpark, v
<1>3. CASE r.op = "findhome"
  BY <1>3, FindHomePointing DEF Effect
<1>4. CASE r.op = "abortslew"
  BY <1>4, AbortSlewPointing DEF Effect
<1>5. CASE r.op \in {"slewtoaltaz", "slewtoaltazasync"}
  BY <1>5, AltAzPointing DEF Effect
<1>6. CASE r.op \in {"slewtocoordinates", "slewtocoordinatesasync"}
  <2>1. r.to \in Coordinates
    BY <1>6, RequestKinds
  <2> DEFINE v == Targeted(u, r.to)
  <2>2. v \in Telescope /\ ~Moving(v) /\ Pointing(v) = Pointing(u)
    BY <2>1, TargetedTyped, TargetedFields DEF Kept, Moving
  <2> HIDE DEF v
  <2>3. Effect(u, r) = BeginSlew(v, r.to)
    BY <1>6 DEF Effect, SlewToCoordinatesAsync, v
  <2> QED
    BY <2>1, <2>2, <2>3, BeginSlewPointing
<1>7. CASE r.op \in {"tracking", "trackingrate"}
  <2>1. r.on \in BOOLEAN
    BY <1>7, RequestKinds
  <2> QED
    BY <1>7, <2>1, SettersPointing DEF Effect
<1>8. CASE r.op \in {"rate", "moveaxis"}
  <2>1. r.axis \in Axes /\ r.by \in Int
    BY <1>8, RequestKinds
  <2> QED
    BY <1>8, <2>1, SettersPointing, MoveAxisPointing DEF Effect
<1>9. CASE r.op = "target"
  <2>1. PICK ax \in Axes, c \in Targets : r = [op |-> "target", axis |-> ax, by |-> c[ax]]
    BY <1>9, RequestKinds
  <2>2. Effect(u, r) = SetTarget(u, ax, c[ax])
    BY <2>1 DEF Effect
  <2> QED
    BY <2>2, SetTargetPointing
<1>10. r.op \in {"park", "unpark", "findhome", "abortslew", "slewtoaltaz", "slewtoaltazasync",
                 "slewtocoordinates", "slewtocoordinatesasync", "tracking",
                 "trackingrate", "rate", "target", "moveaxis"}
  BY RequestKinds DEF ByTarget
<1> QED
  BY <1>1, <1>2, <1>3, <1>4, <1>5, <1>6, <1>7, <1>8, <1>9, <1>10

LEMMA ContinuousStep ==
  ASSUME TypeInv, [Next]_vars, ~Moving(t), Pointing(t') # Pointing(t)
  PROVE  Tick \/ \E c \in Clients : Teleports(c)
<1>t. t \in Telescope
  BY DEF TypeInv, TypeOK
<1>1. ASSUME NEW c \in Clients, Member(c) PROVE Teleports(c)
  <2>1. pc[c] = "call" /\ ~ByTarget(call[c]) /\ t' = Effect(t, call[c]) /\ call[c] \in Requests
    BY <1>1 DEF Member, TypeInv, InHand
  <2> QED
    BY <1>t, <2>1, EffectPointing DEF Teleports
<1>2. ASSUME NEW c \in Clients, SetTargets(c) PROVE FALSE
  BY <1>t, <1>2, SetTargetPointing DEF SetTargets, Axes
<1>3. t' # t /\ t' # Settled(t)
  BY <1>t, SettledPointing
<1>4. ASSUME NEW c \in Clients,
             ReadTarget(c) \/ WaitSlewDone(c) \/ Read(c) \/ \E r \in Calls : Gate(c, r)
      PROVE  FALSE
  BY <1>3, <1>4 DEF ReadTarget, WaitSlewDone, Read, Gate
<1> QED
  BY <1>1, <1>2, <1>3, <1>4 DEF Next, vars

\* For any clients, sky and rates: while no axis moves, only the clock, a sync
\* and a guide pulse change where the mount points.
THEOREM PointingContinuous == Spec => Continuous
<1>1. TypeInv /\ [Next]_vars
      => [~Moving(t) /\ Pointing(t') # Pointing(t) => Tick \/ \E c \in Clients : Teleports(c)]_vars
  BY ContinuousStep
<1> QED
  BY <1>1, InitTyped, StepTyped, PTL DEF Spec, Continuous
=============================================================================
