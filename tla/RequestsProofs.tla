---------------------------- MODULE RequestsProofs ----------------------------
(***************************************************************************)
(* Proofs about Requests: TryBegin admits one worker; and what the         *)
(* simulators report is true from one state to the next; and the clock     *)
(* runs out and leaves each where it was sent.  They hold for any clients, *)
(* any subset of the kinds, any sizes of the devices and any arguments     *)
(* that clients give.                                                      *)
(***************************************************************************)
EXTENDS Requests, TLAPS

DriverStages == {"idle", "gate", "start", "interrupt"}

DriverRecords ==
  [op : Ops, workers : Nat, cancelled : BOOLEAN, connectOp : Ops, connectors : Nat]

\* A driver is only ever asked for what a driver does, and has a worker while busy.
DriverInv ==
  kind = "driver" =>
    /\ device \in DriverRecords
    /\ pc \in [Clients -> DriverStages]
    /\ device.workers = IF Busy(device.op) THEN 1 ELSE 0

LEMMA DriverInit == Init => DriverInv
<1> SUFFICES ASSUME Init, kind = "driver" PROVE DriverInv
  BY DEF DriverInv
<1>1. device = NewDriver
  BY DEF Init, New
<1>2. pc \in [Clients -> DriverStages]
  BY DEF Init, DriverStages
<1> QED
  BY <1>1, <1>2 DEF DriverInv, NewDriver, DriverRecords, Ops, NewOp, Busy

\* What the operation's functions do to the two fields that count.
LEMMA OpsTyped ==
  ASSUME NEW o \in Ops
  PROVE  /\ Begin(o) \in Ops /\ Complete(o) \in Ops /\ Fail(o) \in Ops
         /\ Busy(Begin(o)) /\ ~Busy(Complete(o)) /\ ~Busy(Fail(o))
BY DEF Ops, Begin, Complete, Fail, Busy

\* A record of a driver stays one when its operation, or its connection, changes.
LEMMA OperationBegins ==
  ASSUME NEW d \in DriverRecords, NEW o \in Ops
  PROVE  LET e == [d EXCEPT !.op = o, !.workers = 1, !.cancelled = FALSE] IN
           e \in DriverRecords /\ e.op = o /\ e.workers = 1
BY DEF DriverRecords

LEMMA OperationEnds ==
  ASSUME NEW d \in DriverRecords, NEW o \in Ops
  PROVE  LET e == [d EXCEPT !.op = o, !.workers = 0] IN
           e \in DriverRecords /\ e.op = o /\ e.workers = 0
BY DEF DriverRecords

LEMMA ConnectionChanges ==
  ASSUME NEW d \in DriverRecords, NEW o \in Ops, NEW n \in Nat
  PROVE  /\ [d EXCEPT !.connectOp = o, !.connectors = n] \in DriverRecords
         /\ [d EXCEPT !.connectOp = o, !.connectors = n].op = d.op
         /\ [d EXCEPT !.connectOp = o, !.connectors = n].workers = d.workers
BY DEF DriverRecords

\* The driver's own fields: any change of the others keeps the invariant.
LEMMA OtherFields ==
  ASSUME kind = "driver", DriverInv, UNCHANGED kind, pc' \in [Clients -> DriverStages],
         device' \in DriverRecords, device'.op = device.op, device'.workers = device.workers
  PROVE  DriverInv'
BY DEF DriverInv

LEMMA AnsweredKeeps ==
  ASSUME NEW c \in Clients, pc \in [Clients -> DriverStages], Answered(c)
  PROVE  pc' \in [Clients -> DriverStages] /\ UNCHANGED kind
BY DEF Answered, Goto, DriverStages

LEMMA DriverStep == ASSUME DriverInv, [Next]_vars PROVE DriverInv'
<1>k. UNCHANGED kind
  BY DEF Next, Request, Arrive, BusyGate, Connect, Disconnect, BadRequest, Get, Put, SeeBin, SeeStart,
     SeeNum, Expose, AskImage, GetImage, Initiator, Interrupt, WorkEnds, ConnectEnds, Tick, Answered, vars
<1> SUFFICES ASSUME kind = "driver" PROVE DriverInv'
  BY <1>k DEF DriverInv
<1>0. /\ device \in DriverRecords /\ pc \in [Clients -> DriverStages]
      /\ device.workers = IF Busy(device.op) THEN 1 ELSE 0
  BY DEF DriverInv
<1>s. \A c \in Clients : pc[c] \notin {"call", "seenbin", "seenstart", "expose", "image"}
  BY <1>0 DEF DriverStages
<1>u. \A c \in Users : c \in Clients
  BY RequestAssumption DEF Users
<1>1. ASSUME NEW c \in Clients, Arrive(c) \/ BusyGate(c) \/ Disconnect(c) PROVE DriverInv'
  <2>1. UNCHANGED device
    BY <1>1 DEF Arrive, BusyGate, Disconnect
  <2>2. pc' \in [Clients -> DriverStages]
    BY <1>0, <1>1 DEF Arrive, BusyGate, Disconnect, Answered, Goto, DriverStages
  <2> QED
    BY <1>k, <1>0, <2>1, <2>2, OtherFields
<1>2. ASSUME NEW c \in Clients, Connect(c) PROVE DriverInv'
  <2>1. device' = ConnectBegun(device) /\ UNCHANGED pc
    BY <1>2 DEF Connect
  <2>2. Begin(device.connectOp) \in Ops
    BY <1>0, OpsTyped DEF DriverRecords
  <2>3. /\ device' \in DriverRecords
        /\ device'.op = device.op /\ device'.workers = device.workers
    <3>1. device' = [device EXCEPT !.connectOp = Begin(device.connectOp), !.connectors = device.connectors + 1]
      BY <2>1 DEF ConnectBegun
    <3>2. device.connectors + 1 \in Nat
      BY <1>0 DEF DriverRecords
    <3> QED
      BY <1>0, <2>2, <3>1, <3>2, ConnectionChanges
  <2> QED
    BY <1>k, <1>0, <2>1, <2>3, OtherFields
<1>3. ASSUME NEW c \in Clients, Initiator(c) PROVE DriverInv'
  <2>1. pc' \in [Clients -> DriverStages]
    BY <1>0, <1>3, AnsweredKeeps DEF Initiator
  <2>2. CASE TryBegins(device.op)
    <3>1. device' = Initiate(device) /\ device.workers = 0
      BY <1>0, <1>3, <2>2 DEF Initiator, TryBegins
    <3>2. Begin(device.op) \in Ops /\ Busy(Begin(device.op))
      BY <1>0, OpsTyped DEF DriverRecords
    <3>3. /\ device' \in DriverRecords
          /\ device'.op = Begin(device.op) /\ device'.workers = 1
      <4>1. device' = [device EXCEPT !.op = Begin(device.op), !.workers = device.workers + 1, !.cancelled = FALSE]
        BY <3>1 DEF Initiate
      <4>2. device.workers + 1 = 1
        BY <3>1
      <4>3. device' = [device EXCEPT !.op = Begin(device.op), !.workers = 1, !.cancelled = FALSE]
        BY <4>1, <4>2
      <4> QED
        BY <1>0, <3>2, <4>3, OperationBegins
    <3> QED
      BY <2>1, <3>2, <3>3 DEF DriverInv
  <2>3. CASE ~TryBegins(device.op)
    BY <1>k, <1>0, <1>3, <2>1, <2>3, OtherFields DEF Initiator
  <2> QED
    BY <2>2, <2>3
<1>4. ASSUME NEW c \in Clients, Interrupt(c) PROVE DriverInv'
  <2>1. pc' \in [Clients -> DriverStages]
    BY <1>0, <1>4, AnsweredKeeps DEF Interrupt
  <2>2. device' = Cancel(device)
    BY <1>4 DEF Interrupt
  <2>3. Busy(device.op) \in BOOLEAN
    BY DEF Busy
  <2>4. /\ device' \in DriverRecords
        /\ device'.op = device.op /\ device'.workers = device.workers
    BY <1>0, <2>2, <2>3 DEF Cancel, DriverRecords
  <2> QED
    BY <1>k, <2>1, <2>4, OtherFields
<1>5. CASE WorkEnds
  <2>1. PICK o \in {Fail(device.op), Complete(device.op)} :
          device' = [device EXCEPT !.op = o, !.workers = @ - 1]
    BY <1>5 DEF WorkEnds, Worked
  <2>2. o \in Ops /\ ~Busy(o)
    BY <1>0, OpsTyped DEF DriverRecords
  <2>3. device.workers = 1
    BY <1>0, <1>5 DEF WorkEnds
  <2>4. device' \in DriverRecords /\ device'.op = o /\ device'.workers = 0
    <3>1. device' = [device EXCEPT !.op = o, !.workers = device.workers - 1]
      BY <2>1
    <3>2. device.workers - 1 = 0
      BY <2>3
    <3>3. device' = [device EXCEPT !.op = o, !.workers = 0]
      BY <3>1, <3>2
    <3> QED
      BY <1>0, <2>2, <3>3, OperationEnds
  <2>5. UNCHANGED pc
    BY <1>5 DEF WorkEnds
  <2> QED
    BY <1>0, <2>2, <2>4, <2>5 DEF DriverInv
<1>6. CASE ConnectEnds
  <2>1. PICK ok \in BOOLEAN : device' = ConnectEnded(device, ok)
    BY <1>6 DEF ConnectEnds
  <2>2. Complete(device.connectOp) \in Ops /\ Fail(device.connectOp) \in Ops
    BY <1>0, OpsTyped DEF DriverRecords
  <2>3. device.connectors - 1 \in Nat
    BY <1>0, <1>6 DEF ConnectEnds, DriverRecords
  <2>4. /\ device' \in DriverRecords
        /\ device'.op = device.op /\ device'.workers = device.workers
    BY <1>0, <2>1, <2>2, <2>3 DEF ConnectEnded, DriverRecords
  <2>5. UNCHANGED pc
    BY <1>6 DEF ConnectEnds
  <2> QED
    BY <1>k, <1>0, <2>4, <2>5, OtherFields
<1>7. ~Tick
  BY DEF Tick, Later
<1>8. CASE UNCHANGED vars
  BY <1>8, <1>0 DEF vars, DriverInv
<1>9. ASSUME NEW c \in Clients, Request(c)
      PROVE  Arrive(c) \/ BusyGate(c) \/ Disconnect(c) \/ Connect(c) \/ Initiator(c) \/ Interrupt(c)
  <2>1. ~BadRequest(c) /\ ~Get(c) /\ ~SeeBin(c) /\ ~SeeStart(c) /\ ~SeeNum(c) /\ ~AskImage(c) /\ ~GetImage(c)
    BY <1>s DEF BadRequest, Get, SeeBin, SeeStart, SeeNum, AskImage, GetImage
  <2>2. \A r : ~Put(c, r)
    BY <1>s DEF Put
  <2>3. \A duration : ~Expose(c, duration)
    BY <1>s DEF Expose
  <2> QED
    BY <1>9, <2>1, <2>2, <2>3 DEF Request
<1> QED
  BY <1>u, <1>1, <1>2, <1>3, <1>4, <1>5, <1>6, <1>7, <1>8, <1>9 DEF Next

\* However many requests pass the busy check together, one worker has the operation,
\* and exactly while it is busy (server/op.go, TryBegin).
THEOREM OneWorkerAtATime == Spec => []OneWorker
<1>1. DriverInv => OneWorker
  BY DEF DriverInv, OneWorker
<1> QED
  BY <1>1, DriverInit, DriverStep, PTL DEF Spec

-----------------------------------------------------------------------------
(* Legs of a move *)

\* A leg that does not move is where it was last sent.
Ended(leg) == ~leg.moving => leg.start = leg.target

RoundLeg(leg) ==
  leg \in Legs(0..(Circle - 1), Nat) /\ leg.round /\ leg.age <= Abs(Distance(leg)) /\ Ended(leg)

StraightLeg(leg, most) ==
  leg \in Legs(0..most, Nat) /\ ~leg.round /\ leg.age <= Abs(Distance(leg)) /\ Ended(leg)

Along(leg) == leg.start + (IF Distance(leg) > 0 THEN leg.age ELSE -leg.age)

LEMMA WrapTyped == ASSUME NEW a \in Int PROVE Wrap360(a) \in 0..(Circle - 1)
BY CircleAssumption DEF Wrap360

\* An angle not a whole turn beyond the circle.
LEMMA WrapNear ==
  ASSUME NEW a \in Int, -Circle <= a, a < 2 * Circle
  PROVE  Wrap360(a) = IF a < 0 THEN a + Circle ELSE IF a < Circle THEN a ELSE a - Circle
BY CircleAssumption DEF Wrap360

LEMMA TurnTyped ==
  ASSUME NEW from \in 0..(Circle - 1), NEW to \in 0..(Circle - 1)
  PROVE  LET turn == ShortestDelta(from, to) IN
           /\ turn \in Int /\ 2 * turn <= Circle /\ -Circle <= 2 * turn
           /\ turn \in {to - from, to - from + Circle, to - from - Circle}
           /\ (turn = 0 <=> from = to)
BY CircleAssumption DEF ShortestDelta

LEMMA AbsTyped ==
  ASSUME NEW n \in Int
  PROVE  Abs(n) \in Nat /\ (Abs(n) = n \/ Abs(n) = -n) /\ (Abs(n) = 0 <=> n = 0)
BY DEF Abs

LEMMA RoundDistance ==
  ASSUME NEW leg, leg \in Legs(0..(Circle - 1), Nat), leg.round
  PROVE  LET turn == Distance(leg) IN
           /\ turn \in Int /\ 2 * turn <= Circle /\ -Circle <= 2 * turn
           /\ turn \in {leg.target - leg.start, leg.target - leg.start + Circle,
                         leg.target - leg.start - Circle}
           /\ (turn = 0 <=> leg.start = leg.target)
BY TurnTyped DEF Distance, Legs

LEMMA StraightDistance ==
  ASSUME NEW most \in Nat, NEW leg, leg \in Legs(0..most, Nat), ~leg.round
  PROVE  Distance(leg) = leg.target - leg.start /\ Distance(leg) \in -most..most
BY DEF Distance, Legs

\* The place of a round leg is where the time that has passed takes it.
LEMMA RoundPosition ==
  ASSUME NEW leg, RoundLeg(leg)
  PROVE  /\ Along(leg) \in Int /\ -Circle <= Along(leg) /\ Along(leg) < 2 * Circle
         /\ Position(leg) = IF leg.moving THEN Wrap360(Along(leg)) ELSE leg.start
         /\ Position(leg) \in 0..(Circle - 1)
<1> DEFINE turn == Distance(leg)
<1>1. /\ leg \in Legs(0..(Circle - 1), Nat) /\ leg.round /\ leg.age <= Abs(turn)
      /\ leg.age \in Nat /\ leg.start \in 0..(Circle - 1) /\ leg.target \in 0..(Circle - 1)
      /\ Circle \in Nat \ {0}
  BY CircleAssumption DEF RoundLeg, Legs
<1>2. /\ turn \in Int /\ 2 * turn <= Circle /\ -Circle <= 2 * turn
      /\ turn \in {leg.target - leg.start, leg.target - leg.start + Circle,
                         leg.target - leg.start - Circle}
      /\ (turn = 0 <=> leg.start = leg.target)
  BY <1>1, RoundDistance
<1>3. Position(leg) = IF ~leg.moving THEN leg.start
                      ELSE IF leg.age >= Abs(turn) THEN leg.target ELSE Wrap360(Along(leg))
  BY <1>1 DEF Position, Arrived, Along
<1>4. Along(leg) = leg.start + (IF turn > 0 THEN leg.age ELSE -leg.age)
  BY DEF Along
<1> HIDE DEF turn
<1>5. Along(leg) \in Int /\ -Circle <= Along(leg) /\ Along(leg) < 2 * Circle
  BY <1>1, <1>2, <1>4 DEF Abs
<1>6. leg.age >= Abs(turn) => Wrap360(Along(leg)) = leg.target
  <2> SUFFICES ASSUME leg.age >= Abs(turn) PROVE Wrap360(Along(leg)) = leg.target
    OBVIOUS
  <2>1. Along(leg) = leg.start + turn
    BY <1>1, <1>2, <1>4 DEF Abs
  <2>2. Along(leg) \in {leg.target, leg.target + Circle, leg.target - Circle}
    BY <2>1, <1>1, <1>2
  <2> QED
    BY <2>2, <1>1, <1>5, WrapNear
<1>7. Position(leg) = IF leg.moving THEN Wrap360(Along(leg)) ELSE leg.start
  BY <1>3, <1>6
<1> QED
  BY <1>1, <1>5, <1>7, WrapTyped

LEMMA StraightPosition ==
  ASSUME NEW most \in Nat, NEW leg, StraightLeg(leg, most)
  PROVE  /\ Position(leg) = IF leg.moving THEN Along(leg) ELSE leg.start
         /\ Position(leg) \in 0..most
<1>1. /\ leg \in Legs(0..most, Nat) /\ ~leg.round /\ leg.age <= Abs(Distance(leg))
      /\ leg.age \in Nat /\ leg.start \in 0..most /\ leg.target \in 0..most
  BY DEF StraightLeg, Legs
<1>2. Distance(leg) = leg.target - leg.start
  BY <1>1, StraightDistance
<1>3. Position(leg) = IF ~leg.moving THEN leg.start
                      ELSE IF leg.age >= Abs(leg.target - leg.start) THEN leg.target ELSE Along(leg)
  BY <1>1, <1>2 DEF Position, Arrived, Along
<1>4. Along(leg) = leg.start + (IF leg.target - leg.start > 0 THEN leg.age ELSE -leg.age)
  BY <1>2 DEF Along
<1>5. leg.age >= Abs(leg.target - leg.start) => Along(leg) = leg.target
  BY <1>1, <1>2, <1>4 DEF Abs
<1>6. Along(leg) \in 0..most
  BY <1>1, <1>2, <1>4 DEF Abs
<1> QED
  BY <1>1, <1>3, <1>5, <1>6

LEMMA RestingRound ==
  ASSUME NEW at \in 0..(Circle - 1)
  PROVE  RoundLeg(Resting(TRUE, at)) /\ Position(Resting(TRUE, at)) = at
<1> DEFINE leg == Resting(TRUE, at)
<1>1. /\ leg \in Legs(0..(Circle - 1), Nat) /\ leg.round = TRUE /\ leg.moving = FALSE
      /\ leg.start = at /\ leg.target = at /\ leg.age = 0
  BY CircleAssumption DEF Resting, Legs
<1> HIDE DEF leg
<1>2. Distance(leg) \in Int
  BY <1>1, RoundDistance
<1>3. RoundLeg(leg) /\ Position(leg) = at
  BY <1>1, <1>2, AbsTyped DEF RoundLeg, Position, Ended
<1> QED
  BY <1>3 DEF leg

LEMMA RestingStraight ==
  ASSUME NEW most \in Nat, NEW at \in 0..most
  PROVE  StraightLeg(Resting(FALSE, at), most) /\ Position(Resting(FALSE, at)) = at
<1> DEFINE leg == Resting(FALSE, at)
<1>1. /\ leg \in Legs(0..most, Nat) /\ leg.round = FALSE /\ leg.moving = FALSE
      /\ leg.start = at /\ leg.target = at /\ leg.age = 0
  BY DEF Resting, Legs
<1> HIDE DEF leg
<1>2. Distance(leg) \in Int
  BY <1>1, StraightDistance
<1>3. StraightLeg(leg, most) /\ Position(leg) = at
  BY <1>1, <1>2, AbsTyped DEF StraightLeg, Position, Ended
<1> QED
  BY <1>3 DEF leg

\* Completing a move that has arrived, or halting one, leaves it where it is.
LEMMA SettledRound ==
  ASSUME NEW leg, RoundLeg(leg)
  PROVE  RoundLeg(SettledLeg(leg)) /\ Position(SettledLeg(leg)) = Position(leg)
<1>1. leg.round = TRUE /\ leg.target \in 0..(Circle - 1)
  BY DEF RoundLeg, Legs
<1>2. leg.moving /\ Arrived(leg) => Position(leg) = leg.target
  BY DEF Position
<1> QED
  BY <1>1, <1>2, RestingRound DEF SettledLeg

LEMMA SettledStraight ==
  ASSUME NEW most \in Nat, NEW leg, StraightLeg(leg, most)
  PROVE  StraightLeg(SettledLeg(leg), most) /\ Position(SettledLeg(leg)) = Position(leg)
<1>1. leg.round = FALSE /\ leg.target \in 0..most
  BY DEF StraightLeg, Legs
<1>2. leg.moving /\ Arrived(leg) => Position(leg) = leg.target
  BY DEF Position
<1> QED
  BY <1>1, <1>2, RestingStraight DEF SettledLeg

LEMMA HaltedRound ==
  ASSUME NEW leg, RoundLeg(leg)
  PROVE  /\ RoundLeg(HaltedLeg(leg)) /\ Position(HaltedLeg(leg)) = Position(leg)
         /\ ~HaltedLeg(leg).moving
<1>1. leg.round = TRUE
  BY DEF RoundLeg, Legs
<1> QED
  BY <1>1, RoundPosition, RestingRound DEF HaltedLeg, Resting

LEMMA HaltedStraight ==
  ASSUME NEW most \in Nat, NEW leg, StraightLeg(leg, most)
  PROVE  StraightLeg(HaltedLeg(leg), most) /\ Position(HaltedLeg(leg)) = Position(leg)
<1>1. leg.round = FALSE
  BY DEF StraightLeg, Legs
<1> QED
  BY <1>1, StraightPosition, RestingStraight DEF HaltedLeg

\* A new move begins at the place where the leg is, and moves unless it is there.
LEMMA BeganFields ==
  ASSUME NEW places, NEW leg \in Legs(places, Nat), NEW to \in places, Position(leg) \in places
  PROVE  LET next == BeginLeg(leg, to) IN
           /\ next \in Legs(places, Nat) /\ next.round = leg.round /\ next.start = Position(leg)
           /\ next.target = to /\ next.age = 0 /\ (~next.moving <=> Distance(next) = 0)
<1> DEFINE aimed == [leg EXCEPT !.start = Position(leg), !.target = to, !.age = 0]
           next == [aimed EXCEPT !.moving = Distance(aimed) # 0]
<1>1. (Distance(aimed) # 0) \in BOOLEAN
  OBVIOUS
<1>2. /\ aimed \in Legs(places, Nat) /\ aimed.round = leg.round /\ aimed.start = Position(leg)
      /\ aimed.target = to /\ aimed.age = 0
  BY DEF Legs
<1>3. BeginLeg(leg, to) = next
  BY DEF BeginLeg
<1> HIDE DEF aimed
<1>4. /\ next \in Legs(places, Nat) /\ next.round = aimed.round /\ next.start = aimed.start
      /\ next.target = aimed.target /\ next.age = aimed.age /\ next.moving = (Distance(aimed) # 0)
  BY <1>1, <1>2 DEF Legs
<1> HIDE DEF next
<1>5. Distance(next) = Distance(aimed)
  BY <1>4 DEF Distance
<1> QED
  BY <1>2, <1>3, <1>4, <1>5

LEMMA BeganRound ==
  ASSUME NEW leg, RoundLeg(leg), NEW to \in 0..(Circle - 1)
  PROVE  LET next == BeginLeg(leg, to) IN
           /\ RoundLeg(next) /\ Position(next) = Position(leg) /\ next.target = to
           /\ ~next.moving => Position(next) = to
<1> DEFINE next == BeginLeg(leg, to)
           places == 0..(Circle - 1)
<1>0. leg \in Legs(places, Nat) /\ leg.round = TRUE /\ Position(leg) \in places
  BY RoundPosition DEF RoundLeg, Legs
<1>t. to \in places
  OBVIOUS
<1> HIDE DEF places
<1>b. /\ next \in Legs(places, Nat) /\ next.round = leg.round /\ next.start = Position(leg)
      /\ next.target = to /\ next.age = 0 /\ (~next.moving <=> Distance(next) = 0)
  BY <1>0, <1>t, BeganFields, Zenon
<1> HIDE DEF next
<1>1. /\ next \in Legs(0..(Circle - 1), Nat) /\ next.round = TRUE /\ next.start = Position(leg)
      /\ next.target = to /\ next.age = 0
  BY <1>0, <1>b DEF places
<1>m. ~next.moving <=> Distance(next) = 0
  BY <1>b
<1>2. Distance(next) \in Int /\ (Distance(next) = 0 <=> next.start = next.target)
  BY <1>1, RoundDistance
<1>e. Ended(next)
  BY <1>m, <1>2 DEF Ended
<1>3. RoundLeg(next)
  BY <1>1, <1>2, <1>e, AbsTyped DEF RoundLeg
<1>s. next.start \in 0..(Circle - 1)
  BY <1>0, <1>1 DEF places
<1>4. Along(next) = next.start /\ Wrap360(next.start) = next.start
  BY <1>s, <1>1, CircleAssumption, WrapNear DEF Along
<1>5. Position(next) = next.start
  BY <1>3, <1>4, RoundPosition
<1> QED
  BY <1>1, <1>2, <1>3, <1>5, <1>m DEF next

LEMMA BeganStraight ==
  ASSUME NEW most \in Nat, NEW leg, StraightLeg(leg, most), NEW to \in 0..most
  PROVE  StraightLeg(BeginLeg(leg, to), most) /\ Position(BeginLeg(leg, to)) = Position(leg)
<1> DEFINE next == BeginLeg(leg, to)
           places == 0..most
<1>0. leg \in Legs(places, Nat) /\ leg.round = FALSE /\ Position(leg) \in places
  BY StraightPosition DEF StraightLeg, Legs
<1>t. to \in places
  OBVIOUS
<1> HIDE DEF places
<1>b. /\ next \in Legs(places, Nat) /\ next.round = leg.round /\ next.start = Position(leg)
      /\ next.target = to /\ next.age = 0 /\ (~next.moving <=> Distance(next) = 0)
  BY <1>0, <1>t, BeganFields, Zenon
<1> HIDE DEF next
<1>1. /\ next \in Legs(0..most, Nat) /\ next.round = FALSE /\ next.start = Position(leg)
      /\ next.age = 0
  BY <1>0, <1>b DEF places
<1>2. Distance(next) \in Int /\ (Distance(next) = 0 <=> next.start = next.target)
  BY <1>1, StraightDistance DEF Legs
<1>e. Ended(next)
  BY <1>b, <1>2 DEF Ended
<1>3. StraightLeg(next, most)
  BY <1>1, <1>2, <1>e, AbsTyped DEF StraightLeg
<1>s. next.start \in 0..most
  BY <1>0, <1>1 DEF places
<1>4. Along(next) = next.start
  BY <1>s, <1>1 DEF Along
<1> QED
  BY <1>1, <1>3, <1>4, StraightPosition DEF next

\* A tick moves a leg that is under way by a unit, and no other.
LEMMA LaterFields ==
  ASSUME NEW places, NEW leg \in Legs(places, Nat)
  PROVE  LET next == LaterLeg(leg) IN
           /\ next \in Legs(places, Nat) /\ next.round = leg.round /\ next.start = leg.start
           /\ next.target = leg.target /\ next.moving = leg.moving /\ Distance(next) = Distance(leg)
           /\ next.age = IF leg.moving /\ ~Arrived(leg) THEN leg.age + 1 ELSE leg.age
<1>1. /\ LaterLeg(leg) \in Legs(places, Nat) /\ LaterLeg(leg).round = leg.round /\ LaterLeg(leg).start = leg.start
      /\ LaterLeg(leg).target = leg.target /\ LaterLeg(leg).moving = leg.moving
      /\ LaterLeg(leg).age = IF leg.moving /\ ~Arrived(leg) THEN leg.age + 1 ELSE leg.age
  BY DEF LaterLeg, Legs
<1> QED
  BY <1>1 DEF Distance

LEMMA LaterRound ==
  ASSUME NEW leg, RoundLeg(leg)
  PROVE  RoundLeg(LaterLeg(leg)) /\ Neighbours(leg, Position(leg), Position(LaterLeg(leg)))
<1> DEFINE next == LaterLeg(leg)
<1>0. /\ leg \in Legs(0..(Circle - 1), Nat) /\ leg.round = TRUE /\ leg.age \in Nat
      /\ leg.age <= Abs(Distance(leg)) /\ leg.start \in Int
  BY DEF RoundLeg, Legs
<1>1. /\ next \in Legs(0..(Circle - 1), Nat) /\ next.round = TRUE /\ next.start = leg.start
      /\ next.target = leg.target /\ next.moving = leg.moving /\ Distance(next) = Distance(leg)
      /\ next.age = IF leg.moving /\ ~Arrived(leg) THEN leg.age + 1 ELSE leg.age
  BY <1>0, LaterFields
<1> HIDE DEF next
<1>2. Distance(leg) \in Int /\ Abs(Distance(leg)) \in Nat
  BY <1>0, RoundDistance, AbsTyped
<1>e. Ended(next)
  BY <1>1 DEF RoundLeg, Ended
<1>3. RoundLeg(next)
  BY <1>0, <1>1, <1>2, <1>e DEF RoundLeg, Arrived
<1>4. /\ Position(leg) = IF leg.moving THEN Wrap360(Along(leg)) ELSE leg.start
      /\ Position(next) = IF leg.moving THEN Wrap360(Along(next)) ELSE leg.start
      /\ Along(leg) \in Int /\ -Circle <= Along(leg) /\ Along(leg) < 2 * Circle
      /\ Along(next) \in Int /\ -Circle <= Along(next) /\ Along(next) < 2 * Circle
      /\ Position(leg) \in 0..(Circle - 1)
  BY <1>1, <1>3, RoundPosition
<1>5. Along(next) \in {Along(leg), Along(leg) + 1, Along(leg) - 1}
  <2>1. next.age \in {leg.age, leg.age + 1}
    BY <1>1
  <2>2. /\ Along(leg) = leg.start + (IF Distance(leg) > 0 THEN leg.age ELSE -leg.age)
        /\ Along(next) = leg.start + (IF Distance(leg) > 0 THEN next.age ELSE -next.age)
    BY <1>1 DEF Along
  <2>3. CASE Distance(leg) > 0
    BY <1>0, <2>1, <2>2, <2>3
  <2>4. CASE ~(Distance(leg) > 0)
    BY <1>0, <2>1, <2>2, <2>4
  <2> QED
    BY <2>3, <2>4
<1>6. ASSUME leg.moving PROVE Neighbours(leg, Position(leg), Position(next))
  <2> DEFINE p == Position(leg) q == Position(next)
  <2>1. /\ p = (IF Along(leg) < 0 THEN Along(leg) + Circle
             ELSE IF Along(leg) < Circle THEN Along(leg) ELSE Along(leg) - Circle)
        /\ q = (IF Along(next) < 0 THEN Along(next) + Circle
             ELSE IF Along(next) < Circle THEN Along(next) ELSE Along(next) - Circle)
    BY <1>4, <1>6, WrapNear
  <2>2. p \in Int /\ q \in Int
    BY <1>4, <2>1, CircleAssumption
  <2> HIDE DEF p, q
  <2>3. p - q \in {0, 1, -1, Circle - 1, 1 - Circle}
    BY <1>4, <1>5, <2>1, <2>2, CircleAssumption
  <2>4. Abs(p - q) <= 1 \/ Abs(p - q) = Circle - 1
    BY <2>2, <2>3, CircleAssumption DEF Abs
  <2>5. Abs(Position(leg) - Position(next)) <= 1 \/ Abs(Position(leg) - Position(next)) = Circle - 1
    BY <2>4 DEF p, q
  <2> QED
    BY <1>0, <2>5 DEF Neighbours
<1>7. ASSUME ~leg.moving PROVE Neighbours(leg, Position(leg), Position(next))
  <2>1. Abs(Position(leg) - Position(next)) = 0
    BY <1>4, <1>7, CircleAssumption DEF Abs
  <2> QED
    BY <2>1 DEF Neighbours
<1>8. RoundLeg(next) /\ Neighbours(leg, Position(leg), Position(next))
  BY <1>3, <1>6, <1>7
<1> QED
  BY <1>8 DEF next

LEMMA LaterStraight ==
  ASSUME NEW most \in Nat, NEW leg, StraightLeg(leg, most)
  PROVE  StraightLeg(LaterLeg(leg), most) /\ Neighbours(leg, Position(leg), Position(LaterLeg(leg)))
<1> DEFINE next == LaterLeg(leg)
<1>0. /\ leg \in Legs(0..most, Nat) /\ leg.round = FALSE /\ leg.age \in Nat
      /\ leg.age <= Abs(Distance(leg)) /\ leg.start \in Int
  BY DEF StraightLeg, Legs
<1>1. /\ next \in Legs(0..most, Nat) /\ next.round = FALSE /\ next.start = leg.start
      /\ next.target = leg.target /\ next.moving = leg.moving /\ Distance(next) = Distance(leg)
      /\ next.age = IF leg.moving /\ ~Arrived(leg) THEN leg.age + 1 ELSE leg.age
  BY <1>0, LaterFields
<1> HIDE DEF next
<1>2. Distance(leg) \in Int /\ Abs(Distance(leg)) \in Nat
  BY <1>0, StraightDistance, AbsTyped
<1>e. Ended(next)
  BY <1>1 DEF StraightLeg, Ended
<1>3. StraightLeg(next, most)
  BY <1>0, <1>1, <1>2, <1>e DEF StraightLeg, Arrived
<1>4. /\ Position(leg) = IF leg.moving THEN Along(leg) ELSE leg.start
      /\ Position(next) = IF leg.moving THEN Along(next) ELSE leg.start
  BY <1>1, <1>3, StraightPosition
<1>5. Along(leg) \in Int /\ Along(next) \in {Along(leg), Along(leg) + 1, Along(leg) - 1}
  BY <1>0, <1>1 DEF Along
<1>6. Position(leg) - Position(next) \in {0, 1, -1}
  BY <1>0, <1>4, <1>5
<1> QED
  BY <1>3, <1>6 DEF Neighbours, Abs, next

\* The ages of legs stay within the bounds that the types give.
LEMMA RoundInRange ==
  ASSUME NEW leg, RoundLeg(leg)
  PROVE  leg \in Legs(0..(Circle - 1), 0..Circle)
<1>1. leg \in Legs(0..(Circle - 1), Nat) /\ leg.round /\ leg.age \in Nat /\ leg.age <= Abs(Distance(leg))
  BY DEF RoundLeg, Legs
<1>2. Distance(leg) \in Int /\ 2 * Distance(leg) <= Circle /\ -Circle <= 2 * Distance(leg)
  BY <1>1, RoundDistance
<1>3. leg.age \in 0..Circle
  BY <1>1, <1>2, CircleAssumption DEF Abs
<1> QED
  BY <1>1, <1>3 DEF Legs

LEMMA StraightInRange ==
  ASSUME NEW most \in Nat, NEW leg, StraightLeg(leg, most)
  PROVE  leg \in Legs(0..most, 0..most)
<1>1. leg \in Legs(0..most, Nat) /\ ~leg.round /\ leg.age \in Nat /\ leg.age <= Abs(Distance(leg))
  BY DEF StraightLeg, Legs
<1>2. Distance(leg) \in -most..most
  BY <1>1, StraightDistance
<1>3. leg.age \in 0..most
  BY <1>1, <1>2 DEF Abs
<1> QED
  BY <1>1, <1>3 DEF Legs

LEMMA SettledMoving == ASSUME NEW leg PROVE SettledLeg(leg).moving => leg.moving /\ ~Arrived(leg)
BY DEF SettledLeg, Resting

LEMMA LaterAtRest ==
  ASSUME NEW places, NEW leg \in Legs(places, Nat), ~SettledLeg(leg).moving
  PROVE  LaterLeg(leg) = leg
<1>1. ~(leg.moving /\ ~Arrived(leg))
  BY DEF SettledLeg
<1>2. LaterLeg(leg) = [leg EXCEPT !.age = leg.age]
  BY <1>1 DEF LaterLeg
<1> QED
  BY <1>2 DEF Legs

-----------------------------------------------------------------------------
(* Rotator *)

RotatorFits(d) == d \in Rotators /\ RoundLeg(d.leg)

LEMMA RotatorNew == RotatorFits(NewRotator)
<1>0. 0 \in 0..(Circle - 1)
  BY CircleAssumption
<1>1. RoundLeg(Resting(TRUE, 0))
  BY <1>0, RestingRound
<1>2. Resting(TRUE, 0) \in Legs(0..(Circle - 1), 0..Circle)
  BY <1>1, RoundInRange
<1>3. NewRotator \in Rotators /\ NewRotator.leg = Resting(TRUE, 0)
  BY <1>0, <1>2 DEF NewRotator, Rotators
<1> QED
  BY <1>1, <1>3 DEF RotatorFits

LEMMA RotatorMoves ==
  ASSUME NEW d, RotatorFits(d), NEW leg, RoundLeg(leg)
  PROVE  RotatorFits([d EXCEPT !.leg = leg]) /\ [d EXCEPT !.leg = leg].leg = leg
BY RoundInRange DEF RotatorFits, Rotators

LEMMA RotatorDone ==
  ASSUME NEW d, RotatorFits(d), NEW r \in RotatorCalls, ~RotatorRefuses(r)
  PROVE  RotatorFits(RotatorDoes(d, r)) /\ Position(RotatorDoes(d, r).leg) = Position(d.leg)
<1>0. RoundLeg(d.leg) /\ d.offset \in 0..(Circle - 1) /\ Position(d.leg) \in 0..(Circle - 1) /\ Circle \in Nat \ {0}
  BY RoundPosition, CircleAssumption DEF RotatorFits, Rotators
<1>1. ASSUME NEW mechanical \in Int, RotatorDoes(d, r) = [d EXCEPT !.leg = BeginLeg(d.leg, Wrap360(mechanical))]
      PROVE  RotatorFits(RotatorDoes(d, r)) /\ Position(RotatorDoes(d, r).leg) = Position(d.leg)
  <2>1. LET next == BeginLeg(d.leg, Wrap360(mechanical)) IN RoundLeg(next) /\ Position(next) = Position(d.leg)
    BY <1>0, WrapTyped, BeganRound
  <2> QED
    BY <1>1, <2>1, RotatorMoves
<1>2. CASE r.op = "moveabsolute"
  <2>1. r.to - d.offset \in Int
    BY <1>0, <1>2 DEF RotatorRefuses, RotatorCalls, Angles
  <2> QED
    BY <1>1, <1>2, <2>1 DEF RotatorDoes
<1>3. CASE r.op = "movemechanical"
  <2>1. r.to \in Int
    BY <1>0, <1>3 DEF RotatorRefuses, RotatorCalls, Angles
  <2> QED
    BY <1>1, <1>3, <2>1 DEF RotatorDoes
<1>4. CASE r.op = "move"
  <2>1. Position(d.leg) + r.to \in Int
    BY <1>0, <1>4 DEF RotatorRefuses, RotatorCalls
  <2> QED
    BY <1>1, <1>4, <2>1 DEF RotatorDoes
<1>5. CASE r.op = "sync"
  <2>1. r.to - Position(d.leg) \in Int
    BY <1>0, <1>5 DEF RotatorRefuses, RotatorCalls, Angles
  <2> DEFINE next == SettledLeg(d.leg)
             off == Wrap360(r.to - Position(d.leg))
  <2>2. RoundLeg(next) /\ Position(next) = Position(d.leg) /\ off \in 0..(Circle - 1)
    BY <1>0, <2>1, SettledRound, WrapTyped
  <2>3. RotatorDoes(d, r) = [d EXCEPT !.offset = off, !.leg = next]
    BY <1>5 DEF RotatorDoes
  <2> HIDE DEF next, off
  <2> QED
    BY <2>2, <2>3, RoundInRange DEF RotatorFits, Rotators
<1>6. CASE r.op = "halt"
  <2>1. RoundLeg(HaltedLeg(d.leg)) /\ Position(HaltedLeg(d.leg)) = Position(d.leg)
    BY <1>0, HaltedRound
  <2>2. RotatorDoes(d, r) = [d EXCEPT !.leg = HaltedLeg(d.leg)]
    BY <1>6 DEF RotatorDoes
  <2> QED
    BY <2>1, <2>2, RotatorMoves
<1>7. CASE r.op = "reverse"
  <2>1. r.on \in BOOLEAN
    BY <1>7 DEF RotatorCalls
  <2>2. RotatorDoes(d, r) = [d EXCEPT !.reverse = r.on]
    BY <1>7 DEF RotatorDoes
  <2> QED
    BY <2>1, <2>2 DEF RotatorFits, Rotators
<1> QED
  BY <1>2, <1>3, <1>4, <1>5, <1>6, <1>7 DEF RotatorCalls

LEMMA RotatorRead ==
  ASSUME NEW d, RotatorFits(d)
  PROVE  LET e == [d EXCEPT !.leg = SettledLeg(d.leg)] IN RotatorFits(e) /\ Position(e.leg) = Position(d.leg)
<1>1. RoundLeg(d.leg)
  BY DEF RotatorFits
<1> QED
  BY <1>1, SettledRound, RotatorMoves

LEMMA RotatorLater ==
  ASSUME NEW d, RotatorFits(d)
  PROVE  LET e == [d EXCEPT !.leg = LaterLeg(d.leg)] IN
           /\ RotatorFits(e) /\ Neighbours(d.leg, Position(d.leg), Position(e.leg))
           /\ ~RotatorView(d).ismoving => e = d
<1>1. RoundLeg(d.leg) /\ d.leg \in Legs(0..(Circle - 1), Nat) /\ d \in Rotators
  BY DEF RotatorFits, RoundLeg
<1>2. RotatorView(d).ismoving = SettledLeg(d.leg).moving
  BY DEF RotatorView
<1>3. ~RotatorView(d).ismoving => LaterLeg(d.leg) = d.leg
  BY <1>1, <1>2, LaterAtRest
<1>4. LaterLeg(d.leg) = d.leg => [d EXCEPT !.leg = LaterLeg(d.leg)] = d
  BY <1>1 DEF Rotators
<1>5. RoundLeg(LaterLeg(d.leg)) /\ Neighbours(d.leg, Position(d.leg), Position(LaterLeg(d.leg)))
  BY <1>1, LaterRound
<1> QED
  BY <1>3, <1>4, <1>5, RotatorMoves

-----------------------------------------------------------------------------
(* Focuser *)

FocuserFits(d) == d \in Focusers /\ StraightLeg(d.leg, MaxStep)

LEMMA FocuserNew == FocuserFits(NewFocuser)
<1>0. 0 \in 0..MaxStep /\ MaxStep \in Nat
  BY MoverAssumption
<1>1. StraightLeg(Resting(FALSE, 0), MaxStep)
  BY <1>0, RestingStraight
<1>2. Resting(FALSE, 0) \in Legs(0..MaxStep, 0..MaxStep)
  BY <1>0, <1>1, StraightInRange
<1>3. NewFocuser \in Focusers /\ NewFocuser.leg = Resting(FALSE, 0)
  BY <1>2 DEF NewFocuser, Focusers
<1> QED
  BY <1>1, <1>3 DEF FocuserFits

LEMMA FocuserMoves ==
  ASSUME NEW d, FocuserFits(d), NEW leg, StraightLeg(leg, MaxStep)
  PROVE  FocuserFits([d EXCEPT !.leg = leg]) /\ [d EXCEPT !.leg = leg].leg = leg
<1>1. leg \in Legs(0..MaxStep, 0..MaxStep)
  BY MoverAssumption, StraightInRange
<1> QED
  BY <1>1 DEF FocuserFits, Focusers

LEMMA FocuserDone ==
  ASSUME NEW d, FocuserFits(d), NEW r \in FocuserCalls
  PROVE  FocuserFits(FocuserDoes(d, r)) /\ Position(FocuserDoes(d, r).leg) = Position(d.leg)
<1>0. StraightLeg(d.leg, MaxStep) /\ MaxStep \in Nat
  BY MoverAssumption DEF FocuserFits
<1>1. CASE r.op = "move"
  <2>1. Clamped(r.to) \in 0..MaxStep
    BY <1>0, <1>1 DEF FocuserCalls, Clamped
  <2>2. LET next == BeginLeg(d.leg, Clamped(r.to)) IN
          StraightLeg(next, MaxStep) /\ Position(next) = Position(d.leg)
    BY <1>0, <2>1, BeganStraight
  <2>3. FocuserDoes(d, r) = [d EXCEPT !.leg = BeginLeg(d.leg, Clamped(r.to))]
    BY <1>1 DEF FocuserDoes
  <2> QED
    BY <2>2, <2>3, FocuserMoves
<1>2. CASE r.op = "halt"
  <2>1. StraightLeg(HaltedLeg(d.leg), MaxStep) /\ Position(HaltedLeg(d.leg)) = Position(d.leg)
    BY <1>0, HaltedStraight
  <2>2. FocuserDoes(d, r) = [d EXCEPT !.leg = HaltedLeg(d.leg)]
    BY <1>2 DEF FocuserDoes
  <2> QED
    BY <2>1, <2>2, FocuserMoves
<1>3. CASE r.op = "tempcomp"
  <2>1. r.on \in BOOLEAN
    BY <1>3 DEF FocuserCalls
  <2>2. FocuserDoes(d, r) = [d EXCEPT !.tempComp = r.on]
    BY <1>3 DEF FocuserDoes
  <2> QED
    BY <2>1, <2>2 DEF FocuserFits, Focusers
<1> QED
  BY <1>1, <1>2, <1>3 DEF FocuserCalls

LEMMA FocuserRead ==
  ASSUME NEW d, FocuserFits(d)
  PROVE  LET e == [d EXCEPT !.leg = SettledLeg(d.leg)] IN FocuserFits(e) /\ Position(e.leg) = Position(d.leg)
<1>1. StraightLeg(d.leg, MaxStep) /\ MaxStep \in Nat
  BY MoverAssumption DEF FocuserFits
<1>2. StraightLeg(SettledLeg(d.leg), MaxStep) /\ Position(SettledLeg(d.leg)) = Position(d.leg)
  BY <1>1, SettledStraight
<1> QED
  BY <1>2, FocuserMoves

LEMMA FocuserLater ==
  ASSUME NEW d, FocuserFits(d)
  PROVE  LET e == [d EXCEPT !.leg = LaterLeg(d.leg)] IN
           /\ FocuserFits(e) /\ Neighbours(d.leg, Position(d.leg), Position(e.leg))
           /\ ~FocuserView(d).ismoving => e = d
<1>1. StraightLeg(d.leg, MaxStep) /\ d.leg \in Legs(0..MaxStep, Nat) /\ d \in Focusers /\ MaxStep \in Nat
  BY MoverAssumption DEF FocuserFits, StraightLeg
<1>2. FocuserView(d).ismoving = SettledLeg(d.leg).moving
  BY DEF FocuserView
<1>3. ~FocuserView(d).ismoving => LaterLeg(d.leg) = d.leg
  BY <1>1, <1>2, LaterAtRest
<1>4. LaterLeg(d.leg) = d.leg => [d EXCEPT !.leg = LaterLeg(d.leg)] = d
  BY <1>1 DEF Focusers
<1>5. StraightLeg(LaterLeg(d.leg), MaxStep) /\ Neighbours(d.leg, Position(d.leg), Position(LaterLeg(d.leg)))
  BY <1>1, LaterStraight
<1> QED
  BY <1>3, <1>4, <1>5, FocuserMoves

-----------------------------------------------------------------------------
(* Dome *)

DomeFits(d) ==
  /\ d \in Domes /\ RoundLeg(d.az) /\ StraightLeg(d.alt, MaxAltitude)
  /\ d.shutterLeft > 0 => d.shutter \in {"opening", "closing"}
  /\ (d.atPark \/ d.atHome) /\ d.az.moving => d.az.target = 0

\* Whether the dome, if it says parked or home, is at azimuth 0, its parts named.
LEMMA AtZero ==
  ASSUME NEW d, d \in Domes
  PROVE  ParkedAtZero(d) <=> ((d.atPark \/ d.atHome) /\ ~SettledLeg(d.az).moving => Position(d.az) = 0)
<1>1. SettledDome(d).az = SettledLeg(d.az)
  BY DEF SettledDome, SettledShutter, Domes
<1>2. /\ DomeView(d).athome = (d.atHome /\ ~SettledLeg(d.az).moving)
      /\ DomeView(d).atpark = (d.atPark /\ ~SettledLeg(d.az).moving)
      /\ DomeView(d).azimuth = Position(d.az)
  BY <1>1 DEF DomeView
<1> QED
  BY <1>2 DEF ParkedAtZero

LEMMA DomeNew == DomeFits(NewDome) /\ ParkedAtZero(NewDome)
<1>0. 0 \in 0..(Circle - 1) /\ MaxAltitude \in Nat /\ 0 \in 0..MaxAltitude /\ 0 \in 0..ShutterTime
  BY CircleAssumption, MoverAssumption
<1>1. RoundLeg(Resting(TRUE, 0)) /\ StraightLeg(Resting(FALSE, 0), MaxAltitude)
  BY <1>0, RestingRound, RestingStraight
<1>2. /\ Resting(TRUE, 0) \in Legs(0..(Circle - 1), 0..Circle)
      /\ Resting(FALSE, 0) \in Legs(0..MaxAltitude, 0..MaxAltitude)
  BY <1>0, <1>1, RoundInRange, StraightInRange
<1>3. /\ NewDome \in Domes /\ NewDome.az = Resting(TRUE, 0) /\ NewDome.alt = Resting(FALSE, 0)
      /\ NewDome.shutterLeft = 0 /\ NewDome.atHome = FALSE /\ NewDome.atPark = FALSE
  BY <1>0, <1>2 DEF NewDome, Domes, ShutterStates
<1>4. DomeFits(NewDome)
  <2>1. ~(NewDome.shutterLeft > 0) /\ ~NewDome.atHome /\ ~NewDome.atPark
    BY <1>3
  <2> QED
    BY <1>1, <1>3, <2>1 DEF DomeFits
<1> QED
  BY <1>3, <1>4, AtZero

Turned(d, az, home, park) == [d EXCEPT !.az = az, !.atHome = home, !.atPark = park]

Shuttered(d, shutter, target, left) == [d EXCEPT !.shutter = shutter, !.shutterTarget = target, !.shutterLeft = left]

LEMMA DomeTurns ==
  ASSUME NEW d, DomeFits(d), NEW az, RoundLeg(az), NEW home \in BOOLEAN, NEW park \in BOOLEAN,
         (home \/ park) /\ az.moving => az.target = 0
  PROVE  LET e == Turned(d, az, home, park) IN
           DomeFits(e) /\ e.az = az /\ e.alt = d.alt /\ e.atHome = home /\ e.atPark = park
<1> DEFINE e == Turned(d, az, home, park)
<1>0. /\ d \in Domes /\ StraightLeg(d.alt, MaxAltitude) /\ az \in Legs(0..(Circle - 1), 0..Circle)
      /\ d.shutterLeft > 0 => d.shutter \in {"opening", "closing"}
  BY RoundInRange DEF DomeFits
<1>1. /\ e \in Domes /\ e.az = az /\ e.alt = d.alt /\ e.atHome = home /\ e.atPark = park
      /\ e.shutterLeft = d.shutterLeft /\ e.shutter = d.shutter
  BY <1>0 DEF Domes, Turned
<1> HIDE DEF e
<1>2. DomeFits(e)
  BY <1>0, <1>1 DEF DomeFits
<1> QED
  BY <1>1, <1>2 DEF e

LEMMA DomeTilts ==
  ASSUME NEW d, DomeFits(d), NEW alt, StraightLeg(alt, MaxAltitude)
  PROVE  LET e == [d EXCEPT !.alt = alt] IN
           DomeFits(e) /\ e.az = d.az /\ e.alt = alt /\ e.atHome = d.atHome /\ e.atPark = d.atPark
<1> DEFINE e == [d EXCEPT !.alt = alt]
<1>0. /\ d \in Domes /\ alt \in Legs(0..MaxAltitude, 0..MaxAltitude)
  BY MoverAssumption, StraightInRange DEF DomeFits
<1>1. /\ e \in Domes /\ e.az = d.az /\ e.alt = alt /\ e.atHome = d.atHome /\ e.atPark = d.atPark
      /\ e.shutterLeft = d.shutterLeft /\ e.shutter = d.shutter
  BY <1>0 DEF Domes
<1> HIDE DEF e
<1>2. DomeFits(e)
  BY <1>0, <1>1 DEF DomeFits
<1> QED
  BY <1>1, <1>2 DEF e

LEMMA ShutterMoves ==
  ASSUME NEW d, DomeFits(d), NEW shutter, NEW target \in {"open", "closed"}, NEW left \in 0..ShutterTime,
         shutter \in ShutterStates, left > 0 => shutter \in {"opening", "closing"}
  PROVE  LET e == Shuttered(d, shutter, target, left) IN
           DomeFits(e) /\ e.az = d.az /\ e.alt = d.alt /\ e.atHome = d.atHome /\ e.atPark = d.atPark
<1> DEFINE e == Shuttered(d, shutter, target, left)
<1>1. /\ e \in Domes /\ e.az = d.az /\ e.alt = d.alt /\ e.atHome = d.atHome /\ e.atPark = d.atPark
      /\ e.shutterLeft = left /\ e.shutter = shutter
  BY DEF DomeFits, Domes, Shuttered
<1> HIDE DEF e
<1>2. DomeFits(e)
  BY <1>1 DEF DomeFits
<1> QED
  BY <1>1, <1>2 DEF e

LEMMA MoveShutterFits ==
  ASSUME NEW d, DomeFits(d), NEW to \in {"open", "closed"}
  PROVE  LET e == MoveShutter(d, to) IN
           DomeFits(e) /\ e.az = d.az /\ e.alt = d.alt /\ e.atHome = d.atHome /\ e.atPark = d.atPark
<1>1. ShutterTime \in 0..ShutterTime
  BY MoverAssumption
<1>2. (IF to = "open" THEN "opening" ELSE "closing") \in ShutterStates \intersect {"opening", "closing"}
  BY DEF ShutterStates
<1> DEFINE shutter == IF to = "open" THEN "opening" ELSE "closing"
           e == Shuttered(d, shutter, to, ShutterTime)
<1>3. shutter \in ShutterStates /\ shutter \in {"opening", "closing"}
  BY <1>2
<1>4. MoveShutter(d, to) = e
  BY DEF MoveShutter, Shuttered
<1> HIDE DEF shutter
<1>5. DomeFits(e) /\ e.az = d.az /\ e.alt = d.alt /\ e.atHome = d.atHome /\ e.atPark = d.atPark
  BY <1>1, <1>3, ShutterMoves
<1> QED
  BY <1>4, <1>5

\* No call but a sync moves the dome, or makes it say parked or home elsewhere.
DomeKeeps(d, e) ==
  /\ DomeFits(e) /\ Position(e.alt) = Position(d.alt)
  /\ Position(e.az) = Position(d.az) /\ (ParkedAtZero(d) => ParkedAtZero(e))

LEMMA SameTurn ==
  ASSUME NEW d, DomeFits(d), NEW e, DomeFits(e), e.az = d.az, e.atHome = d.atHome, e.atPark = d.atPark,
         Position(e.alt) = Position(d.alt)
  PROVE  DomeKeeps(d, e)
BY AtZero DEF DomeKeeps, DomeFits

\* Sent to azimuth 0, or without its flags, the dome may say what it likes.
LEMMA TurnKeeps ==
  ASSUME NEW d, DomeFits(d), NEW az, RoundLeg(az), Position(az) = Position(d.az),
         NEW home \in BOOLEAN, NEW park \in BOOLEAN,
         home \/ park => az.target = 0 /\ (~az.moving => Position(az) = 0)
  PROVE  LET e == Turned(d, az, home, park) IN
           DomeKeeps(d, e) /\ e.az = az /\ e.alt = d.alt
<1> DEFINE e == Turned(d, az, home, park)
<1>0. (home \/ park) /\ az.moving => az.target = 0
  OBVIOUS
<1>1. DomeFits(e) /\ e.az = az /\ e.alt = d.alt /\ e.atHome = home /\ e.atPark = park
  BY <1>0, DomeTurns
<1> HIDE DEF e
<1>2. ~SettledLeg(az).moving /\ az.moving => Position(az) = az.target
  BY DEF SettledLeg, Position
<1>3. ParkedAtZero(e)
  BY <1>1, <1>2, AtZero DEF DomeFits
<1> QED
  BY <1>1, <1>3 DEF DomeKeeps, e

DomeAnswers(d, r, e) ==
  \/ DomeKeeps(d, e)
  \/ r.op = "synctoazimuth" /\ DomeFits(e) /\ Position(e.alt) = Position(d.alt)

LEMMA DomeDone ==
  ASSUME NEW d, DomeFits(d), NEW r \in DomeCalls, ~DomeRefuses(r)
  PROVE  DomeAnswers(d, r, DomeDoes(d, r))
<1> DEFINE e == DomeDoes(d, r)
<1> HIDE DEF e
<1> SUFFICES DomeAnswers(d, r, e)
  BY DEF e
<1>0. /\ d \in Domes /\ RoundLeg(d.az) /\ StraightLeg(d.alt, MaxAltitude) /\ MaxAltitude \in Nat
      /\ d.atHome \in BOOLEAN /\ d.atPark \in BOOLEAN /\ 0 \in 0..(Circle - 1)
  BY CircleAssumption, MoverAssumption DEF DomeFits, Domes
<1>1. CASE r.op = "slewtoazimuth"
  <2>1. r.to \in Int
    BY <1>1 DEF DomeRefuses, DomeCalls, Angles
  <2>2. LET az == BeginLeg(d.az, Wrap360(r.to)) IN RoundLeg(az) /\ Position(az) = Position(d.az)
    BY <1>0, <2>1, WrapTyped, BeganRound
  <2>3. e = Turned(d, BeginLeg(d.az, Wrap360(r.to)), FALSE, FALSE)
    BY <1>1 DEF DomeDoes, SlewToAzimuth, Turned, e
  <2> QED
    BY <2>2, <2>3, TurnKeeps DEF DomeAnswers
<1>2. CASE r.op = "synctoazimuth"
  <2>1. Wrap360(r.to) \in 0..(Circle - 1)
    BY <1>2, WrapTyped DEF DomeRefuses, DomeCalls, Angles
  <2> DEFINE az == Resting(TRUE, Wrap360(r.to))
  <2>2. RoundLeg(az) /\ ~az.moving
    BY <2>1, RestingRound DEF Resting
  <2>3. e = [d EXCEPT !.az = az]
    BY <1>2 DEF DomeDoes, e
  <2> HIDE DEF az
  <2>4. [d EXCEPT !.az = az] = Turned(d, az, d.atHome, d.atPark)
    BY <1>0 DEF Domes, Turned
  <2>5. DomeFits(e) /\ e.alt = d.alt
    <3>1. (d.atHome \/ d.atPark) /\ az.moving => az.target = 0
      BY <2>2
    <3>2. LET f == Turned(d, az, d.atHome, d.atPark) IN DomeFits(f) /\ f.alt = d.alt
      BY <1>0, <2>2, <3>1, DomeTurns
    <3> QED
      BY <2>3, <2>4, <3>2
  <2> QED
    BY <1>2, <2>5 DEF DomeAnswers
<1>3. CASE r.op = "slewtoaltitude"
  <2>1. r.to \in 0..MaxAltitude
    BY <1>3 DEF DomeRefuses
  <2>2. LET alt == BeginLeg(d.alt, r.to) IN StraightLeg(alt, MaxAltitude) /\ Position(alt) = Position(d.alt)
    BY <1>0, <2>1, BeganStraight
  <2>3. e = [d EXCEPT !.alt = BeginLeg(d.alt, r.to)]
    BY <1>3 DEF DomeDoes, e
  <2>4. /\ DomeFits(e) /\ e.az = d.az /\ e.atHome = d.atHome /\ e.atPark = d.atPark
        /\ Position(e.alt) = Position(d.alt)
    BY <2>2, <2>3, DomeTilts
  <2> QED
    BY <2>4, SameTurn DEF DomeAnswers
<1>4. CASE r.op \in {"openshutter", "closeshutter"}
  <2>1. PICK to \in {"open", "closed"} : e = MoveShutter(d, to)
    BY <1>4 DEF DomeDoes, e
  <2>2. DomeFits(e) /\ e.az = d.az /\ e.alt = d.alt /\ e.atHome = d.atHome /\ e.atPark = d.atPark
    BY <2>1, MoveShutterFits
  <2> QED
    BY <2>2, SameTurn DEF DomeAnswers
<1>5. ASSUME NEW home \in BOOLEAN, NEW park \in BOOLEAN
      PROVE  DomeKeeps(d, Turned(d, BeginLeg(d.az, 0), home, park))
  <2>1. LET az == BeginLeg(d.az, 0) IN
          RoundLeg(az) /\ Position(az) = Position(d.az) /\ az.target = 0 /\ (~az.moving => Position(az) = 0)
    BY <1>0, BeganRound
  <2> QED
    BY <2>1, TurnKeeps
<1>6. CASE r.op = "findhome"
  <2>1. e = Turned(d, BeginLeg(d.az, 0), TRUE, FALSE)
    BY <1>6 DEF DomeDoes, Turned, e
  <2>2. DomeKeeps(d, e)
    BY <1>5, <2>1
  <2> QED
    BY <2>2 DEF DomeAnswers
<1>7. CASE r.op = "park"
  <2> DEFINE turned == Turned(d, BeginLeg(d.az, 0), FALSE, TRUE)
  <2>1. DomeKeeps(d, turned)
    BY <1>5
  <2>2. e = MoveShutter(turned, "closed")
    <3>1. turned = [d EXCEPT !.az = BeginLeg(d.az, 0), !.atPark = TRUE, !.atHome = FALSE]
      BY <1>0 DEF Domes, Turned
    <3>2. e = MoveShutter([d EXCEPT !.az = BeginLeg(d.az, 0), !.atPark = TRUE, !.atHome = FALSE], "closed")
      BY <1>7 DEF DomeDoes, e
    <3> QED
      BY <3>1, <3>2
  <2> HIDE DEF turned
  <2>3. /\ DomeFits(e) /\ e.az = turned.az /\ e.alt = turned.alt
        /\ e.atHome = turned.atHome /\ e.atPark = turned.atPark
    BY <2>1, <2>2, MoveShutterFits DEF DomeKeeps
  <2>4. DomeKeeps(turned, e)
    BY <2>1, <2>3, SameTurn DEF DomeKeeps
  <2>5. DomeKeeps(d, e)
    BY <2>1, <2>4 DEF DomeKeeps
  <2> QED
    BY <2>5 DEF DomeAnswers
<1>8. CASE r.op = "abortslew"
  <2>1. /\ RoundLeg(HaltedLeg(d.az)) /\ Position(HaltedLeg(d.az)) = Position(d.az)
        /\ StraightLeg(HaltedLeg(d.alt), MaxAltitude) /\ Position(HaltedLeg(d.alt)) = Position(d.alt)
    BY <1>0, HaltedRound, HaltedStraight
  <2> DEFINE turned == Turned(d, HaltedLeg(d.az), FALSE, FALSE)
  <2>2. DomeKeeps(d, turned) /\ turned.alt = d.alt
    BY <2>1, TurnKeeps
  <2>3. e = [turned EXCEPT !.alt = HaltedLeg(d.alt)]
    <3>1. e = [d EXCEPT !.az = HaltedLeg(d.az), !.alt = HaltedLeg(d.alt), !.atHome = FALSE, !.atPark = FALSE]
      BY <1>8 DEF DomeDoes, e
    <3> QED
      BY <1>0, <3>1 DEF Domes, Turned
  <2> HIDE DEF turned
  <2>4. /\ DomeFits(e) /\ e.az = turned.az /\ e.alt = HaltedLeg(d.alt)
        /\ e.atHome = turned.atHome /\ e.atPark = turned.atPark
    BY <2>1, <2>2, <2>3, DomeTilts DEF DomeKeeps
  <2>5. DomeKeeps(turned, e)
    BY <2>1, <2>2, <2>4, SameTurn DEF DomeKeeps
  <2>6. DomeKeeps(d, e)
    BY <2>2, <2>5 DEF DomeKeeps
  <2> QED
    BY <2>6 DEF DomeAnswers
<1>9. CASE r.op \in {"setpark", "slaved"}
  <2>1. e = d
    BY <1>9 DEF DomeDoes, e
  <2> QED
    BY <2>1 DEF DomeKeeps, DomeAnswers
<1> QED
  BY <1>1, <1>2, <1>3, <1>4, <1>6, <1>7, <1>8, <1>9 DEF DomeCalls

LEMMA DomeRead == ASSUME NEW d, DomeFits(d) PROVE DomeKeeps(d, SettledDome(d))
<1>0. /\ d \in Domes /\ RoundLeg(d.az) /\ StraightLeg(d.alt, MaxAltitude) /\ MaxAltitude \in Nat
      /\ d.atHome \in BOOLEAN /\ d.atPark \in BOOLEAN
  BY MoverAssumption DEF DomeFits, Domes
<1>1. /\ RoundLeg(SettledLeg(d.az)) /\ Position(SettledLeg(d.az)) = Position(d.az)
      /\ StraightLeg(SettledLeg(d.alt), MaxAltitude) /\ Position(SettledLeg(d.alt)) = Position(d.alt)
  BY <1>0, SettledRound, SettledStraight
<1>2. /\ SettledLeg(d.az).moving => SettledLeg(d.az) = d.az /\ d.az.moving
      /\ ~SettledLeg(SettledLeg(d.az)).moving => ~SettledLeg(d.az).moving
  BY DEF SettledLeg, Resting
<1> DEFINE turned == Turned(d, SettledLeg(d.az), d.atHome, d.atPark)
           tilted == [turned EXCEPT !.alt = SettledLeg(d.alt)]
<1>3. /\ DomeFits(turned) /\ turned.az = SettledLeg(d.az) /\ turned.alt = d.alt
      /\ turned.atHome = d.atHome /\ turned.atPark = d.atPark
  <2>1. (d.atHome \/ d.atPark) /\ SettledLeg(d.az).moving => SettledLeg(d.az).target = 0
    BY <1>2 DEF DomeFits
  <2> HIDE DEF turned
  <2>2. LET f == Turned(d, SettledLeg(d.az), d.atHome, d.atPark) IN
          DomeFits(f) /\ f.az = SettledLeg(d.az) /\ f.alt = d.alt /\ f.atHome = d.atHome /\ f.atPark = d.atPark
    BY <1>0, <1>1, <2>1, DomeTurns
  <2> QED
    BY <2>2 DEF turned
<1>4. ParkedAtZero(d) => ParkedAtZero(turned)
  BY <1>0, <1>1, <1>2, <1>3, AtZero DEF DomeFits
<1>5. SettledDome(d) = SettledShutter(tilted)
  BY <1>0 DEF SettledDome, Domes, Turned
<1>6. DomeKeeps(d, turned)
  BY <1>1, <1>3, <1>4 DEF DomeKeeps
<1> HIDE DEF turned
<1>7. /\ DomeFits(tilted) /\ tilted.az = turned.az /\ tilted.alt = SettledLeg(d.alt)
      /\ tilted.atHome = turned.atHome /\ tilted.atPark = turned.atPark
  BY <1>1, <1>3, DomeTilts
<1> HIDE DEF tilted
<1>8. LET e == SettledShutter(tilted) IN
        DomeFits(e) /\ e.az = tilted.az /\ e.alt = tilted.alt /\ e.atHome = tilted.atHome /\ e.atPark = tilted.atPark
  <2>0. /\ tilted \in Domes /\ tilted.shutterTarget \in {"open", "closed"} /\ tilted.shutterLeft \in 0..ShutterTime
        /\ tilted.shutterTarget \in ShutterStates
    BY <1>7 DEF DomeFits, Domes, ShutterStates
  <2>1. CASE tilted.shutterLeft = 0
    <3>0. ~(tilted.shutterLeft > 0)
      BY <2>1
    <3> DEFINE e == Shuttered(tilted, tilted.shutterTarget, tilted.shutterTarget, tilted.shutterLeft)
    <3>1. /\ DomeFits(e) /\ e.az = tilted.az /\ e.alt = tilted.alt
          /\ e.atHome = tilted.atHome /\ e.atPark = tilted.atPark
      BY <1>7, <2>0, <3>0, ShutterMoves
    <3>2. SettledShutter(tilted) = e
      BY <2>0, <2>1 DEF SettledShutter, Domes, Shuttered
    <3> QED
      BY <3>1, <3>2
  <2>2. CASE tilted.shutterLeft # 0
    BY <1>7, <2>2 DEF SettledShutter
  <2> QED
    BY <2>1, <2>2
<1>9. DomeKeeps(turned, SettledShutter(tilted))
  <2>1. LET e == SettledShutter(tilted) IN
          /\ DomeFits(e) /\ e.az = turned.az /\ e.atHome = turned.atHome /\ e.atPark = turned.atPark
          /\ Position(e.alt) = Position(turned.alt)
    BY <1>1, <1>3, <1>7, <1>8
  <2> QED
    BY <1>3, <2>1, SameTurn
<1> QED
  BY <1>5, <1>6, <1>9 DEF DomeKeeps

LEMMA DownTyped ==
  ASSUME NEW most \in Nat, NEW n \in 0..most
  PROVE  Down(n) \in 0..most /\ (n = 0 => Down(n) = n) /\ (Down(n) > 0 => n > 0)
BY DEF Down

DomeLater(d) == [d EXCEPT !.az = LaterLeg(@), !.alt = LaterLeg(@), !.shutterLeft = Down(@)]

LEMMA DomeWaits ==
  ASSUME NEW d, DomeFits(d)
  PROVE  LET e == DomeLater(d) IN
           /\ DomeFits(e) /\ (ParkedAtZero(d) => ParkedAtZero(e))
           /\ Neighbours(d.az, Position(d.az), Position(e.az))
           /\ Neighbours(d.alt, Position(d.alt), Position(e.alt))
           /\ ~DomeView(d).slewing => e = d
<1> DEFINE e == DomeLater(d)
<1>0. /\ d \in Domes /\ RoundLeg(d.az) /\ StraightLeg(d.alt, MaxAltitude)
      /\ MaxAltitude \in Nat /\ ShutterTime \in Nat
      /\ d.az \in Legs(0..(Circle - 1), Nat) /\ d.alt \in Legs(0..MaxAltitude, Nat)
      /\ d.shutterLeft \in 0..ShutterTime
      /\ d.shutterTarget \in {"open", "closed"}
      /\ d.shutterLeft > 0 => d.shutter \in {"opening", "closing"}
      /\ (d.atPark \/ d.atHome) /\ d.az.moving => d.az.target = 0
  BY MoverAssumption DEF DomeFits, Domes, RoundLeg, StraightLeg
<1>1. /\ RoundLeg(LaterLeg(d.az)) /\ Neighbours(d.az, Position(d.az), Position(LaterLeg(d.az)))
      /\ StraightLeg(LaterLeg(d.alt), MaxAltitude) /\ Neighbours(d.alt, Position(d.alt), Position(LaterLeg(d.alt)))
      /\ LaterLeg(d.az) \in Legs(0..(Circle - 1), 0..Circle)
      /\ LaterLeg(d.alt) \in Legs(0..MaxAltitude, 0..MaxAltitude)
  BY <1>0, LaterRound, LaterStraight, RoundInRange, StraightInRange
<1>2. /\ Down(d.shutterLeft) \in 0..ShutterTime /\ (Down(d.shutterLeft) > 0 => d.shutterLeft > 0)
      /\ (d.shutterLeft = 0 => Down(d.shutterLeft) = d.shutterLeft)
  BY <1>0, DownTyped
<1>3. /\ e \in Domes /\ e.az = LaterLeg(d.az) /\ e.alt = LaterLeg(d.alt) /\ e.shutterLeft = Down(d.shutterLeft)
      /\ e.shutter = d.shutter /\ e.atHome = d.atHome /\ e.atPark = d.atPark
  BY <1>0, <1>1, <1>2 DEF DomeLater, Domes
<1>4. LaterLeg(d.az).target = d.az.target /\ LaterLeg(d.az).moving = d.az.moving
  BY <1>0, LaterFields
<1>5. ~DomeView(d).slewing => e = d
  <2> SUFFICES ASSUME ~DomeView(d).slewing PROVE e = d
    OBVIOUS
  <2>1. /\ SettledDome(d).az = SettledLeg(d.az) /\ SettledDome(d).alt = SettledLeg(d.alt)
        /\ SettledDome(d).shutter = IF d.shutterLeft = 0 THEN d.shutterTarget ELSE d.shutter
        /\ SettledDome(d).shutterTarget = d.shutterTarget
    BY <1>0 DEF SettledDome, SettledShutter, Domes
  <2>2. ~SettledLeg(d.az).moving /\ ~SettledLeg(d.alt).moving /\ SettledDome(d).shutter = d.shutterTarget
    BY <2>1 DEF DomeView, DomeSlewing
  <2>3. d.shutterLeft = 0
    BY <1>0, <2>1, <2>2
  <2>4. LaterLeg(d.az) = d.az /\ LaterLeg(d.alt) = d.alt /\ Down(d.shutterLeft) = d.shutterLeft
    BY <1>0, <1>2, <2>2, <2>3, LaterAtRest
  <2> QED
    BY <1>0, <2>4 DEF DomeLater, Domes
<1> HIDE DEF e
<1>6. DomeFits(e)
  BY <1>0, <1>1, <1>2, <1>3, <1>4 DEF DomeFits
<1>7. ParkedAtZero(d) => ParkedAtZero(e)
  <2> SUFFICES ASSUME ParkedAtZero(d), d.atPark \/ d.atHome, ~SettledLeg(LaterLeg(d.az)).moving
               PROVE  Position(LaterLeg(d.az)) = 0
    BY <1>3, AtZero
  <2>1. CASE d.az.moving
    <3>1. LaterLeg(d.az).moving /\ LaterLeg(d.az).target = 0
      BY <1>0, <1>4, <2>1
    <3>2. Arrived(LaterLeg(d.az))
      BY <3>1 DEF SettledLeg
    <3> QED
      BY <3>1, <3>2 DEF Position
  <2>2. CASE ~d.az.moving
    <3>1. ~SettledLeg(d.az).moving
      BY <2>2, SettledMoving
    <3> QED
      BY <1>0, <3>1, AtZero, LaterAtRest
  <2> QED
    BY <2>1, <2>2
<1>8. /\ Neighbours(d.az, Position(d.az), Position(e.az))
      /\ Neighbours(d.alt, Position(d.alt), Position(e.alt))
  BY <1>1, <1>3
<1> QED
  BY <1>5, <1>6, <1>7, <1>8 DEF e

-----------------------------------------------------------------------------
(* Filter wheel, board and station *)

LEMMA WheelFits ==
  /\ NewWheel \in Wheels
  /\ \A d \in Wheels, r \in WheelCalls : ~WheelRefuses(r) => WheelDoes(d, r) \in Wheels
  /\ \A d \in Wheels : [d EXCEPT !.left = Down(@)] \in Wheels
  /\ \A d \in Wheels : WheelView(d).position # -1 => [d EXCEPT !.left = Down(@)] = d
<1>0. Slots \in Nat \ {0} /\ TurnTime \in Nat \ {0}
  BY MoverAssumption
<1>1. NewWheel \in Wheels
  BY <1>0 DEF NewWheel, Wheels
<1>2. \A d \in Wheels, r \in WheelCalls : ~WheelRefuses(r) => WheelDoes(d, r) \in Wheels
  BY <1>0 DEF WheelDoes, WheelRefuses, WheelCalls, Wheels
<1>3. ASSUME NEW d \in Wheels
      PROVE  /\ [d EXCEPT !.left = Down(@)] \in Wheels
             /\ WheelView(d).position # -1 => [d EXCEPT !.left = Down(@)] = d
  <2>1. d.left \in 0..TurnTime /\ Down(d.left) \in 0..TurnTime /\ (d.left = 0 => Down(d.left) = d.left)
    BY <1>0, DownTyped DEF Wheels
  <2>2. WheelView(d).position # -1 => d.left = 0
    BY <2>1 DEF WheelView
  <2> QED
    BY <2>1, <2>2 DEF Wheels
<1> QED
  BY <1>1, <1>2, <1>3

LEMMA BoardFits ==
  /\ NewBoard \in Boards
  /\ \A d \in Boards, r \in BoardCalls : ~BoardRefuses(r) => BoardDoes(d, r) \in Boards
<1>0. MaxValue \in Nat /\ 0 \in 0..MaxValue /\ MaxValue \in 0..MaxValue
  BY PanelAssumption
<1>1. NewBoard \in Boards
  BY <1>0 DEF NewBoard, Boards
<1>2. ASSUME NEW d \in Boards, NEW r \in BoardCalls, ~BoardRefuses(r)
      PROVE  BoardDoes(d, r) \in Boards
  <2>0. /\ r.id \in Ids /\ r.op \in {"setswitch", "setswitchvalue", "setswitchname"}
        /\ r.op = "setswitchvalue" => r.to \in 0..MaxValue
    BY <1>2 DEF BoardRefuses, BoardCalls
  <2>1. \A v \in 0..MaxValue : [d EXCEPT !.value[r.id] = v] \in Boards
    BY <2>0 DEF Boards
  <2>2. [d EXCEPT !.named[r.id] = TRUE] \in Boards
    BY <2>0 DEF Boards
  <2>3. CASE r.op = "setswitch"
    <3>1. BoardDoes(d, r) = [d EXCEPT !.value[r.id] = IF r.on THEN MaxValue ELSE 0]
      BY <2>3 DEF BoardDoes
    <3>2. (IF r.on THEN MaxValue ELSE 0) \in 0..MaxValue
      BY <1>0
    <3> QED
      BY <2>1, <3>1, <3>2
  <2>4. CASE r.op = "setswitchvalue"
    BY <2>0, <2>1, <2>4 DEF BoardDoes
  <2>5. CASE r.op = "setswitchname"
    BY <2>2, <2>5 DEF BoardDoes
  <2> QED
    BY <2>0, <2>3, <2>4, <2>5
<1> QED
  BY <1>1, <1>2

LEMMA StationFits ==
  /\ NewStation \in Stations
  /\ \A d \in Stations, r \in StationCalls : ~StationRefuses(r) => StationDoes(d, r) \in Stations
<1>1. NewStation \in Stations
  BY DEF NewStation, Stations
<1>2. ASSUME NEW d \in Stations, NEW r \in StationCalls, ~StationRefuses(r)
      PROVE  StationDoes(d, r) \in Stations
  <2>1. r.op # "refresh" => r.op = "averageperiod" /\ r.to \in {0, 1}
    BY <1>2 DEF StationRefuses, StationCalls
  <2>2. \A v \in {0, 1} : [d EXCEPT !.averagePeriod = v] \in Stations
    BY DEF Stations
  <2> QED
    BY <2>1, <2>2 DEF StationDoes
<1> QED
  BY <1>1, <1>2

-----------------------------------------------------------------------------
(* Cover *)

CoverFits(d) == d \in Covers /\ (d.coverLeft > 0 => d.moving)

LEMMA CoverNew == CoverFits(NewCover)
<1>1. NewCover \in Covers
  BY PanelAssumption DEF NewCover, Covers
<1>2. ~(NewCover.coverLeft > 0)
  BY DEF NewCover
<1> QED
  BY <1>1, <1>2 DEF CoverFits

\* The reported state of the cover, its parts named.
LEMMA CoverState ==
  ASSUME NEW d, CoverFits(d)
  PROVE  /\ CoverView(d).coverstate = IF d.coverLeft > 0 THEN "moving" ELSE d.cover
         /\ CoverView(d).covermoving <=> d.coverLeft > 0
         /\ CoverView(d).calibratorchanging <=> d.lampLeft > 0
<1>1. SettledCover(d).cover = d.cover /\ (SettledCover(d).moving <=> d.coverLeft > 0) /\ d.coverLeft \in Nat
  BY DEF SettledCover, CoverFits, Covers
<1> QED
  BY <1>1 DEF CoverView

LEMMA CoverRead ==
  ASSUME NEW d, CoverFits(d)
  PROVE  LET e == SettledCover(d) IN
           CoverFits(e) /\ e.coverLeft = d.coverLeft /\ e.cover = d.cover /\ (e.moving <=> d.coverLeft > 0)
<1>1. d \in Covers /\ d.coverLeft \in Nat /\ d.moving \in BOOLEAN /\ (d.coverLeft > 0 => d.moving)
  BY DEF CoverFits, Covers
<1>2. CASE d.coverLeft = 0
  <2> DEFINE e == [d EXCEPT !.moving = FALSE]
  <2>1. e \in Covers /\ e.coverLeft = d.coverLeft /\ e.cover = d.cover /\ ~e.moving
    BY <1>1 DEF Covers
  <2>2. SettledCover(d) = e
    BY <1>2 DEF SettledCover
  <2> HIDE DEF e
  <2>3. ~(e.coverLeft > 0)
    BY <1>2, <2>1
  <2> QED
    BY <2>1, <2>2, <2>3 DEF CoverFits
<1>3. CASE d.coverLeft # 0
  <2>1. SettledCover(d) = d
    BY <1>3 DEF SettledCover
  <2>2. d.coverLeft > 0
    BY <1>1, <1>3
  <2> QED
    BY <1>1, <2>1, <2>2 DEF CoverFits
<1> QED
  BY <1>2, <1>3

\* A call leaves the state of the cover, sets it moving or makes it unknown.
LEMMA CoverDone ==
  ASSUME NEW d, CoverFits(d), NEW r \in CoverCalls, ~CoverRefuses(r)
  PROVE  LET e == CoverDoes(d, r) IN
           /\ CoverFits(e)
           /\ CoverView(e).coverstate \in {CoverView(d).coverstate, "moving", "unknown"}
<1> DEFINE e == CoverDoes(d, r)
<1>0. /\ d \in Covers /\ d.coverLeft \in Nat /\ d.moving \in BOOLEAN /\ (d.coverLeft > 0 => d.moving)
      /\ LampTime \in 0..LampTime /\ CoverTime \in 0..CoverTime /\ CoverTime > 0
      /\ 0 \in 0..MaxBrightness /\ 0 \in 0..CoverTime
  BY PanelAssumption DEF CoverFits, Covers
<1>1. ASSUME NEW b \in 0..MaxBrightness, NEW l \in {"off", "ready"},
             e = [d EXCEPT !.brightness = b, !.lamp = l, !.lampLeft = LampTime]
      PROVE  CoverFits(e) /\ CoverView(e).coverstate = CoverView(d).coverstate
  <2>1. e \in Covers /\ e.coverLeft = d.coverLeft /\ e.cover = d.cover /\ e.moving = d.moving
    BY <1>0, <1>1 DEF Covers
  <2>2. CoverFits(e)
    BY <1>0, <2>1 DEF CoverFits
  <2> QED
    BY <2>1, <2>2, CoverState
<1>2. ASSUME NEW to \in {"open", "closed"}, e = Travel(d, to)
      PROVE  CoverFits(e) /\ CoverView(e).coverstate = "moving"
  <2>1. e \in Covers /\ e.coverLeft = CoverTime /\ e.moving
    BY <1>0, <1>2 DEF Covers, Travel
  <2>2. CoverFits(e)
    BY <2>1 DEF CoverFits
  <2> QED
    BY <1>0, <2>1, <2>2, CoverState
<1>3. CASE r.op \in {"calibratoron", "calibratoroff"}
  <2>1. \E b \in 0..MaxBrightness, l \in {"off", "ready"} :
          e = [d EXCEPT !.brightness = b, !.lamp = l, !.lampLeft = LampTime]
    <3>1. CASE r.op = "calibratoron"
      BY <3>1 DEF CoverRefuses, CoverDoes
    <3>2. CASE r.op = "calibratoroff"
      BY <1>0, <3>2 DEF CoverDoes
    <3> QED
      BY <1>3, <3>1, <3>2
  <2> QED
    BY <1>1, <2>1
<1>4. CASE r.op \in {"opencover", "closecover"}
  <2>1. \E to \in {"open", "closed"} : e = Travel(d, to)
    BY <1>4 DEF CoverDoes
  <2> QED
    BY <1>2, <2>1
<1>5. CASE r.op = "haltcover"
  <2> DEFINE s == SettledCover(d)
  <2>0. e = IF s.moving THEN [s EXCEPT !.moving = FALSE, !.cover = "unknown", !.coverLeft = 0] ELSE s
    BY <1>5 DEF CoverDoes, HaltCover
  <2>1. CoverFits(s) /\ s.coverLeft = d.coverLeft /\ s.cover = d.cover /\ (s.moving <=> d.coverLeft > 0)
    BY CoverRead
  <2> HIDE DEF s, e
  <2>2. CASE s.moving
    <3>1. e \in Covers /\ e.coverLeft = 0 /\ e.cover = "unknown"
      BY <1>0, <2>0, <2>1, <2>2 DEF CoverFits, Covers
    <3>2. ~(e.coverLeft > 0)
      BY <3>1
    <3>3. CoverFits(e)
      BY <3>1, <3>2 DEF CoverFits
    <3>4. CoverView(e).coverstate = "unknown"
      BY <3>1, <3>2, <3>3, CoverState
    <3> QED
      BY <3>3, <3>4 DEF e
  <2>3. CASE ~s.moving
    <3>1. CoverFits(e) /\ CoverView(e).coverstate = CoverView(d).coverstate
      BY <2>0, <2>1, <2>3, CoverState
    <3> QED
      BY <3>1 DEF e
  <2> QED
    BY <2>2, <2>3
<1> QED
  BY <1>3, <1>4, <1>5 DEF CoverCalls

LEMMA CoverLater ==
  ASSUME NEW d, CoverFits(d)
  PROVE  LET e == [d EXCEPT !.lampLeft = Down(@), !.coverLeft = Down(@)] IN
           /\ CoverFits(e)
           /\ CoverView(e).coverstate # CoverView(d).coverstate => CoverView(d).coverstate = "moving"
           /\ ~CoverView(d).covermoving /\ ~CoverView(d).calibratorchanging => e = d
<1> DEFINE e == [d EXCEPT !.lampLeft = Down(@), !.coverLeft = Down(@)]
<1>0. d \in Covers /\ d.lampLeft \in 0..LampTime /\ d.coverLeft \in 0..CoverTime /\ LampTime \in Nat /\ CoverTime \in Nat
  BY PanelAssumption DEF CoverFits, Covers
<1>1. /\ Down(d.lampLeft) \in 0..LampTime /\ Down(d.coverLeft) \in 0..CoverTime
      /\ d.lampLeft = 0 => Down(d.lampLeft) = d.lampLeft
      /\ d.coverLeft = 0 => Down(d.coverLeft) = d.coverLeft
      /\ Down(d.coverLeft) > 0 => d.coverLeft > 0
  BY <1>0, DownTyped
<1>2. e \in Covers /\ e.coverLeft = Down(d.coverLeft) /\ e.cover = d.cover /\ e.moving = d.moving
  BY <1>0, <1>1 DEF Covers
<1>3. d.lampLeft = 0 /\ d.coverLeft = 0 => e = d
  BY <1>0, <1>1 DEF Covers
<1> HIDE DEF e
<1>4. CoverFits(e)
  BY <1>1, <1>2 DEF CoverFits
<1>5. CoverView(e).coverstate # CoverView(d).coverstate => CoverView(d).coverstate = "moving"
  BY <1>0, <1>1, <1>2, <1>4, CoverState
<1>6. ~CoverView(d).covermoving /\ ~CoverView(d).calibratorchanging => e = d
  BY <1>0, <1>3, CoverState
<1> QED
  BY <1>4, <1>5, <1>6 DEF e

-----------------------------------------------------------------------------
(* Camera *)

\* An exposure under way will be an image, and nothing else is waited for.
CameraFits(d) ==
  /\ d \in Cameras /\ d.left <= d.last
  /\ d.exposing => d.has
  /\ d.has /\ d.left > 0 => d.exposing

CameraPhase(d) == IF ImageReady(d) THEN "image" ELSE IF Exposing(d) THEN "exposing" ELSE "none"

SameGeometry(d, e) == e.bin = d.bin /\ e.start = d.start /\ e.num = d.num

\* What the completion properties answer for.
Reported(d) == [CameraView(d) EXCEPT !.ccdtemperature = Ambient]

\* What a camera may do but start an exposure.
CameraKeeps(d, e) ==
  /\ CameraFits(e) /\ e.frame = d.frame
  /\ CameraPhase(e) # CameraPhase(d) => CameraPhase(d) = "exposing"

LEMMA CameraNumbers ==
  /\ Sensor \in Nat \ {0} /\ MaxBin \in Nat \ {0} /\ MaxExposure \in Nat \ {0} /\ MaxDial \in Nat
  /\ CoolTime \in Nat \ {0} /\ 0 \in 0..CoolTime /\ CoolTime \in 0..CoolTime
  /\ \A n \in Origins \union Sizes \union Bins \union Durations : n \in Int
BY CameraAssumption

LEMMA CameraNew == CameraFits(NewCamera)
<1>1. NewCamera \in Cameras
  BY CameraNumbers DEF NewCamera, Cameras
<1>2. /\ NewCamera.left = 0 /\ NewCamera.last = 0 /\ ~NewCamera.exposing /\ ~NewCamera.has
  BY DEF NewCamera
<1> QED
  BY <1>1, <1>2 DEF CameraFits

LEMMA CameraFields ==
  ASSUME NEW d, CameraFits(d)
  PROVE  /\ d \in Cameras /\ d.bin \in [Axes -> 1..MaxBin] /\ d.start \in [Axes -> Nat] /\ d.num \in [Axes -> Nat]
         /\ d.has \in BOOLEAN /\ d.exposing \in BOOLEAN /\ d.left \in 0..MaxExposure /\ d.last \in 0..MaxExposure
         /\ d.frame \in [Axes -> Nat] /\ d.left <= d.last /\ (d.exposing => d.has)
         /\ (d.has /\ d.left > 0 => d.exposing)
         /\ d.left \in Nat /\ d.last \in Nat /\ d.cooling \in 0..CoolTime
BY CameraNumbers DEF CameraFits, Cameras

\* Other fields than those of an exposure.
LEMMA SettingKeeps ==
  ASSUME NEW d, CameraFits(d), NEW e \in Cameras, e.has = d.has, e.exposing = d.exposing,
         e.left = d.left, e.last = d.last, e.frame = d.frame
  PROVE  CameraKeeps(d, e)
BY DEF CameraKeeps, CameraFits, CameraPhase, ImageReady, Exposing

LEMMA StopKeeps ==
  ASSUME NEW d, CameraFits(d)
  PROVE  CameraKeeps(d, StopExposure(d)) /\ SameGeometry(d, StopExposure(d))
<1> DEFINE left == IF d.exposing THEN 0 ELSE d.left
           last == IF d.exposing THEN d.last - d.left ELSE d.last
           e == [d EXCEPT !.exposing = FALSE, !.left = left, !.last = last]
<1>1. left \in 0..MaxExposure /\ last \in 0..MaxExposure /\ left <= last
  BY CameraFields, CameraNumbers
<1>2. StopExposure(d) = e
  BY CameraFields DEF StopExposure, Cameras
<1> HIDE DEF left, last
<1>c. d \in Cameras
  BY CameraFields
<1>t. e \in Cameras
  BY <1>1, <1>c DEF Cameras
<1>f. /\ e.exposing = FALSE /\ e.left = left /\ e.last = last /\ e.has = d.has /\ e.frame = d.frame
      /\ e.bin = d.bin /\ e.start = d.start /\ e.num = d.num
  BY <1>c DEF Cameras
<1>3. /\ e \in Cameras /\ ~e.exposing /\ e.left = left /\ e.last = last /\ e.has = d.has /\ e.frame = d.frame
      /\ SameGeometry(d, e)
  BY <1>t, <1>f DEF SameGeometry
<1> HIDE DEF e
<1>4. /\ d.exposing => left = 0
      /\ ~d.exposing => left = d.left
  BY DEF left
<1>5. d.has /\ left > 0 => FALSE
  BY <1>4, CameraFields
<1>6. CameraFits(e)
  BY <1>1, <1>3, <1>5 DEF CameraFits
<1>7. CameraPhase(e) # CameraPhase(d) => CameraPhase(d) = "exposing"
  BY <1>3, <1>4, CameraFields DEF CameraPhase, ImageReady, Exposing
<1> QED
  BY <1>2, <1>3, <1>6, <1>7 DEF CameraKeeps

LEMMA AbortKeeps ==
  ASSUME NEW d, CameraFits(d)
  PROVE  CameraKeeps(d, AbortExposure(d)) /\ SameGeometry(d, AbortExposure(d))
<1> DEFINE has == d.has /\ ~(d.exposing /\ d.left > 0)
           e == [d EXCEPT !.exposing = FALSE, !.has = has]
<1>0. has \in BOOLEAN
  OBVIOUS
<1>1. AbortExposure(d) = e
  BY DEF AbortExposure
<1>4. has <=> d.has /\ ~(d.exposing /\ d.left > 0)
  OBVIOUS
<1> HIDE DEF has
<1>3. /\ e \in Cameras /\ ~e.exposing /\ e.left = d.left /\ e.last = d.last /\ e.has = has /\ e.frame = d.frame
      /\ SameGeometry(d, e)
  BY <1>0, CameraFields DEF Cameras, SameGeometry
<1> HIDE DEF e
<1>5. ~(has /\ d.left > 0)
  BY <1>4, CameraFields
<1>6. CameraFits(e)
  BY <1>3, <1>5, CameraFields DEF CameraFits
<1>7. CameraPhase(e) # CameraPhase(d) => CameraPhase(d) = "exposing"
  BY <1>3, <1>4, <1>5, CameraFields DEF CameraPhase, ImageReady, Exposing
<1> QED
  BY <1>1, <1>3, <1>6, <1>7 DEF CameraKeeps

LEMMA CameraDone ==
  ASSUME NEW d, CameraFits(d), NEW r \in CameraCalls, r.op # "startexposure", ~CameraRefuses(r)
  PROVE  /\ CameraKeeps(d, CameraDoes(d, r))
         /\ r.op \notin {"bin", "start", "num"} => SameGeometry(d, CameraDoes(d, r))
<1> DEFINE e == CameraDoes(d, r)
<1>0. /\ r.op \in {"bin", "start", "num", "dial", "cooleron", "stopexposure", "abortexposure"}
      /\ r.op \in {"bin", "start", "num"} => r.axis \in Axes /\ r.to \in Int
      /\ r.op = "bin" => r.to \in 1..MaxBin
      /\ r.op \in {"start", "num"} => r.to \in Nat
      /\ r.op = "dial" => r.which \in Dials /\ r.to \in 0..MaxDial
      /\ r.op = "cooleron" => r.on \in BOOLEAN
  BY CameraNumbers DEF CameraCalls, Geometry, CameraRefuses
<1>1. CASE r.op = "bin"
  <2>1. e = [d EXCEPT !.bin[r.axis] = r.to]
    BY <1>1 DEF CameraDoes
  <2>2. /\ e \in Cameras /\ e.has = d.has /\ e.exposing = d.exposing
        /\ e.left = d.left /\ e.last = d.last /\ e.frame = d.frame
    BY <1>0, <1>1, <2>1, CameraFields DEF Cameras
  <2> QED
    BY <1>1, <2>2, SettingKeeps
<1>2. CASE r.op = "start"
  <2>1. e = [d EXCEPT !.start[r.axis] = r.to]
    BY <1>2 DEF CameraDoes
  <2>2. /\ e \in Cameras /\ e.has = d.has /\ e.exposing = d.exposing
        /\ e.left = d.left /\ e.last = d.last /\ e.frame = d.frame
    BY <1>0, <1>2, <2>1, CameraFields DEF Cameras
  <2> QED
    BY <1>2, <2>2, SettingKeeps
<1>3. CASE r.op = "num"
  <2>1. e = [d EXCEPT !.num[r.axis] = r.to]
    BY <1>3 DEF CameraDoes
  <2>2. /\ e \in Cameras /\ e.has = d.has /\ e.exposing = d.exposing
        /\ e.left = d.left /\ e.last = d.last /\ e.frame = d.frame
    BY <1>0, <1>3, <2>1, CameraFields DEF Cameras
  <2> QED
    BY <1>3, <2>2, SettingKeeps
<1>4. CASE r.op = "dial"
  <2>1. e = [d EXCEPT !.dial[r.which] = r.to]
    BY <1>4 DEF CameraDoes
  <2>2. /\ e \in Cameras /\ e.has = d.has /\ e.exposing = d.exposing
        /\ e.left = d.left /\ e.last = d.last /\ e.frame = d.frame /\ SameGeometry(d, e)
    BY <1>0, <1>4, <2>1, CameraFields DEF Cameras, SameGeometry
  <2> QED
    BY <2>2, SettingKeeps
<1>5. CASE r.op = "cooleron"
  <2>1. e = [d EXCEPT !.cooler = r.on]
    BY <1>5 DEF CameraDoes
  <2>2. /\ e \in Cameras /\ e.has = d.has /\ e.exposing = d.exposing
        /\ e.left = d.left /\ e.last = d.last /\ e.frame = d.frame /\ SameGeometry(d, e)
    BY <1>0, <1>5, <2>1, CameraFields DEF Cameras, SameGeometry
  <2> QED
    BY <2>2, SettingKeeps
<1>6. CASE r.op = "stopexposure"
  BY <1>6, StopKeeps DEF CameraDoes
<1>7. CASE r.op = "abortexposure"
  BY <1>7, AbortKeeps DEF CameraDoes
<1> QED
  BY <1>0, <1>1, <1>2, <1>3, <1>4, <1>5, <1>6, <1>7

\* A camera a tick later: the sensor gets colder, and a frame nearer.
Cooled(d) == IF d.cooling < CoolTime THEN d.cooling + 1 ELSE d.cooling

LaterCamera(d) == [d EXCEPT !.left = Down(d.left), !.cooling = Cooled(d)]

LEMMA CameraCools ==
  ASSUME NEW d, CameraFits(d)
  PROVE  Cooled(d) \in 0..CoolTime
BY CameraFields, CameraNumbers DEF Cooled

LEMMA CameraLater ==
  ASSUME NEW d, CameraFits(d)
  PROVE  LET e == LaterCamera(d) IN
           /\ CameraKeeps(d, e) /\ SameGeometry(d, e)
           /\ ~CameraView(d).exposing => Reported(e) = Reported(d)
<1> DEFINE e == LaterCamera(d)
<1>1. /\ Down(d.left) \in 0..MaxExposure /\ Down(d.left) <= d.left /\ Down(d.left) \in Nat
      /\ (d.left = 0 => Down(d.left) = d.left) /\ (Down(d.left) > 0 => d.left > 0)
  BY CameraFields, CameraNumbers DEF Down
<1>c. d \in Cameras /\ Cooled(d) \in 0..CoolTime
  BY CameraFields, CameraCools
<1>t. e \in Cameras
  BY <1>1, <1>c DEF Cameras, LaterCamera
<1>2. /\ e \in Cameras /\ e.left = Down(d.left) /\ e.last = d.last /\ e.has = d.has /\ e.exposing = d.exposing
      /\ e.frame = d.frame /\ SameGeometry(d, e) /\ e.dial = d.dial /\ e.cooler = d.cooler
  BY <1>c, <1>t DEF Cameras, SameGeometry, LaterCamera
<1> HIDE DEF e
<1>3. CameraFits(e)
  BY <1>1, <1>2, CameraFields DEF CameraFits
<1>4. CameraPhase(e) # CameraPhase(d) => CameraPhase(d) = "exposing"
  BY <1>1, <1>2, CameraFields DEF CameraPhase, ImageReady, Exposing
<1>5. ~CameraView(d).exposing => Reported(e) = Reported(d)
  <2> SUFFICES ASSUME ~CameraView(d).exposing PROVE Reported(e) = Reported(d)
    OBVIOUS
  <2>1. ~(d.exposing /\ d.left > 0)
    BY DEF CameraView, Exposing
  <2>2. d.has => d.left = 0
    BY <2>1, CameraFields
  <2>3. d.has => e.left = d.left
    BY <1>1, <1>2, <2>2
  <2>4. /\ ImageReady(e) = ImageReady(d) /\ Exposing(e) = Exposing(d)
    BY <1>1, <1>2, <2>1, <2>3, CameraFields DEF ImageReady, Exposing
  <2>5. (IF e.has THEN e.last - e.left ELSE 0) = (IF d.has THEN d.last - d.left ELSE 0)
    BY <1>2, <2>3
  <2> QED
    BY <1>2, <2>4, <2>5 DEF Reported, CameraView, SameGeometry
<1> QED
  BY <1>2, <1>3, <1>4, <1>5 DEF CameraKeeps, e

LEMMA ExposureStarts ==
  ASSUME NEW d, CameraFits(d), NEW duration \in 1..MaxExposure
  PROVE  LET e == StartExposure(d, duration) IN
           /\ CameraFits(e) /\ CameraPhase(e) = "exposing" /\ e.frame = d.num /\ SameGeometry(d, e)
<1> DEFINE e == StartExposure(d, duration)
<1>c. d \in Cameras /\ d.num \in [Axes -> Nat] /\ duration \in 0..MaxExposure
  BY CameraFields, CameraNumbers
<1>t. e \in Cameras
  BY <1>c, CameraNumbers DEF StartExposure, Cameras
<1>f. /\ e.left = duration /\ e.last = duration /\ e.has = TRUE /\ e.exposing = TRUE
      /\ e.frame = d.num /\ e.bin = d.bin /\ e.start = d.start /\ e.num = d.num
  BY <1>c DEF StartExposure, Cameras
<1>1. /\ e \in Cameras /\ e.left = duration /\ e.last = duration /\ e.has /\ e.exposing
      /\ e.frame = d.num /\ SameGeometry(d, e)
  BY <1>t, <1>f DEF SameGeometry
<1> HIDE DEF e
<1>2. duration > 0 /\ duration # 0
  BY CameraNumbers
<1> QED
  BY <1>1, <1>2 DEF CameraFits, CameraPhase, ImageReady, Exposing, e

-----------------------------------------------------------------------------
(* Driver *)

LEMMA DriverFits ==
  /\ NewDriver \in Drivers
  /\ \A d \in Drivers : /\ d.workers < MaxWorkers => Initiate(d) \in Drivers
                        /\ Cancel(d) \in Drivers
                        /\ d.workers > 0 => Worked(d) \subseteq Drivers
                        /\ d.connectors < MaxWorkers => ConnectBegun(d) \in Drivers
                        /\ d.connectors > 0 => \A ok \in BOOLEAN : ConnectEnded(d, ok) \in Drivers
<1>0. MaxWorkers \in Nat \ {0}
  BY OperationAssumption
<1>1. NewDriver \in Drivers
  BY <1>0 DEF NewDriver, Drivers, NewOp, Ops
<1>2. ASSUME NEW d \in Drivers
      PROVE  /\ d.workers < MaxWorkers => Initiate(d) \in Drivers
             /\ Cancel(d) \in Drivers
             /\ d.workers > 0 => Worked(d) \subseteq Drivers
             /\ d.connectors < MaxWorkers => ConnectBegun(d) \in Drivers
             /\ d.connectors > 0 => \A ok \in BOOLEAN : ConnectEnded(d, ok) \in Drivers
  <2>0. d.op \in Ops /\ d.connectOp \in Ops /\ d.workers \in 0..MaxWorkers /\ d.connectors \in 0..MaxWorkers
    BY DEF Drivers
  <2>1. \A o \in Ops : Begin(o) \in Ops /\ Complete(o) \in Ops /\ Fail(o) \in Ops
    BY OpsTyped
  <2>2. Busy(d.op) \in BOOLEAN
    BY DEF Busy
  <2>3. \A o \in Ops, n \in 0..MaxWorkers : [d EXCEPT !.op = o, !.workers = n] \in Drivers
    BY DEF Drivers
  <2>4. \A o \in Ops, n \in 0..MaxWorkers : [d EXCEPT !.connectOp = o, !.connectors = n] \in Drivers
    BY DEF Drivers
  <2>5. d.workers < MaxWorkers => Initiate(d) \in Drivers
    <3> SUFFICES ASSUME d.workers < MaxWorkers PROVE Initiate(d) \in Drivers
      OBVIOUS
    <3>1. d.workers + 1 \in 0..MaxWorkers
      BY <1>0, <2>0
    <3> QED
      BY <2>0, <2>1, <3>1 DEF Initiate, Drivers
  <2>6. Cancel(d) \in Drivers
    BY <2>2 DEF Cancel, Drivers
  <2>7. d.workers > 0 => Worked(d) \subseteq Drivers
    <3> SUFFICES ASSUME d.workers > 0, NEW e \in Worked(d) PROVE e \in Drivers
      OBVIOUS
    <3>1. PICK o \in {Fail(d.op), Complete(d.op)} : e = [d EXCEPT !.op = o, !.workers = d.workers - 1]
      BY DEF Worked
    <3>2. d.workers - 1 \in 0..MaxWorkers
      BY <1>0, <2>0
    <3>3. o \in Ops
      BY <2>0, <2>1
    <3>4. [d EXCEPT !.op = o, !.workers = d.workers - 1] \in Drivers
      BY <2>3, <3>2, <3>3, Zenon
    <3> QED
      BY <3>1, <3>4
  <2>8. d.connectors < MaxWorkers => ConnectBegun(d) \in Drivers
    <3> SUFFICES ASSUME d.connectors < MaxWorkers PROVE ConnectBegun(d) \in Drivers
      OBVIOUS
    <3>1. d.connectors + 1 \in 0..MaxWorkers
      BY <1>0, <2>0
    <3>2. ConnectBegun(d) = [d EXCEPT !.connectOp = Begin(d.connectOp), !.connectors = d.connectors + 1]
      BY DEF ConnectBegun
    <3>3. Begin(d.connectOp) \in Ops
      BY <2>0, <2>1
    <3> QED
      BY <2>4, <3>1, <3>2, <3>3, Zenon
  <2>9. ASSUME d.connectors > 0, NEW ok \in BOOLEAN PROVE ConnectEnded(d, ok) \in Drivers
    <3>1. d.connectors - 1 \in 0..MaxWorkers
      BY <1>0, <2>0, <2>9
    <3>2. PICK o \in {Fail(d.connectOp), Complete(d.connectOp)} :
            ConnectEnded(d, ok) = [d EXCEPT !.connectOp = o, !.connectors = d.connectors - 1]
      BY DEF ConnectEnded
    <3>3. o \in Ops
      BY <2>0, <2>1
    <3> QED
      BY <2>4, <3>1, <3>2, <3>3
  <2> QED
    BY <2>5, <2>6, <2>7, <2>8, <2>9
<1> QED
  BY <1>1, <1>2

-----------------------------------------------------------------------------
(* The dispatch over the kinds *)

Fits(k, d) ==
  /\ k = "rotator" => RotatorFits(d)
  /\ k = "focuser" => FocuserFits(d)
  /\ k = "wheel" => d \in Wheels
  /\ k = "dome" => DomeFits(d)
  /\ k = "cover" => CoverFits(d)
  /\ k = "board" => d \in Boards
  /\ k = "station" => d \in Stations
  /\ k = "camera" => CameraFits(d)
  /\ k = "driver" => d \in Drivers

LEMMA KindNames ==
  ASSUME NEW k \in Kinds
  PROVE  k \in {"rotator", "focuser", "wheel", "dome", "cover", "board", "station", "camera", "driver"}
BY RequestAssumption

LEMMA FitsTyped == ASSUME NEW k \in Kinds, NEW d, Fits(k, d) PROVE d \in Devices(k)
BY KindNames DEF Fits, Devices, RotatorFits, FocuserFits, DomeFits, CoverFits, CameraFits

LEMMA NewFits == ASSUME NEW k \in Kinds PROVE Fits(k, New(k))
BY KindNames, RotatorNew, FocuserNew, WheelFits, DomeNew, CoverNew, BoardFits, StationFits, CameraNew, DriverFits
   DEF Fits, New

LEMMA ReadFits == ASSUME NEW k \in Kinds, NEW d, Fits(k, d) PROVE Fits(k, Read(k, d))
<1>1. CASE k = "rotator"
  BY <1>1, RotatorRead DEF Fits, Read
<1>2. CASE k = "focuser"
  BY <1>2, FocuserRead DEF Fits, Read
<1>3. CASE k = "dome"
  BY <1>3, DomeRead DEF Fits, Read, DomeKeeps
<1>4. CASE k = "cover"
  BY <1>4, CoverRead DEF Fits, Read
<1>5. CASE k \notin {"rotator", "focuser", "dome", "cover"}
  BY <1>5 DEF Read
<1> QED
  BY <1>1, <1>2, <1>3, <1>4, <1>5

LEMMA DoneFits ==
  ASSUME NEW k \in Kinds, NEW d, Fits(k, d), NEW r \in PutCalls(k), ~Refuses(k, r)
  PROVE  Fits(k, Does(k, d, r))
<1>1. CASE k = "rotator"
  BY <1>1, RotatorDone DEF Fits, PutCalls, Refuses, Does
<1>2. CASE k = "focuser"
  BY <1>2, FocuserDone DEF Fits, PutCalls, Refuses, Does
<1>3. CASE k = "wheel"
  BY <1>3, WheelFits DEF Fits, PutCalls, Refuses, Does
<1>4. CASE k = "dome"
  BY <1>4, DomeDone DEF Fits, PutCalls, Refuses, Does, DomeAnswers, DomeKeeps
<1>5. CASE k = "cover"
  BY <1>5, CoverDone DEF Fits, PutCalls, Refuses, Does
<1>6. CASE k = "board"
  BY <1>6, BoardFits DEF Fits, PutCalls, Refuses, Does
<1>7. CASE k = "station"
  BY <1>7, StationFits DEF Fits, PutCalls, Refuses, Does
<1>8. CASE k = "camera"
  BY <1>8, CameraDone DEF Fits, PutCalls, Refuses, Does, CameraKeeps
<1>9. CASE k = "driver"
  BY <1>9 DEF PutCalls
<1> QED
  BY <1>1, <1>2, <1>3, <1>4, <1>5, <1>6, <1>7, <1>8, <1>9, KindNames

LEMMA LaterOfCamera == ASSUME NEW d PROVE Later("camera", d) = LaterCamera(d)
BY DEF Later, LaterCamera, Cooled

LEMMA LaterFits == ASSUME NEW k \in Kinds, NEW d, Fits(k, d) PROVE Fits(k, Later(k, d))
<1>1. CASE k = "rotator"
  BY <1>1, RotatorLater DEF Fits, Later
<1>2. CASE k = "focuser"
  BY <1>2, FocuserLater DEF Fits, Later
<1>3. CASE k = "wheel"
  BY <1>3, WheelFits DEF Fits, Later
<1>4. CASE k = "dome"
  <2>1. Later(k, d) = DomeLater(d)
    BY <1>4 DEF Later, DomeLater
  <2> QED
    BY <1>4, <2>1, DomeWaits DEF Fits
<1>5. CASE k = "cover"
  BY <1>5, CoverLater DEF Fits, Later
<1>6. CASE k = "camera"
  BY <1>6, CameraLater, LaterOfCamera DEF Fits, CameraKeeps
<1>7. CASE k \in {"board", "station", "driver"}
  BY <1>7 DEF Later
<1> QED
  BY <1>1, <1>2, <1>3, <1>4, <1>5, <1>6, <1>7, KindNames

-----------------------------------------------------------------------------
(* The state of the requests *)

Stages(k) ==
  IF k = "driver" THEN DriverStages
  ELSE IF k = "camera" THEN {"idle", "call", "seenbin", "seenstart", "expose", "image"}
  ELSE {"idle", "call"}

Geometries == [bin : [Axes -> Nat], start : [Axes -> Nat], num : [Axes -> Nat]]

\* The types, what fits each kind of device, and where its requests may stand.
TypeInv ==
  /\ kind \in Kinds /\ Fits(kind, device) /\ connected \in BOOLEAN
  /\ pc \in [Clients -> Stages(kind)]
  /\ seen \in [Clients -> Geometries] /\ dirty \subseteq Clients
  /\ handed \in [Axes -> Nat]

LEMMA TypeInvTypes == TypeInv => TypeOK
<1> SUFFICES ASSUME TypeInv PROVE TypeOK
  OBVIOUS
<1>1. device \in Devices(kind)
  BY FitsTyped DEF TypeInv
<1>2. pc \in [Clients -> {"idle", "gate", "call", "start", "interrupt", "seenbin", "seenstart", "expose", "image"}]
  BY DEF TypeInv, Stages, DriverStages
<1> QED
  BY <1>1, <1>2 DEF TypeInv, TypeOK

LEMMA BlankTyped == Blank \in Geometries
BY CameraNumbers DEF Blank, NewCamera, Geometries

LEMMA InitTyped == Init => TypeInv
<1> SUFFICES ASSUME Init PROVE TypeInv
  OBVIOUS
<1>1. Fits(kind, device)
  BY NewFits DEF Init
<1>2. NoFrame \in [Axes -> Nat]
  BY DEF NoFrame
<1> QED
  BY <1>1, <1>2, BlankTyped DEF Init, TypeInv, Stages, DriverStages

LEMMA AnsweredTyped ==
  ASSUME NEW c \in Clients, TypeInv, Answered(c)
  PROVE  /\ kind' = kind /\ pc' \in [Clients -> Stages(kind)]
         /\ seen' \in [Clients -> Geometries] /\ dirty' \subseteq Clients
BY BlankTyped DEF Answered, Goto, TypeInv, Stages, DriverStages

LEMMA GotoTyped ==
  ASSUME NEW c \in Clients, TypeInv, NEW at \in Stages(kind), Goto(c, at)
  PROVE  pc' \in [Clients -> Stages(kind)]
BY DEF Goto, TypeInv

\* Which kinds of device a request at a step is of.
LEMMA StageKinds ==
  ASSUME NEW c \in Clients, TypeInv
  PROVE  /\ pc[c] \in {"gate", "start", "interrupt"} => kind = "driver"
         /\ pc[c] \in {"seenbin", "seenstart", "expose", "image"} => kind = "camera"
         /\ pc[c] = "call" => kind # "driver"
BY DEF TypeInv, Stages, DriverStages

DeviceMoves ==
  \/ device' = device
  \/ device' = Read(kind, device)
  \/ \E c \in Clients, r \in PutCalls(kind) :
       Put(c, r) /\ ~Refuses(kind, r) /\ device' = Does(kind, device, r)
  \/ \E c \in Clients, duration \in Durations :
       /\ kind = "camera" /\ Expose(c, duration)
       /\ duration \in 1..MaxExposure /\ device' = StartExposure(device, duration)
  \/ Tick
  \/ kind = "driver" /\ device' \in Drivers

LEMMA ExposeRefused ==
  ASSUME NEW duration
  PROVE  CameraRefuses([op |-> "startexposure", to |-> duration]) <=> duration \notin 1..MaxExposure
BY DEF CameraRefuses

LEMMA UsersAreClients == ASSUME NEW c \in Users PROVE c \in Clients
BY RequestAssumption DEF Users

RequestsTyped ==
  /\ kind' = kind /\ connected' \in BOOLEAN /\ pc' \in [Clients -> Stages(kind)]
  /\ seen' \in [Clients -> Geometries] /\ dirty' \subseteq Clients

LEMMA MovesFit == ASSUME TypeInv, DeviceMoves, kind' = kind PROVE Fits(kind', device')
<1>0. kind \in Kinds /\ Fits(kind, device)
  BY DEF TypeInv
<1>1. CASE device' \in {device, Read(kind, device)}
  BY <1>0, <1>1, ReadFits
<1>2. ASSUME NEW r \in PutCalls(kind), ~Refuses(kind, r), device' = Does(kind, device, r)
      PROVE  Fits(kind, device')
  BY <1>0, <1>2, DoneFits
<1>3. ASSUME NEW duration \in 1..MaxExposure, kind = "camera", device' = StartExposure(device, duration)
      PROVE  Fits(kind, device')
  <2>1. CameraFits(device')
    BY <1>0, <1>3, ExposureStarts DEF Fits
  <2> QED
    BY <1>3, <2>1 DEF Fits
<1>4. CASE Tick
  BY <1>0, <1>4, LaterFits DEF Tick
<1>5. CASE kind = "driver" /\ device' \in Drivers
  BY <1>5 DEF Fits
<1> QED
  BY <1>1, <1>2, <1>3, <1>4, <1>5 DEF DeviceMoves

LEMMA RequestStep ==
  ASSUME TypeInv, NEW c \in Clients, Request(c)
  PROVE  RequestsTyped /\ DeviceMoves
<1> USE DEF RequestsTyped
<1>0. /\ kind \in Kinds /\ Fits(kind, device) /\ connected \in BOOLEAN /\ pc \in [Clients -> Stages(kind)]
      /\ seen \in [Clients -> Geometries] /\ dirty \subseteq Clients
  BY DEF TypeInv
<1>1. ASSUME Arrive(c) PROVE RequestsTyped /\ DeviceMoves
  <2>1. PICK at \in (IF kind = "driver" THEN {"gate", "interrupt"} ELSE {"call"}) : Goto(c, at)
    BY <1>1 DEF Arrive
  <2>2. at \in Stages(kind)
    BY <2>1 DEF Stages, DriverStages
  <2> QED
    BY <1>0, <1>1, <2>1, <2>2, GotoTyped DEF Arrive, DeviceMoves
<1>2. ASSUME BusyGate(c) PROVE RequestsTyped /\ DeviceMoves
  <2>1. "start" \in Stages(kind)
    BY <1>2, StageKinds DEF BusyGate, Stages, DriverStages
  <2> QED
    BY <1>0, <1>2, <2>1, GotoTyped, AnsweredTyped DEF BusyGate, DeviceMoves
<1>3. ASSUME Connect(c) PROVE RequestsTyped /\ DeviceMoves
  <2>1. CASE kind = "driver"
    BY <1>0, <1>3, <2>1, DriverFits DEF Connect, DeviceMoves, Fits
  <2>2. CASE kind # "driver"
    BY <1>0, <1>3, <2>2 DEF Connect, DeviceMoves
  <2> QED
    BY <2>1, <2>2
<1>4. ASSUME Disconnect(c) PROVE RequestsTyped /\ DeviceMoves
  BY <1>0, <1>4 DEF Disconnect, DeviceMoves
<1>5. ASSUME BadRequest(c) PROVE RequestsTyped /\ DeviceMoves
  BY <1>0, <1>5, AnsweredTyped DEF BadRequest, DeviceMoves
<1>6. ASSUME Get(c) PROVE RequestsTyped /\ DeviceMoves
  BY <1>0, <1>6, AnsweredTyped DEF Get, DeviceMoves
<1>7. ASSUME NEW r \in PutCalls(kind), Put(c, r) PROVE RequestsTyped /\ DeviceMoves
  <2>1. "idle" \in Stages(kind)
    BY DEF Stages, DriverStages
  <2>2. dirty' \subseteq Clients
    BY <1>0, <1>7 DEF Put, Overtaken
  <2>3. DeviceMoves
    BY <1>7 DEF Put, DeviceMoves
  <2> QED
    BY <1>0, <1>7, <2>1, <2>2, <2>3, GotoTyped DEF Put
<1>8. ASSUME SeeBin(c) PROVE RequestsTyped /\ DeviceMoves
  <2>1. CameraFits(device) /\ "seenbin" \in Stages(kind)
    BY <1>0, <1>8 DEF SeeBin, Fits, Stages
  <2>2. device.bin \in [Axes -> Nat]
    BY <2>1, CameraFields, CameraNumbers
  <2>3. seen' \in [Clients -> Geometries]
    BY <1>0, <1>8, <2>2 DEF SeeBin, Geometries
  <2> QED
    BY <1>0, <1>8, <2>1, <2>3, GotoTyped DEF SeeBin, DeviceMoves
<1>9. ASSUME SeeStart(c) PROVE RequestsTyped /\ DeviceMoves
  <2>0. kind = "camera"
    BY <1>9, StageKinds DEF SeeStart
  <2>1. CameraFits(device) /\ "seenstart" \in Stages(kind)
    BY <1>0, <2>0 DEF Fits, Stages
  <2>2. device.start \in [Axes -> Nat]
    BY <2>1, CameraFields
  <2>3. seen' \in [Clients -> Geometries]
    BY <1>0, <1>9, <2>2 DEF SeeStart, Geometries
  <2> QED
    BY <1>0, <1>9, <2>1, <2>3, GotoTyped DEF SeeStart, DeviceMoves
<1>10. ASSUME SeeNum(c) PROVE RequestsTyped /\ DeviceMoves
  <2>0. kind = "camera"
    BY <1>10, StageKinds DEF SeeNum
  <2>1. CameraFits(device) /\ "expose" \in Stages(kind)
    BY <1>0, <2>0 DEF Fits, Stages
  <2>2. device.num \in [Axes -> Nat]
    BY <2>1, CameraFields
  <2>3. CASE Answered(c)
    BY <1>0, <1>10, <2>3, AnsweredTyped DEF SeeNum, DeviceMoves
  <2>4. CASE ~Answered(c)
    <3>1. /\ seen' = [seen EXCEPT ![c].num = device.num] /\ Goto(c, "expose")
          /\ UNCHANGED <<kind, dirty, device, connected>>
      BY <1>10, <2>4 DEF SeeNum
    <3>2. seen' \in [Clients -> Geometries]
      BY <1>0, <2>2, <3>1 DEF Geometries
    <3> QED
      BY <1>0, <2>1, <3>1, <3>2, GotoTyped DEF DeviceMoves
  <2> QED
    BY <2>3, <2>4
<1>11. ASSUME NEW duration \in Durations, Expose(c, duration) PROVE RequestsTyped /\ DeviceMoves
  <2>0. kind = "camera"
    BY <1>11, StageKinds DEF Expose
  <2>1. DeviceMoves
    BY <1>11, <2>0, ExposeRefused DEF Expose, DeviceMoves
  <2> QED
    BY <1>0, <1>11, <2>1, AnsweredTyped DEF Expose
<1>12. ASSUME AskImage(c) PROVE RequestsTyped /\ DeviceMoves
  <2>1. "image" \in Stages(kind)
    BY <1>12 DEF AskImage, Stages
  <2> QED
    BY <1>0, <1>12, <2>1, GotoTyped, AnsweredTyped DEF AskImage, DeviceMoves
<1>13. ASSUME GetImage(c) PROVE RequestsTyped /\ DeviceMoves
  BY <1>0, <1>13, AnsweredTyped DEF GetImage, DeviceMoves
<1>14. ASSUME Initiator(c) PROVE RequestsTyped /\ DeviceMoves
  <2>0. kind = "driver" /\ device \in Drivers
    BY <1>0, <1>14, StageKinds DEF Initiator, Fits
  <2>1. DeviceMoves
    BY <1>14, <2>0, DriverFits DEF Initiator, DeviceMoves
  <2> QED
    BY <1>0, <1>14, <2>1, AnsweredTyped DEF Initiator
<1>15. ASSUME Interrupt(c) PROVE RequestsTyped /\ DeviceMoves
  <2>0. kind = "driver" /\ device \in Drivers
    BY <1>0, <1>15, StageKinds DEF Interrupt, Fits
  <2>1. DeviceMoves
    BY <1>15, <2>0, DriverFits DEF Interrupt, DeviceMoves
  <2> QED
    BY <1>0, <1>15, <2>1, AnsweredTyped DEF Interrupt
<1> QED
  BY <1>1, <1>2, <1>3, <1>4, <1>5, <1>6, <1>7, <1>8, <1>9, <1>10, <1>11, <1>12, <1>13, <1>14, <1>15 DEF Request

\* A client is handed the frame of an image that is ready, or nothing new.
HandedMoves ==
  \/ handed' = handed
  \/ kind = "camera" /\ ImageReady(device) /\ handed' = device.frame /\ device' = device

LEMMA HandedStep == ASSUME TypeInv, [Next]_vars PROVE HandedMoves
<1>1. ASSUME NEW c \in Clients, GetImage(c) PROVE HandedMoves
  <2>1. kind = "camera"
    BY <1>1, StageKinds DEF GetImage
  <2> QED
    BY <1>1, <2>1 DEF GetImage, HandedMoves
<1>2. ASSUME NEW c \in Clients, Request(c), ~GetImage(c) PROVE handed' = handed
  <2>1. ASSUME NEW r \in PutCalls(kind), Put(c, r) PROVE handed' = handed
    BY <2>1 DEF Put
  <2>2. ASSUME NEW duration \in Durations, Expose(c, duration) PROVE handed' = handed
    BY <2>2 DEF Expose
  <2>3. CASE Arrive(c) \/ BusyGate(c) \/ Connect(c) \/ Disconnect(c) \/ BadRequest(c) \/ Get(c)
    BY <2>3 DEF Arrive, BusyGate, Connect, Disconnect, BadRequest, Get
  <2>4. CASE SeeBin(c) \/ SeeStart(c) \/ SeeNum(c) \/ AskImage(c) \/ Initiator(c) \/ Interrupt(c)
    BY <2>4 DEF SeeBin, SeeStart, SeeNum, AskImage, Initiator, Interrupt
  <2> QED
    BY <1>2, <2>1, <2>2, <2>3, <2>4 DEF Request
<1>3. CASE WorkEnds \/ ConnectEnds \/ Tick \/ UNCHANGED vars
  BY <1>3 DEF WorkEnds, ConnectEnds, Tick, vars, HandedMoves
<1> QED
  BY <1>1, <1>2, <1>3, UsersAreClients DEF Next, HandedMoves

LEMMA StepTyped ==
  ASSUME TypeInv, [Next]_vars
  PROVE  TypeInv' /\ kind' = kind /\ DeviceMoves
<1>0. /\ kind \in Kinds /\ Fits(kind, device) /\ connected \in BOOLEAN /\ pc \in [Clients -> Stages(kind)]
      /\ seen \in [Clients -> Geometries] /\ dirty \subseteq Clients
  BY DEF TypeInv
<1>1. RequestsTyped /\ DeviceMoves
  <2>1. ASSUME NEW c \in Users, Request(c) PROVE RequestsTyped /\ DeviceMoves
    BY <2>1, UsersAreClients, RequestStep
  <2>2. CASE WorkEnds
    BY <1>0, <2>2, DriverFits DEF WorkEnds, RequestsTyped, DeviceMoves, Fits
  <2>3. CASE ConnectEnds
    BY <1>0, <2>3, DriverFits DEF ConnectEnds, RequestsTyped, DeviceMoves, Fits
  <2>4. CASE Tick
    BY <1>0, <2>4 DEF Tick, RequestsTyped, DeviceMoves
  <2>5. CASE UNCHANGED vars
    BY <1>0, <2>5 DEF vars, RequestsTyped, DeviceMoves
  <2> QED
    BY <2>1, <2>2, <2>3, <2>4, <2>5 DEF Next
<1>2. Fits(kind', device')
  BY <1>1, MovesFit DEF RequestsTyped
<1>3. handed' \in [Axes -> Nat]
  <2>1. kind = "camera" => device.frame \in [Axes -> Nat]
    BY <1>0, CameraFields DEF Fits
  <2> QED
    BY <2>1, HandedStep DEF TypeInv, HandedMoves
<1> QED
  BY <1>0, <1>1, <1>2, <1>3 DEF TypeInv, RequestsTyped

\* Every variable keeps its type and every countdown its range, for any clients,
\* any kinds of device and any sizes of them (sim, server/httpserver.go).
THEOREM TypeCorrect == Spec => []TypeOK
<1>1. TypeInv /\ [Next]_vars => TypeInv'
  BY StepTyped
<1> QED
  BY <1>1, InitTyped, TypeInvTypes, PTL DEF Spec

-----------------------------------------------------------------------------
(* What a device reports, from one state to the next *)

\* A step of the dome keeps its place and its word, or is a sync or a tick.
LEMMA DomeStep ==
  ASSUME TypeInv, [Next]_vars, kind = "dome"
  PROVE  \/ DomeKeeps(device, device')
         \/ Synced
         \/ Tick /\ device' = DomeLater(device)
<1>0. DomeFits(device) /\ DeviceMoves
  BY StepTyped DEF TypeInv, Fits
<1>1. CASE device' = device
  BY <1>0, <1>1 DEF DomeKeeps
<1>2. CASE device' = Read(kind, device)
  BY <1>0, <1>2, DomeRead DEF Read
<1>3. ASSUME NEW c \in Clients, NEW r \in PutCalls(kind),
             Put(c, r), ~Refuses(kind, r), device' = Does(kind, device, r)
      PROVE  DomeKeeps(device, device') \/ Synced
  <2>1. r \in DomeCalls /\ ~DomeRefuses(r) /\ device' = DomeDoes(device, r)
    BY <1>3 DEF PutCalls, Refuses, Does
  <2>2. CASE r.op = "synctoazimuth"
    <3>1. r = [op |-> "synctoazimuth", to |-> r.to] /\ r.to \in Angles
      BY <2>1, <2>2 DEF DomeCalls
    <3> QED
      BY <1>3, <3>1 DEF Synced
  <2>3. CASE r.op # "synctoazimuth"
    BY <1>0, <2>1, <2>3, DomeDone DEF DomeAnswers
  <2> QED
    BY <2>2, <2>3
<1>4. CASE Tick
  BY <1>4 DEF Tick, Later, DomeLater
<1> QED
  BY <1>0, <1>1, <1>2, <1>3, <1>4 DEF DeviceMoves

LEMMA NoTeleportStep ==
  ASSUME TypeInv, [Next]_vars
  PROVE  \A i \in DOMAIN LegsOf(kind, device) :
           LET leg == LegsOf(kind, device)[i] IN
             \/ Position(LegsOf(kind, device')[i]) = Position(leg)
             \/ Tick /\ Neighbours(leg, Position(leg), Position(LegsOf(kind, device')[i]))
             \/ Synced
<1>0. Fits(kind, device) /\ kind' = kind /\ DeviceMoves
  BY StepTyped DEF TypeInv
<1>1. CASE kind = "rotator"
  <2>1. RotatorFits(device) /\ LegsOf(kind, device) = <<device.leg>> /\ LegsOf(kind, device') = <<device'.leg>>
    BY <1>0, <1>1 DEF Fits, LegsOf
  <2>2. \/ Position(device'.leg) = Position(device.leg)
        \/ Tick /\ Neighbours(device.leg, Position(device.leg), Position(device'.leg))
    <3>1. CASE device' = device
      BY <3>1
    <3>2. CASE device' = Read(kind, device)
      <4>1. device' = [device EXCEPT !.leg = SettledLeg(device.leg)]
        BY <1>1, <3>2 DEF Read
      <4> QED
        BY <2>1, <4>1, RotatorRead
    <3>3. ASSUME NEW c \in Clients, NEW r \in PutCalls(kind), ~Refuses(kind, r),
                 device' = Does(kind, device, r)
          PROVE  Position(device'.leg) = Position(device.leg)
      <4>1. r \in RotatorCalls /\ device' = RotatorDoes(device, r) /\ ~RotatorRefuses(r)
        BY <1>1, <3>3 DEF PutCalls, Refuses, Does
      <4> QED
        BY <2>1, <4>1, RotatorDone
    <3>4. CASE Tick
      <4>1. device' = [device EXCEPT !.leg = LaterLeg(device.leg)]
        BY <1>1, <3>4 DEF Tick, Later
      <4> QED
        BY <2>1, <3>4, <4>1, RotatorLater
    <3> QED
      BY <1>0, <1>1, <3>1, <3>2, <3>3, <3>4 DEF DeviceMoves
  <2> QED
    BY <2>1, <2>2
<1>2. CASE kind = "focuser"
  <2>1. FocuserFits(device) /\ LegsOf(kind, device) = <<device.leg>> /\ LegsOf(kind, device') = <<device'.leg>>
    BY <1>0, <1>2 DEF Fits, LegsOf
  <2>2. \/ Position(device'.leg) = Position(device.leg)
        \/ Tick /\ Neighbours(device.leg, Position(device.leg), Position(device'.leg))
    <3>1. CASE device' = device
      BY <3>1
    <3>2. CASE device' = Read(kind, device)
      <4>1. device' = [device EXCEPT !.leg = SettledLeg(device.leg)]
        BY <1>2, <3>2 DEF Read
      <4> QED
        BY <2>1, <4>1, FocuserRead
    <3>3. ASSUME NEW c \in Clients, NEW r \in PutCalls(kind), ~Refuses(kind, r),
                 device' = Does(kind, device, r)
          PROVE  Position(device'.leg) = Position(device.leg)
      <4>1. r \in FocuserCalls /\ device' = FocuserDoes(device, r)
        BY <1>2, <3>3 DEF PutCalls, Refuses, Does
      <4> QED
        BY <2>1, <4>1, FocuserDone
    <3>4. CASE Tick
      <4>1. device' = [device EXCEPT !.leg = LaterLeg(device.leg)]
        BY <1>2, <3>4 DEF Tick, Later
      <4> QED
        BY <2>1, <3>4, <4>1, FocuserLater
    <3> QED
      BY <1>0, <1>2, <3>1, <3>2, <3>3, <3>4 DEF DeviceMoves
  <2> QED
    BY <2>1, <2>2
<1>4. CASE kind = "dome"
  <2>1. /\ DomeFits(device) /\ LegsOf(kind, device) = <<device.az, device.alt>>
        /\ LegsOf(kind, device') = <<device'.az, device'.alt>>
    BY <1>0, <1>4 DEF Fits, LegsOf
  <2>2. CASE Synced
    BY <2>2
  <2>3. CASE DomeKeeps(device, device')
    BY <2>1, <2>3 DEF DomeKeeps
  <2>4. CASE Tick /\ device' = DomeLater(device)
    BY <2>1, <2>4, DomeWaits
  <2> QED
    BY <1>4, <2>2, <2>3, <2>4, DomeStep
<1>3. CASE kind \notin {"rotator", "focuser", "dome"}
  <2>1. LegsOf(kind, device) = << >>
    BY <1>3 DEF LegsOf
  <2> QED
    BY <2>1
<1> QED
  BY <1>1, <1>2, <1>3, <1>4

\* No call, halt or new target makes a reported position jump: positions change
\* by time only, a unit a tick (sim/rotator.go, focuser.go, dome.go).
THEOREM PositionsContinuous == Spec => NoTeleport
<1>1. TypeInv /\ [Next]_vars => TypeInv'
  BY StepTyped
<1> DEFINE Moved ==
      \A i \in DOMAIN LegsOf(kind, device) :
        LET leg == LegsOf(kind, device)[i] IN
          \/ Position(LegsOf(kind, device')[i]) = Position(leg)
          \/ Tick /\ Neighbours(leg, Position(leg), Position(LegsOf(kind, device')[i]))
          \/ Synced
<1>2. TypeInv /\ [Next]_vars => [Moved]_vars
  BY NoTeleportStep
<1> QED
  BY <1>1, <1>2, InitTyped, PTL DEF Spec, NoTeleport

LEMMA StillStep ==
  ASSUME TypeInv, [Next]_vars, Tick, ~SaysBusy(kind, device)
  PROVE  Completed(kind, device') = Completed(kind, device)
<1>0. Fits(kind, device) /\ kind \in Kinds /\ device' = Later(kind, device)
  BY DEF TypeInv, Tick
<1>1. CASE kind = "rotator"
  BY <1>0, <1>1, RotatorLater DEF Fits, Later, SaysBusy, DeviceState
<1>2. CASE kind = "focuser"
  BY <1>0, <1>2, FocuserLater DEF Fits, Later, SaysBusy, DeviceState
<1>3. CASE kind = "wheel"
  BY <1>0, <1>3, WheelFits DEF Fits, Later, SaysBusy, DeviceState
<1>4. CASE kind = "dome"
  <2>1. device' = DomeLater(device) /\ ~DomeView(device).slewing
    BY <1>0, <1>4 DEF Later, DomeLater, SaysBusy, DeviceState
  <2> QED
    BY <1>0, <1>4, <2>1, DomeWaits DEF Fits
<1>5. CASE kind = "cover"
  BY <1>0, <1>5, CoverLater DEF Fits, Later, SaysBusy, DeviceState
<1>6. CASE kind = "camera"
  <2>1. CameraFits(device) /\ ~CameraView(device).exposing /\ device' = LaterCamera(device)
    BY <1>0, <1>6, LaterOfCamera DEF Fits, SaysBusy, DeviceState
  <2> QED
    BY <1>6, <2>1, CameraLater DEF Completed, Reported, DeviceState
<1>7. CASE kind \in {"board", "station", "driver"}
  BY <1>0, <1>7 DEF Later
<1> QED
  BY <1>0, <1>1, <1>2, <1>3, <1>4, <1>5, <1>6, <1>7, KindNames DEF Completed

\* A client that has been told that nothing moves sees nothing change by itself
\* but the temperature of a cooled sensor (the completion properties of sim and
\* server/devicestate.go).
THEOREM StillMeansStill == Spec => StillWhenSaid
<1>1. TypeInv /\ [Next]_vars => TypeInv'
  BY StepTyped
<1> DEFINE Still == Tick => SaysBusy(kind, device) \/ Completed(kind, device') = Completed(kind, device)
<1>2. TypeInv /\ [Next]_vars => [Still]_vars
  BY StillStep
<1> QED
  BY <1>1, <1>2, InitTyped, PTL DEF Spec, StillWhenSaid

\* A dome that says parked or home is at azimuth 0, whatever calls and halts
\* came on the way there (sim/dome.go).
THEOREM ParkedAndHomeTrue == Spec => ParkAndHomeAtZero
<1>1. TypeInv /\ [Next]_vars => TypeInv'
  BY StepTyped
<1> DEFINE Kept == kind = "dome" /\ ParkedAtZero(device) /\ ~Synced => ParkedAtZero(device')
<1>2. TypeInv /\ [Next]_vars => [Kept]_vars
  <2> SUFFICES ASSUME TypeInv, [Next]_vars, kind = "dome", ParkedAtZero(device), ~Synced
               PROVE  ParkedAtZero(device')
    OBVIOUS
  <2>1. DomeFits(device)
    BY DEF TypeInv, Fits
  <2> QED
    BY <2>1, DomeStep, DomeWaits DEF DomeKeeps
<1> QED
  BY <1>1, <1>2, InitTyped, PTL DEF Spec, ParkAndHomeAtZero

\* A cover is reported open or closed only after it has travelled there, and
\* only time ends a move (sim/covercalibrator.go).
THEOREM CoverTravels == Spec => CoverKnown
<1>1. TypeInv /\ [Next]_vars => TypeInv'
  BY StepTyped
<1> DEFINE Known ==
      kind = "cover" =>
        LET was == CoverView(device).coverstate
            is  == CoverView(device').coverstate
        IN is \in {"open", "closed"} /\ is # was => was = "moving" /\ Tick
<1>2. TypeInv /\ [Next]_vars => [Known]_vars
  <2> SUFFICES ASSUME TypeInv, [Next]_vars, kind = "cover",
                      CoverView(device').coverstate \in {"open", "closed"},
                      CoverView(device').coverstate # CoverView(device).coverstate
               PROVE  CoverView(device).coverstate = "moving" /\ Tick
    OBVIOUS
  <2>0. CoverFits(device) /\ DeviceMoves
    BY StepTyped DEF TypeInv, Fits
  <2>1. device' # Read(kind, device)
    <3>1. Read(kind, device) = SettledCover(device)
      BY DEF Read
    <3>2. LET e == SettledCover(device) IN
            CoverFits(e) /\ e.coverLeft = device.coverLeft /\ e.cover = device.cover
      BY <2>0, CoverRead
    <3> QED
      BY <2>0, <3>1, <3>2, CoverState
  <2>2. ASSUME NEW r \in PutCalls(kind), ~Refuses(kind, r), device' = Does(kind, device, r) PROVE FALSE
    <3>1. r \in CoverCalls /\ ~CoverRefuses(r) /\ device' = CoverDoes(device, r)
      BY <2>2 DEF PutCalls, Refuses, Does
    <3>2. CoverView(device').coverstate \in {CoverView(device).coverstate, "moving", "unknown"}
      BY <2>0, <3>1, CoverDone
    <3> QED
      BY <3>2
  <2>3. Tick
    BY <2>0, <2>1, <2>2 DEF DeviceMoves
  <2>4. device' = [device EXCEPT !.lampLeft = Down(@), !.coverLeft = Down(@)]
    BY <2>3 DEF Tick, Later
  <2> QED
    BY <2>0, <2>3, <2>4, CoverLater
<1> QED
  BY <1>1, <1>2, InitTyped, PTL DEF Spec, CoverKnown

-----------------------------------------------------------------------------
(* The camera *)

\* What the step of a camera is: no exposure begins, or Expose.
LEMMA CameraStep ==
  ASSUME TypeInv, [Next]_vars, kind = "camera"
  PROVE  \/ CameraKeeps(device, device')
         \/ \E c \in Clients, duration \in Durations :
              /\ Expose(c, duration) /\ duration \in 1..MaxExposure
              /\ device' = StartExposure(device, duration)
<1>0. CameraFits(device) /\ DeviceMoves
  BY StepTyped DEF TypeInv, Fits
<1>1. CASE device' = device \/ device' = Read(kind, device)
  BY <1>0, <1>1 DEF Read, CameraKeeps
<1>2. ASSUME NEW r \in PutCalls(kind), ~Refuses(kind, r), device' = Does(kind, device, r)
      PROVE  CameraKeeps(device, device')
  <2>1. r \in CameraCalls /\ r.op # "startexposure" /\ ~CameraRefuses(r) /\ device' = CameraDoes(device, r)
    BY <1>2 DEF PutCalls, Refuses, Does
  <2> QED
    BY <1>0, <2>1, CameraDone
<1>3. CASE Tick
  <2>1. device' = LaterCamera(device)
    BY <1>3, LaterOfCamera DEF Tick
  <2> QED
    BY <1>0, <2>1, CameraLater
<1> QED
  BY <1>0, <1>1, <1>2, <1>3 DEF DeviceMoves

CameraFrame == IF kind = "camera" THEN device.frame ELSE NoFrame

LEMMA PromiseInit == Init => Promise!Init
<1> SUFFICES ASSUME Init PROVE Promise!Init
  OBVIOUS
<1>1. NoFrame \in [Axes -> Nat]
  BY DEF NoFrame
<1>0. handed = NoFrame
  BY DEF Init
<1>2. CASE kind = "camera"
  <2>1. device = NewCamera
    BY <1>2 DEF Init, New
  <2>2. Phase = "none" /\ device.frame = NoFrame
    BY <1>2, <2>1 DEF Phase, NewCamera, ImageReady, Exposing, NoFrame
  <2> QED
    BY <1>0, <1>1, <1>2, <2>2 DEF Promise!Init
<1>3. CASE kind # "camera"
  BY <1>0, <1>1, <1>3 DEF Promise!Init, Phase
<1> QED
  BY <1>2, <1>3

LEMMA PromiseStep ==
  ASSUME TypeInv, [Next]_vars
  PROVE  [Promise!Next]_(Promise!vars)
<1>0. kind' = kind /\ TypeInv' /\ HandedMoves
  BY StepTyped, HandedStep
<1>1. CASE kind # "camera"
  <2>1. Phase = "none" /\ Phase' = "none" /\ CameraFrame = NoFrame /\ CameraFrame' = NoFrame
    BY <1>0, <1>1 DEF Phase, CameraFrame, NoFrame
  <2>2. handed' = handed
    BY <1>0, <1>1 DEF HandedMoves
  <2> QED
    BY <2>1, <2>2 DEF Promise!vars, CameraFrame
<1>2. CASE kind = "camera"
  <2>0. CameraFits(device) /\ CameraFits(device')
    BY <1>0, <1>2 DEF TypeInv, Fits
  <2>1. /\ Phase = CameraPhase(device) /\ Phase' = CameraPhase(device')
        /\ CameraFrame = device.frame /\ CameraFrame' = device'.frame
    BY <1>0, <1>2 DEF Phase, CameraPhase, CameraFrame
  <2>4. CASE handed' # handed
    <3>1. /\ ImageReady(device) /\ handed' = device.frame /\ device' = device
      BY <1>0, <2>4 DEF HandedMoves
    <3>2. Phase = "image" /\ UNCHANGED <<Phase, CameraFrame>> /\ handed' = CameraFrame
      BY <2>1, <3>1 DEF CameraPhase
    <3> QED
      BY <3>2 DEF Promise!Next, Promise!Hand, CameraFrame
  <2>2. CASE handed' = handed /\ CameraKeeps(device, device')
    <3>1. CameraPhase(device') \in {"image", "none", "exposing"}
      BY DEF CameraPhase
    <3>2. CameraFrame' = CameraFrame /\ (Phase' # Phase => Phase = "exposing" /\ Phase' \in {"image", "none"})
      BY <2>1, <2>2, <3>1 DEF CameraKeeps
    <3> QED
      BY <2>2, <3>2 DEF Promise!vars, Promise!Next, Promise!Finish, Promise!Abort, CameraFrame
  <2>3. ASSUME handed' = handed, NEW duration \in 1..MaxExposure, device' = StartExposure(device, duration)
        PROVE  Promise!Next
    <3>1. CameraPhase(device') = "exposing" /\ device'.frame \in [Axes -> Nat]
      BY <2>0, <2>3, ExposureStarts, CameraFields
    <3> QED
      BY <2>1, <2>3, <3>1 DEF Promise!Next, Promise!Start, CameraFrame
  <2> QED
    BY <1>2, <2>2, <2>3, <2>4, CameraStep
<1> QED
  BY <1>1, <1>2

\* The camera implements ExposurePromise: an image appears only at the end of an
\* exposure, an aborted one never becomes an image, and what a client is handed
\* is an image that is ready, of the rectangle that was exposed (sim/camera.go,
\* server/httpserver.go).
THEOREM CameraImplements == Spec => CameraAsPromised
<1>1. TypeInv /\ [Next]_vars => TypeInv'
  BY StepTyped
<1>2. TypeInv /\ [Next]_vars => [Promise!Next]_(Promise!vars)
  BY PromiseStep
<1> QED
  BY <1>1, <1>2, InitTyped, PromiseInit, PTL DEF Spec, CameraAsPromised, Promise!Spec

-----------------------------------------------------------------------------
(* The check of the subframe *)

\* What a client that checks the subframe has seen, unless another overtook it.
CheckHolds(c) ==
  /\ pc[c] \in {"seenbin", "seenstart", "expose"} => seen[c].bin = device.bin
  /\ pc[c] \in {"seenstart", "expose"} => seen[c].start = device.start
  /\ pc[c] = "expose" => ValidSubframe(device.bin, device.start, device.num)

SeenInv == kind = "camera" => \A c \in Clients \ dirty : CheckHolds(c)

LEMMA NotChecking ==
  ASSUME NEW c \in Clients, pc'[c] \notin {"seenbin", "seenstart", "expose"}
  PROVE  CheckHolds(c)'
BY DEF CheckHolds

LEMMA GeometryStays ==
  ASSUME NEW c \in Clients, CheckHolds(c), pc'[c] = pc[c], seen'[c] = seen[c], SameGeometry(device, device')
  PROVE  CheckHolds(c)'
BY DEF CheckHolds, SameGeometry

\* A step of one client, or of none, that leaves the geometry and other clients.
LEMMA OthersStay ==
  ASSUME SeenInv, kind = "camera", NEW c \in Clients, CheckHolds(c)' \/ c \in dirty',
         SameGeometry(device, device'), dirty \ {c} \subseteq dirty',
         \A o \in Clients \ {c} : pc'[o] = pc[o] /\ seen'[o] = seen[o]
  PROVE  SeenInv'
<1>1. ASSUME NEW o \in Clients, o \notin dirty', o # c PROVE CheckHolds(o)'
  <2>1. o \notin dirty /\ CheckHolds(o)
    BY <1>1 DEF SeenInv
  <2> QED
    BY <1>1, <2>1, GeometryStays
<1>2. \A o \in Clients \ dirty' : CheckHolds(o)'
  BY <1>1
<1> QED
  BY <1>2 DEF SeenInv

LEMMA AnsweredSeen ==
  ASSUME TypeInv, SeenInv, kind = "camera", NEW c \in Clients, Answered(c), SameGeometry(device, device')
  PROVE  SeenInv'
<1>1. /\ pc'[c] = "idle" /\ dirty' = dirty \ {c}
      /\ \A o \in Clients \ {c} : pc'[o] = pc[o] /\ seen'[o] = seen[o]
  BY DEF Answered, Goto, TypeInv
<1>2. CheckHolds(c)'
  BY <1>1, NotChecking
<1> QED
  BY <1>1, <1>2, OthersStay

LEMMA SeenInit == Init => SeenInv
BY DEF Init, SeenInv, CheckHolds

LEMMA SeenStep == ASSUME TypeInv, SeenInv, [Next]_vars PROVE SeenInv'
<1>0. kind' = kind
  BY StepTyped
<1> SUFFICES ASSUME kind = "camera" PROVE SeenInv'
  BY <1>0 DEF SeenInv
<1>t. /\ CameraFits(device) /\ pc \in [Clients -> Stages(kind)] /\ seen \in [Clients -> Geometries]
  BY DEF TypeInv, Fits
<1>s. SameGeometry(device, device)
  BY DEF SameGeometry
<1>1. ASSUME NEW c \in Clients, Arrive(c) \/ Disconnect(c) \/ Connect(c) PROVE SeenInv'
  <2>1. device' = device /\ seen' = seen /\ dirty' = dirty
    BY <1>1 DEF Arrive, Disconnect, Connect
  <2>2. /\ pc[c] = "idle" /\ pc'[c] \in {"idle", "call"}
        /\ \A o \in Clients \ {c} : pc'[o] = pc[o]
    BY <1>1, <1>t DEF Arrive, Disconnect, Connect, Goto
  <2>3. CheckHolds(c)'
    BY <2>2, NotChecking
  <2> QED
    BY <1>s, <2>1, <2>2, <2>3, OthersStay
<1>2. ASSUME NEW c \in Clients, BadRequest(c) \/ Get(c) \/ GetImage(c) PROVE SeenInv'
  <2>1. Answered(c) /\ device' = device
    BY <1>2 DEF BadRequest, Get, GetImage, Read
  <2> QED
    BY <1>s, <2>1, AnsweredSeen
<1>3. ASSUME NEW c \in Clients, AskImage(c) PROVE SeenInv'
  <2>1. CASE Answered(c)
    BY <1>3, <1>s, <2>1, AnsweredSeen DEF AskImage
  <2>2. CASE ~Answered(c)
    <3>1. device' = device /\ seen' = seen /\ dirty' = dirty /\ Goto(c, "image")
      BY <1>3, <2>2 DEF AskImage
    <3>2. pc'[c] = "image" /\ \A o \in Clients \ {c} : pc'[o] = pc[o]
      BY <1>t, <3>1 DEF Goto
    <3>3. CheckHolds(c)'
      BY <3>2, NotChecking
    <3> QED
      BY <1>s, <3>1, <3>2, <3>3, OthersStay
  <2> QED
    BY <2>1, <2>2
<1>4. ASSUME NEW c \in Clients, NEW r \in PutCalls(kind), Put(c, r) PROVE SeenInv'
  <2>1. /\ pc'[c] = "idle" /\ seen' = seen /\ dirty \subseteq dirty'
        /\ \A o \in Clients \ {c} : pc'[o] = pc[o]
    BY <1>4, <1>t DEF Put, Goto
  <2>2. CheckHolds(c)'
    BY <2>1, NotChecking
  <2>3. r \in CameraCalls /\ r.op # "startexposure"
    BY <1>4 DEF PutCalls
  <2>4. CASE SameGeometry(device, device')
    BY <2>1, <2>2, <2>4, OthersStay
  <2>5. CASE ~SameGeometry(device, device')
    <3>1. ~Refuses(kind, r) /\ device' = Does(kind, device, r)
      BY <1>4, <1>s, <2>5 DEF Put
    <3>2. ~CameraRefuses(r) /\ device' = CameraDoes(device, r)
      BY <3>1 DEF Refuses, Does
    <3>3. r.op \in {"bin", "start", "num"}
      BY <1>t, <2>3, <2>5, <3>2, CameraDone
    <3>4. dirty' = dirty \union {o \in Clients \ {c} : pc[o] \in {"seenbin", "seenstart", "expose"}}
      BY <1>4, <3>1, <3>3 DEF Put, Overtaken
    <3>5. ASSUME NEW o \in Clients, o \notin dirty' PROVE CheckHolds(o)'
      <4>1. CASE o = c
        BY <2>2, <4>1
      <4>2. CASE o # c
        <5>1. pc'[o] \notin {"seenbin", "seenstart", "expose"}
          BY <2>1, <3>4, <3>5, <4>2
        <5> QED
          BY <5>1, NotChecking
      <4> QED
        BY <4>1, <4>2
    <3> QED
      BY <3>5 DEF SeenInv
  <2> QED
    BY <2>4, <2>5
<1>5. ASSUME NEW c \in Clients, SeeBin(c) PROVE SeenInv'
  <2>1. /\ pc'[c] = "seenbin" /\ seen'[c].bin = device.bin /\ device' = device /\ dirty' = dirty
        /\ \A o \in Clients \ {c} : pc'[o] = pc[o] /\ seen'[o] = seen[o]
    BY <1>5, <1>t DEF SeeBin, Goto, Geometries
  <2>2. CheckHolds(c)'
    BY <2>1 DEF CheckHolds
  <2> QED
    BY <1>s, <2>1, <2>2, OthersStay
<1>6. ASSUME NEW c \in Clients, SeeStart(c) PROVE SeenInv'
  <2>1. /\ pc[c] = "seenbin" /\ pc'[c] = "seenstart" /\ seen'[c].bin = seen[c].bin
        /\ seen'[c].start = device.start
        /\ device' = device /\ dirty' = dirty
        /\ \A o \in Clients \ {c} : pc'[o] = pc[o] /\ seen'[o] = seen[o]
    BY <1>6, <1>t DEF SeeStart, Goto, Geometries
  <2>2. c \in dirty \/ CheckHolds(c)
    BY DEF SeenInv
  <2>3. CheckHolds(c)' \/ c \in dirty'
    BY <2>1, <2>2 DEF CheckHolds
  <2> QED
    BY <1>s, <2>1, <2>3, OthersStay
<1>7. ASSUME NEW c \in Clients, SeeNum(c) PROVE SeenInv'
  <2>0. device' = device
    BY <1>7 DEF SeeNum
  <2>1. CASE Answered(c)
    BY <1>s, <2>0, <2>1, AnsweredSeen
  <2>2. CASE ~Answered(c)
    <3>1. /\ pc[c] = "seenstart" /\ pc'[c] = "expose" /\ seen'[c].bin = seen[c].bin
          /\ seen'[c].start = seen[c].start
          /\ ValidSubframe(seen[c].bin, seen[c].start, device.num) /\ dirty' = dirty
          /\ \A o \in Clients \ {c} : pc'[o] = pc[o] /\ seen'[o] = seen[o]
      BY <1>7, <1>t, <2>2 DEF SeeNum, Goto, Geometries
    <3>2. c \in dirty \/ CheckHolds(c)
      BY DEF SeenInv
    <3>3. CheckHolds(c)' \/ c \in dirty'
      BY <2>0, <3>1, <3>2 DEF CheckHolds
    <3> QED
      BY <1>s, <2>0, <3>1, <3>3, OthersStay
  <2> QED
    BY <2>1, <2>2
<1>8. ASSUME NEW c \in Clients, NEW duration \in Durations, Expose(c, duration) PROVE SeenInv'
  <2>1. SameGeometry(device, device')
    <3>1. device' = device \/ (duration \in 1..MaxExposure /\ device' = StartExposure(device, duration))
      BY <1>8, ExposeRefused DEF Expose
    <3> QED
      BY <1>s, <1>t, <3>1, ExposureStarts
  <2> QED
    BY <1>8, <2>1, AnsweredSeen DEF Expose
<1>9. ASSUME NEW c \in Clients PROVE ~BusyGate(c) /\ ~Initiator(c) /\ ~Interrupt(c)
  BY StageKinds DEF BusyGate, Initiator, Interrupt
<1>10. CASE Tick
  <2>1. SameGeometry(device, device') /\ UNCHANGED <<pc, seen, dirty>>
    <3>1. device' = LaterCamera(device) /\ UNCHANGED <<pc, seen, dirty>>
      BY <1>10, <1>t, LaterOfCamera DEF Tick
    <3> QED
      BY <1>t, <3>1, CameraLater
  <2>2. ASSUME NEW o \in Clients, o \notin dirty' PROVE CheckHolds(o)'
    BY <2>1, <2>2, GeometryStays DEF SeenInv
  <2> QED
    BY <2>2 DEF SeenInv
<1>11. CASE UNCHANGED vars
  BY <1>11 DEF vars, SeenInv, CheckHolds
<1>12. ~WorkEnds /\ ~ConnectEnds
  BY DEF WorkEnds, ConnectEnds
<1>13. ASSUME NEW c \in Clients, Request(c) PROVE SeenInv'
  BY <1>1, <1>2, <1>3, <1>4, <1>5, <1>6, <1>7, <1>8, <1>9, <1>13 DEF Request
<1> QED
  BY <1>10, <1>11, <1>12, <1>13, UsersAreClients DEF Next

\* The rectangle exposed lies on the binned sensor, unless another client wrote
\* the geometry while the check read it (server/camera_http.go).
THEOREM FramesFit == Spec => FrameFits
<1>1. TypeInv /\ SeenInv /\ [Next]_vars => (TypeInv /\ SeenInv)'
  BY StepTyped, SeenStep
<1> DEFINE Fit ==
      \A c \in Clients, duration \in Durations :
        (kind = "camera" /\ Expose(c, duration) /\ device' # device /\ c \notin dirty)
          => \A a \in Axes : /\ device'.frame[a] >= 1
                             /\ device'.start[a] + device'.frame[a] <= Sensor \div device'.bin[a]
<1>2. TypeInv /\ SeenInv /\ [Next]_vars => [Fit]_vars
  <2> SUFFICES ASSUME TypeInv, SeenInv, NEW c \in Clients, NEW duration \in Durations,
                      kind = "camera", Expose(c, duration), device' # device, c \notin dirty, NEW a \in Axes
               PROVE  /\ device'.frame[a] >= 1
                      /\ device'.start[a] + device'.frame[a] <= Sensor \div device'.bin[a]
    OBVIOUS
  <2>1. CameraFits(device)
    BY DEF TypeInv, Fits
  <2>2. duration \in 1..MaxExposure /\ device' = StartExposure(device, duration)
    BY ExposeRefused DEF Expose
  <2>3. device'.frame = device.num /\ device'.bin = device.bin /\ device'.start = device.start
    BY <2>1, <2>2, ExposureStarts DEF SameGeometry
  <2>4. ValidSubframe(device.bin, device.start, device.num)
    BY DEF SeenInv, CheckHolds, Expose
  <2> QED
    BY <2>3, <2>4 DEF ValidSubframe
<1> QED
  BY <1>1, <1>2, InitTyped, SeenInit, PTL DEF Spec, FrameFits

-----------------------------------------------------------------------------
(* What Settles rests on: the clock runs out, and leaves everything at rest *)

\* How long a leg still travels, and for how long a device changes by itself.
LegLeft(leg) == IF leg.moving THEN Abs(Distance(leg)) - leg.age ELSE 0

TimeLeft(k, d) ==
  CASE k \in {"rotator", "focuser"} -> LegLeft(d.leg)
    [] k = "dome" -> LegLeft(d.az) + LegLeft(d.alt) + d.shutterLeft
    [] k = "cover" -> d.lampLeft + d.coverLeft
    [] k = "wheel" -> d.left
    [] k = "camera" -> d.left + (CoolTime - d.cooling)
    [] OTHER -> 0

\* What the clock does to a number that counts down.
LEMMA DownRuns ==
  ASSUME NEW n \in Nat
  PROVE  Down(n) \in Nat /\ (Down(n) = n <=> n = 0) /\ (n # 0 => Down(n) < n) /\ Down(n) <= n
BY DEF Down

\* A tick takes one from what a leg still travels, reading it takes nothing, and
\* a leg with nothing left is where it was sent.
LEMMA LegRuns ==
  ASSUME NEW leg, RoundLeg(leg) \/ \E most \in Nat : StraightLeg(leg, most)
  PROVE  /\ LegLeft(leg) \in Nat /\ LegLeft(LaterLeg(leg)) = Down(LegLeft(leg))
         /\ LaterLeg(leg) = leg <=> LegLeft(leg) = 0
         /\ LegLeft(SettledLeg(leg)) = LegLeft(leg)
         /\ LegLeft(leg) = 0 => ~SettledLeg(leg).moving /\ Position(leg) = leg.target
<1>1. PICK places : leg \in Legs(places, Nat)
  BY DEF RoundLeg, StraightLeg
<1>2. Distance(leg) \in Int
  BY RoundDistance, StraightDistance DEF RoundLeg, StraightLeg
<1>3. /\ Abs(Distance(leg)) \in Nat /\ leg.age \in Nat /\ leg.age <= Abs(Distance(leg))
      /\ ~leg.moving => leg.start = leg.target
      /\ leg.moving \in BOOLEAN
  BY <1>1, <1>2, AbsTyped DEF RoundLeg, StraightLeg, Ended, Legs
<1> DEFINE next == LaterLeg(leg)
<1>4. /\ next.moving = leg.moving /\ Distance(next) = Distance(leg)
      /\ next.age = IF leg.moving /\ ~Arrived(leg) THEN leg.age + 1 ELSE leg.age
  BY <1>1, LaterFields
<1>5. leg.moving /\ Arrived(leg) <=> leg.moving /\ LegLeft(leg) = 0
  BY <1>3 DEF Arrived, LegLeft
<1>6. ~leg.moving \/ Arrived(leg) => next = leg
  <2> SUFFICES ASSUME ~leg.moving \/ Arrived(leg) PROVE LaterLeg(leg) = leg
    OBVIOUS
  <2>1. ~SettledLeg(leg).moving
    BY SettledMoving
  <2> QED
    BY <1>1, <2>1, LaterAtRest
<1> HIDE DEF next
<1>7. LegLeft(leg) \in Nat /\ LegLeft(next) = Down(LegLeft(leg))
  BY <1>3, <1>4, <1>5 DEF LegLeft, Down
<1>8. next = leg <=> LegLeft(leg) = 0
  <2>1. LegLeft(leg) = 0 => ~leg.moving \/ Arrived(leg)
    BY <1>5
  <2>2. next = leg => Down(LegLeft(leg)) = LegLeft(leg)
    BY <1>7
  <2> QED
    BY <1>6, <1>7, <2>1, <2>2, DownRuns
<1>9. LegLeft(SettledLeg(leg)) = LegLeft(leg)
  <2>1. CASE leg.moving /\ Arrived(leg)
    <3>1. SettledLeg(leg) = Resting(leg.round, leg.target) /\ LegLeft(leg) = 0
      BY <1>5, <2>1 DEF SettledLeg
    <3>2. LegLeft(Resting(leg.round, leg.target)) = 0
      BY DEF Resting, LegLeft
    <3> QED
      BY <3>1, <3>2
  <2>2. CASE ~(leg.moving /\ Arrived(leg))
    BY <2>2 DEF SettledLeg
  <2> QED
    BY <2>1, <2>2
<1>10. LegLeft(leg) = 0 => ~SettledLeg(leg).moving /\ Position(leg) = leg.target
  <2>1. LegLeft(leg) = 0 => ~leg.moving \/ Arrived(leg)
    BY <1>5
  <2> QED
    BY <1>3, <2>1, SettledMoving DEF Position
<1> QED
  BY <1>7, <1>8, <1>9, <1>10 DEF next

LEMMA RoundRuns ==
  ASSUME NEW leg, RoundLeg(leg)
  PROVE  /\ LegLeft(leg) \in Nat /\ LegLeft(LaterLeg(leg)) = Down(LegLeft(leg))
         /\ LaterLeg(leg) = leg <=> LegLeft(leg) = 0
         /\ LegLeft(SettledLeg(leg)) = LegLeft(leg)
         /\ LegLeft(leg) = 0 => ~SettledLeg(leg).moving /\ Position(leg) = leg.target
BY LegRuns

LEMMA StraightRuns ==
  ASSUME NEW most \in Nat, NEW leg, StraightLeg(leg, most)
  PROVE  /\ LegLeft(leg) \in Nat /\ LegLeft(LaterLeg(leg)) = Down(LegLeft(leg))
         /\ LaterLeg(leg) = leg <=> LegLeft(leg) = 0
         /\ LegLeft(SettledLeg(leg)) = LegLeft(leg)
         /\ LegLeft(leg) = 0 => ~SettledLeg(leg).moving /\ Position(leg) = leg.target
BY LegRuns

\* The same of a device: d is the device, e a tick later, s after a read.
Runs(k, d, e, s) ==
  /\ TimeLeft(k, d) \in Nat
  /\ e = d <=> TimeLeft(k, d) = 0
  /\ e # d => TimeLeft(k, e) < TimeLeft(k, d)
  /\ TimeLeft(k, s) = TimeLeft(k, d)

LEMMA RotatorRuns ==
  ASSUME NEW d, RotatorFits(d)
  PROVE  Runs("rotator", d, Later("rotator", d), Read("rotator", d))
<1> DEFINE e == [d EXCEPT !.leg = LaterLeg(d.leg)]
           s == [d EXCEPT !.leg = SettledLeg(d.leg)]
<1>0. RoundLeg(d.leg) /\ d \in Rotators
  BY DEF RotatorFits
<1>1. e.leg = LaterLeg(d.leg) /\ s.leg = SettledLeg(d.leg) /\ (LaterLeg(d.leg) = d.leg => e = d)
  BY <1>0 DEF Rotators
<1>2. Later("rotator", d) = e /\ Read("rotator", d) = s
  BY DEF Later, Read
<1> HIDE DEF e, s
<1>3. LegLeft(d.leg) \in Nat /\ (LegLeft(d.leg) # 0 => Down(LegLeft(d.leg)) < LegLeft(d.leg))
  BY <1>0, RoundRuns, DownRuns
<1>4. e = d <=> LegLeft(d.leg) = 0
  BY <1>0, <1>1, RoundRuns
<1>5. LegLeft(e.leg) = Down(LegLeft(d.leg)) /\ LegLeft(s.leg) = LegLeft(d.leg)
  BY <1>0, <1>1, RoundRuns
<1> QED
  BY <1>2, <1>3, <1>4, <1>5 DEF Runs, TimeLeft

LEMMA FocuserRuns ==
  ASSUME NEW d, FocuserFits(d)
  PROVE  Runs("focuser", d, Later("focuser", d), Read("focuser", d))
<1> DEFINE e == [d EXCEPT !.leg = LaterLeg(d.leg)]
           s == [d EXCEPT !.leg = SettledLeg(d.leg)]
<1>0. StraightLeg(d.leg, MaxStep) /\ MaxStep \in Nat /\ d \in Focusers
  BY MoverAssumption DEF FocuserFits
<1>1. e.leg = LaterLeg(d.leg) /\ s.leg = SettledLeg(d.leg) /\ (LaterLeg(d.leg) = d.leg => e = d)
  BY <1>0 DEF Focusers
<1>2. Later("focuser", d) = e /\ Read("focuser", d) = s
  BY DEF Later, Read
<1> HIDE DEF e, s
<1>3. LegLeft(d.leg) \in Nat /\ (LegLeft(d.leg) # 0 => Down(LegLeft(d.leg)) < LegLeft(d.leg))
  BY <1>0, StraightRuns, DownRuns
<1>4. e = d <=> LegLeft(d.leg) = 0
  BY <1>0, <1>1, StraightRuns
<1>5. LegLeft(e.leg) = Down(LegLeft(d.leg)) /\ LegLeft(s.leg) = LegLeft(d.leg)
  BY <1>0, <1>1, StraightRuns
<1> QED
  BY <1>2, <1>3, <1>4, <1>5 DEF Runs, TimeLeft

LEMMA WheelRuns ==
  ASSUME NEW d \in Wheels
  PROVE  Runs("wheel", d, Later("wheel", d), Read("wheel", d))
<1> DEFINE e == [d EXCEPT !.left = Down(d.left)]
<1>1. e.left = Down(d.left) /\ d.left \in Nat /\ (Down(d.left) = d.left => e = d)
  BY MoverAssumption DEF Wheels
<1>2. Later("wheel", d) = e /\ Read("wheel", d) = d
  BY DEF Later, Read
<1> HIDE DEF e
<1> QED
  BY <1>1, <1>2, DownRuns DEF Runs, TimeLeft

LEMMA CameraRuns ==
  ASSUME NEW d, CameraFits(d)
  PROVE  Runs("camera", d, Later("camera", d), Read("camera", d))
<1> DEFINE e == LaterCamera(d)
           c == CoolTime - d.cooling
<1>0. d \in Cameras /\ d.left \in Nat /\ d.cooling \in 0..CoolTime /\ CoolTime \in Nat
  BY CameraFields, CameraNumbers
<1>1. /\ e.left = Down(d.left) /\ e.cooling = Cooled(d)
      /\ Down(d.left) = d.left /\ Cooled(d) = d.cooling => e = d
  BY <1>0 DEF LaterCamera, Cameras
<1>2. Later("camera", d) = e /\ Read("camera", d) = d
  BY LaterOfCamera DEF Read
<1> HIDE DEF e
<1>3. /\ Down(d.left) \in Nat /\ Down(d.left) <= d.left /\ (Down(d.left) = d.left <=> d.left = 0)
      /\ Cooled(d) \in 0..CoolTime /\ d.cooling <= Cooled(d) /\ (Cooled(d) = d.cooling <=> d.cooling = CoolTime)
  BY <1>0, DownRuns DEF Cooled
<1>c. c \in Nat /\ (c = 0 <=> d.cooling = CoolTime)
  BY <1>0
<1> HIDE DEF c
<1>4. e = d <=> d.left + c = 0
  <2>1. e = d <=> d.left = 0 /\ d.cooling = CoolTime
    BY <1>1, <1>3
  <2>2. d.left + c = 0 <=> d.left = 0 /\ c = 0
    BY <1>0, <1>c
  <2> QED
    BY <1>c, <2>1, <2>2
<1>5. e # d => e.left + (CoolTime - e.cooling) < d.left + c
  <2>1. ~(d.left = 0 /\ d.cooling = CoolTime) => Down(d.left) + (CoolTime - Cooled(d)) < d.left + (CoolTime - d.cooling)
    BY <1>0, <1>3
  <2> QED
    BY <1>1, <1>3, <2>1 DEF c
<1>6. TimeLeft("camera", d) = d.left + c /\ TimeLeft("camera", e) = e.left + (CoolTime - e.cooling)
  BY DEF TimeLeft, c
<1>7. d.left + c \in Nat
  BY <1>0, <1>c
<1> QED
  BY <1>2, <1>4, <1>5, <1>6, <1>7 DEF Runs

LEMMA CoverRuns ==
  ASSUME NEW d, CoverFits(d)
  PROVE  Runs("cover", d, Later("cover", d), Read("cover", d))
<1> DEFINE e == [d EXCEPT !.lampLeft = Down(d.lampLeft), !.coverLeft = Down(d.coverLeft)]
           s == SettledCover(d)
<1>0. d \in Covers /\ d.lampLeft \in Nat /\ d.coverLeft \in Nat
  BY PanelAssumption DEF CoverFits, Covers
<1>1. /\ e.lampLeft = Down(d.lampLeft) /\ e.coverLeft = Down(d.coverLeft)
      /\ Down(d.lampLeft) = d.lampLeft /\ Down(d.coverLeft) = d.coverLeft => e = d
  BY <1>0 DEF Covers
<1>2. s.lampLeft = d.lampLeft /\ s.coverLeft = d.coverLeft
  BY DEF SettledCover, CoverFits, Covers
<1>3. Later("cover", d) = e /\ Read("cover", d) = s
  BY DEF Later, Read
<1> HIDE DEF e, s
<1>4. /\ Down(d.lampLeft) \in Nat /\ Down(d.lampLeft) <= d.lampLeft /\ (Down(d.lampLeft) = d.lampLeft <=> d.lampLeft = 0)
      /\ Down(d.coverLeft) \in Nat /\ Down(d.coverLeft) <= d.coverLeft /\ (Down(d.coverLeft) = d.coverLeft <=> d.coverLeft = 0)
  BY <1>0, DownRuns
<1>5. e = d <=> d.lampLeft + d.coverLeft = 0
  BY <1>0, <1>1, <1>4
<1>6. e # d => e.lampLeft + e.coverLeft < d.lampLeft + d.coverLeft
  BY <1>0, <1>1, <1>4
<1>7. TimeLeft("cover", d) = d.lampLeft + d.coverLeft /\ TimeLeft("cover", e) = e.lampLeft + e.coverLeft
      /\ TimeLeft("cover", s) = s.lampLeft + s.coverLeft
  BY DEF TimeLeft
<1> QED
  BY <1>0, <1>2, <1>3, <1>5, <1>6, <1>7 DEF Runs

LEMMA DomeRuns ==
  ASSUME NEW d, DomeFits(d)
  PROVE  Runs("dome", d, Later("dome", d), Read("dome", d))
<1> DEFINE e == DomeLater(d)
           s == SettledDome(d)
<1>0. /\ RoundLeg(d.az) /\ StraightLeg(d.alt, MaxAltitude) /\ MaxAltitude \in Nat /\ d \in Domes
      /\ d.shutterLeft \in Nat
  BY MoverAssumption DEF DomeFits, Domes
<1>1. /\ e.az = LaterLeg(d.az) /\ e.alt = LaterLeg(d.alt) /\ e.shutterLeft = Down(d.shutterLeft)
      /\ LaterLeg(d.az) = d.az /\ LaterLeg(d.alt) = d.alt /\ Down(d.shutterLeft) = d.shutterLeft => e = d
  BY <1>0 DEF DomeLater, Domes
<1>2. s.az = SettledLeg(d.az) /\ s.alt = SettledLeg(d.alt) /\ s.shutterLeft = d.shutterLeft
  BY <1>0 DEF SettledDome, SettledShutter, Domes
<1>3. Later("dome", d) = e /\ Read("dome", d) = s
  BY DEF Later, Read, DomeLater
<1> HIDE DEF e, s
<1> DEFINE p == LegLeft(d.az) q == LegLeft(d.alt) r == d.shutterLeft
<1>4. /\ p \in Nat /\ LegLeft(e.az) = Down(p) /\ LegLeft(s.az) = p /\ (e.az = d.az <=> p = 0)
      /\ q \in Nat /\ LegLeft(e.alt) = Down(q) /\ LegLeft(s.alt) = q /\ (e.alt = d.alt <=> q = 0)
  BY <1>0, <1>1, <1>2, RoundRuns, StraightRuns
<1>5. /\ Down(p) \in Nat /\ Down(p) <= p /\ (Down(p) = p <=> p = 0)
      /\ Down(q) \in Nat /\ Down(q) <= q /\ (Down(q) = q <=> q = 0)
      /\ Down(r) \in Nat /\ Down(r) <= r /\ (Down(r) = r <=> r = 0)
  BY <1>0, <1>4, DownRuns
<1>6. e = d <=> p = 0 /\ q = 0 /\ r = 0
  BY <1>1, <1>4, <1>5
<1>7. /\ TimeLeft("dome", d) = p + q + r
      /\ TimeLeft("dome", e) = Down(p) + Down(q) + Down(r)
      /\ TimeLeft("dome", s) = p + q + r
  BY <1>1, <1>2, <1>4 DEF TimeLeft
<1>8. r \in Nat
  BY <1>0
<1> HIDE DEF p, q, r
<1>9. p + q + r \in Nat /\ (p + q + r = 0 <=> p = 0 /\ q = 0 /\ r = 0)
  BY <1>4, <1>8
<1>10. ~(p = 0 /\ q = 0 /\ r = 0) => Down(p) + Down(q) + Down(r) < p + q + r
  BY <1>4, <1>5, <1>8
<1> QED
  BY <1>3, <1>6, <1>7, <1>9, <1>10 DEF Runs

LEMMA ClockRuns ==
  ASSUME NEW k \in Kinds, NEW d, Fits(k, d)
  PROVE  Runs(k, d, Later(k, d), Read(k, d))
<1>1. CASE k \in {"board", "station", "driver"}
  <2>1. Later(k, d) = d /\ Read(k, d) = d /\ TimeLeft(k, d) = 0
    BY <1>1 DEF Later, Read, TimeLeft
  <2> QED
    BY <2>1 DEF Runs
<1>2. CASE k \in {"rotator", "focuser"}
  BY <1>2, RotatorRuns, FocuserRuns DEF Fits
<1>3. CASE k \in {"wheel", "camera"}
  BY <1>3, WheelRuns, CameraRuns DEF Fits
<1>4. CASE k \in {"cover", "dome"}
  BY <1>4, CoverRuns, DomeRuns DEF Fits
<1> QED
  BY <1>1, <1>2, <1>3, <1>4, KindNames

\* The clock runs out: every tick takes something from the time a device has
\* left, which is never negative, and no read gives any back.
THEOREM ClockRunsOut ==
  Spec => [][/\ TimeLeft(kind, device) \in Nat
             /\ Tick => TimeLeft(kind', device') < TimeLeft(kind, device)
             /\ device' = Read(kind, device) => TimeLeft(kind', device') = TimeLeft(kind, device)]_vars
<1> DEFINE Counted ==
      /\ TimeLeft(kind, device) \in Nat
      /\ Tick => TimeLeft(kind', device') < TimeLeft(kind, device)
      /\ device' = Read(kind, device) => TimeLeft(kind', device') = TimeLeft(kind, device)
<1>1. TypeInv /\ [Next]_vars => TypeInv'
  BY StepTyped
<1>2. TypeInv /\ [Next]_vars => [Counted]_vars
  <2> SUFFICES ASSUME TypeInv, [Next]_vars PROVE Counted
    OBVIOUS
  <2>1. Runs(kind, device, Later(kind, device), Read(kind, device)) /\ kind' = kind
    BY StepTyped, ClockRuns DEF TypeInv
  <2>2. Tick => device' = Later(kind, device) /\ device # Later(kind, device)
    BY DEF Tick
  <2> QED
    BY <2>1, <2>2 DEF Runs
<1> QED
  BY <1>1, <1>2, InitTyped, PTL DEF Spec

\* A sensor has covered the way from one temperature to another.
LEMMA Reached ==
  ASSUME NEW from \in Int, NEW to \in Int, NEW n \in Nat
  PROVE  from * n + (to - from) * n = n * to
<1>1. (to - from) * n = to * n - from * n
  OBVIOUS
<1>2. to * n = n * to /\ from * n \in Int /\ to * n \in Int
  OBVIOUS
<1> QED
  BY <1>1, <1>2

LEMMA RestStep ==
  ASSUME TypeInv, TimeLeft(kind, device) = 0
  PROVE  AtRest
<1>0. Fits(kind, device) /\ kind \in Kinds
  BY DEF TypeInv
<1>1. CASE kind \in {"rotator", "focuser"}
  <2>1. LegsOf(kind, device) = <<device.leg>> /\ LegLeft(device.leg) = 0
    BY <1>1 DEF LegsOf, TimeLeft
  <2>2. RoundLeg(device.leg) \/ \E most \in Nat : StraightLeg(device.leg, most)
    BY <1>0, <1>1, MoverAssumption DEF Fits, RotatorFits, FocuserFits
  <2>3. ~SettledLeg(device.leg).moving /\ Position(device.leg) = device.leg.target
    BY <2>1, <2>2, LegRuns
  <2>4. LegsOf(kind, Read(kind, device)) = <<SettledLeg(device.leg)>>
    BY <1>0, <1>1 DEF LegsOf, Read, Fits, RotatorFits, FocuserFits, Rotators, Focusers
  <2>5. ~SaysBusy(kind, device)
    BY <1>1, <2>3 DEF SaysBusy, DeviceState, RotatorView, FocuserView
  <2> QED
    BY <1>1, <2>1, <2>3, <2>4, <2>5 DEF AtRest
<1>2. CASE kind = "dome"
  <2>1. DomeFits(device)
    BY <1>0, <1>2 DEF Fits
  <2>2. /\ RoundLeg(device.az) /\ StraightLeg(device.alt, MaxAltitude) /\ MaxAltitude \in Nat
        /\ device.shutterLeft \in Nat /\ device \in Domes
    BY <2>1, MoverAssumption DEF DomeFits, Domes
  <2>3. LegLeft(device.az) \in Nat /\ LegLeft(device.alt) \in Nat
    BY <2>2, RoundRuns, StraightRuns
  <2>4. LegLeft(device.az) + LegLeft(device.alt) + device.shutterLeft = 0
    BY <1>2 DEF TimeLeft
  <2>5. LegLeft(device.az) = 0 /\ LegLeft(device.alt) = 0 /\ device.shutterLeft = 0
    BY <2>2, <2>3, <2>4
  <2>6. /\ ~SettledLeg(device.az).moving /\ Position(device.az) = device.az.target
        /\ ~SettledLeg(device.alt).moving /\ Position(device.alt) = device.alt.target
    BY <2>2, <2>5, RoundRuns, StraightRuns
  <2> DEFINE s == SettledDome(device)
  <2>7. /\ s.az = SettledLeg(device.az) /\ s.alt = SettledLeg(device.alt)
        /\ s.shutter = device.shutterTarget /\ s.shutterTarget = device.shutterTarget
    BY <2>2, <2>5 DEF SettledDome, SettledShutter, Domes
  <2> HIDE DEF s
  <2>8. LegsOf(kind, device) = <<device.az, device.alt>> /\ LegsOf(kind, Read(kind, device)) = <<s.az, s.alt>>
    BY <1>2 DEF LegsOf, Read, s
  <2>9. ~DomeView(device).slewing /\ DomeView(device).shutterstatus = device.shutterTarget
    BY <2>6, <2>7 DEF DomeView, DomeSlewing, s
  <2>10. ~SaysBusy(kind, device)
    BY <1>2, <2>9 DEF SaysBusy, DeviceState
  <2> QED
    BY <1>2, <2>6, <2>7, <2>8, <2>9, <2>10 DEF AtRest
<1>3. CASE kind \notin {"rotator", "focuser", "dome"}
  <2>1. LegsOf(kind, device) = << >>
    BY <1>3 DEF LegsOf
  <2>2. CASE kind = "wheel"
    <3>1. device \in Wheels /\ device.left = 0
      BY <1>0, <2>2 DEF Fits, TimeLeft
    <3>2. WheelView(device).position # -1
      BY <3>1, MoverAssumption DEF WheelView, Wheels
    <3> QED
      BY <1>3, <2>1, <2>2, <3>2 DEF AtRest, SaysBusy, DeviceState
  <2>3. CASE kind = "cover"
    <3>1. CoverFits(device) /\ device.lampLeft + device.coverLeft = 0
      BY <1>0, <2>3 DEF Fits, TimeLeft
    <3>2. device.lampLeft \in Nat /\ device.coverLeft \in Nat
      BY <3>1, PanelAssumption DEF CoverFits, Covers
    <3>3. device.lampLeft = 0 /\ device.coverLeft = 0
      BY <3>1, <3>2
    <3>4. ~CoverView(device).covermoving /\ ~CoverView(device).calibratorchanging
      BY <3>1, <3>3, CoverState
    <3> QED
      BY <1>3, <2>1, <2>3, <3>4 DEF AtRest, SaysBusy, DeviceState
  <2>4. CASE kind = "camera"
    <3>0. /\ device.left \in Nat /\ device.cooling \in 0..CoolTime /\ CoolTime \in Nat
          /\ device.dial \in [Dials -> 0..MaxDial]
      BY <1>0, <2>4, CameraFields, CameraNumbers DEF Fits, Cameras
    <3>1. device.left = 0 /\ device.cooling = CoolTime
      <4>1. device.left + (CoolTime - device.cooling) = 0
        BY <2>4 DEF TimeLeft
      <4>2. CoolTime - device.cooling \in Nat /\ (CoolTime - device.cooling = 0 => device.cooling = CoolTime)
        BY <3>0
      <4> QED
        BY <3>0, <4>1, <4>2
    <3>4. CCDTemperature(device) = CoolTime * (IF device.cooler THEN device.dial["setpoint"] ELSE Ambient)
      <4> DEFINE to == device.dial["setpoint"]
      <4>1. Ambient \in Int /\ to \in Int
        BY <3>0, CameraAssumption
      <4> HIDE DEF to
      <4>2. Ambient * CoolTime + (to - Ambient) * CoolTime = CoolTime * to
        BY <3>0, <4>1, Reached
      <4>3. Ambient * CoolTime + 0 * CoolTime = CoolTime * Ambient
        BY <3>0, <4>1
      <4>4. CCDTemperature(device) = Ambient * CoolTime + (IF device.cooler THEN to - Ambient ELSE 0) * CoolTime
        BY <3>1 DEF CCDTemperature, to
      <4>5. CASE device.cooler
        BY <4>2, <4>4, <4>5 DEF to
      <4>6. CASE ~device.cooler
        BY <4>3, <4>4, <4>6
      <4> QED
        BY <4>5, <4>6
    <3>2. CameraView(device).exposing = Exposing(device)
      BY DEF CameraView
    <3>3. ~Exposing(device)
      BY <3>1 DEF Exposing
    <3> QED
      BY <1>3, <2>1, <2>4, <3>2, <3>3, <3>4 DEF AtRest, SaysBusy, DeviceState
  <2>5. CASE kind \notin {"wheel", "cover", "camera"}
    BY <1>3, <2>1, <2>5 DEF AtRest, SaysBusy
  <2> QED
    BY <2>2, <2>3, <2>4, <2>5
<1> QED
  BY <1>1, <1>2, <1>3

\* A device that time no longer changes is at rest where it was last sent, its
\* shutter too, and says so (sim/rotator.go, focuser.go, dome.go and the others).
THEOREM RestsWhereSent == Spec => [](device = Later(kind, device) => AtRest)
<1>1. TypeInv => (device = Later(kind, device) => AtRest)
  <2> SUFFICES ASSUME TypeInv, device = Later(kind, device) PROVE AtRest
    OBVIOUS
  <2>1. Runs(kind, device, Later(kind, device), Read(kind, device))
    BY ClockRuns DEF TypeInv
  <2> QED
    BY <2>1, RestStep DEF Runs
<1>2. TypeInv /\ [Next]_vars => TypeInv'
  BY StepTyped
<1> QED
  BY <1>1, <1>2, InitTyped, PTL DEF Spec

\* And it stays there: time and reads leave such a device as it is.
THEOREM RestLasts ==
  Spec => [][device = Later(kind, device) /\ device' \in {Later(kind, device), Read(kind, device)}
               => device' = Later(kind', device')]_vars
<1> DEFINE Lasts == device = Later(kind, device) /\ device' \in {Later(kind, device), Read(kind, device)}
                      => device' = Later(kind', device')
<1>1. TypeInv /\ [Next]_vars => TypeInv'
  BY StepTyped
<1>2. TypeInv /\ [Next]_vars => [Lasts]_vars
  <2> SUFFICES ASSUME TypeInv, [Next]_vars, device = Later(kind, device), device' = Read(kind, device)
               PROVE  device' = Later(kind', device')
    BY StepTyped
  <2>1. Fits(kind', device') /\ kind' = kind /\ kind \in Kinds
    BY StepTyped DEF TypeInv
  <2>2. Runs(kind, device, Later(kind, device), Read(kind, device))
    BY ClockRuns DEF TypeInv
  <2>3. Runs(kind, device', Later(kind, device'), Read(kind, device'))
    BY <2>1, ClockRuns
  <2> QED
    BY <2>1, <2>2, <2>3 DEF Runs
<1> QED
  BY <1>1, <1>2, InitTyped, PTL DEF Spec
=============================================================================
