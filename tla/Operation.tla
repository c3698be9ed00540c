------------------------------ MODULE Operation ------------------------------
(***************************************************************************)
(* server.Op, the state of an asynchronous operation (server/op.go), and a *)
(* driver that uses it the way DRIVERS.md asks: an initiator that TryBegins *)
(* and leaves the work to a goroutine, and a Connect that goes through the  *)
(* base device's ConnectOp.  The driver is external; the goroutine may end  *)
(* either way.                                                             *)
(***************************************************************************)
EXTENDS Naturals

CONSTANT MaxWorkers  \* bound: goroutines of one kind at a time

ASSUME OperationAssumption == MaxWorkers \in Nat \ {0}

Ops == [state : {"idle", "busy", "done", "failed"}, err : BOOLEAN]

NewOp == [state |-> "idle", err |-> FALSE]

Busy(o) == o.state = "busy"

Begin(o) == [state |-> "busy", err |-> FALSE]

\* Complete leaves the error that Fail recorded.
Complete(o) == [o EXCEPT !.state = "done"]

Fail(o) == [state |-> "failed", err |-> TRUE]

\* Seeded fault: the initiator begins without looking.
TryBegins_Always(o) == TRUE

\* Whether TryBegin starts the operation.
TryBegins(o) == ~Busy(o)

-----------------------------------------------------------------------------
(* An asynchronous driver *)

Drivers == [op : Ops, workers : 0..MaxWorkers, cancelled : BOOLEAN,
            connectOp : Ops, connectors : 0..MaxWorkers]

NewDriver == [op |-> NewOp, workers |-> 0, cancelled |-> FALSE, connectOp |-> NewOp, connectors |-> 0]

Initiate(d) == [d EXCEPT !.op = Begin(@), !.workers = @ + 1, !.cancelled = FALSE]

Cancel(d) == [d EXCEPT !.cancelled = Busy(d.op)]

\* How the goroutine of the operation may end.
Worked(d) ==
  { [d EXCEPT !.op = o, !.workers = @ - 1] :
      o \in {Fail(d.op)} \union IF d.cancelled THEN {} ELSE {Complete(d.op)} }

ConnectBegun(d) == [d EXCEPT !.connectOp = Begin(@), !.connectors = @ + 1]

ConnectEnded(d, ok) ==
  [d EXCEPT !.connectOp = IF ok THEN Complete(@) ELSE Fail(@), !.connectors = @ - 1]

\* The answer to a poll of Connecting: the error once the attempt has failed.
ConnectingView(d) ==
  IF Busy(d.connectOp) THEN "connecting" ELSE IF d.connectOp.err THEN "failed" ELSE "no"
=============================================================================
