--------------------------- MODULE TransportProofs ---------------------------
(***************************************************************************)
(* Proofs about Transport for every set of clients, frames and campaigns:  *)
(* requests in flight leave the tester's store alone, a sink that was      *)
(* opened is closed exactly once, a frame survives either transport        *)
(* whatever the number of goroutines that transpose it, and a call that no *)
(* harmful fault met is told what the server made of it.                   *)
(***************************************************************************)
EXTENDS Transport, SequenceTheorems, TLAPS

-----------------------------------------------------------------------------
(* The store *)

\* What the store and its history need to be for a count to change one entry.
StoreInv ==
  /\ member \in [Members -> Faults]
  /\ fired \in [Members -> Nat]
  /\ controls \in Nat

\* Counting changes the entry of one member, and not one that is cleared.
LEMMA CountsOne ==
  ASSUME StoreInv, NEW m \in Members, NEW f
  PROVE  /\ member[m] = NoFault => NextCount(m, f).store = member /\ NextCount(m, f).count = 0
         /\ member[m] # NoFault =>
              /\ NextCount(m, f).store = [member EXCEPT ![m].count = @ + 1]
              /\ NextCount(m, f).count = member[m].count + 1
BY DEF NextCount

\* Nothing strikes at a count of 0.
LEMMA NoStrikeAtZero == ASSUME NEW f PROVE ~Strikes(f, 0)
BY DEF Strikes

LEMMA NoFaultTyped == NoFault \in Faults
BY DEF NoFault, Faults

LEMMA InitStore == Init => StoreInv
<1> SUFFICES ASSUME Init PROVE StoreInv
  OBVIOUS
<1>1. member = [m \in Members |-> NoFault] /\ controls = 0 /\ fired = [m \in Members |-> 0]
  BY DEF Init
<1> QED
  BY <1>1, NoFaultTyped DEF StoreInv

\* A record that counts one more keeps its type.
LEMMA RecordCounts ==
  ASSUME NEW K, NEW N, NEW H, NEW e \in [kind : K, n : N, method : H, count : Nat]
  PROVE  [e EXCEPT !.count = @ + 1] \in [kind : K, n : N, method : H, count : Nat]
OBVIOUS

\* Counting in a well-formed store leaves it well formed.
LEMMA CountKeepsStore ==
  ASSUME StoreInv, NEW m \in Members, NEW f
  PROVE  NextCount(m, f).store \in [Members -> Faults]
<1>1. CASE member[m] = NoFault
  BY <1>1, CountsOne DEF StoreInv
<1>2. CASE member[m] # NoFault
  <2>1. NextCount(m, f).store = [member EXCEPT ![m].count = @ + 1]
    BY <1>2, CountsOne
  <2>2. member[m] \in Faults
    BY DEF StoreInv
  <2>3. [member[m] EXCEPT !.count = @ + 1] \in Faults
    <3> DEFINE K == MemberKinds \cup {"none"}
               N == Counts \cup {0}
               H == {""} \cup Methods
    <3> HIDE DEF K, N, H
    <3>1. Faults = [kind : K, n : N, method : H, count : Nat]
      BY DEF Faults, K, N, H
    <3> QED
      BY <2>2, <3>1, RecordCounts
  <2> QED
    BY <2>1, <2>3 DEF StoreInv
<1> QED
  BY <1>1, <1>2

LEMMA StoreStep == ASSUME StoreInv, [Next]_vars PROVE StoreInv'
<1> USE DEF StoreInv
<1>1. ASSUME NEW c \in Clients, Modify(c) PROVE StoreInv'
  <2>1. MemberOf(c) \in Members
    BY DEF MemberOf, Members
  <2>2. member' \in [Members -> Faults]
    BY <1>1, <2>1, CountKeepsStore DEF Modify
  <2>3. fired' \in [Members -> Nat] /\ controls' \in Nat
    BY <1>1, <2>1 DEF Modify
  <2> QED
    BY <2>2, <2>3
<1>2. ASSUME NEW c \in Clients, Request(c), ~Modify(c) PROVE StoreInv'
  <2>1. UNCHANGED <<member, fired, controls>>
    BY <1>2 DEF Request, Ask, PreForward, Withhold, HangCap, Serve, ReadFault, Receive, EndEarly,
         OpenSink, WriteSink, GiveUp, Return, store, history
  <2> QED
    BY <2>1
<1>3. CASE ArmMember
  <2>1. controls' = controls + 1
    BY <1>3 DEF ArmMember, Judged
  <2>2. controls' \in Nat
    BY <2>1
  <2>3. PICK m \in campaign.members, kind \in campaign.kinds \cap MemberKinds,
             method \in {""} \cup Methods, n \in Counts :
          /\ member' = [member EXCEPT ![m] = [kind |-> kind, method |-> method, count |-> 0,
                                             n |-> IF kind \in Patterns THEN n ELSE 0]]
          /\ fired' = [fired EXCEPT ![m] = 0]
    BY <1>3 DEF ArmMember
  <2>4. [kind |-> kind, method |-> method, count |-> 0, n |-> IF kind \in Patterns THEN n ELSE 0] \in Faults
    BY DEF Faults
  <2>5. member' \in [Members -> Faults]
    BY <2>3, <2>4
  <2>6. fired' \in [Members -> Nat]
    BY <2>3
  <2> QED
    BY <2>2, <2>5, <2>6
<1>4. CASE SetToggle
  BY <1>4 DEF SetToggle, Judged
<1>5. CASE Clear
  <2>2. controls' \in Nat /\ fired' = fired
    BY <1>5 DEF Clear, Judged
  <2>3. \/ \E m \in Members : member' = [member EXCEPT ![m] = NoFault]
        \/ member' = [m \in Members |-> NoFault]
    BY <1>5 DEF Clear
  <2> QED
    BY <2>2, <2>3, NoFaultTyped
<1>6. CASE NewImage
  BY <1>6 DEF NewImage, store, history
<1>7. CASE UNCHANGED vars
  BY <1>7 DEF vars, store, history
<1> QED
  BY <1>1, <1>2, <1>3, <1>4, <1>5, <1>6, <1>7 DEF Next, Control

\* Requests in flight leave the store to the tester (nextCount and modifyResponse of
\* cmd/fault_proxy/main.go): whatever is re-armed or cleared under them.
THEOREM PatternsCounted == Spec => PatternsCount
<1> DEFINE Counted ==
      controls' = controls => \A m \in Members :
        \/ member'[m] = member[m] /\ fired'[m] = fired[m]
        \/ /\ member[m] # NoFault
           /\ member'[m] = [member[m] EXCEPT !.count = @ + 1]
<1>1. ASSUME StoreInv, [Next]_vars PROVE Counted
  <2>1. ASSUME NEW c \in Clients, Modify(c) PROVE Counted
    <3> DEFINE f == call[c].fault
               n == MemberOf(c)
               counts == f.kind \in Patterns /\ call[c].reply.ct = "json"
               next == NextCount(n, f)
    <3> HIDE DEF f
    <3>1. n \in Members
      BY DEF MemberOf, Members
    <3>2. /\ member' = IF counts THEN next.store ELSE member
          /\ fired' = IF counts /\ Strikes(f, next.count) THEN [fired EXCEPT ![n] = @ + 1] ELSE fired
      BY <2>1 DEF Modify, f
    <3> HIDE DEF n
    <3>3. CASE ~counts
      BY <3>2, <3>3
    <3>4. CASE counts /\ member[n] = NoFault
      <4>1. next.store = member /\ next.count = 0
        BY <1>1, <3>1, <3>4, CountsOne
      <4>2. member' = member /\ fired' = fired
        BY <3>2, <4>1, NoStrikeAtZero
      <4> QED
        BY <4>2
    <3>5. CASE counts /\ member[n] # NoFault
      <4>1. member' = [member EXCEPT ![n].count = @ + 1]
        BY <1>1, <3>1, <3>2, <3>5, CountsOne
      <4>2. \A m \in Members \ {n} : member'[m] = member[m] /\ fired'[m] = fired[m]
        BY <1>1, <3>2, <4>1 DEF StoreInv
      <4>3. member'[n] = [member[n] EXCEPT !.count = @ + 1]
        BY <1>1, <3>1, <4>1 DEF StoreInv
      <4> QED
        BY <3>5, <4>2, <4>3
    <3> QED
      BY <3>3, <3>4, <3>5
  <2>2. ASSUME NEW c \in Clients, Request(c), ~Modify(c) PROVE Counted
    <3>1. UNCHANGED <<member, fired>>
      BY <2>2 DEF Request, Ask, PreForward, Withhold, HangCap, Serve, ReadFault, Receive, EndEarly,
           OpenSink, WriteSink, GiveUp, Return, store, history
    <3> QED
      BY <3>1
  <2>3. CASE Control
    <3>1. controls' = controls + 1
      BY <2>3 DEF Control, ArmMember, SetToggle, Clear, Judged
    <3> QED
      BY <1>1, <3>1 DEF StoreInv
  <2>4. CASE NewImage \/ UNCHANGED vars
    BY <2>4 DEF NewImage, vars, store, history
  <2> QED
    BY <1>1, <2>1, <2>2, <2>3, <2>4 DEF Next
<1>2. StoreInv /\ [Next]_vars => [Counted]_vars
  BY <1>1
<1> QED
  BY <1>2, InitStore, StoreStep, PTL DEF Spec, PatternsCount

-----------------------------------------------------------------------------
(* The sink *)

Untouched(sink) == sink.headers = 0 /\ sink.closes = 0 /\ sink.got = <<>>

\* A sink is untouched before its stream begins, open during it, and shut after.
SinkFits(at, sink) ==
  CASE at = "streaming" -> sink.headers = 1 /\ sink.closes = 0
    [] at = "done" -> Untouched(sink) \/ (sink.headers = 1 /\ sink.closes = 1)
    [] OTHER -> Untouched(sink)

Fits(k) ==
  /\ {"at", "sink"} \subseteq DOMAIN k
  /\ {"headers", "closes", "got"} \subseteq DOMAIN k.sink
  /\ SinkFits(k.at, k.sink)

SinkInv == DOMAIN call = Clients /\ \A c \in Clients : Fits(call[c])

LEMMA SinkInvImplies == SinkInv => SinkContract
BY DEF SinkInv, Fits, SinkFits, Untouched, SinkContract

LEMMA IdleFits == Fits(Idle)
BY DEF Fits, SinkFits, Untouched, Idle, Closed

LEMMA GoesOn ==
  ASSUME SinkInv, NEW c \in Clients, NEW rec, Fits(rec), Goes(c, rec)
  PROVE  SinkInv'
<1>1. /\ DOMAIN call' = Clients
      /\ \A d \in Clients : call'[d] = IF d = c THEN rec ELSE call[d]
  BY DEF Goes, SinkInv
<1> SUFFICES ASSUME NEW d \in Clients PROVE Fits(call'[d])
  BY <1>1 DEF SinkInv, Fits
<1>2. CASE d = c
  BY <1>1, <1>2
<1>3. CASE d # c
  BY <1>1, <1>3 DEF SinkInv
<1> QED
  BY <1>2, <1>3

\* A call whose sink is untouched goes on, or ends, without it.
LEMMA WithoutSink ==
  ASSUME SinkInv, NEW c \in Clients, call[c].at \notin {"streaming", "done"}, NEW k,
         {"at", "sink"} \subseteq DOMAIN k, k.sink = call[c].sink, k.at # "streaming"
  PROVE  Fits(k)
BY DEF SinkInv, Fits, SinkFits, Untouched

\* What comes before a stream, and every other kind of call.
LEMMA OutsideStream ==
  ASSUME SinkInv, NEW c \in Clients,
         PreForward(c) \/ Withhold(c) \/ HangCap(c) \/ Serve(c) \/ ReadFault(c) \/ Modify(c)
           \/ Receive(c) \/ EndEarly(c)
  PROVE  SinkInv'
<1>0. {"at", "sink"} \subseteq DOMAIN call[c]
  BY DEF SinkInv, Fits
<1> SUFFICES \E rec : Fits(rec) /\ Goes(c, rec)
  BY GoesOn
<1>1. CASE PreForward(c)
  BY <1>0, <1>1, WithoutSink DEF PreForward, Answers
<1>2. CASE HangCap(c)
  BY <1>0, <1>2, WithoutSink DEF HangCap, Answers
<1>3. CASE ReadFault(c)
  BY <1>0, <1>3, WithoutSink DEF ReadFault
<1>4. CASE Withhold(c)
  BY <1>0, <1>4, WithoutSink DEF Withhold
<1>5. CASE Serve(c)
  <2>0. call[c].at \notin {"streaming", "done"}
    BY <1>5 DEF Serve
  <2>1. ASSUME NEW b, NEW r, Goes(c, [call[c] EXCEPT !.at = "served", !.applied = b, !.reply = r])
        PROVE  \E rec : Fits(rec) /\ Goes(c, rec)
    BY <1>0, <2>0, <2>1, WithoutSink
  <2>2. ASSUME NEW i, NEW r, Goes(c, [call[c] EXCEPT !.at = "served", !.served = i, !.reply = r])
        PROVE  \E rec : Fits(rec) /\ Goes(c, rec)
    BY <1>0, <2>0, <2>2, WithoutSink
  <2>3. CASE call[c].op = "put"
    <3> DEFINE b == SwapBinning(call[c].arg)
               ok == b \in 1..MaxBin
               reply == JSONReply(EncodeImageBytesError(IF ok THEN 0 ELSE 1025), "none")
    <3>1. Goes(c, [call[c] EXCEPT !.at = "served", !.applied = IF ok THEN b ELSE 0, !.reply = reply])
      BY <1>5, <2>3, Zenon DEF Serve
    <3> HIDE DEF ok, reply
    <3> QED
      BY <2>1, <3>1
  <2>4. CASE call[c].op # "put"
    BY <1>5, <2>2, <2>4 DEF Serve
  <2> QED
    BY <2>3, <2>4
<1>6. CASE Modify(c)
  BY <1>0, <1>6, WithoutSink DEF Modify
<1>7. CASE Receive(c)
  BY <1>0, <1>7, WithoutSink DEF Receive
<1>8. CASE EndEarly(c)
  BY <1>0, <1>8, WithoutSink DEF EndEarly, Answers
<1> QED
  BY <1>1, <1>2, <1>3, <1>4, <1>5, <1>6, <1>7, <1>8

\* The deferred Close of an open sink.
LEMMA Closes ==
  ASSUME SinkInv, NEW c \in Clients, call[c].at = "streaming", NEW outcome, CloseWith(c, outcome)
  PROVE  SinkInv'
<1>0. /\ {"at", "sink"} \subseteq DOMAIN call[c] /\ {"headers", "closes", "got"} \subseteq DOMAIN call[c].sink
      /\ call[c].sink.headers = 1 /\ call[c].sink.closes = 0
  BY DEF SinkInv, Fits, SinkFits
<1>1. PICK answer : Goes(c, [call[c] EXCEPT !.at = "done", !.answer = answer, !.reply = NoReply, !.sink = Shut(@)])
  BY DEF CloseWith
<1> DEFINE rec == [call[c] EXCEPT !.at = "done", !.answer = answer, !.reply = NoReply, !.sink = Shut(@)]
<1>2. {"at", "sink"} \subseteq DOMAIN rec /\ rec.at = "done" /\ rec.sink = Shut(call[c].sink)
  BY <1>0
<1>3. /\ {"headers", "closes", "got"} \subseteq DOMAIN Shut(call[c].sink)
      /\ Shut(call[c].sink).headers = 1 /\ Shut(call[c].sink).closes = 1
  BY <1>0 DEF Shut
<1>4. Fits(rec)
  BY <1>2, <1>3 DEF Fits, SinkFits
<1> QED
  BY <1>1, <1>4, GoesOn

\* Opening a sink, and closing it again when its Header fails.
LEMMA Opens == ASSUME SinkInv, NEW c \in Clients, OpenSink(c) PROVE SinkInv'
<1> DEFINE sink == call[c].sink
<1>0. /\ {"at", "sink"} \subseteq DOMAIN call[c] /\ {"headers", "closes", "got"} \subseteq DOMAIN sink
      /\ sink.headers = 0 /\ sink.closes = 0
  BY DEF OpenSink, SinkInv, Fits, SinkFits, Untouched
<1>1. /\ {"headers", "closes", "got"} \subseteq DOMAIN Opened(sink)
      /\ Opened(sink).headers = 1 /\ Opened(sink).closes = 0
  BY <1>0 DEF Opened
<1>2. CASE HeaderFails(c)
  <2> DEFINE rec == [call[c] EXCEPT !.at = "done", !.answer = "sink", !.reply = NoReply, !.sink = Shut(Opened(@))]
  <2>1. {"at", "sink"} \subseteq DOMAIN rec /\ rec.at = "done" /\ rec.sink = Shut(Opened(sink))
    BY <1>0
  <2>2. /\ {"headers", "closes", "got"} \subseteq DOMAIN Shut(Opened(sink))
        /\ Shut(Opened(sink)).headers = 1 /\ Shut(Opened(sink)).closes = 1
    BY <1>1 DEF Shut
  <2>3. Fits(rec)
    BY <2>1, <2>2 DEF Fits, SinkFits
  <2> QED
    BY <1>2, <2>3, GoesOn DEF HeaderFails
<1>3. CASE ~HeaderFails(c)
  <2> DEFINE skipped == Skip(call[c].reply)
             rec == [call[c] EXCEPT !.at = "streaming", !.sink = Opened(@),
                                    !.reply.msg.pix = SubSeq(@, skipped + 1, Len(@))]
  <2> HIDE DEF skipped
  <2>1. {"at", "sink"} \subseteq DOMAIN rec /\ rec.at = "streaming" /\ rec.sink = Opened(sink)
    BY <1>0
  <2>2. Fits(rec)
    BY <1>1, <2>1 DEF Fits, SinkFits
  <2>3. Goes(c, rec)
    BY <1>3 DEF OpenSink, skipped
  <2> QED
    BY <2>2, <2>3, GoesOn
<1> QED
  BY <1>2, <1>3

\* A chunk goes to an open sink and leaves it open.
LEMMA Writes == ASSUME SinkInv, NEW c \in Clients, WriteSink(c) PROVE SinkInv'
<1> DEFINE left == call[c].reply.msg.pix
<1>1. /\ {"at", "sink"} \subseteq DOMAIN call[c] /\ {"headers", "closes", "got"} \subseteq DOMAIN call[c].sink
      /\ call[c].sink.headers = 1 /\ call[c].sink.closes = 0 /\ call[c].at = "streaming"
  BY DEF WriteSink, SinkInv, Fits, SinkFits
<1>2. CASE \E outcome : CloseWith(c, outcome)
  BY <1>1, <1>2, Closes
<1>3. ASSUME NEW k, Goes(c, [call[c] EXCEPT !.sink.got = @ \o SubSeq(left, 1, k),
                                           !.reply.msg.pix = SubSeq(left, k + 1, Len(left))])
      PROVE  SinkInv'
  <2> DEFINE rec == [call[c] EXCEPT !.sink.got = @ \o SubSeq(left, 1, k),
                                    !.reply.msg.pix = SubSeq(left, k + 1, Len(left))]
  <2>1. /\ {"at", "sink"} \subseteq DOMAIN rec /\ rec.at = "streaming"
        /\ {"headers", "closes", "got"} \subseteq DOMAIN rec.sink
        /\ rec.sink.headers = 1 /\ rec.sink.closes = 0
    BY <1>1
  <2>2. Fits(rec)
    BY <2>1 DEF Fits, SinkFits
  <2> QED
    BY <1>3, <2>2, GoesOn
<1> QED
  BY <1>2, <1>3 DEF WriteSink

LEMMA SinkStep == ASSUME SinkInv, [Next]_vars PROVE SinkInv'
<1>1. ASSUME NEW c \in Clients, Ask(c) PROVE SinkInv'
  <2>1. \E rec : Fits(rec) /\ Goes(c, rec)
    BY <1>1, IdleFits DEF Ask, Fits, SinkFits, Untouched, Idle, Closed
  <2> QED
    BY <2>1, GoesOn
<1>2. ASSUME NEW c \in Clients, GiveUp(c) PROVE SinkInv'
  <2>1. CASE call[c].at = "streaming"
    BY <1>2, <2>1, Closes DEF GiveUp
  <2>2. CASE call[c].at # "streaming"
    <3>1. {"at", "sink"} \subseteq DOMAIN call[c] /\ call[c].at # "done"
      BY <1>2 DEF SinkInv, Fits, GiveUp, InFlight
    <3>2. \E rec : Fits(rec) /\ Goes(c, rec)
      BY <1>2, <2>2, <3>1, WithoutSink DEF GiveUp, Answers
    <3> QED
      BY <3>2, GoesOn
  <2> QED
    BY <2>1, <2>2
<1>3. ASSUME NEW c \in Clients, Return(c) PROVE SinkInv'
  BY <1>3, IdleFits, GoesOn DEF Return
<1>4. CASE Control \/ NewImage \/ UNCHANGED vars
  <2>1. UNCHANGED call
    BY <1>4 DEF Control, ArmMember, SetToggle, Clear, Judged, NewImage, vars
  <2> QED
    BY <2>1 DEF SinkInv
<1> QED
  BY <1>1, <1>2, <1>3, <1>4, OutsideStream, Opens, Writes DEF Next, Request

\* ImageSink's contract (client/imagestream.go) holds for any number of clients, any
\* frame and any faults.
THEOREM SinkKept == Spec => []SinkContract
<1>1. Init => SinkInv
  BY IdleFits DEF Init, SinkInv
<1>2. SinkInv /\ [Next]_vars => SinkInv'
  BY SinkStep
<1> QED
  BY <1>1, <1>2, SinkInvImplies, PTL DEF Spec

-----------------------------------------------------------------------------
(* Types *)

Parts == {"op", "at", "arg", "fault", "reply", "served", "applied", "sink", "answer", "frame"}

CallTyped(k) ==
  /\ DOMAIN k = Parts
  /\ k.op \in {"none", "frame", "stream", "put"} /\ k.at \in Stages
  /\ k.fault \in Faults /\ k.applied \in 0..MaxBin
  /\ k.served \in Frames \cup {NoImage}
  /\ k.at \in {"idle", "done"} => k.reply = NoReply

CallsTyped == DOMAIN call = Clients /\ \A c \in Clients : CallTyped(call[c])

\* A call whose record has its type leaves the others as they were.
LEMMA GoesTyped ==
  ASSUME CallsTyped, NEW c \in Clients, NEW rec, CallTyped(rec), Goes(c, rec)
  PROVE  CallsTyped'
<1>1. /\ DOMAIN call' = Clients
      /\ \A d \in Clients : call'[d] = IF d = c THEN rec ELSE call[d]
  BY DEF Goes, CallsTyped
<1> SUFFICES ASSUME NEW d \in Clients PROVE CallTyped(call'[d])
  BY <1>1 DEF CallsTyped, CallTyped
<1>2. CASE d = c
  BY <1>1, <1>2
<1>3. CASE d # c
  BY <1>1, <1>3 DEF CallsTyped
<1> QED
  BY <1>2, <1>3

LEMMA IdleTyped == CallTyped(Idle)
BY NoFaultTyped, TransportAssumption DEF CallTyped, Idle, Parts, Stages

\* A call goes on to another stage, with anything in hand, or ends.
LEMMA StageTyped ==
  ASSUME NEW k, CallTyped(k), NEW stage \in Stages \ {"idle", "done"}
  PROVE  /\ CallTyped([k EXCEPT !.at = stage])
         /\ \A r : CallTyped([k EXCEPT !.at = stage, !.reply = r])
         /\ \A f \in Faults : CallTyped([k EXCEPT !.at = stage, !.fault = f])
         /\ \A r : \A f \in Faults : CallTyped([k EXCEPT !.at = stage, !.reply = r, !.fault = f])
         /\ \A r : \A b \in 0..MaxBin : CallTyped([k EXCEPT !.at = stage, !.applied = b, !.reply = r])
         /\ \A r : \A i \in Frames \cup {NoImage} : CallTyped([k EXCEPT !.at = stage, !.served = i, !.reply = r])
BY DEF CallTyped, Parts

LEMMA DoneTyped ==
  ASSUME NEW k, CallTyped(k), NEW answer
  PROVE  /\ CallTyped([k EXCEPT !.at = "done", !.answer = answer, !.reply = NoReply])
         /\ \A s : CallTyped([k EXCEPT !.at = "done", !.answer = answer, !.reply = NoReply, !.sink = s])
         /\ \A f : CallTyped([k EXCEPT !.at = "done", !.answer = answer, !.reply = NoReply, !.frame = f])
BY DEF CallTyped, Parts, Stages

TypeInv ==
  /\ campaign \in Campaigns /\ toggles \subseteq Toggles
  /\ StoreInv /\ controls <= campaign.changes
  /\ \A m \in Members : member[m].kind = "none" => member[m] = NoFault
  /\ image \in Frames \cup {NoImage} /\ bin \in 1..MaxBin
  /\ noStream \in BOOLEAN /\ disturbed \in BOOLEAN /\ calm \subseteq Clients
  /\ CallsTyped

LEMMA TypeInvImplies == TypeInv => TypeOK
<1> SUFFICES ASSUME TypeInv PROVE TypeOK
  OBVIOUS
<1>1. controls \in 0..campaign.changes
  BY TransportAssumption DEF TypeInv, StoreInv
<1> QED
  BY <1>1 DEF TypeInv, StoreInv, CallsTyped, CallTyped, TypeOK

LEMMA InitTyped == Init => TypeInv
<1> SUFFICES ASSUME Init PROVE TypeInv
  OBVIOUS
<1>1. StoreInv /\ controls <= campaign.changes
  BY InitStore, TransportAssumption DEF Init, StoreInv
<1>2. bin \in 1..MaxBin
  BY TransportAssumption DEF Init
<1>3. CallsTyped
  BY IdleTyped DEF Init, CallsTyped
<1> QED
  BY <1>1, <1>2, <1>3 DEF Init, TypeInv

\* What a step of a call does to the calls.
LEMMA CallStep ==
  ASSUME TypeInv, NEW c \in Clients, Request(c)
  PROVE  CallsTyped'
<1>0. CallsTyped /\ CallTyped(call[c]) /\ campaign \in Campaigns
  BY DEF TypeInv, CallsTyped
<1>k. member \in [Members -> Faults] /\ MemberOf(c) \in Members /\ image \in Frames \cup {NoImage}
  BY DEF TypeInv, StoreInv, MemberOf, Members
<1>f. MemberFault(MemberOf(c), MethodOf(c)) \in Faults
  BY <1>k, NoFaultTyped DEF MemberFault
<1> SUFFICES \E rec : CallTyped(rec) /\ Goes(c, rec)
  BY <1>0, GoesTyped
<1>1. CASE Ask(c)
  <2>1. PICK op, arg : op \in campaign.ops /\
          Goes(c, [Idle EXCEPT !.op = op, !.arg = arg,
                   !.at = IF op = "stream" /\ noStream THEN "done" ELSE "sent",
                   !.answer = IF op = "stream" /\ noStream THEN "refused" ELSE "none"])
    BY <1>1 DEF Ask
  <2>2. op \in {"frame", "stream", "put"}
    BY <1>0, <2>1, TransportAssumption
  <2> DEFINE rec == [Idle EXCEPT !.op = op, !.arg = arg,
                   !.at = IF op = "stream" /\ noStream THEN "done" ELSE "sent",
                   !.answer = IF op = "stream" /\ noStream THEN "refused" ELSE "none"]
  <2>3. /\ DOMAIN rec = Parts /\ rec.op = op /\ rec.at \in {"done", "sent"}
        /\ rec.fault = Idle.fault /\ rec.applied = Idle.applied /\ rec.served = Idle.served
        /\ rec.reply = NoReply
    BY DEF Idle, Parts
  <2> HIDE DEF rec
  <2>4. CallTyped(rec)
    BY <2>2, <2>3, IdleTyped DEF CallTyped, Stages
  <2> QED
    BY <2>1, <2>4 DEF rec
<1>2. CASE PreForward(c)
  BY <1>0, <1>2, StageTyped, DoneTyped DEF PreForward, Answers, Stages
<1>3. CASE Withhold(c)
  BY <1>0, <1>3, StageTyped DEF Withhold, Stages
<1>4. CASE HangCap(c)
  BY <1>0, <1>4, DoneTyped DEF HangCap, Answers
<1>5. CASE Serve(c)
  <2>1. CASE call[c].op = "put"
    <3> DEFINE b == SwapBinning(call[c].arg)
               applied == IF b \in 1..MaxBin THEN b ELSE 0
               reply == JSONReply(EncodeImageBytesError(IF b \in 1..MaxBin THEN 0 ELSE 1025), "none")
    <3>1. Goes(c, [call[c] EXCEPT !.at = "served", !.applied = applied, !.reply = reply])
      BY <1>5, <2>1, Zenon DEF Serve
    <3>2. applied \in 0..MaxBin
      BY TransportAssumption
    <3>3. "served" \in Stages \ {"idle", "done"}
      BY DEF Stages
    <3> HIDE DEF applied, reply
    <3> QED
      BY <1>0, <3>1, <3>2, <3>3, StageTyped
  <2>2. CASE call[c].op # "put"
    BY <1>0, <1>k, <1>5, <2>2, StageTyped DEF Serve, Stages
  <2> QED
    BY <2>1, <2>2
<1>6. CASE ReadFault(c)
  BY <1>0, <1>f, <1>6, StageTyped DEF ReadFault, Stages
<1>7. CASE Modify(c)
  <2>1. \E r : Goes(c, [call[c] EXCEPT !.at = "replied", !.reply = r, !.fault = NoFault])
    BY <1>7 DEF Modify
  <2> QED
    BY <1>0, <2>1, StageTyped, NoFaultTyped DEF Stages
<1>8. CASE Receive(c)
  BY <1>0, <1>8, DoneTyped DEF Receive
<1>9. CASE EndEarly(c)
  BY <1>0, <1>9, DoneTyped DEF EndEarly, Answers
<1>10. CASE OpenSink(c)
  <2>1. CASE HeaderFails(c)
    <3>1. Goes(c, [call[c] EXCEPT !.at = "done", !.answer = "sink", !.reply = NoReply,
                              !.sink = Shut(Opened(call[c].sink))])
      BY <1>0, <2>1 DEF HeaderFails, CallTyped, Parts
    <3> QED
      BY <1>0, <3>1, DoneTyped
  <2>2. CASE ~HeaderFails(c)
    <3> DEFINE rec == [call[c] EXCEPT !.at = "streaming", !.sink = Opened(@),
                          !.reply.msg.pix = SubSeq(@, Skip(call[c].reply) + 1, Len(@))]
    <3>1. Goes(c, rec)
      BY <1>10, <2>2 DEF OpenSink
    <3>2. CallTyped(rec)
      BY <1>0 DEF CallTyped, Parts, Stages
    <3> QED
      BY <3>1, <3>2
  <2> QED
    BY <2>1, <2>2
<1>11. ASSUME NEW outcome, CloseWith(c, outcome) PROVE \E rec : CallTyped(rec) /\ Goes(c, rec)
  <2>1. PICK answer :
          Goes(c, [call[c] EXCEPT !.at = "done", !.answer = answer, !.reply = NoReply, !.sink = Shut(@)])
    BY <1>11 DEF CloseWith
  <2>2. Goes(c, [call[c] EXCEPT !.at = "done", !.answer = answer, !.reply = NoReply, !.sink = Shut(call[c].sink)])
    BY <1>0, <2>1 DEF CallTyped, Parts
  <2> QED
    BY <1>0, <2>2, DoneTyped
<1>12. CASE WriteSink(c)
  <2> DEFINE left == call[c].reply.msg.pix
  <2>1. ASSUME NEW n, Goes(c, [call[c] EXCEPT !.sink.got = @ \o SubSeq(left, 1, n),
                                             !.reply.msg.pix = SubSeq(left, n + 1, Len(left))])
        PROVE  \E rec : CallTyped(rec) /\ Goes(c, rec)
    <3> DEFINE rec == [call[c] EXCEPT !.sink.got = @ \o SubSeq(left, 1, n),
                                     !.reply.msg.pix = SubSeq(left, n + 1, Len(left))]
    <3>1. CallTyped(rec)
      BY <1>0, <1>12 DEF WriteSink, CallTyped, Parts
    <3> QED
      BY <2>1, <3>1
  <2> QED
    BY <1>11, <1>12, <2>1 DEF WriteSink
<1>13. CASE GiveUp(c)
  BY <1>0, <1>11, <1>13, DoneTyped DEF GiveUp, Answers
<1>14. CASE Return(c)
  BY <1>14, IdleTyped DEF Return
<1> QED
  BY <1>1, <1>2, <1>3, <1>4, <1>5, <1>6, <1>7, <1>8, <1>9, <1>10, <1>12, <1>13, <1>14 DEF Request

LEMMA StepTyped == TypeInv /\ [Next]_vars => TypeInv'
<1> SUFFICES ASSUME TypeInv, [Next]_vars PROVE TypeInv'
  OBVIOUS
<1>0. StoreInv'
  BY StoreStep DEF TypeInv
<1>1. ASSUME NEW c \in Clients, Request(c) PROVE TypeInv'
  <2>1. UNCHANGED <<campaign, toggles, controls, image>>
    BY <1>1 DEF Request, Ask, PreForward, Withhold, HangCap, Serve, ReadFault, Modify, Receive, EndEarly,
         OpenSink, WriteSink, GiveUp, Return, store
  <2>2. bin' \in 1..MaxBin /\ noStream' \in BOOLEAN
    <3>1. CASE Serve(c)
      <4>1. bin' = bin \/ (bin' = SwapBinning(call[c].arg) /\ SwapBinning(call[c].arg) \in 1..MaxBin)
        BY <3>1 DEF Serve
      <4>2. noStream' = noStream
        BY <3>1 DEF Serve
      <4> QED
        BY <4>1, <4>2 DEF TypeInv
    <3>2. CASE EndEarly(c)
      BY <3>2 DEF EndEarly, TypeInv
    <3>3. CASE ~Serve(c) /\ ~EndEarly(c)
      <4>1. UNCHANGED <<bin, noStream>>
        BY <1>1, <3>3 DEF Request, Ask, PreForward, Withhold, HangCap, ReadFault, Modify, Receive,
             OpenSink, WriteSink, GiveUp, Return
      <4> QED
        BY <4>1 DEF TypeInv
    <3> QED
      BY <3>1, <3>2, <3>3
  <2>3. disturbed' \in BOOLEAN /\ calm' \subseteq Clients
    <3>1. CASE Ask(c)
      BY <3>1 DEF Ask, TypeInv
    <3>2. CASE ~Ask(c)
      <4>1. UNCHANGED <<disturbed, calm>>
        BY <1>1, <3>2 DEF Request, PreForward, Withhold, HangCap, Serve, ReadFault, Modify, Receive, EndEarly,
             OpenSink, WriteSink, GiveUp, Return, history
      <4> QED
        BY <4>1 DEF TypeInv
    <3> QED
      BY <3>1, <3>2
  <2>4. \A m \in Members : member'[m].kind = "none" => member'[m] = NoFault
    <3>1. CASE Modify(c)
      <4>1. MemberOf(c) \in Members /\ StoreInv
        BY DEF MemberOf, Members, TypeInv
      <4>2. member' = member \/ (member[MemberOf(c)] # NoFault /\ member' = [member EXCEPT ![MemberOf(c)].count = @ + 1])
        BY <3>1, <4>1, CountsOne DEF Modify
      <4>3. CASE member' = member
        BY <4>3 DEF TypeInv
      <4>4. CASE member[MemberOf(c)] # NoFault /\ member' = [member EXCEPT ![MemberOf(c)].count = @ + 1]
        <5>1. member[MemberOf(c)].kind # "none"
          BY <4>1, <4>4 DEF TypeInv
        <5>2. member'[MemberOf(c)].kind = member[MemberOf(c)].kind
          BY <4>1, <4>4 DEF StoreInv, Faults
        <5>3. \A m \in Members \ {MemberOf(c)} : member'[m] = member[m]
          BY <4>1, <4>4 DEF StoreInv
        <5> QED
          BY <5>1, <5>2, <5>3 DEF TypeInv
      <4> QED
        BY <4>2, <4>3, <4>4
    <3>2. CASE ~Modify(c)
      <4>1. UNCHANGED member
        BY <1>1, <3>2 DEF Request, Ask, PreForward, Withhold, HangCap, Serve, ReadFault, Receive, EndEarly,
             OpenSink, WriteSink, GiveUp, Return, store
      <4> QED
        BY <4>1 DEF TypeInv
    <3> QED
      BY <3>1, <3>2
  <2>5. CallsTyped'
    BY <1>1, CallStep
  <2> QED
    BY <1>0, <2>1, <2>2, <2>3, <2>4, <2>5 DEF TypeInv
<1>2. CASE Control
  <2>1. /\ controls < campaign.changes /\ controls' = controls + 1
        /\ UNCHANGED <<campaign, image, bin, noStream, call>>
    BY <1>2 DEF Control, ArmMember, SetToggle, Clear, Judged
  <2>2. controls' <= campaign'.changes
    BY <2>1, TransportAssumption DEF TypeInv, StoreInv
  <2>3. calm' \subseteq Clients /\ disturbed' \in BOOLEAN
    BY <1>2 DEF Control, ArmMember, SetToggle, Clear, Judged, TypeInv
  <2>4. toggles' \subseteq Toggles
    BY <1>2 DEF Control, ArmMember, SetToggle, Clear, TypeInv
  <2>5. \A m \in Members : member'[m].kind = "none" => member'[m] = NoFault
    <3>1. CASE ArmMember
      <4>1. PICK m \in campaign.members, kind \in campaign.kinds \cap MemberKinds,
                 method \in {""} \cup Methods, n \in Counts :
              member' = [member EXCEPT ![m] = [kind |-> kind, method |-> method, count |-> 0,
                                              n |-> IF kind \in Patterns THEN n ELSE 0]]
        BY <3>1 DEF ArmMember
      <4>2. kind # "none"
        BY DEF MemberKinds, Patterns
      <4> QED
        BY <4>1, <4>2 DEF TypeInv, StoreInv
    <3>2. CASE SetToggle \/ Clear
      BY <3>2 DEF SetToggle, Clear, TypeInv, StoreInv
    <3> QED
      BY <1>2, <3>1, <3>2 DEF Control
  <2>6. CallsTyped'
    BY <2>1 DEF CallsTyped, TypeInv
  <2> QED
    BY <1>0, <2>1, <2>2, <2>3, <2>4, <2>5, <2>6 DEF TypeInv
<1>3. CASE NewImage
  <2>1. image' \in Frames \cup {NoImage} /\ UNCHANGED <<campaign, store, bin, noStream, call, history>>
    BY <1>3 DEF NewImage
  <2> QED
    BY <1>0, <2>1 DEF TypeInv, CallsTyped, store, history
<1>4. CASE UNCHANGED vars
  BY <1>0, <1>4 DEF vars, store, history, TypeInv, CallsTyped
<1> QED
  BY <1>1, <1>2, <1>3, <1>4 DEF Next

\* Every variable has its type, for any clients, frames, faults and campaigns, and a
\* call that has ended holds no reply (client/client.go, cmd/fault_proxy/main.go).
THEOREM TypeCorrect == Spec => []TypeOK
BY InitTyped, StepTyped, TypeInvImplies, PTL DEF Spec

-----------------------------------------------------------------------------
(* Frames on the wire *)

\* Quotient and remainder.
LEMMA DivMod ==
  ASSUME NEW n \in Nat, NEW d \in Nat \ {0}
  PROVE  n \div d \in Nat /\ n % d \in 0..(d - 1) /\ n = (n \div d) * d + (n % d)
<1>1. n \div d \in Nat
  OBVIOUS
<1>2. n % d \in 0..(d - 1)
  OBVIOUS
<1>3. n = (n \div d) * d + (n % d)
  OBVIOUS
<1> QED
  BY <1>1, <1>2, <1>3

LEMMA Multiples ==
  ASSUME NEW a \in Nat, NEW b \in Nat, NEW d \in Nat, a <= b
  PROVE  a * d <= b * d /\ a * d \in Nat /\ b * d \in Nat
OBVIOUS

LEMMA DivModUnique ==
  ASSUME NEW q \in Nat, NEW d \in Nat \ {0}, NEW r \in 0..(d - 1)
  PROVE  q * d + r \in Nat /\ (q * d + r) \div d = q /\ (q * d + r) % d = r
<1> DEFINE n == q * d + r
           p == n \div d
           s == n % d
<1>1. n \in Nat
  BY Multiples
<1>2. p \in Nat /\ s \in 0..(d - 1) /\ n = p * d + s
  BY <1>1, DivMod
<1> HIDE DEF p, s
<1>3. ~(p + 1 <= q)
  <2> SUFFICES ASSUME p + 1 <= q PROVE FALSE
    OBVIOUS
  <2>1. (p + 1) * d <= q * d
    BY <1>2, Multiples
  <2>2. (p + 1) * d = p * d + d
    BY <1>2
  <2> QED
    BY <1>2, <2>1, <2>2
<1>4. ~(q + 1 <= p)
  <2> SUFFICES ASSUME q + 1 <= p PROVE FALSE
    OBVIOUS
  <2>1. (q + 1) * d <= p * d
    BY <1>2, Multiples
  <2>2. (q + 1) * d = q * d + d
    OBVIOUS
  <2> QED
    BY <1>2, <2>1, <2>2
<1>5. p = q
  BY <1>2, <1>3, <1>4
<1>6. s = r
  BY <1>2, <1>5
<1> QED
  BY <1>1, <1>5, <1>6 DEF p, s

\* The place of a pixel in a grid, and of the same pixel in the transposed grid.
Across(i, rows, cols) == (i % rows) * cols + i \div rows

LEMMA AcrossInside ==
  ASSUME NEW rows \in Nat \ {0}, NEW cols \in Nat \ {0}, NEW i \in 0..(rows * cols - 1)
  PROVE  /\ i % rows \in 0..(rows - 1) /\ i \div rows \in 0..(cols - 1)
         /\ Across(i, rows, cols) \in 0..(rows * cols - 1)
<1>1. rows * cols \in Nat /\ i \in Nat
  BY Multiples
<1> DEFINE q == i \div rows
           r == i % rows
<1>2. q \in Nat /\ r \in 0..(rows - 1) /\ i = q * rows + r
  BY <1>1, DivMod
<1> HIDE DEF q, r
<1>3. q \in 0..(cols - 1)
  <2>1. ~(cols <= q)
    <3> SUFFICES ASSUME cols <= q PROVE FALSE
      OBVIOUS
    <3>1. cols * rows <= q * rows
      BY <1>2, Multiples
    <3> QED
      BY <1>1, <1>2, <3>1
  <2> QED
    BY <1>2, <2>1
<1>4. r * cols <= (rows - 1) * cols /\ r * cols \in Nat
  BY <1>2, Multiples
<1>5. (rows - 1) * cols = rows * cols - cols
  OBVIOUS
<1>6. r * cols + q \in 0..(rows * cols - 1)
  BY <1>1, <1>2, <1>3, <1>4, <1>5
<1> QED
  BY <1>2, <1>3, <1>6 DEF Across, q, r

\* Across and back.
LEMMA AcrossAndBack ==
  ASSUME NEW rows \in Nat \ {0}, NEW cols \in Nat \ {0}, NEW i \in 0..(rows * cols - 1)
  PROVE  Across(Across(i, rows, cols), cols, rows) = i
<1> DEFINE q == i \div rows
           r == i % rows
<1>1. q \in 0..(cols - 1) /\ r \in 0..(rows - 1)
  BY AcrossInside
<1>2. i \in Nat /\ i = q * rows + r
  BY Multiples, DivMod
<1> HIDE DEF q, r
<1>3. (r * cols + q) \div cols = r /\ (r * cols + q) % cols = q
  BY <1>1, DivModUnique
<1> QED
  BY <1>2, <1>3 DEF Across, q, r

\* One goroutine's band holds the pixels of its rows.
LEMMA BandHolds ==
  ASSUME NEW src, NEW rows \in Nat \ {0}, NEW cols \in Nat \ {0}, NEW r0 \in Nat, NEW r1 \in Nat,
         NEW i \in DOMAIN Band(src, rows, cols, r0, r1)
  PROVE  Band(src, rows, cols, r0, r1)[i] = PixelAt(src, Across(i, rows, cols))
BY DEF Band, Across

\* The bands cover the grid.
LEMMA BandsCover ==
  ASSUME NEW src, NEW rows \in Nat \ {0}, NEW cols \in Nat \ {0}, NEW i \in 0..(rows * cols - 1),
         NEW band \in Nat \ {0}
  PROVE  \E r0 \in {r \in 0..(rows - 1) : r % band = 0} :
           i \in DOMAIN Band(src, rows, cols, r0, IF r0 + band > rows THEN rows ELSE r0 + band)
<1> DEFINE q == i \div rows
           r == i % rows
           e == r \div band
           m == r % band
           r0 == e * band
<1>0. i \in Nat
  BY Multiples
<1>1. q \in 0..(cols - 1) /\ r \in 0..(rows - 1) /\ i = q * rows + r
  <2>1. q \in 0..(cols - 1) /\ r \in 0..(rows - 1)
    BY AcrossInside
  <2>2. i = q * rows + r
    BY <1>0, DivMod
  <2> QED
    BY <2>1, <2>2
<1> HIDE DEF q, r
<1>r. r \in Nat
  BY <1>1
<1>2. e \in Nat /\ m \in 0..(band - 1) /\ r = e * band + m
  BY <1>r, DivMod
<1> HIDE DEF e, m
<1>3. r0 \in Nat /\ r0 % band = 0
  <2>1. 0 \in 0..(band - 1) /\ e * band \in Nat
    BY <1>2, Multiples
  <2>2. (e * band + 0) % band = 0
    BY <1>2, <2>1, DivModUnique
  <2> QED
    BY <2>1, <2>2
<1>30. r = r0 + m
  BY <1>2
<1> HIDE DEF r0
<1>4. r0 \in 0..(rows - 1) /\ r \in r0..((IF r0 + band > rows THEN rows ELSE r0 + band) - 1)
  BY <1>1, <1>2, <1>3, <1>30
<1>5. i \in DOMAIN Band(src, rows, cols, r0, IF r0 + band > rows THEN rows ELSE r0 + band)
  BY <1>1, <1>4 DEF Band
<1> QED
  BY <1>3, <1>4, <1>5

\* Whatever the number of goroutines, they write every pixel, in its place.
LEMMA TransposeIs ==
  ASSUME NEW rows \in Nat \ {0}, NEW cols \in Nat \ {0}, NEW src, Len(src) = rows * cols
  PROVE  TransposeInto(src, rows, cols) =
           [k \in 1..(rows * cols) |-> PixelAt(src, Across(k - 1, rows, cols))]
<1> DEFINE workers == IF Workers > rows THEN rows ELSE Workers
           band == (rows + workers - 1) \div workers
           End(r0) == IF r0 + band > rows THEN rows ELSE r0 + band
           bands == {Band(src, rows, cols, r0, End(r0)) : r0 \in {r \in 0..(rows - 1) : r % band = 0}}
<1>1. band \in Nat \ {0}
  <2>1. workers \in Nat \ {0} /\ rows + workers - 1 \in Nat
    BY WorkersAssumption
  <2> HIDE DEF workers
  <2>2. band \in Nat
    BY <2>1, DivMod
  <2>3. band # 0
    <3> SUFFICES ASSUME band = 0 PROVE FALSE
      OBVIOUS
    <3>1. rows + workers - 1 = band * workers + ((rows + workers - 1) % workers)
          /\ (rows + workers - 1) % workers \in 0..(workers - 1)
      BY <2>1, DivMod
    <3> QED
      BY <2>1, <3>1
  <2> QED
    BY <2>2, <2>3
<1>2. TransposeInto(src, rows, cols) =
        [k \in 1..Len(src) |->
           IF \E b \in bands : k - 1 \in DOMAIN b
           THEN (CHOOSE b \in bands : k - 1 \in DOMAIN b)[k - 1] ELSE 0]
  BY DEF TransposeInto
<1> HIDE DEF band
<1>3. \A r0 \in 0..(rows - 1) : End(r0) \in Nat
  BY <1>1
<1>4. ASSUME NEW k \in 1..(rows * cols)
      PROVE  /\ \E b \in bands : k - 1 \in DOMAIN b
             /\ (CHOOSE b \in bands : k - 1 \in DOMAIN b)[k - 1] = PixelAt(src, Across(k - 1, rows, cols))
  <2>1. k - 1 \in 0..(rows * cols - 1)
    BY Multiples
  <2>2. \E b \in bands : k - 1 \in DOMAIN b
    <3>1. PICK r0 \in {r \in 0..(rows - 1) : r % band = 0} : k - 1 \in DOMAIN Band(src, rows, cols, r0, End(r0))
      BY <1>1, <2>1, BandsCover
    <3> QED
      BY <3>1
  <2> DEFINE b == CHOOSE b \in bands : k - 1 \in DOMAIN b
  <2>3. b \in bands /\ k - 1 \in DOMAIN b
    BY <2>2
  <2> HIDE DEF b
  <2>4. PICK r0 \in 0..(rows - 1) : b = Band(src, rows, cols, r0, End(r0))
    BY <2>3
  <2>5. b[k - 1] = PixelAt(src, Across(k - 1, rows, cols))
    BY <1>3, <2>3, <2>4, BandHolds
  <2> QED
    BY <2>2, <2>5 DEF b
<1> HIDE DEF bands
<1> QED
  BY <1>2, <1>4

\* There and back again: what one side transposes the other undoes.
LEMMA TransposeTwice ==
  ASSUME NEW rows \in Nat \ {0}, NEW cols \in Nat \ {0}, NEW S, NEW src \in Seq(S), Len(src) = rows * cols
  PROVE  [k \in 1..(rows * cols) |->
            PixelAt([j \in 1..(rows * cols) |-> PixelAt(src, Across(j - 1, rows, cols))],
                    Across(k - 1, cols, rows))] = src
<1> DEFINE there == [j \in 1..(rows * cols) |-> PixelAt(src, Across(j - 1, rows, cols))]
           back == [k \in 1..(rows * cols) |-> PixelAt(there, Across(k - 1, cols, rows))]
<1>0. rows * cols \in Nat /\ rows * cols = cols * rows
  BY Multiples
<1>1. ASSUME NEW k \in 1..(rows * cols) PROVE back[k] = src[k]
  <2> DEFINE i == k - 1
             j == Across(i, cols, rows)
  <2>3. back[k] = there[j + 1]
    BY DEF PixelAt
  <2>1. i \in 0..(cols * rows - 1)
    BY <1>0
  <2>i. i + 1 = k
    OBVIOUS
  <2> HIDE DEF i
  <2>2. j \in 0..(cols * rows - 1) /\ Across(j, rows, cols) = i
    BY <2>1, AcrossInside, AcrossAndBack
  <2> HIDE DEF j
  <2>4. j + 1 \in 1..(rows * cols) /\ (j + 1) - 1 = j
    BY <1>0, <2>2
  <2>5. there[j + 1] = src[i + 1]
    BY <2>2, <2>4 DEF PixelAt
  <2> QED
    BY <2>3, <2>5, <2>i
<1>2. back = [k \in 1..(rows * cols) |-> src[k]]
  <2> HIDE DEF there
  <2> QED BY <1>1
<1>3. src = [k \in 1..(rows * cols) |-> src[k]]
  BY <1>0
<1> QED
  BY <1>2, <1>3

\* What a whole frame is made of.
LEMMA WholeFrame ==
  ASSUME NEW f, Whole(f)
  PROVE  /\ f = [rank |-> f.rank, w |-> f.w, h |-> f.h, planes |-> f.planes, pix |-> f.pix]
         /\ f.rank \in {2, 3} /\ f.w \in Nat \ {0} /\ f.h \in Nat \ {0} /\ f.planes \in Nat
         /\ f.pix \in Seq(Nat) /\ (f.rank = 3 => f.planes > 0)
         /\ f.rank = 2 => Len(f.pix) = f.w * f.h
         /\ f # NoImage
<1>1. f \in [rank : {2, 3}, w : Nat, h : Nat, planes : Nat, pix : Seq(Nat)]
  BY DEF Whole
<1>2. /\ f.rank \in {2, 3} /\ f.w \in Nat /\ f.h \in Nat /\ f.planes \in Nat /\ f.pix \in Seq(Nat)
      /\ f = [rank |-> f.rank, w |-> f.w, h |-> f.h, planes |-> f.planes, pix |-> f.pix]
  BY <1>1
<1>3. f.w > 0 /\ f.h > 0 /\ (f.rank = 2 => Len(f.pix) = f.w * f.h * 1) /\ (f.rank = 3 => f.planes > 0)
  BY DEF Whole, Sized
<1>4. f.w * f.h * 1 = f.w * f.h
  BY <1>2
<1>5. f.rank # NoImage.rank
  BY <1>2 DEF NoImage
<1> QED
  BY <1>2, <1>3, <1>4, <1>5

\* The other way round.
Turned(pix, rows, cols) == [k \in 1..(rows * cols) |-> PixelAt(pix, Across(k - 1, rows, cols))]

LEMMA TransposeTurns ==
  ASSUME NEW rows \in Nat \ {0}, NEW cols \in Nat \ {0}, NEW pix, Len(pix) = rows * cols
  PROVE  TransposeInto(pix, rows, cols) = Turned(pix, rows, cols)
BY TransposeIs DEF Turned

LEMMA TurnedTyped ==
  ASSUME NEW rows \in Nat \ {0}, NEW cols \in Nat \ {0}, NEW pix \in Seq(Nat), Len(pix) = rows * cols
  PROVE  Turned(pix, rows, cols) \in Seq(Nat) /\ Len(Turned(pix, rows, cols)) = rows * cols
<1>1. rows * cols \in Nat
  BY Multiples
<1>2. ASSUME NEW k \in 1..(rows * cols) PROVE PixelAt(pix, Across(k - 1, rows, cols)) \in Nat
  <2>1. k - 1 \in 0..(rows * cols - 1)
    BY <1>1
  <2> DEFINE j == Across(k - 1, rows, cols)
  <2>2. j \in 0..(rows * cols - 1)
    BY <2>1, AcrossInside
  <2> HIDE DEF j
  <2>3. pix[j + 1] \in Nat
    BY <1>1, <2>2
  <2> QED
    BY <2>3 DEF PixelAt, j
<1> DEFINE turned == Turned(pix, rows, cols)
<1>3. turned \in [1..(rows * cols) -> Nat]
  BY <1>2 DEF Turned
<1> HIDE DEF turned
<1>4. turned \in Seq(Nat) /\ Len(turned) = rows * cols
  BY <1>1, <1>3
<1> QED
  BY <1>4 DEF turned

LEMMA TurnedTwice ==
  ASSUME NEW rows \in Nat \ {0}, NEW cols \in Nat \ {0}, NEW pix \in Seq(Nat), Len(pix) = rows * cols
  PROVE  Turned(Turned(pix, rows, cols), cols, rows) = pix
<1>1. cols * rows = rows * cols
  OBVIOUS
<1> QED
  BY <1>1, TransposeTwice DEF Turned

\* ImageBytes on the wire.
LEMMA Encoded ==
  ASSUME NEW f, Whole(f)
  PROVE  /\ EncodeImageBytes(f) =
              [err |-> 0, start |-> 1, rank |-> f.rank, w |-> f.w, h |-> f.h, planes |-> f.planes,
               pix |-> EncodeImageBytes(f).pix]
         /\ EncodeImageBytes(f).pix = IF f.rank = 2 THEN Turned(f.pix, f.h, f.w) ELSE f.pix
         /\ EncodeImageBytes(f).pix \in Seq(Nat) /\ Len(EncodeImageBytes(f).pix) = Len(f.pix)
<1> DEFINE wire == EncodeImageBytes(f).pix
<1>1. Sized(f)
  BY DEF Whole
<1>2. wire = IF f.rank = 2 THEN TransposeInto(f.pix, f.h, f.w) ELSE f.pix
  BY <1>1 DEF EncodeImageBytes
<1>3. EncodeImageBytes(f) =
        [err |-> 0, start |-> 1, rank |-> f.rank, w |-> f.w, h |-> f.h, planes |-> f.planes, pix |-> wire]
  BY DEF EncodeImageBytes, HeaderLen
<1> HIDE DEF wire
<1>4. CASE f.rank = 2
  <2>1. /\ f.h \in Nat \ {0} /\ f.w \in Nat \ {0} /\ f.pix \in Seq(Nat) /\ Len(f.pix) = f.h * f.w
    BY <1>4, WholeFrame
  <2>2. wire = Turned(f.pix, f.h, f.w)
    BY <1>2, <1>4, <2>1, TransposeTurns
  <2>3. wire \in Seq(Nat) /\ Len(wire) = Len(f.pix)
    BY <2>1, <2>2, TurnedTyped
  <2> QED
    BY <1>3, <1>4, <2>2, <2>3 DEF wire
<1>5. CASE f.rank # 2
  BY <1>2, <1>3, <1>5, WholeFrame DEF wire
<1> QED
  BY <1>4, <1>5

\* The payload of a message that was not damaged.
LEMMA PayloadOf ==
  ASSUME NEW m, m.start = 1, m.pix \in Seq(Nat)
  PROVE  Payload(m) = m.pix
<1> DEFINE units == <<0>> \o m.pix
<1>1. <<0>> \in Seq(Nat) /\ Len(<<0>>) = 1
  OBVIOUS
<1>2. units \in Seq(Nat) /\ Len(units) = 1 + Len(m.pix) /\ \A i \in 1..Len(m.pix) : units[i + 1] = m.pix[i]
  BY <1>1
<1>p. Payload(m) = SubSeq(units, (IF m.start > Len(units) THEN Len(units) ELSE m.start) + 1, Len(units))
  BY DEF Payload
<1> HIDE DEF units
<1>3. Payload(m) = SubSeq(units, 2, Len(units))
  <2>1. Len(units) \in Nat /\ ~(1 > Len(units))
    BY <1>2
  <2>2. (IF m.start > Len(units) THEN Len(units) ELSE m.start) + 1 = 2
    BY <2>1
  <2> QED
    BY <1>p, <2>2
<1>4. \A i \in 2..Len(units) : units[i] \in Nat
  BY <1>2
<1> DEFINE rest == SubSeq(units, 2, Len(units))
<1>5. rest \in Seq(Nat) /\ Len(rest) = Len(m.pix) /\ \A i \in 1..Len(m.pix) : rest[i] = m.pix[i]
  <2> DEFINE last == Len(units)
  <2>1. last \in Int /\ 2 \in Int /\ Len(m.pix) = last - 1 /\ last - 1 \in Nat
    BY <1>2
  <2> HIDE DEF last
  <2>2. \A i \in 2..last : units[i] \in Nat
    BY <1>4 DEF last
  <2>3. /\ SubSeq(units, 2, last) \in Seq(Nat)
        /\ Len(SubSeq(units, 2, last)) = IF 2 <= last THEN last - 2 + 1 ELSE 0
        /\ \A i \in 1..(last - 2 + 1) : SubSeq(units, 2, last)[i] = units[2 + i - 1]
    BY <2>1, <2>2, SubSeqProperties
  <2>4. rest = SubSeq(units, 2, last)
    BY DEF last
  <2> HIDE DEF rest
  <2>5. Len(rest) = Len(m.pix)
    BY <2>1, <2>3, <2>4
  <2>6. \A i \in 1..Len(m.pix) : i \in 1..(last - 2 + 1) /\ 2 + i - 1 = i + 1
    BY <2>1
  <2>7. \A i \in 1..Len(m.pix) : rest[i] = m.pix[i]
    BY <1>2, <2>3, <2>4, <2>6
  <2> QED
    BY <2>3, <2>4, <2>5, <2>7
<1> HIDE DEF rest
<1> DEFINE pix == m.pix
<1>7. pix \in Seq(Nat) /\ Len(rest) = Len(pix) /\ \A i \in 1..Len(rest) : rest[i] = pix[i]
  BY <1>5
<1> HIDE DEF pix
<1>8. rest = pix
  <2>1. \A s, t \in Seq(Nat) : Len(s) = Len(t) /\ (\A i \in 1..Len(s) : s[i] = t[i]) => s = t
    BY SeqEqual, Zenon
  <2> QED
    BY <1>5, <1>7, <2>1, Zenon
<1>6. rest = m.pix
  BY <1>8 DEF pix
<1> QED
  BY <1>3, <1>6 DEF rest

\* A frame comes out of ImageBytes as it went in.
LEMMA BytesAndBack == ASSUME NEW f, Whole(f) PROVE DecodeImageBytes(EncodeImageBytes(f)) = f
<1> DEFINE m == EncodeImageBytes(f)
           wire == m.pix
           g == [rank |-> f.rank, w |-> f.w, h |-> f.h, planes |-> f.planes, pix |-> wire]
<1>1. /\ m.start = 1 /\ m.rank = f.rank /\ m.w = f.w /\ m.h = f.h /\ m.planes = f.planes
      /\ wire = (IF f.rank = 2 THEN Turned(f.pix, f.h, f.w) ELSE f.pix)
      /\ wire \in Seq(Nat) /\ Len(wire) = Len(f.pix)
  BY Encoded
<1>2. Payload(m) = wire
  BY <1>1, PayloadOf
<1> HIDE DEF m
<1>3. DecodeImageBytes(m) = IF g.rank = 2 /\ Sized(g) THEN [g EXCEPT !.pix = TransposeInto(wire, g.w, g.h)] ELSE g
  BY <1>1, <1>2 DEF DecodeImageBytes
<1>4. CASE f.rank = 2
  <2>1. /\ f.h \in Nat \ {0} /\ f.w \in Nat \ {0} /\ f.pix \in Seq(Nat) /\ Len(f.pix) = f.h * f.w
        /\ f.h * f.w = f.w * f.h
    BY <1>4, WholeFrame
  <2>2. Sized(g)
    BY <1>1, <1>4, <2>1 DEF Sized
  <2>3. wire = Turned(f.pix, f.h, f.w)
    BY <1>1, <1>4
  <2>w. Len(wire) = f.w * f.h
    BY <1>1, <2>1
  <2>4. TransposeInto(wire, f.w, f.h) = Turned(wire, f.w, f.h)
    BY <2>1, <2>w, TransposeTurns
  <2>5. Turned(wire, f.w, f.h) = f.pix
    BY <2>1, <2>3, TurnedTwice
  <2>6. DecodeImageBytes(m) = [g EXCEPT !.pix = f.pix]
    BY <1>3, <1>4, <2>2, <2>4, <2>5
  <2>7. [g EXCEPT !.pix = f.pix] = [rank |-> f.rank, w |-> f.w, h |-> f.h, planes |-> f.planes, pix |-> f.pix]
    OBVIOUS
  <2> QED
    BY <2>6, <2>7, WholeFrame DEF m
<1>5. CASE f.rank # 2
  BY <1>1, <1>3, <1>5, WholeFrame DEF m
<1> QED
  BY <1>4, <1>5

\* A frame comes out of the JSON array as it went in.
LEMMA JSONAndBack ==
  ASSUME NEW f, Whole(f)
  PROVE  WriteImageArrayJSON(f).err = 0 /\ DecodeImageArrayJSON(WriteImageArrayJSON(f)) = f
<1> DEFINE m == WriteImageArrayJSON(f)
<1>0. Sized(f) /\ f.rank \in {2, 3} /\ f.planes \in Nat /\ (f.rank = 3 => f.planes > 0)
  BY WholeFrame DEF Whole
<1>w. f.w \in Nat \ {0} /\ f.h \in Nat \ {0} /\ f.pix \in Seq(Nat)
  BY WholeFrame
<1>1. m = [EncodeImageBytesError(0) EXCEPT
             !.rank = f.rank, !.w = f.w, !.h = f.h, !.planes = f.planes,
             !.pix = IF f.rank = 2
                     THEN [k \in 1..(f.w * f.h) |-> PixelAt(f.pix, ((k - 1) % f.h) * f.w + (k - 1) \div f.h)]
                     ELSE f.pix]
  BY <1>0 DEF WriteImageArrayJSON
<1> DEFINE wire == IF f.rank = 2
                     THEN [k \in 1..(f.w * f.h) |-> PixelAt(f.pix, ((k - 1) % f.h) * f.w + (k - 1) \div f.h)]
                     ELSE f.pix
<1>2. f.w * f.h = f.h * f.w
  BY <1>w
<1>3. wire = IF f.rank = 2 THEN Turned(f.pix, f.h, f.w) ELSE f.pix
  BY <1>2 DEF Turned, Across
<1> HIDE DEF wire
<1>4. /\ m.err = 0 /\ m.rank = f.rank /\ m.w = f.w /\ m.h = f.h /\ m.planes = f.planes /\ m.pix = wire
  BY <1>1 DEF EncodeImageBytesError, wire
<1> HIDE DEF m
<1>5. DecodeImageArrayJSON(m) =
        [rank |-> f.rank, w |-> f.w, h |-> f.h, planes |-> f.planes,
         pix |-> IF f.rank = 2
                 THEN [k \in 1..(f.w * f.h) |-> PixelAt(wire, ((k - 1) % f.w) * f.h + (k - 1) \div f.w)]
                 ELSE wire]
  BY <1>4 DEF DecodeImageArrayJSON
<1>6. CASE f.rank = 2
  <2>1. Len(f.pix) = f.h * f.w
    BY <1>2, <1>6, WholeFrame
  <2>2. [k \in 1..(f.w * f.h) |-> PixelAt(wire, ((k - 1) % f.w) * f.h + (k - 1) \div f.w)] = Turned(wire, f.w, f.h)
    BY DEF Turned, Across
  <2>3. Turned(wire, f.w, f.h) = f.pix
    BY <1>w, <1>3, <1>6, <2>1, TurnedTwice
  <2>4. DecodeImageArrayJSON(m) = [rank |-> f.rank, w |-> f.w, h |-> f.h, planes |-> f.planes, pix |-> f.pix]
    BY <1>5, <1>6, <2>2, <2>3
  <2> QED
    BY <1>4, <2>4, WholeFrame DEF m
<1>7. CASE f.rank # 2
  BY <1>3, <1>4, <1>5, <1>7, WholeFrame DEF m
<1> QED
  BY <1>6, <1>7

-----------------------------------------------------------------------------
(* What a client is told *)

\* The faults that may stand while a client is calm keep and change nothing.
Stands(k) ==
  /\ k.at # "hung"
  /\ k.at = "faulted" => k.fault.kind \in {"none", "throttle"}

\* What the server may answer a GET of image i, in either transport.
ServedReply(i, bytes) ==
  IF bytes THEN ImageReply(IF i = NoImage THEN EncodeImageBytesError(1035) ELSE EncodeImageBytes(i))
  ELSE IF i = NoImage THEN JSONReply(EncodeImageBytesError(1035), "none")
  ELSE JSONReply(WriteImageArrayJSON(i), "array")

PutReply(applied) == JSONReply(EncodeImageBytesError(IF applied = 0 THEN 1025 ELSE 0), "none")

RightReply(k) ==
  IF k.op = "put" THEN k.reply = PutReply(k.applied) /\ k.applied \in {0, k.arg}
  ELSE \E bytes \in BOOLEAN : /\ k.reply = ServedReply(k.served, bytes)
                              /\ k.op = "stream" /\ ~bytes => disturbed

\* What the sink has and what is still to come make the frame.
RightStream(k) ==
  /\ k.op = "stream" /\ k.served # NoImage /\ k.reply.cut = FALSE
  /\ {"cut", "msg"} \subseteq DOMAIN k.reply /\ "pix" \in DOMAIN k.reply.msg /\ "got" \in DOMAIN k.sink
  /\ k.sink.got \in Seq(Nat) /\ k.reply.msg.pix \in Seq(Nat)
  /\ k.sink.got \o k.reply.msg.pix = EncodeImageBytes(k.served).pix

RightAnswer(k) ==
  /\ k.answer \in {"ok", "device", "gaveup", "sink", "refused"}
  /\ k.answer = "refused" => disturbed
  /\ k.op = "frame" /\ k.answer = "ok" => k.frame = k.served /\ k.served # NoImage
  /\ k.op = "stream" /\ k.answer = "ok" =>
       k.served = DecodeImageBytes([EncodeImageBytes(k.served) EXCEPT !.pix = k.sink.got])
  /\ k.op # "put" /\ k.answer = "device" => k.served = NoImage
  /\ k.op = "put" /\ k.answer = "ok" => k.applied = k.arg
  /\ k.op = "put" /\ k.answer = "device" => k.applied = 0

Right(k) ==
  /\ Stands(k)
  /\ k.at \in {"served", "faulted", "replied"} => RightReply(k)
  /\ k.at = "streaming" => RightStream(k)
  /\ k.at = "done" => RightAnswer(k)

\* While a calm client's call is under way nothing harmful stands, and while a stream
\* is that nothing has disturbed, nothing at all.
ServedInv ==
  /\ noStream => disturbed
  /\ \A c \in Clients : InFlight(c) /\ c \in calm => Harmless
  /\ \A c \in Clients : InFlight(c) /\ call[c].op = "stream" /\ ~disturbed => c \in calm /\ Clean
  /\ \A c \in calm : Right(call[c])

LEMMA ServedImplies == ServedInv => AsServed
BY DEF ServedInv, Right, RightAnswer, AsServed

LEMMA InitServed == Init => ServedInv
<1> SUFFICES ASSUME Init PROVE ServedInv
  OBVIOUS
<1>1. Idle.at = "idle"
  BY DEF Idle
<1>2. \A c \in Clients : ~InFlight(c)
  BY <1>1 DEF Init, InFlight
<1> QED
  BY <1>2 DEF Init, ServedInv

LEMMA CleanIsHarmless == (Clean => Harmless) /\ (Clean' => Harmless')
<1>1. NoFault.kind = "none"
  BY DEF NoFault
<1>2. Clean => Harmless
  BY <1>1 DEF Clean, Harmless
<1>3. Clean' => Harmless'
  BY <1>1 DEF Clean, Harmless
<1> QED
  BY <1>2, <1>3

\* A step of a call that leaves what stands, and the histories, as they are.
LEMMA StaysServed ==
  ASSUME TypeInv, ServedInv, NEW c \in Clients, NEW rec, Goes(c, rec),
         Harmless => Harmless', Clean => Clean', UNCHANGED <<calm, disturbed>>,
         noStream' => disturbed,
         rec.op = call[c].op, InFlight(c), c \in calm => Right(rec)
  PROVE  ServedInv'
<1>1. /\ call'[c] = rec
      /\ \A d \in Clients \ {c} : call'[d] = call[d]
  BY DEF Goes, TypeInv, CallsTyped
<1>2. \A d \in Clients : InFlight(d)' => InFlight(d) /\ call'[d].op = call[d].op
  BY <1>1 DEF InFlight
<1>3. noStream' => disturbed'
  OBVIOUS
<1>4. \A d \in Clients : InFlight(d)' /\ d \in calm' => Harmless'
  BY <1>2 DEF ServedInv
<1>5. \A d \in Clients : InFlight(d)' /\ call'[d].op = "stream" /\ ~disturbed' => d \in calm' /\ Clean'
  BY <1>2 DEF ServedInv
<1>6. \A d \in calm' : Right(call[d])'
  <2> SUFFICES ASSUME NEW d \in calm PROVE Right(call[d])'
    OBVIOUS
  <2>1. d \in Clients
    BY DEF TypeInv
  <2>2. Right(call'[d])
    BY <1>1, <2>1 DEF ServedInv
  <2> QED
    BY <2>2 DEF Right, Stands, RightReply, RightStream, RightAnswer
<1> QED
  BY <1>3, <1>4, <1>5, <1>6 DEF ServedInv

\* The same, when nothing that stands has changed either.
LEMMA GoesServed ==
  ASSUME TypeInv, ServedInv, NEW c \in Clients, NEW rec, Goes(c, rec),
         UNCHANGED <<member, toggles, calm, disturbed>>, noStream' => disturbed,
         rec.op = call[c].op, InFlight(c), c \in calm => Right(rec)
  PROVE  ServedInv'
<1>1. (Harmless => Harmless') /\ (Clean => Clean')
  BY DEF Harmless, Clean
<1> QED
  BY <1>1, StaysServed

\* A call that is given up is told so.
LEMMA GivenUp ==
  ASSUME NEW k, CallTyped(k)
  PROVE  /\ Right([k EXCEPT !.at = "done", !.answer = "gaveup", !.reply = NoReply])
         /\ \A s : Right([k EXCEPT !.at = "done", !.answer = "gaveup", !.reply = NoReply, !.sink = s])
         /\ \A s : Right([k EXCEPT !.at = "done", !.answer = "sink", !.reply = NoReply, !.sink = s])
BY DEF CallTyped, Parts, Right, Stands, RightAnswer

\* The beginning of a call.
LEMMA AskServed ==
  ASSUME TypeInv, ServedInv, NEW c \in Clients, Ask(c)
  PROVE  ServedInv'
<1>1. PICK op, arg :
        /\ Goes(c, [Idle EXCEPT !.op = op, !.arg = arg,
                 !.at = IF op = "stream" /\ noStream THEN "done" ELSE "sent",
                 !.answer = IF op = "stream" /\ noStream THEN "refused" ELSE "none"])
        /\ disturbed' = (disturbed \/ (op = "stream" /\ ~Clean))
        /\ op \in campaign.ops
  BY DEF Ask
<1> DEFINE rec == [Idle EXCEPT !.op = op, !.arg = arg,
                 !.at = IF op = "stream" /\ noStream THEN "done" ELSE "sent",
                 !.answer = IF op = "stream" /\ noStream THEN "refused" ELSE "none"]
<1>2. /\ rec.op = op /\ rec.at = (IF op = "stream" /\ noStream THEN "done" ELSE "sent")
      /\ rec.answer = (IF op = "stream" /\ noStream THEN "refused" ELSE "none")
  BY DEF Idle
<1> HIDE DEF rec
<1>3. /\ call'[c] = rec
      /\ \A d \in Clients \ {c} : call'[d] = call[d]
  BY <1>1 DEF Goes, TypeInv, CallsTyped, rec
<1>4. /\ UNCHANGED <<member, toggles, noStream>> /\ ~InFlight(c)
      /\ calm' = IF Harmless THEN calm \cup {c} ELSE calm \ {c}
  BY DEF Ask, store, InFlight
<1>5. Harmless' = Harmless /\ Clean' = Clean
  BY <1>4 DEF Harmless, Clean
<1>6. Clean => Harmless
  BY CleanIsHarmless
<1>7. disturbed => disturbed'
  BY <1>1
<1>8. \A d \in Clients \ {c} : InFlight(d)' => InFlight(d)
  BY <1>3 DEF InFlight
<1>9. \A d \in Clients : InFlight(d)' /\ d \in calm' => Harmless'
  BY <1>4, <1>5, <1>8 DEF ServedInv
<1>10. ASSUME NEW d \in Clients, InFlight(d)', call'[d].op = "stream", ~disturbed'
       PROVE  d \in calm' /\ Clean'
  <2>1. CASE d = c
    BY <1>1, <1>2, <1>3, <1>4, <1>5, <1>6, <1>10, <2>1
  <2>2. CASE d # c
    <3>1. d \in calm /\ Clean
      BY <1>3, <1>7, <1>8, <1>10, <2>2 DEF ServedInv
    <3> QED
      BY <1>4, <1>5, <1>6, <3>1
  <2> QED
    BY <2>1, <2>2
<1>11. ASSUME NEW d \in calm' PROVE Right(call[d])'
  <2>1. CASE d = c
    <3>1. rec.op = "stream" /\ noStream => disturbed'
      BY <1>7 DEF ServedInv
    <3>2. rec.at \in {"done", "sent"} /\ (rec.at = "done" => rec.op = "stream" /\ noStream /\ rec.answer = "refused")
      BY <1>2
    <3> QED
      BY <1>3, <2>1, <3>1, <3>2 DEF Right, Stands, RightAnswer
  <2>2. CASE d # c
    <3>1. d \in calm /\ d \in Clients
      BY <1>4, <1>11, <2>2 DEF TypeInv
    <3>2. Right(call[d]) /\ call'[d] = call[d]
      BY <1>3, <2>2, <3>1 DEF ServedInv
    <3> QED
      BY <1>7, <3>2 DEF Right, Stands, RightReply, RightStream, RightAnswer
  <2> QED
    BY <2>1, <2>2
<1>12. noStream' => disturbed'
  BY <1>4, <1>7 DEF ServedInv
<1> QED
  BY <1>9, <1>10, <1>11, <1>12 DEF ServedInv

\* The tester, the camera, and a call that returns.
LEMMA OthersServed ==
  ASSUME TypeInv, ServedInv,
         Control \/ NewImage \/ (\E c \in Clients : Return(c)) \/ UNCHANGED vars
  PROVE  ServedInv'
<1>1. CASE Control
  <2>1. /\ calm' = (IF Harmless' THEN calm ELSE {c \in calm : ~InFlight(c)})
        /\ disturbed' = (disturbed \/ (~Clean' /\ \E c \in Clients : InFlight(c) /\ call[c].op = "stream"))
        /\ UNCHANGED <<noStream, call>>
    BY <1>1 DEF Control, ArmMember, SetToggle, Clear, Judged
  <2>2. disturbed => disturbed'
    BY <2>1
  <2>3. \A c \in Clients : InFlight(c)' = InFlight(c)
    BY <2>1 DEF InFlight
  <2>4. Clean' => Harmless'
    BY CleanIsHarmless
  <2>5. \A c \in Clients : InFlight(c)' /\ c \in calm' => Harmless'
    BY <2>1, <2>3
  <2>6. ASSUME NEW c \in Clients, InFlight(c)', call'[c].op = "stream", ~disturbed'
        PROVE  c \in calm' /\ Clean'
    <3>1. InFlight(c) /\ call[c].op = "stream" /\ ~disturbed
      BY <2>1, <2>2, <2>3, <2>6
    <3>2. Clean' /\ c \in calm
      BY <2>1, <2>6, <3>1 DEF ServedInv
    <3> QED
      BY <2>1, <2>4, <3>2
  <2>7. ASSUME NEW c \in calm' PROVE Right(call[c])'
    <3>1. c \in calm
      BY <2>1, <2>7
    <3>2. Right(call[c])
      BY <3>1 DEF ServedInv
    <3> QED
      BY <2>1, <2>2, <3>2 DEF Right, Stands, RightReply, RightStream, RightAnswer
  <2>8. noStream' => disturbed'
    BY <2>1, <2>2 DEF ServedInv
  <2> QED
    BY <2>5, <2>6, <2>7, <2>8 DEF ServedInv
<1>2. CASE NewImage \/ UNCHANGED vars
  <2>1. UNCHANGED <<member, toggles, noStream, call, calm, disturbed>>
    BY <1>2 DEF NewImage, vars, store, history
  <2>2. \A c \in Clients : InFlight(c)' = InFlight(c)
    BY <2>1 DEF InFlight
  <2>3. Clean' = Clean /\ Harmless' = Harmless
    BY <2>1 DEF Clean, Harmless
  <2>4. ASSUME NEW c \in calm' PROVE Right(call[c])'
    <3>1. Right(call[c]) /\ call'[c] = call[c]
      BY <2>1, <2>4 DEF ServedInv
    <3> QED
      BY <2>1, <3>1 DEF Right, Stands, RightReply, RightStream, RightAnswer
  <2> QED
    BY <2>1, <2>2, <2>3, <2>4 DEF ServedInv
<1>3. ASSUME NEW c \in Clients, Return(c) PROVE ServedInv'
  <2>1. /\ UNCHANGED <<member, toggles, noStream, calm, disturbed>>
        /\ call'[c] = Idle /\ \A d \in Clients \ {c} : call'[d] = call[d]
    BY <1>3 DEF Return, Goes, store, history, TypeInv, CallsTyped
  <2>2. Idle.at = "idle"
    BY DEF Idle
  <2>3. \A d \in Clients : InFlight(d)' => InFlight(d) /\ call'[d] = call[d]
    BY <2>1, <2>2 DEF InFlight
  <2>4. \A d \in Clients : InFlight(d)' /\ d \in calm' => Harmless'
    BY <2>1, <2>3 DEF ServedInv, Harmless
  <2>5. \A d \in Clients : InFlight(d)' /\ call'[d].op = "stream" /\ ~disturbed' => d \in calm' /\ Clean'
    BY <2>1, <2>3 DEF ServedInv, Clean
  <2>6. ASSUME NEW d \in calm' PROVE Right(call[d])'
    <3>1. d \in calm /\ d \in Clients
      BY <2>1, <2>6 DEF TypeInv
    <3>2. CASE d = c
      BY <2>1, <2>2, <3>2 DEF Right, Stands
    <3>3. CASE d # c
      <4>1. Right(call[d]) /\ call'[d] = call[d]
        BY <2>1, <3>1, <3>3 DEF ServedInv
      <4> QED
        BY <2>1, <4>1 DEF Right, Stands, RightReply, RightStream, RightAnswer
    <3> QED
      BY <3>2, <3>3
  <2> QED
    BY <2>1, <2>4, <2>5, <2>6 DEF ServedInv
<1> QED
  BY <1>1, <1>2, <1>3

\* What a calm call finds while it is under way.
LEMMA CalmFinds ==
  ASSUME TypeInv, ServedInv, NEW c \in calm, InFlight(c)
  PROVE  /\ toggles \subseteq {"forcejson"}
         /\ \A m \in Members : member[m].kind \in {"none", "throttle"}
         /\ MemberFault(MemberOf(c), MethodOf(c)).kind \in {"none", "throttle"}
         /\ Right(call[c]) /\ CallTyped(call[c]) /\ c \in Clients
<1>1. c \in Clients /\ Right(call[c]) /\ Harmless
  BY DEF ServedInv, TypeInv
<1>2. CallTyped(call[c])
  BY <1>1 DEF TypeInv, CallsTyped
<1>3. MemberOf(c) \in Members /\ NoFault.kind = "none"
  BY DEF MemberOf, Members, NoFault
<1> QED
  BY <1>1, <1>2, <1>3 DEF Harmless, MemberFault

\* What is in a reply of the server's.
LEMMA ServedParts ==
  ASSUME NEW i \in Frames \cup {NoImage}, NEW bytes \in BOOLEAN, NEW r, r = ServedReply(i, bytes)
  PROVE  /\ DOMAIN r = {"status", "ct", "form", "msg", "value", "cut"}
         /\ r.status = 200
         /\ r.ct = (IF bytes THEN "imagebytes" ELSE "json") /\ r.form = (IF bytes THEN "image" ELSE "json")
         /\ i = NoImage => r.msg.err # 0
         /\ i # NoImage => /\ Whole(i) /\ r.msg.err = 0
                           /\ r.msg = IF bytes THEN EncodeImageBytes(i) ELSE WriteImageArrayJSON(i)
                           /\ ~bytes => r.value = "array"
<1> DEFINE m == IF i = NoImage THEN EncodeImageBytesError(1035)
                ELSE IF bytes THEN EncodeImageBytes(i) ELSE WriteImageArrayJSON(i)
           v == IF i = NoImage THEN "none" ELSE "array"
<1>1. r = IF bytes THEN ImageReply(m) ELSE JSONReply(m, v)
  BY DEF ServedReply
<1>2. i = NoImage => m.err = 1035
  BY DEF EncodeImageBytesError
<1>3. i # NoImage => Whole(i)
  BY TransportAssumption
<1>4. i # NoImage => m.err = 0
  BY <1>3, Encoded, JSONAndBack
<1>5. i # NoImage => m = IF bytes THEN EncodeImageBytes(i) ELSE WriteImageArrayJSON(i)
  OBVIOUS
<1>6. i # NoImage => v = "array"
  OBVIOUS
<1> HIDE DEF m, v
<1>7. /\ DOMAIN r = {"status", "ct", "form", "msg", "value", "cut"}
      /\ r.status = 200 /\ r.msg = m /\ (~bytes => r.value = v)
      /\ r.ct = (IF bytes THEN "imagebytes" ELSE "json") /\ r.form = (IF bytes THEN "image" ELSE "json")
  BY <1>1 DEF ImageReply, JSONReply
<1> QED
  BY <1>2, <1>3, <1>4, <1>5, <1>6, <1>7

LEMMA ServedUncut ==
  ASSUME NEW i, NEW bytes PROVE ServedReply(i, bytes).cut = FALSE
BY DEF ServedReply, ImageReply, JSONReply

LEMMA PutParts ==
  ASSUME NEW applied, NEW r, r = PutReply(applied)
  PROVE  /\ r.status = 200 /\ r.form = "json" /\ r.ct = "json"
         /\ r.msg.err = IF applied = 0 THEN 1025 ELSE 0
<1>1. EncodeImageBytesError(IF applied = 0 THEN 1025 ELSE 0).err = IF applied = 0 THEN 1025 ELSE 0
  BY DEF EncodeImageBytesError
<1> QED
  BY <1>1 DEF PutReply, JSONReply

LEMMA PutUncut == ASSUME NEW applied PROVE PutReply(applied).cut = FALSE
BY DEF PutReply, JSONReply

\* On its way to the server.
LEMMA OnTheWayServed ==
  ASSUME TypeInv, ServedInv, NEW c \in Clients,
         PreForward(c) \/ Withhold(c) \/ HangCap(c) \/ ReadFault(c)
  PROVE  ServedInv'
<1>0. /\ CallTyped(call[c]) /\ InFlight(c)
      /\ UNCHANGED <<member, toggles, calm, disturbed, noStream>> /\ (noStream' => disturbed)
  <2>1. CallTyped(call[c])
    BY DEF TypeInv, CallsTyped
  <2>2. InFlight(c)
    BY DEF PreForward, Withhold, HangCap, ReadFault, InFlight
  <2>3. UNCHANGED <<member, toggles, calm, disturbed, noStream>>
    BY DEF PreForward, Withhold, HangCap, ReadFault, store, history
  <2> QED
    BY <2>1, <2>2, <2>3 DEF ServedInv
<1> SUFFICES \E rec : Goes(c, rec) /\ rec.op = call[c].op /\ (c \in calm => Right(rec))
  BY <1>0, GoesServed
<1>1. CASE PreForward(c)
  <2>1. CASE toggles \cap {"drop", "lossy", "chaos"} # {} /\ Answers(c, "reset")
    <3>1. c \notin calm
      BY <1>0, <2>1, CalmFinds
    <3> QED
      BY <1>0, <2>1, <3>1 DEF Answers, CallTyped, Parts
  <2>2. CASE Goes(c, [call[c] EXCEPT !.at = "passed"])
    BY <1>0, <2>2 DEF CallTyped, Parts, Right, Stands
  <2> QED
    BY <1>1, <2>1, <2>2 DEF PreForward
<1>2. CASE Withhold(c)
  <2> DEFINE f == MemberFault(MemberOf(c), MethodOf(c))
  <2>1. CASE f.kind \in {"hang", "http"}
    <3>1. c \notin calm
      BY <1>0, <2>1, CalmFinds
    <3>2. \/ Goes(c, [call[c] EXCEPT !.at = "hung"])
          \/ \E r : Goes(c, [call[c] EXCEPT !.at = "replied", !.reply = r])
      BY <1>2, <2>1 DEF Withhold
    <3>3. \E rec : Goes(c, rec) /\ rec.op = call[c].op
      <4>1. CASE Goes(c, [call[c] EXCEPT !.at = "hung"])
        <5> DEFINE rec == [call[c] EXCEPT !.at = "hung"]
        <5>1. rec.op = call[c].op
          BY <1>0 DEF CallTyped, Parts
        <5>2. Goes(c, rec)
          BY <4>1
        <5> HIDE DEF rec
        <5> QED
          BY <5>1, <5>2
      <4>2. ASSUME NEW r, Goes(c, [call[c] EXCEPT !.at = "replied", !.reply = r])
            PROVE  \E rec : Goes(c, rec) /\ rec.op = call[c].op
        <5> DEFINE rec == [call[c] EXCEPT !.at = "replied", !.reply = r]
        <5>1. rec.op = call[c].op
          BY <1>0 DEF CallTyped, Parts
        <5>2. Goes(c, rec)
          BY <4>2
        <5> HIDE DEF rec
        <5> QED
          BY <5>1, <5>2
      <4> QED
        BY <3>2, <4>1, <4>2
    <3> QED
      BY <3>1, <3>3
  <2>2. CASE f.kind \notin {"hang", "http"}
    <3>1. Goes(c, [call[c] EXCEPT !.at = "through"])
      BY <1>2, <2>2 DEF Withhold
    <3> QED
      BY <1>0, <3>1 DEF CallTyped, Parts, Right, Stands
  <2> QED
    BY <2>1, <2>2
<1>3. CASE HangCap(c)
  <2>1. c \notin calm
    BY <1>0, <1>3, CalmFinds DEF HangCap, Right, Stands
  <2> QED
    BY <1>0, <1>3, <2>1 DEF HangCap, Answers, CallTyped, Parts
<1>4. CASE ReadFault(c)
  <2> DEFINE f == MemberFault(MemberOf(c), MethodOf(c))
             rec == [call[c] EXCEPT !.at = "faulted", !.fault = f]
  <2>1. Goes(c, rec) /\ call[c].at = "served"
    BY <1>4 DEF ReadFault
  <2>2. c \in calm => f.kind \in {"none", "throttle"} /\ Right(call[c])
    BY <1>0, CalmFinds
  <2> HIDE DEF f
  <2>3. /\ rec.at = "faulted" /\ rec.fault = f /\ rec.op = call[c].op /\ rec.reply = call[c].reply
        /\ rec.applied = call[c].applied /\ rec.arg = call[c].arg /\ rec.served = call[c].served
    BY <1>0 DEF CallTyped, Parts
  <2> HIDE DEF rec
  <2>4. c \in calm => Right(rec)
    BY <2>1, <2>2, <2>3 DEF Right, Stands, RightReply
  <2> QED
    BY <2>1, <2>3, <2>4
<1> QED
  BY <1>1, <1>2, <1>3, <1>4

\* The server's answer.
LEMMA ServeServed ==
  ASSUME TypeInv, ServedInv, NEW c \in Clients, Serve(c)
  PROVE  ServedInv'
<1>0. /\ CallTyped(call[c]) /\ InFlight(c)
      /\ UNCHANGED <<member, toggles, calm, disturbed, noStream>> /\ (noStream' => disturbed)
  BY DEF Serve, store, history, InFlight, TypeInv, CallsTyped, ServedInv
<1> SUFFICES \E rec : Goes(c, rec) /\ rec.op = call[c].op /\ (c \in calm => Right(rec))
  BY <1>0, GoesServed
<1>1. CASE call[c].op = "put"
  <2> DEFINE b == SwapBinning(call[c].arg)
             ok == b \in 1..MaxBin
             applied == IF ok THEN b ELSE 0
             reply == JSONReply(EncodeImageBytesError(IF ok THEN 0 ELSE 1025), "none")
             rec == [call[c] EXCEPT !.at = "served", !.applied = applied, !.reply = reply]
  <2>1. Goes(c, rec)
    BY <1>1, Zenon DEF Serve
  <2>2. c \in calm => b = call[c].arg
    <3>1. c \in calm => "swapbin" \notin toggles
      BY <1>0, CalmFinds
    <3> QED
      BY <3>1 DEF SwapBinning
  <2>3. ok <=> applied # 0
    BY TransportAssumption
  <2>4. reply = PutReply(applied)
    BY <2>3 DEF PutReply
  <2>5. applied \in {0, b}
    OBVIOUS
  <2> HIDE DEF b, ok, applied, reply
  <2>6. /\ rec.at = "served" /\ rec.op = "put" /\ rec.reply = reply
        /\ rec.applied = applied /\ rec.arg = call[c].arg
    BY <1>0, <1>1 DEF CallTyped, Parts
  <2> HIDE DEF rec
  <2>7. c \in calm => Right(rec)
    BY <2>2, <2>4, <2>5, <2>6 DEF Right, Stands, RightReply
  <2> QED
    BY <1>1, <2>1, <2>6, <2>7
<1>2. CASE call[c].op # "put"
  <2> DEFINE bytes == "forcejson" \notin toggles
             rec == [call[c] EXCEPT !.at = "served", !.served = image, !.reply = HandleImage(bytes)]
  <2>1. Goes(c, rec)
    BY <1>2 DEF Serve
  <2>2. HandleImage(bytes) = ServedReply(image, bytes)
    BY DEF HandleImage, ServedReply
  <2>3. call[c].op = "stream" /\ ~bytes => disturbed
    BY <1>0 DEF ServedInv, Clean
  <2>4. bytes \in BOOLEAN
    OBVIOUS
  <2> HIDE DEF bytes
  <2>5. /\ rec.at = "served" /\ rec.op = call[c].op /\ rec.reply = ServedReply(image, bytes) /\ rec.served = image
    BY <1>0, <2>2 DEF CallTyped, Parts
  <2> HIDE DEF rec
  <2>6. Right(rec)
    BY <1>2, <2>3, <2>4, <2>5 DEF Right, Stands, RightReply
  <2> QED
    BY <2>1, <2>5, <2>6
<1> QED
  BY <1>1, <1>2

\* Nothing harmful, nothing changed.
LEMMA NothingModified ==
  ASSUME NEW f, f.kind \in {"none", "throttle"}, NEW on \in SUBSET {"forcejson"}, NEW r, NEW frame, NEW strikes
  PROVE  ModifyResponse(f, r, frame, on, strikes) = {r}
<1>1. "swapdims" \notin on /\ "chaos" \notin on
  OBVIOUS
<1>2. CASE f.kind = "none"
  BY <1>1, <1>2 DEF ModifyResponse
<1>3. CASE f.kind = "throttle"
  BY <1>1, <1>3 DEF ModifyResponse
<1> QED
  BY <1>2, <1>3

\* Counting leaves what stands as it is.
LEMMA CountingHarmless ==
  ASSUME TypeInv, NEW c \in Clients, Modify(c)
  PROVE  (Harmless => Harmless') /\ (Clean => Clean')
<1> DEFINE n == MemberOf(c)
<1>1. n \in Members /\ StoreInv /\ toggles' = toggles
  BY DEF MemberOf, Members, TypeInv, Modify
<1>2. member' = member \/ (member[n] # NoFault /\ member' = [member EXCEPT ![n].count = @ + 1])
  BY <1>1, CountsOne DEF Modify
<1> HIDE DEF n
<1>3. CASE member' = member
  BY <1>1, <1>3 DEF Harmless, Clean
<1>4. CASE member[n] # NoFault /\ member' = [member EXCEPT ![n].count = @ + 1]
  <2>1. member'[n].kind = member[n].kind
    BY <1>1, <1>4 DEF StoreInv, Faults
  <2>2. \A m \in Members \ {n} : member'[m] = member[m]
    BY <1>1, <1>4 DEF StoreInv
  <2>3. ~Clean
    BY <1>1, <1>4 DEF Clean
  <2>4. \A m \in Members : member'[m].kind = member[m].kind
    BY <2>1, <2>2
  <2> QED
    BY <1>1, <2>3, <2>4 DEF Harmless
<1> QED
  BY <1>2, <1>3, <1>4

LEMMA ModifyServed ==
  ASSUME TypeInv, ServedInv, NEW c \in Clients, Modify(c)
  PROVE  ServedInv'
<1>0. /\ CallTyped(call[c]) /\ InFlight(c) /\ call[c].at = "faulted"
      /\ UNCHANGED <<calm, disturbed, noStream>> /\ (noStream' => disturbed)
  BY DEF Modify, InFlight, TypeInv, CallsTyped, ServedInv
<1> SUFFICES \E rec : Goes(c, rec) /\ rec.op = call[c].op /\ (c \in calm => Right(rec))
  BY <1>0, CountingHarmless, StaysServed
<1> DEFINE f == call[c].fault
<1>1. PICK frame, strikes, r : /\ r \in ModifyResponse(f, call[c].reply, frame, toggles, strikes)
                               /\ Goes(c, [call[c] EXCEPT !.at = "replied", !.reply = r, !.fault = NoFault])
  BY DEF Modify
<1>2. c \in calm => r = call[c].reply /\ Right(call[c])
  <2> SUFFICES ASSUME c \in calm PROVE r = call[c].reply /\ Right(call[c])
    OBVIOUS
  <2>1. f.kind \in {"none", "throttle"} /\ toggles \subseteq {"forcejson"} /\ Right(call[c])
    BY <1>0, CalmFinds DEF Right, Stands
  <2> HIDE DEF f
  <2>2. ModifyResponse(f, call[c].reply, frame, toggles, strikes) = {call[c].reply}
    BY <2>1, NothingModified
  <2> QED
    BY <1>1, <2>1, <2>2
<1> DEFINE rec == [call[c] EXCEPT !.at = "replied", !.reply = r, !.fault = NoFault]
<1>3. /\ rec.at = "replied" /\ rec.op = call[c].op /\ rec.reply = r
      /\ rec.applied = call[c].applied /\ rec.arg = call[c].arg /\ rec.served = call[c].served
  BY <1>0 DEF CallTyped, Parts
<1>4. Goes(c, rec)
  BY <1>1
<1> HIDE DEF rec
<1>5. c \in calm => Right(rec)
  BY <1>0, <1>2, <1>3 DEF Right, Stands, RightReply
<1> QED
  BY <1>3, <1>4, <1>5

\* What the client makes of a whole reply.
LEMMA ReceiveServed ==
  ASSUME TypeInv, ServedInv, NEW c \in Clients, Receive(c)
  PROVE  ServedInv'
<1> DEFINE k == call[c]
           r == k.reply
           answer == IF k.op = "put" THEN EnvelopeOutcome(r) ELSE ImageOutcome(r)
           decoded == IF r.ct = "imagebytes" THEN DecodeImageBytes(r.msg) ELSE DecodeImageArrayJSON(r.msg)
           frame == IF answer = "ok" /\ k.op = "frame" THEN decoded ELSE NoImage
           rec == [k EXCEPT !.at = "done", !.answer = answer, !.reply = NoReply, !.frame = frame]
<1>0. /\ CallTyped(k) /\ InFlight(c) /\ k.at = "replied" /\ k.op # "stream" /\ Goes(c, rec)
      /\ UNCHANGED <<member, toggles, calm, disturbed, noStream>> /\ (noStream' => disturbed)
  BY DEF Receive, store, history, InFlight, TypeInv, CallsTyped, ServedInv
<1>1. c \in calm => RightReply(k)
  BY <1>0, CalmFinds DEF Right
<1>2. ASSUME c \in calm, k.op = "put"
      PROVE  answer = IF k.applied = 0 THEN "device" ELSE "ok"
  <2>1. r = PutReply(k.applied)
    BY <1>1, <1>2 DEF RightReply
  <2> HIDE DEF k, r
  <2>2. /\ r.status = 200 /\ r.form = "json"
        /\ r.msg.err = IF k.applied = 0 THEN 1025 ELSE 0
    BY <2>1, PutParts
  <2>c. r.cut = FALSE
    BY <2>1, PutUncut
  <2>3. answer = EnvelopeOutcome(r)
    BY <1>2
  <2> HIDE DEF answer
  <2> QED
    BY <2>2, <2>3, <2>c DEF EnvelopeOutcome
<1>3. ASSUME c \in calm, k.op # "put"
      PROVE  /\ answer = IF k.served = NoImage THEN "device" ELSE "ok"
             /\ k.served # NoImage => decoded = k.served
  <2>1. PICK bytes \in BOOLEAN : r = ServedReply(k.served, bytes)
    BY <1>1, <1>3 DEF RightReply
  <2>2. k.served \in Frames \cup {NoImage}
    BY <1>0 DEF CallTyped
  <2> HIDE DEF k, r
  <2>c. r.cut = FALSE
    BY <2>1, ServedUncut
  <2>3. /\ r.status = 200
        /\ r.ct = (IF bytes THEN "imagebytes" ELSE "json") /\ r.form = (IF bytes THEN "image" ELSE "json")
        /\ k.served = NoImage => r.msg.err # 0
        /\ k.served # NoImage => /\ Whole(k.served) /\ r.msg.err = 0
                                 /\ r.msg = IF bytes THEN EncodeImageBytes(k.served) ELSE WriteImageArrayJSON(k.served)
                                 /\ ~bytes => r.value = "array"
    BY <2>1, <2>2, ServedParts
  <2>4. answer = ImageOutcome(r)
    BY <1>3
  <2>5. k.served # NoImage => decoded = k.served
    BY <2>3, BytesAndBack, JSONAndBack
  <2> HIDE DEF answer
  <2>6. answer = IF k.served = NoImage THEN "device" ELSE "ok"
    BY <2>3, <2>4, <2>c DEF ImageOutcome
  <2> QED
    BY <2>5, <2>6
<1>4. k.op # "put" \/ k.applied \in {0, k.arg} \/ c \notin calm
  BY <1>1 DEF RightReply
<1>5. k.op = "frame" /\ answer = "ok" => frame = decoded
  OBVIOUS
<1> HIDE DEF answer, decoded, frame
<1>6. /\ rec.at = "done" /\ rec.op = k.op /\ rec.answer = answer /\ rec.frame = frame
      /\ rec.applied = k.applied /\ rec.arg = k.arg /\ rec.served = k.served
  BY <1>0 DEF CallTyped, Parts
<1> HIDE DEF rec, k
<1>7. c \in calm => Right(rec)
  BY <1>0, <1>2, <1>3, <1>4, <1>5, <1>6 DEF Right, Stands, RightAnswer
<1> QED
  BY <1>0, <1>6, <1>7, GoesServed DEF k

\* A stream of a calm call that ends before its sink is touched.
LEMMA EndEarlyServed ==
  ASSUME TypeInv, ServedInv, NEW c \in Clients, EndEarly(c)
  PROVE  ServedInv'
<1> DEFINE k == call[c]
           r == k.reply
           outcome == EarlyOutcome(r)
           rec == [k EXCEPT !.at = "done", !.answer = outcome, !.reply = NoReply]
<1>0. /\ CallTyped(k) /\ InFlight(c) /\ k.at = "replied" /\ k.op = "stream" /\ outcome # "none" /\ Goes(c, rec)
      /\ UNCHANGED <<member, toggles, calm, disturbed>> /\ (noStream' = (noStream \/ outcome = "refused"))
  BY DEF EndEarly, Answers, store, history, InFlight, TypeInv, CallsTyped
<1>1. ASSUME c \in calm
      PROVE  \/ outcome = "device" /\ k.served = NoImage
             \/ outcome = "refused" /\ disturbed
  <2>1. RightReply(k)
    BY <1>0, <1>1, CalmFinds DEF Right
  <2>2. PICK bytes \in BOOLEAN : r = ServedReply(k.served, bytes) /\ (~bytes => disturbed)
    BY <1>0, <2>1 DEF RightReply
  <2>3. k.served \in Frames \cup {NoImage}
    BY <1>0 DEF CallTyped
  <2> HIDE DEF k, r
  <2>4. /\ r.status = 200
        /\ r.ct = (IF bytes THEN "imagebytes" ELSE "json") /\ r.form = (IF bytes THEN "image" ELSE "json")
        /\ k.served = NoImage => r.msg.err # 0
        /\ k.served # NoImage => /\ Whole(k.served) /\ r.msg.err = 0
                                 /\ r.msg = IF bytes THEN EncodeImageBytes(k.served) ELSE WriteImageArrayJSON(k.served)
    BY <2>2, <2>3, ServedParts
  <2>5. outcome = EarlyOutcome(r)
    BY DEF r
  <2> HIDE DEF outcome
  <2>6. outcome # "none"
    BY <1>0 DEF outcome, r, k
  <2>7. CASE bytes /\ k.served # NoImage
    <3>1. r.msg.start = 1 /\ r.msg.pix \in Seq(Nat)
      BY <2>4, <2>7, Encoded
    <3>2. Skip(r) = 0 /\ Len(r.msg.pix) \in Nat
      BY <3>1 DEF Skip, HeaderLen
    <3>3. outcome = "none"
      BY <2>4, <2>5, <2>7, <3>2 DEF EarlyOutcome
    <3> QED
      BY <2>6, <3>3
  <2>8. CASE bytes /\ k.served = NoImage
    BY <2>4, <2>5, <2>8 DEF EarlyOutcome
  <2>9. CASE ~bytes
    BY <2>2, <2>4, <2>5, <2>9 DEF EarlyOutcome, RefusedOutcome
  <2> QED
    BY <2>7, <2>8, <2>9
<1>2. noStream' => disturbed
  <2>1. c \notin calm => disturbed
    BY <1>0 DEF ServedInv
  <2>2. outcome = "refused" => disturbed
    BY <1>1, <2>1
  <2> QED
    BY <1>0, <2>2 DEF ServedInv
<1> HIDE DEF outcome
<1>3. rec.at = "done" /\ rec.op = k.op /\ rec.answer = outcome /\ rec.served = k.served
  BY <1>0 DEF CallTyped, Parts
<1> HIDE DEF rec
<1>4. c \in calm => Right(rec)
  BY <1>0, <1>1, <1>3 DEF Right, Stands, RightAnswer
<1> HIDE DEF k
<1> QED
  BY <1>0, <1>2, <1>3, <1>4, GoesServed DEF k

\* A reply whose pixels move into a sink is as whole as before.
LEMMA StreamUncut ==
  ASSUME NEW k, CallTyped(k), {"cut", "msg"} \subseteq DOMAIN k.reply, k.reply.cut = FALSE, NEW s, NEW p
  PROVE  [k EXCEPT !.at = "streaming", !.sink = s, !.reply.msg.pix = p].reply.cut = FALSE
BY DEF CallTyped, Parts

\* A stream begins with all of the frame still to come.
LEMMA OpenServed ==
  ASSUME TypeInv, SinkInv, ServedInv, NEW c \in Clients, OpenSink(c)
  PROVE  ServedInv'
<1> DEFINE k == call[c]
           r == k.reply
<1>0. /\ CallTyped(k) /\ InFlight(c) /\ k.at = "replied" /\ k.op = "stream" /\ EarlyOutcome(r) = "none"
      /\ UNCHANGED <<member, toggles, calm, disturbed, noStream>> /\ (noStream' => disturbed)
  BY DEF OpenSink, store, history, InFlight, TypeInv, CallsTyped, ServedInv
<1> SUFFICES \E rec : Goes(c, rec) /\ rec.op = call[c].op /\ (c \in calm => Right(rec))
  BY <1>0, GoesServed
<1>1. CASE HeaderFails(c)
  <2> DEFINE s == Shut(Opened(k.sink))
             rec == [k EXCEPT !.at = "done", !.answer = "sink", !.reply = NoReply, !.sink = s]
  <2>1. Goes(c, rec)
    BY <1>0, <1>1 DEF HeaderFails, CallTyped, Parts
  <2>3. rec.op = k.op
    BY <1>0 DEF CallTyped, Parts
  <2> HIDE DEF s, k
  <2>2. Right(rec)
    BY <1>0, GivenUp
  <2> HIDE DEF rec
  <2> QED
    BY <2>1, <2>2, <2>3 DEF k
<1>2. CASE ~HeaderFails(c)
  <2> DEFINE s == Opened(k.sink)
             p == SubSeq(r.msg.pix, Skip(r) + 1, Len(r.msg.pix))
             rec == [k EXCEPT !.at = "streaming", !.sink = s, !.reply.msg.pix = p]
  <2>1. Goes(c, [k EXCEPT !.at = "streaming", !.sink = Opened(@),
                          !.reply.msg.pix = SubSeq(@, Skip(r) + 1, Len(@))])
    BY <1>2 DEF OpenSink
  <2>2. k.sink.got = <<>> /\ "got" \in DOMAIN k.sink
    BY <1>0 DEF SinkInv, Fits, SinkFits, Untouched
  <2>3. s.got = <<>> /\ "got" \in DOMAIN s
    BY <2>2 DEF Opened
  <2>4. ASSUME c \in calm
        PROVE  /\ k.served # NoImage /\ Whole(k.served)
               /\ {"cut", "msg"} \subseteq DOMAIN r /\ "pix" \in DOMAIN r.msg
               /\ p = EncodeImageBytes(k.served).pix /\ p \in Seq(Nat)
    <3>1. RightReply(k)
      BY <1>0, <2>4, CalmFinds DEF Right
    <3>2. PICK bytes \in BOOLEAN : r = ServedReply(k.served, bytes)
      BY <1>0, <3>1 DEF RightReply
    <3>3. k.served \in Frames \cup {NoImage}
      BY <1>0 DEF CallTyped
    <3>p. p = SubSeq(r.msg.pix, Skip(r) + 1, Len(r.msg.pix))
      OBVIOUS
    <3>e. EarlyOutcome(r) = "none"
      BY <1>0
    <3> HIDE DEF p, k, r
    <3>4. /\ DOMAIN r = {"status", "ct", "form", "msg", "value", "cut"}
          /\ r.status = 200
          /\ r.ct = (IF bytes THEN "imagebytes" ELSE "json") /\ r.form = (IF bytes THEN "image" ELSE "json")
          /\ k.served = NoImage => r.msg.err # 0
          /\ k.served # NoImage => /\ Whole(k.served) /\ r.msg.err = 0
                                   /\ r.msg = IF bytes THEN EncodeImageBytes(k.served) ELSE WriteImageArrayJSON(k.served)
      BY <3>2, <3>3, ServedParts
    <3>5. bytes /\ k.served # NoImage
      BY <3>e, <3>4 DEF EarlyOutcome, RefusedOutcome
    <3>6. Whole(k.served) /\ r.msg = EncodeImageBytes(k.served)
      BY <3>4, <3>5
    <3>7. /\ r.msg.start = 1 /\ "pix" \in DOMAIN r.msg /\ r.msg.pix \in Seq(Nat)
          /\ r.msg.pix = EncodeImageBytes(k.served).pix
      BY <3>6, Encoded
    <3>8. Skip(r) + 1 = 1
      BY <3>7 DEF Skip, HeaderLen
    <3>9. p = r.msg.pix
      BY <3>p, <3>7, <3>8, SubSeqFull
    <3> QED
      BY <3>4, <3>5, <3>6, <3>7, <3>9
  <2>5. rec.op = k.op
    BY <1>0 DEF CallTyped, Parts
  <2>6. ASSUME c \in calm PROVE Goes(c, rec) /\ Right(rec)
    <3>1. "pix" \in DOMAIN r.msg /\ {"cut", "msg"} \subseteq DOMAIN r
      BY <2>4, <2>6
    <3>2. Goes(c, rec)
      BY <1>0, <2>1, <3>1 DEF CallTyped, Parts
    <3>c. r.cut = FALSE
      <4>1. RightReply(k)
        BY <1>0, <2>6, CalmFinds DEF Right
      <4>2. PICK bytes \in BOOLEAN : r = ServedReply(k.served, bytes)
        BY <1>0, <4>1 DEF RightReply
      <4> HIDE DEF k, r
      <4> QED
        BY <4>2, ServedUncut
    <3>p. /\ k.served # NoImage /\ Whole(k.served)
          /\ {"cut", "msg"} \subseteq DOMAIN k.reply /\ "pix" \in DOMAIN k.reply.msg
          /\ p = EncodeImageBytes(k.served).pix /\ p \in Seq(Nat)
      BY <2>4, <2>6
    <3>d. "got" \in DOMAIN k.sink /\ k.op = "stream" /\ CallTyped(k)
      BY <1>0, <2>2
    <3>f. k.reply.cut = FALSE
      BY <3>c
    <3> HIDE DEF s, p, k, r
    <3>3. rec.reply.cut = FALSE
      BY <3>d, <3>f, <3>p, StreamUncut
    <3>4. /\ rec.at = "streaming" /\ rec.op = k.op /\ rec.served = k.served /\ rec.sink = s
          /\ {"cut", "msg"} \subseteq DOMAIN rec.reply /\ "pix" \in DOMAIN rec.reply.msg
          /\ rec.reply.msg.pix = p
      BY <3>d, <3>p DEF CallTyped, Parts
    <3> HIDE DEF rec
    <3>5. s.got \in Seq(Nat) /\ s.got \o p = p
      BY <2>3, <3>p
    <3>6. RightStream(rec)
      BY <2>3, <3>3, <3>4, <3>5, <3>p, <3>d DEF RightStream
    <3> QED
      BY <3>2, <3>4, <3>6 DEF Right, Stands
  <2>7. ASSUME c \notin calm PROVE \E x : Goes(c, x) /\ x.op = call[c].op
    <3> DEFINE x == [k EXCEPT !.at = "streaming", !.sink = Opened(@),
                          !.reply.msg.pix = SubSeq(@, Skip(r) + 1, Len(@))]
    <3>1. x.op = k.op
      BY <1>0 DEF CallTyped, Parts
    <3>2. Goes(c, x)
      BY <2>1
    <3> HIDE DEF x
    <3> QED
      BY <3>1, <3>2
  <2>8. CASE c \in calm
    <3> HIDE DEF rec
    <3> QED
      BY <2>5, <2>6, <2>8
  <2>9. CASE c \notin calm
    BY <2>7, <2>9
  <2> QED
    BY <2>8, <2>9
<1> QED
  BY <1>1, <1>2

\* The deferred Close: what the call is told is the outcome, or the sink's error.
LEMMA CloseServed ==
  ASSUME TypeInv, SinkInv, ServedInv, NEW c \in Clients, InFlight(c), NEW outcome, CloseWith(c, outcome),
         UNCHANGED <<member, toggles, calm, disturbed, noStream>>,
         \A s : c \in calm /\ outcome \notin {"gaveup", "sink"} /\ s.got = call[c].sink.got =>
           Right([call[c] EXCEPT !.at = "done", !.answer = outcome, !.reply = NoReply, !.sink = s])
  PROVE  ServedInv'
<1> DEFINE k == call[c]
           s == Shut(k.sink)
<1>0. CallTyped(k) /\ (noStream' => disturbed)
  BY DEF TypeInv, CallsTyped, ServedInv
<1>1. PICK answer \in {outcome, "sink"} :
        Goes(c, [k EXCEPT !.at = "done", !.answer = answer, !.reply = NoReply, !.sink = Shut(@)])
  BY DEF CloseWith
<1> DEFINE rec == [k EXCEPT !.at = "done", !.answer = answer, !.reply = NoReply, !.sink = s]
<1>2. Goes(c, rec)
  BY <1>0, <1>1 DEF CallTyped, Parts
<1>3. s.got = k.sink.got
  BY DEF Shut, SinkInv, Fits
<1>4. c \in calm => Right(rec)
  <2> SUFFICES ASSUME c \in calm PROVE Right(rec)
    OBVIOUS
  <2>1. CASE answer \in {"gaveup", "sink"}
    <3> HIDE DEF s, k
    <3> QED
      BY <1>0, <2>1, GivenUp
  <2>2. CASE answer \notin {"gaveup", "sink"}
    <3>1. answer = outcome
      BY <1>1, <2>2
    <3> HIDE DEF s
    <3> QED
      BY <1>3, <2>2, <3>1
  <2> QED
    BY <2>1, <2>2
<1>5. rec.op = k.op
  BY <1>0 DEF CallTyped, Parts
<1> HIDE DEF rec, s, k
<1> QED
  BY <1>0, <1>2, <1>4, <1>5, GoesServed DEF k

\* What a message decodes to with the pixels that it was made with.
LEMMA SamePixels ==
  ASSUME NEW f, Whole(f), NEW got, got = EncodeImageBytes(f).pix
  PROVE  f = DecodeImageBytes([EncodeImageBytes(f) EXCEPT !.pix = got])
<1> DEFINE m == EncodeImageBytes(f)
           wire == m.pix
<1>1. m = [err |-> 0, start |-> 1, rank |-> f.rank, w |-> f.w, h |-> f.h, planes |-> f.planes, pix |-> wire]
  BY Encoded
<1>2. got = wire
  OBVIOUS
<1>3. DecodeImageBytes(m) = f
  BY BytesAndBack
<1> HIDE DEF m, wire
<1>4. [m EXCEPT !.pix = got] = m
  BY <1>1, <1>2
<1> QED
  BY <1>3, <1>4 DEF m

\* Runs of pixels can be joined in either order.
LEMMA PixelsJoin ==
  ASSUME NEW s \in Seq(Nat), NEW t \in Seq(Nat), NEW u \in Seq(Nat)
  PROVE  (s \o t) \o u = s \o (t \o u)
BY ConcatAssociative, SMTT(60)

\* A chunk takes from what is to come what it adds to what has been written.
LEMMA ChunkMoves ==
  ASSUME NEW got \in Seq(Nat), NEW left \in Seq(Nat), NEW n \in Nat, n <= Len(left)
  PROVE  /\ got \o SubSeq(left, 1, n) \in Seq(Nat) /\ SubSeq(left, n + 1, Len(left)) \in Seq(Nat)
         /\ (got \o SubSeq(left, 1, n)) \o SubSeq(left, n + 1, Len(left)) = got \o left
<1> DEFINE a == SubSeq(left, 1, n)
           b == SubSeq(left, n + 1, Len(left))
<1>1. a \in Seq(Nat) /\ b \in Seq(Nat)
  BY SubSeqProperties
<1>2. a \o b = left
  <2>1. Len(left) \in Nat /\ 1 \in 1..(Len(left) + 1) /\ n \in (1 - 1)..Len(left) /\ Len(left) \in n..Len(left)
    OBVIOUS
  <2>2. a \o b = SubSeq(left, 1, Len(left))
    BY <2>1, ConcatAdjacentSubSeq
  <2> QED
    BY <2>2, SubSeqFull
<1> HIDE DEF a, b
<1>3. (got \o a) \o b = got \o (a \o b)
  BY <1>1, PixelsJoin
<1>4. got \o a \in Seq(Nat)
  BY <1>1
<1> QED
  BY <1>1, <1>2, <1>3, <1>4 DEF a, b

\* A chunk, the end of the body, its early end, or a sink that fails.
LEMMA WriteServed ==
  ASSUME TypeInv, SinkInv, ServedInv, NEW c \in Clients, WriteSink(c)
  PROVE  ServedInv'
<1> DEFINE k == call[c]
           left == k.reply.msg.pix
<1>0. /\ CallTyped(k) /\ InFlight(c) /\ k.at = "streaming"
      /\ UNCHANGED <<member, toggles, calm, disturbed, noStream>> /\ (noStream' => disturbed)
  BY DEF WriteSink, store, history, InFlight, TypeInv, CallsTyped, ServedInv
<1>1. c \in calm => RightStream(k)
  BY <1>0, CalmFinds DEF Right
<1>2. CASE CloseWith(c, "sink")
  BY <1>0, <1>2, CloseServed
<1>3. CASE left = <<>> /\ CloseWith(c, IF k.reply.cut THEN "transport" ELSE "ok")
  <2>1. CASE c \in calm
    <3>1. k.reply.cut = FALSE
      BY <1>1, <2>1 DEF RightStream
    <3>2. CloseWith(c, "ok")
      <4>1. (IF k.reply.cut THEN "transport" ELSE "ok") = "ok"
        BY <3>1
      <4> QED
        BY <1>3, <4>1
    <3>3. ASSUME NEW s, s.got = k.sink.got
          PROVE  Right([k EXCEPT !.at = "done", !.answer = "ok", !.reply = NoReply, !.sink = s])
      <4> DEFINE rec == [k EXCEPT !.at = "done", !.answer = "ok", !.reply = NoReply, !.sink = s]
      <4>1. /\ rec.at = "done" /\ rec.op = k.op /\ rec.answer = "ok" /\ rec.served = k.served /\ rec.sink = s
        BY <1>0 DEF CallTyped, Parts
      <4>2. k.op = "stream" /\ k.served # NoImage
        BY <1>1, <2>1 DEF RightStream
      <4>3. k.sink.got \o <<>> = EncodeImageBytes(k.served).pix /\ k.sink.got \in Seq(Nat)
        BY <1>1, <1>3, <2>1 DEF RightStream
      <4>4. k.sink.got \o <<>> = k.sink.got
        BY <4>3, ConcatEmptySeq
      <4>5. Whole(k.served)
        BY <1>0, <4>2, TransportAssumption DEF CallTyped
      <4> HIDE DEF rec, k
      <4>6. s.got = EncodeImageBytes(k.served).pix
        BY <3>3, <4>3, <4>4
      <4>7. k.served = DecodeImageBytes([EncodeImageBytes(k.served) EXCEPT !.pix = s.got])
        BY <4>5, <4>6, SamePixels
      <4> QED
        BY <4>1, <4>2, <4>7 DEF Right, Stands, RightAnswer
    <3> QED
      BY <1>0, <3>2, <3>3, CloseServed
  <2>2. CASE c \notin calm
    <3> DEFINE outcome == IF k.reply.cut THEN "transport" ELSE "ok"
    <3>1. CloseWith(c, outcome)
      BY <1>3
    <3> HIDE DEF outcome
    <3> QED
      BY <1>0, <2>2, <3>1, CloseServed
  <2> QED
    BY <2>1, <2>2
<1>4. ASSUME NEW n \in {1, Len(left)} \ {0}, n <= Len(left),
             Goes(c, [k EXCEPT !.sink.got = @ \o SubSeq(left, 1, n),
                               !.reply.msg.pix = SubSeq(left, n + 1, Len(left))])
      PROVE  ServedInv'
  <2> DEFINE p == SubSeq(left, n + 1, Len(left))
             chunk == SubSeq(left, 1, n)
             rec == [k EXCEPT !.sink.got = @ \o chunk, !.reply.msg.pix = p]
  <2>1. Goes(c, rec)
    BY <1>4
  <2>2. rec.op = k.op
    BY <1>0 DEF CallTyped, Parts
  <2>3. c \in calm => Right(rec)
    <3> SUFFICES ASSUME c \in calm PROVE Right(rec)
      OBVIOUS
    <3>1. /\ k.op = "stream" /\ k.served # NoImage
          /\ {"cut", "msg"} \subseteq DOMAIN k.reply /\ "pix" \in DOMAIN k.reply.msg /\ "got" \in DOMAIN k.sink
          /\ k.sink.got \in Seq(Nat) /\ left \in Seq(Nat)
          /\ k.sink.got \o left = EncodeImageBytes(k.served).pix
      BY <1>1 DEF RightStream
    <3>2. k.reply.cut = FALSE
      BY <1>1 DEF RightStream
    <3>3. n \in Nat
      BY <3>1
    <3>4. /\ k.sink.got \o chunk \in Seq(Nat) /\ p \in Seq(Nat)
          /\ (k.sink.got \o chunk) \o p = k.sink.got \o left
      BY <1>4, <3>1, <3>3, ChunkMoves
    <3> HIDE DEF chunk, p
    <3>5. rec.reply.cut = FALSE
      BY <1>0, <3>1, <3>2 DEF CallTyped, Parts
    <3>6. /\ rec.at = "streaming" /\ rec.served = k.served
          /\ {"cut", "msg"} \subseteq DOMAIN rec.reply /\ "pix" \in DOMAIN rec.reply.msg
          /\ rec.reply.msg.pix = p
          /\ "got" \in DOMAIN rec.sink /\ rec.sink.got = k.sink.got \o chunk
      BY <1>0, <3>1 DEF CallTyped, Parts
    <3> HIDE DEF rec
    <3>7. RightStream(rec)
      BY <2>2, <3>1, <3>4, <3>5, <3>6 DEF RightStream
    <3> QED
      BY <3>6, <3>7 DEF Right, Stands
  <2> HIDE DEF rec
  <2> QED
    BY <1>0, <2>1, <2>2, <2>3, GoesServed
<1> QED
  BY <1>2, <1>3, <1>4 DEF WriteSink

LEMMA GiveUpServed ==
  ASSUME TypeInv, SinkInv, ServedInv, NEW c \in Clients, GiveUp(c)
  PROVE  ServedInv'
<1> DEFINE k == call[c]
<1>0. /\ CallTyped(k) /\ InFlight(c)
      /\ UNCHANGED <<member, toggles, calm, disturbed, noStream>> /\ (noStream' => disturbed)
  BY DEF GiveUp, store, history, TypeInv, CallsTyped, ServedInv
<1>1. CASE k.at = "streaming"
  <2>1. CloseWith(c, "gaveup")
    BY <1>1 DEF GiveUp
  <2> QED
    BY <1>0, <2>1, CloseServed
<1>2. CASE k.at # "streaming"
  <2> DEFINE rec == [k EXCEPT !.at = "done", !.answer = "gaveup", !.reply = NoReply]
  <2>1. Goes(c, rec)
    BY <1>2 DEF GiveUp, Answers
  <2>2. rec.op = k.op
    BY <1>0 DEF CallTyped, Parts
  <2> HIDE DEF k
  <2>3. Right(rec)
    BY <1>0, GivenUp
  <2> HIDE DEF rec
  <2> QED
    BY <1>0, <2>1, <2>2, <2>3, GoesServed DEF k
<1> QED
  BY <1>1, <1>2

LEMMA StepServed == TypeInv /\ SinkInv /\ ServedInv /\ [Next]_vars => ServedInv'
<1> SUFFICES ASSUME TypeInv, SinkInv, ServedInv, [Next]_vars PROVE ServedInv'
  OBVIOUS
<1>1. ASSUME NEW c \in Clients, Request(c) PROVE ServedInv'
  BY <1>1, AskServed, OnTheWayServed, ServeServed, ModifyServed, ReceiveServed, EndEarlyServed,
     OpenServed, WriteServed, GiveUpServed, OthersServed DEF Request
<1> QED
  BY <1>1, OthersServed DEF Next

\* Whatever a tester does to the store and wherever a call gives up, what a call that
\* met no harmful fault is told is what the server made of it: for any clients, frames
\* and binnings, and any number of goroutines that transpose a frame
\* (client/client.go, imagestream.go, cmd/fault_proxy/main.go, alpaca/imagebytes.go).
THEOREM AnsweredAsServed == Spec => []AsServed
<1>1. Init => TypeInv /\ SinkInv /\ ServedInv
  BY InitTyped, InitServed, IdleFits DEF Init, SinkInv
<1>2. TypeInv /\ SinkInv /\ ServedInv /\ [Next]_vars => (TypeInv /\ SinkInv /\ ServedInv)'
  BY StepTyped, SinkStep, StepServed
<1>3. TypeInv /\ SinkInv /\ ServedInv => AsServed
  BY ServedImplies
<1> QED
  BY <1>1, <1>2, <1>3, PTL DEF Spec

\* A frame that a driver hands over comes out of either transport as it went in
\* (alpaca/imagebytes.go, server/imagearray.go, client/imagearray.go).
THEOREM FramesRoundTrip ==
  \A f \in Frames : /\ DecodeImageBytes(EncodeImageBytes(f)) = f
                    /\ DecodeImageArrayJSON(WriteImageArrayJSON(f)) = f
BY TransportAssumption, BytesAndBack, JSONAndBack
==============================================================================
