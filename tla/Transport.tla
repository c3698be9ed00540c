----------------------------- MODULE Transport -----------------------------
(***************************************************************************)
(* Clients of one camera through the fault proxy: the proxy's store of     *)
(* faults, which a tester changes while requests are in flight             *)
(* (cmd/fault_proxy/main.go), the server's image handler, and the client's *)
(* three ways to ask (client/client.go, imagestream.go): a buffered frame, *)
(* a frame streamed into an ImageSink, a PUT.                              *)
(*                                                                         *)
(* Each section under the store's mutex is a step.  latency and jitter     *)
(* only take time and are left out.  The clients share one Device.         *)
(***************************************************************************)
EXTENDS ProxyFaults, FiniteSets

CONSTANTS
  Clients,
  Campaigns,    \* what to explore: who asks what, which faults are set on which members, how often
  Frames,       \* images of the camera
  Bins,         \* binnings that PUT BinX asks for
  MaxBin,       \* the camera's MaxBinX
  Counts,       \* operands of failfirst and everynth
  MaxCount      \* bound: no call begins once a pattern has counted so far

Members == {"imagearray", "binx"}
Methods == {"GET", "PUT"}
Toggles == {"drop", "lossy", "chaos", "swapbin", "forcejson", "swapdims"}
Patterns == {"failfirst", "everynth"}
MemberKinds == Patterns \cup
  {"hang", "http", "contenttype", "partial-drop", "dropack", "throttle", "imgfield", "pixels",
   "truncate", "inject", "corrupthead", "corrupttail", "malform", "fail", "value", "novalue", "flaky"}

\* A frame as a driver hands it over: mono, or with colour planes, and as long as it says.
Whole(f) ==
  /\ f \in [rank : {2, 3}, w : Nat, h : Nat, planes : Nat, pix : Seq(Nat)] /\ Sized(f)
  /\ f.rank = 3 => f.planes > 0

ASSUME TransportAssumption ==
  /\ IsFiniteSet(Clients) /\ MaxCount \in Nat /\ MaxBin \in Nat \ {0} /\ Bins \subseteq Nat
  /\ Counts \subseteq Nat \ {0}
  /\ \A p \in Campaigns :
       /\ p.who \subseteq Clients /\ p.ops \subseteq {"frame", "stream", "put"}
       /\ p.kinds \subseteq Toggles \cup MemberKinds /\ p.members \subseteq Members /\ p.changes \in Nat
  /\ \A f \in Frames : Whole(f)

VARIABLES
  campaign,
  member,     \* store.member
  toggles,    \* the store's global toggles that are on
  image, bin, \* the camera: its image or NoImage, its BinX
  noStream,   \* Device.noStream
  call,       \* what each client has in hand
  controls,   \* how often the tester has changed the store
  fired,      \* history: replies that a counted pattern has failed, since it was armed
  calm,       \* history: the clients whose call no harmful fault has shared the store with
  disturbed   \* history: a fault has stood during a streaming call

store == <<member, toggles, controls>>
history == <<fired, calm, disturbed>>
vars == <<campaign, store, image, bin, noStream, call, history>>

-----------------------------------------------------------------------------
(* The store *)

NoFault == [kind |-> "none", n |-> 0, method |-> "", count |-> 0]

MemberFault(m, method) == IF member[m].method \in {"", method} THEN member[m] ELSE NoFault

\* Counting in the fault that the request has read, and storing that.
NextCount_Stale(m, f) ==
  [store |-> [member EXCEPT ![m] = [f EXCEPT !.count = @ + 1]], count |-> f.count + 1]

\* Counting whatever the member's entry is, a cleared one too.
NextCount_Reinserts(m, f) ==
  [store |-> [member EXCEPT ![m].count = @ + 1], count |-> member[m].count + 1]

\* The store and the count that a request gets; a member cleared meanwhile stays cleared.
NextCount(m, f) ==
  IF member[m] = NoFault THEN [store |-> member, count |-> 0]
  ELSE [store |-> [member EXCEPT ![m].count = @ + 1], count |-> member[m].count + 1]

Strikes(f, count) ==
  \/ f.kind = "failfirst" /\ count > 0 /\ count <= f.n
  \/ f.kind = "everynth" /\ count > 0 /\ count % f.n = 0

\* Nothing stands, or nothing that damages a reply.
Clean == toggles = {} /\ \A m \in Members : member[m] = NoFault
Harmless == toggles \subseteq {"forcejson"} /\ \A m \in Members : member[m].kind \in {"none", "throttle"}

-----------------------------------------------------------------------------
(* Calls *)

NoImage == [rank |-> 0, w |-> 0, h |-> 0, planes |-> 0, pix |-> <<>>]
Closed == [headers |-> 0, closes |-> 0, got |-> <<>>]
NoReply == Junk(JSONReply(EncodeImageBytesError(0), "none"))

Idle ==
  [op |-> "none", at |-> "idle", arg |-> 0, fault |-> NoFault, reply |-> NoReply,
   served |-> NoImage, applied |-> 0, sink |-> Closed, answer |-> "none", frame |-> NoImage]

InFlight(c) == call[c].at \notin {"idle", "done"}
MemberOf(c) == IF call[c].op = "put" THEN "binx" ELSE "imagearray"
MethodOf(c) == IF call[c].op = "put" THEN "PUT" ELSE "GET"

Init ==
  /\ campaign \in Campaigns
  /\ member = [m \in Members |-> NoFault] /\ toggles = {} /\ controls = 0
  /\ image \in Frames \cup {NoImage} /\ bin = 1
  /\ noStream = FALSE
  /\ call = [c \in Clients |-> Idle]
  /\ fired = [m \in Members |-> 0] /\ calm = {} /\ disturbed = FALSE

\* The call goes on with rec; rest is what else the step leaves alone.
Goes(c, rec) == call' = [call EXCEPT ![c] = rec]

Answers(c, answer) == Goes(c, [call[c] EXCEPT !.at = "done", !.answer = answer, !.reply = NoReply])

\* A streaming call is refused at once when the refusal is cached.
Ask(c) ==
  /\ call[c].at = "idle" /\ c \in campaign.who
  /\ \A m \in Members : member[m].count < MaxCount
  /\ \E op \in campaign.ops, arg \in Bins :
       /\ op # "put" => arg = CHOOSE b \in Bins : TRUE
       /\ Goes(c, [Idle EXCEPT !.op = op, !.arg = IF op = "put" THEN arg ELSE 0,
                   !.at = IF op = "stream" /\ noStream THEN "done" ELSE "sent",
                   !.answer = IF op = "stream" /\ noStream THEN "refused" ELSE "none"])
       /\ disturbed' = (disturbed \/ (op = "stream" /\ ~Clean))
  /\ calm' = IF Harmless THEN calm \cup {c} ELSE calm \ {c}
  /\ UNCHANGED <<campaign, store, image, bin, noStream, fired>>

\* preForward: the global toggles that reset the connection, some of them at random.
PreForward(c) ==
  /\ call[c].at = "sent"
  /\ \/ toggles \cap {"drop", "lossy", "chaos"} # {} /\ Answers(c, "reset")
     \/ "drop" \notin toggles /\ Goes(c, [call[c] EXCEPT !.at = "passed"])
  /\ UNCHANGED <<campaign, store, image, bin, noStream, history>>

\* The faults that keep a request from the server.
Withhold(c) ==
  LET f == MemberFault(MemberOf(c), MethodOf(c))
  IN /\ call[c].at = "passed"
     /\ CASE f.kind = "hang" -> Goes(c, [call[c] EXCEPT !.at = "hung"])
          [] f.kind = "http" -> \E r \in StatusReplies : Goes(c, [call[c] EXCEPT !.at = "replied", !.reply = r])
          [] OTHER -> Goes(c, [call[c] EXCEPT !.at = "through"])
     /\ UNCHANGED <<campaign, store, image, bin, noStream, history>>

\* A hang is capped.
HangCap(c) ==
  /\ call[c].at = "hung"
  /\ Answers(c, "reset")
  /\ UNCHANGED <<campaign, store, image, bin, noStream, history>>

\* handleImage, with or without the client's Accept.
HandleImage(wantBytes) ==
  CASE image = NoImage /\ wantBytes -> ImageReply(EncodeImageBytesError(1035))
    [] image = NoImage /\ ~wantBytes -> JSONReply(EncodeImageBytesError(1035), "none")
    [] image # NoImage /\ wantBytes -> ImageReply(EncodeImageBytes(image))
    [] image # NoImage /\ ~wantBytes -> JSONReply(WriteImageArrayJSON(image), "array")

SwapBinning(b) == IF "swapbin" \in toggles /\ b \in {1, 2} THEN 3 - b ELSE b

\* The Director's edits of the request, and the server's handling of it.
Serve(c) ==
  /\ call[c].at = "through"
  /\ IF call[c].op = "put"
       THEN LET b == SwapBinning(call[c].arg)
                ok == b \in 1..MaxBin
            IN /\ bin' = IF ok THEN b ELSE bin
               /\ Goes(c, [call[c] EXCEPT !.at = "served", !.applied = IF ok THEN b ELSE 0,
                           !.reply = JSONReply(EncodeImageBytesError(IF ok THEN 0 ELSE 1025), "none")])
       ELSE /\ Goes(c, [call[c] EXCEPT !.at = "served", !.served = image,
                        !.reply = HandleImage("forcejson" \notin toggles)])
            /\ UNCHANGED bin
  /\ UNCHANGED <<campaign, store, image, noStream, history>>

\* modifyResponse reads the member's fault a second time ...
ReadFault(c) ==
  /\ call[c].at = "served"
  /\ Goes(c, [call[c] EXCEPT !.at = "faulted", !.fault = MemberFault(MemberOf(c), MethodOf(c))])
  /\ UNCHANGED <<campaign, store, image, bin, noStream, history>>

\* ... and the toggles and the count later.  Only a JSON envelope is counted.
Modify(c) ==
  LET f == call[c].fault
      m == MemberOf(c)
      frame == m = "imagearray"
      counts == f.kind \in Patterns /\ call[c].reply.ct = "json"
      next == NextCount(m, f)
      strikes == counts /\ Strikes(f, next.count)
  IN /\ call[c].at = "faulted"
     /\ member' = IF counts THEN next.store ELSE member
     /\ fired' = IF strikes THEN [fired EXCEPT ![m] = @ + 1] ELSE fired
     /\ \E r \in ModifyResponse(f, call[c].reply, frame, toggles, strikes) :
          Goes(c, [call[c] EXCEPT !.at = "replied", !.reply = r, !.fault = NoFault])
     /\ UNCHANGED <<campaign, toggles, controls, image, bin, noStream, calm, disturbed>>

-----------------------------------------------------------------------------
(* The client reads the reply *)

\* call: the outcome of an envelope.
EnvelopeOutcome(r) ==
  CASE r.cut -> "transport" [] r.status # 200 /\ ~r.cut -> "http"
    [] OTHER -> IF r.form # "json" THEN "decode" ELSE IF r.msg.err # 0 THEN "device" ELSE "ok"

\* getImageBytesCtx: either transport is accepted.
ImageOutcome(r) ==
  CASE r.cut -> "transport" [] r.status # 200 /\ ~r.cut -> "http"
    [] OTHER ->
         IF r.ct = "imagebytes"
         THEN IF r.form # "image" \/ r.msg.err # 0 THEN "device" ELSE "ok"
         ELSE IF r.form # "json" THEN "decode" ELSE IF r.msg.err # 0 THEN "device"
         ELSE IF r.value = "array" THEN "ok" ELSE "decode"

Receive(c) ==
  LET r == call[c].reply
      answer == IF call[c].op = "put" THEN EnvelopeOutcome(r) ELSE ImageOutcome(r)
      decoded == IF r.ct = "imagebytes" THEN DecodeImageBytes(r.msg) ELSE DecodeImageArrayJSON(r.msg)
  IN /\ call[c].at = "replied" /\ call[c].op # "stream"
     /\ Goes(c, [call[c] EXCEPT !.at = "done", !.answer = answer, !.reply = NoReply,
                 !.frame = IF answer = "ok" /\ call[c].op = "frame" THEN decoded ELSE NoImage])
     /\ UNCHANGED <<campaign, store, image, bin, noStream, history>>

\* streamRefusedJSON: what could be read of the body decides.
RefusedOutcome(r) == IF r.form = "json" /\ r.msg.err # 0 THEN "device" ELSE "refused"

\* The bytes that follow the fixed header, up to the pixels, are skipped.
Skip(r) == IF r.msg.start > HeaderLen THEN r.msg.start - HeaderLen ELSE 0

\* What ends a stream before the sink is touched, if anything does.
EarlyOutcome(r) ==
  CASE r.status # 200 -> "http"
    [] r.status = 200 /\ r.ct # "imagebytes" -> RefusedOutcome(r)
    [] OTHER -> IF r.form # "image" THEN "transport" ELSE IF r.msg.err # 0 THEN "device"
                ELSE IF Skip(r) > Len(r.msg.pix) THEN "transport" ELSE "none"

\* A refusal is cached for the Device's lifetime.
EndEarly(c) ==
  LET outcome == EarlyOutcome(call[c].reply)
  IN /\ call[c].at = "replied" /\ call[c].op = "stream" /\ outcome # "none"
     /\ Answers(c, outcome)
     /\ noStream' = (noStream \/ outcome = "refused")
     /\ UNCHANGED <<campaign, store, image, bin, history>>

Opened(sink) == [sink EXCEPT !.headers = @ + 1]
Shut(sink) == [sink EXCEPT !.closes = @ + 1]

\* A sink whose Header failed is left open.
HeaderFails_LeavesOpen(c) ==
  Goes(c, [call[c] EXCEPT !.at = "done", !.answer = "sink", !.reply = NoReply, !.sink = Opened(@)])

\* The sink's Header fails: it is closed there and then.
HeaderFails(c) ==
  Goes(c, [call[c] EXCEPT !.at = "done", !.answer = "sink", !.reply = NoReply, !.sink = Shut(Opened(@))])

OpenSink(c) ==
  LET r == call[c].reply
  IN /\ call[c].at = "replied" /\ call[c].op = "stream" /\ EarlyOutcome(r) = "none"
     /\ \/ HeaderFails(c)
        \/ Goes(c, [call[c] EXCEPT !.at = "streaming", !.sink = Opened(@),
                    !.reply.msg.pix = SubSeq(@, Skip(r) + 1, Len(@))])
     /\ UNCHANGED <<campaign, store, image, bin, noStream, history>>

\* The deferred Close; its error counts when the transfer had none.
CloseWith(c, outcome) ==
  \E answer \in IF outcome = "ok" THEN {"ok", "sink"} ELSE {outcome} :
    Goes(c, [call[c] EXCEPT !.at = "done", !.answer = answer, !.reply = NoReply, !.sink = Shut(@)])

\* io.CopyBuffer: a chunk, the end of the body, its early end, or a sink that fails.
WriteSink(c) ==
  LET left == call[c].reply.msg.pix
  IN /\ call[c].at = "streaming"
     /\ \/ \E k \in {1, Len(left)} \ {0} :
             /\ k <= Len(left)
             /\ Goes(c, [call[c] EXCEPT !.sink.got = @ \o SubSeq(left, 1, k),
                         !.reply.msg.pix = SubSeq(left, k + 1, Len(left))])
        \/ left = <<>> /\ CloseWith(c, IF call[c].reply.cut THEN "transport" ELSE "ok")
        \/ left # <<>> /\ CloseWith(c, "sink")
     /\ UNCHANGED <<campaign, store, image, bin, noStream, history>>

\* The caller's context ends, or the client's timeout passes, wherever the call stands.
GiveUp(c) ==
  /\ InFlight(c)
  /\ IF call[c].at = "streaming" THEN CloseWith(c, "gaveup") ELSE Answers(c, "gaveup")
  /\ UNCHANGED <<campaign, store, image, bin, noStream, history>>

Return(c) ==
  /\ call[c].at = "done"
  /\ Goes(c, Idle)
  /\ UNCHANGED <<campaign, store, image, bin, noStream, history>>

-----------------------------------------------------------------------------
(* The tester and the camera *)

\* After a change of the store, the calls under way are judged by what now stands.
Judged ==
  /\ controls' = controls + 1
  /\ calm' = IF Harmless' THEN calm ELSE {c \in calm : ~InFlight(c)}
  /\ disturbed' = (disturbed \/ (~Clean' /\ \E c \in Clients : InFlight(c) /\ call[c].op = "stream"))
  /\ UNCHANGED <<campaign, image, bin, noStream, call>>

\* armMember replaces the fault and resets its count.
ArmMember ==
  /\ controls < campaign.changes
  /\ \E m \in campaign.members, kind \in campaign.kinds \cap MemberKinds, method \in {""} \cup Methods, n \in Counts :
       /\ kind \notin Patterns => n = CHOOSE k \in Counts : TRUE
       /\ member' = [member EXCEPT ![m] = [kind |-> kind, method |-> method, count |-> 0,
                                          n |-> IF kind \in Patterns THEN n ELSE 0]]
       /\ fired' = [fired EXCEPT ![m] = 0]
  /\ UNCHANGED toggles
  /\ Judged

\* A toggle is switched on, or off on its own.
SetToggle ==
  /\ controls < campaign.changes
  /\ \E t \in campaign.kinds \cap Toggles : toggles' \in {toggles \cup {t}, toggles \ {t}} \ {toggles}
  /\ UNCHANGED <<member, fired>>
  /\ Judged

\* One member is cleared, or everything.
Clear ==
  /\ controls < campaign.changes /\ ~Clean
  /\ \/ \E m \in Members : member' = [member EXCEPT ![m] = NoFault] /\ UNCHANGED toggles
     \/ member' = [m \in Members |-> NoFault] /\ toggles' = {}
  /\ UNCHANGED fired
  /\ Judged

\* An exposure ends or another begins.
NewImage ==
  /\ image' \in (Frames \cup {NoImage}) \ {image}
  /\ UNCHANGED <<campaign, store, bin, noStream, call, history>>

Request(c) ==
  \/ Ask(c) \/ PreForward(c) \/ Withhold(c) \/ HangCap(c) \/ Serve(c) \/ ReadFault(c) \/ Modify(c)
  \/ Receive(c) \/ EndEarly(c) \/ OpenSink(c) \/ WriteSink(c) \/ GiveUp(c) \/ Return(c)

Control == ArmMember \/ SetToggle \/ Clear

Next == (\E c \in Clients : Request(c)) \/ Control \/ NewImage

Spec == Init /\ [][Next]_vars

-----------------------------------------------------------------------------
(* Correctness *)

Faults ==
  [kind : MemberKinds \cup {"none"}, n : Counts \cup {0}, method : {""} \cup Methods, count : Nat]

Stages == {"idle", "sent", "passed", "hung", "through", "served", "faulted", "replied", "streaming", "done"}

\* Every variable has its type, a fault that is off keeps nothing of the one before
\* it, and a call that is over keeps nothing of its reply.
TypeOK ==
  /\ campaign \in Campaigns
  /\ member \in [Members -> Faults] /\ toggles \subseteq Toggles /\ controls \in 0..campaign.changes
  /\ \A m \in Members : member[m].kind = "none" => member[m] = NoFault
  /\ image \in Frames \cup {NoImage} /\ bin \in 1..MaxBin
  /\ noStream \in BOOLEAN /\ disturbed \in BOOLEAN /\ calm \subseteq Clients
  /\ fired \in [Members -> Nat]
  /\ \A c \in Clients :
       /\ call[c].op \in {"none", "frame", "stream", "put"} /\ call[c].at \in Stages
       /\ call[c].fault \in Faults /\ call[c].applied \in 0..MaxBin
       /\ call[c].served \in Frames \cup {NoImage}
       /\ call[c].at \in {"idle", "done"} => call[c].reply = NoReply

\* What a call that no harmful fault has shared the store with is told is what the
\* server made of it: the camera's frame, row-major, by whichever transport
\* (getImageBytesCtx, ImageArrayInto), the device's error, or the binning applied
\* once and as asked.  A stream is refused only if a fault once stood in its way.
AsServed ==
  \A c \in calm : LET k == call[c] IN k.at = "done" =>
    /\ k.answer \in {"ok", "device", "gaveup", "sink", "refused"}
    /\ k.answer = "refused" => disturbed
    /\ k.op = "frame" /\ k.answer = "ok" => k.frame = k.served /\ k.served # NoImage
    /\ k.op = "stream" /\ k.answer = "ok" =>
         k.served = DecodeImageBytes([EncodeImageBytes(k.served) EXCEPT !.pix = k.sink.got])
    /\ k.op # "put" /\ k.answer = "device" => k.served = NoImage
    /\ k.op = "put" /\ k.answer = "ok" => k.applied = k.arg
    /\ k.op = "put" /\ k.answer = "device" => k.applied = 0

\* ImageSink's contract, whatever the proxy does to the reply and wherever the sink
\* or the caller fails: no chunk before Header or after Close, and Close exactly
\* once if Header was called, never otherwise.
SinkContract ==
  \A c \in Clients : LET k == call[c] IN
    /\ k.sink.headers <= 1
    /\ k.at = "streaming" => k.sink.headers = 1 /\ k.sink.closes = 0
    /\ k.at # "streaming" => k.sink.closes = k.sink.headers
    /\ k.sink.got # <<>> => k.sink.headers = 1

\* Requests in flight leave the store to the tester: they re-arm nothing that was
\* cleared or replaced meanwhile, and change only the count of a standing fault, by
\* one; and two replies never fail on one count of failfirst or everynth.
PatternsCount ==
  [][controls' = controls => \A m \in Members :
       \/ member'[m] = member[m] /\ fired'[m] = fired[m]
       \/ /\ member[m] # NoFault
          /\ member'[m] = [member[m] EXCEPT !.count = @ + 1]]_vars
=============================================================================
