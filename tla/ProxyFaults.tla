---------------------------- MODULE ProxyFaults ----------------------------
(***************************************************************************)
(* Replies and what the fault proxy makes of them (cmd/fault_proxy/main.go *)
(* modifyResponse and its helpers).  An operator gives the set of replies  *)
(* that a fault may produce: its percentage, byte count or field is drawn. *)
(*                                                                         *)
(* form is how the body parses: "image" (a whole ImageBytes header), "json" *)
(* (an envelope) or "junk"; cut, whether it ends before its Content-Length. *)
(***************************************************************************)
EXTENDS ImageCodec

Injected == 1280  \* ErrNumDriverBase
Garbage == 255    \* a byte or a header field that no frame holds

ImageReply(m) ==
  [status |-> 200, ct |-> "imagebytes", form |-> "image", msg |-> m, value |-> "none", cut |-> FALSE]

JSONReply(m, value) ==
  [status |-> 200, ct |-> "json", form |-> "json", msg |-> m, value |-> value, cut |-> FALSE]

Units(r) == IF r.form = "image" THEN HeaderLen + Len(r.msg.pix) ELSE 1

Junk(r) == [r EXCEPT !.form = "junk", !.msg = EncodeImageBytesError(0), !.value = "none"]

\* An empty body under a status of the tester's choice.
StatusReplies == {[Junk(JSONReply(EncodeImageBytesError(0), "none")) EXCEPT !.status = s, !.ct = "none"] : s \in {200, 500}}

\* The leading k units of the body.
Leading(r, k) ==
  IF k >= Units(r) THEN r
  ELSE IF r.form = "image" /\ k >= HeaderLen
    THEN [r EXCEPT !.msg.pix = SubSeq(@, 1, k - HeaderLen)] ELSE Junk(r)

\* haltBody: at least one unit short of the length advertised.
HaltBody(r, k) == [Leading(r, IF k >= Units(r) THEN Units(r) - 1 ELSE k) EXCEPT !.cut = TRUE]

Failed(r) == [r EXCEPT !.msg.err = Injected]

\* The body's bytes rewritten, with a Content-Length that agrees.
MutateBytes(kind, r) ==
  LET m == r.msg
      n == Len(m.pix)
      image == r.form = "image"
  IN CASE kind = "truncate" -> {Leading(r, k) : k \in 0..Units(r)}
       [] kind = "malform" -> {Junk(r)}
       [] kind = "inject" ->
            {r, IF image THEN [r EXCEPT !.msg.pix = SubSeq(@, 1, n \div 2) \o <<Garbage>> \o SubSeq(@, n \div 2 + 1, n)]
                ELSE Junk(r)}
       [] kind = "corrupthead" -> {r, IF image THEN [r EXCEPT !.msg.err = Garbage] ELSE Junk(r)}
       [] kind = "corrupttail" ->
            {r, IF image THEN [r EXCEPT !.msg.pix = [i \in 1..n |-> IF i = n THEN Garbage ELSE @[i]]] ELSE Junk(r)}
       [] kind = "imgfield" ->
            IF r.ct # "imagebytes" THEN {r}
            ELSE {[r EXCEPT !.msg.err = Garbage], [r EXCEPT !.msg.start = 0], [r EXCEPT !.msg.start = Garbage],
                  [r EXCEPT !.msg.rank = 3], [r EXCEPT !.msg.w = @ + 1]}
       [] kind = "pixels" ->
            IF r.ct # "imagebytes" THEN {r}
            ELSE {[r EXCEPT !.msg.pix = [i \in 1..n |-> fill]] : fill \in {0, Garbage}}

\* The frame of a driver whose axes are the other way round.
TransposeFrame(r) ==
  IF r.msg.rank # 2 \/ ~Sized(r.msg) THEN r
  ELSE [r EXCEPT !.msg.w = r.msg.h, !.msg.h = r.msg.w, !.msg.pix = TransposeInto(@, r.msg.w, r.msg.h)]

\* Edits of a JSON object; strikes tells whether a counted pattern hits.
EditJSON(kind, r, strikes) ==
  IF r.ct # "json" \/ r.form # "json" THEN {r}
  ELSE CASE kind = "fail" -> {Failed(r)}
         [] kind = "value" -> {[r EXCEPT !.value = "other"]}
         [] kind = "novalue" -> {[r EXCEPT !.value = "none"]}
         [] kind = "flaky" -> {r, Failed(r)}
         [] kind \in {"failfirst", "everynth"} -> {IF strikes THEN Failed(r) ELSE r}
         [] OTHER -> {r}

\* Everything modifyResponse may do, in its order of precedence.
ModifyResponse(f, r, image, toggles, strikes) ==
  IF "swapdims" \in toggles /\ image /\ r.ct = "imagebytes" THEN {TransposeFrame(r)}
  ELSE IF f.kind = "none"
    THEN {r} \cup IF "chaos" \in toggles /\ image THEN {HaltBody(r, k) : k \in {(Units(r) * 3) \div 5}} ELSE {}
  ELSE CASE f.kind \in {"http", "hang", "throttle"} -> {r}
         [] f.kind = "contenttype" -> {[r EXCEPT !.ct = "text"]}
         [] f.kind = "partial-drop" -> {HaltBody(r, k) : k \in 0..Units(r)}
         [] f.kind = "dropack" -> {HaltBody(r, 0)}
         [] f.kind \in {"truncate", "malform", "inject", "corrupthead", "corrupttail", "imgfield", "pixels"} ->
              MutateBytes(f.kind, r)
         [] OTHER -> EditJSON(f.kind, r, strikes)
=============================================================================
