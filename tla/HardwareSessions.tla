-------------------------- MODULE HardwareSessions --------------------------
(***************************************************************************)
(* What the server promises a driver about its hardware (server/device.go, *)
(* Hardware): every successful Open is answered by at most one Close, and  *)
(* Open's context is cancelled before that Close.  A session is one        *)
(* successful Open.  A context may end earlier, with others or from the    *)
(* start, when the one it derives from does.                               *)
(***************************************************************************)
CONSTANT Sessions

VARIABLE state   \* state[s]: "none", "open", "cancelled" or "closed"

Open(s, st) ==
  /\ state[s] = "none" /\ st \in {"open", "cancelled"}
  /\ state' = [state EXCEPT ![s] = st]

Cancel(ended) ==
  /\ \A s \in ended : state[s] = "open"
  /\ state' = [s \in Sessions |-> IF s \in ended THEN "cancelled" ELSE state[s]]

Close(s) == state[s] = "cancelled" /\ state' = [state EXCEPT ![s] = "closed"]

Init == state = [s \in Sessions |-> "none"]
Next == (\E s \in Sessions : Close(s) \/ \E st \in {"open", "cancelled"} : Open(s, st))
        \/ \E ended \in SUBSET Sessions : Cancel(ended)
Spec == Init /\ [][Next]_state
=============================================================================
